------------------------------ MODULE KtpWindow ------------------------------
(***************************************************************************)
(* The sliding-window arithmetic of A4/ksocket.c.  Sequence numbers count  *)
(* modulo MaxSeq; a window is the half-open arc [front, back) of them; a   *)
(* message with sequence number q is kept in slot q % MaxMessages of a     *)
(* buffer.                                                                 *)
(***************************************************************************)
EXTENDS Integers

CONSTANTS
    MaxSeq,        \* MAX_SEQ_NUMBER : sequence numbers are 0..MaxSeq-1
    MaxMessages    \* MAX_MESSAGES   : slots of a send or receive buffer

(* The buffer has at least one slot, and sequence numbers wrap at a        *)
(* multiple of the buffer size (ksocket.h has 120 and 10): otherwise       *)
(* q % MaxMessages would not be the same slot before and after the wrap.   *)
ASSUME WindowAssumption ==
    /\ MaxMessages \in Nat \ {0}
    /\ MaxSeq \in Nat \ {0}
    /\ MaxSeq % MaxMessages = 0
    /\ MaxMessages < MaxSeq

SeqNum == 0..(MaxSeq - 1)
Slots  == 0..(MaxMessages - 1)

(* The sequence number of message n (counting from 0), and the k-th after  *)
(* sequence number q.                                                      *)
SeqOf(n) == n % MaxSeq
Plus(q, k) == (q + k) % MaxSeq

(* The sequence number after / before q.  MUTANT: the wrap is forgotten.   *)
NextSeqUnwrapped(q) == q + 1
NextSeq(q) == (q + 1) % MaxSeq
PrevSeq(q) == (q + MaxSeq - 1) % MaxSeq

(* The buffer slot of sequence number q, or of message q; the next slot.   *)
SlotOf(q) == q % MaxMessages
NextSlot(i) == (i + 1) % MaxMessages

(* Is seq_num in the window?  MUTANT: back is taken for inside.            *)
InWindowInclusive(seq_num, wnd) ==
    /\ wnd.back # wnd.front
    /\ seq_num >= 0
    /\ seq_num < MaxSeq
    /\ IF wnd.back < wnd.front
       THEN seq_num <= wnd.back \/ seq_num >= wnd.front
       ELSE seq_num <= wnd.back /\ seq_num >= wnd.front

InWindow(seq_num, wnd) ==
    /\ wnd.back # wnd.front
    /\ seq_num >= 0
    /\ seq_num < MaxSeq
    /\ IF wnd.back < wnd.front
       THEN seq_num < wnd.back \/ seq_num >= wnd.front
       ELSE seq_num < wnd.back /\ seq_num >= wnd.front

IncreaseWindow(wnd) == [wnd EXCEPT !.back = NextSeq(@)]
DecreaseWindow(wnd) == [wnd EXCEPT !.front = NextSeq(@)]

(* How many sequence numbers a window holds.                               *)
WindowSize(wnd) ==
    IF wnd.back < wnd.front
    THEN wnd.back + (MaxSeq - wnd.front)
    ELSE wnd.back - wnd.front

-----------------------------------------------------------------------------
(* wnd holds the messages lo, ..., hi-1: what its wrapped edges stand for. *)
Stores(wnd, lo, hi) ==
    /\ lo \in Nat /\ hi \in Nat
    /\ lo <= hi /\ hi < lo + MaxSeq
    /\ wnd.front = SeqOf(lo)
    /\ wnd.back = SeqOf(hi)

=============================================================================
