----------------------------- MODULE KtpTransfer -----------------------------
(***************************************************************************)
(* One direction of a KTP connection: the send half of one k-socket, the   *)
(* receive half of the k-socket it is bound to, and the UDP path between   *)
(* them.  The steps are those of the program (A4/ksocket.c, initsocket.c): *)
(*                                                                         *)
(*   KSendTo        the application stores a message in the send buffer    *)
(*   KRecvFrom      the application takes a message off the receive buffer *)
(*   SVisit         one visit of thread S to the sending socket            *)
(*   RVisitSender   one visit of thread R to the sending socket (an ACK)   *)
(*   RVisitReceiver one visit of thread R to the receiving socket          *)
(*   Lose           a packet is lost, by the network or by dropmessage()   *)
(*                                                                         *)
(* Each visit holds the socket's semaphore from beginning to end, so it is *)
(* one atomic step.  The two sockets have two semaphores and may belong to *)
(* two initsocket processes: they interact only through packets.           *)
(*                                                                         *)
(* Messages.  The k-th message k_sendto accepts (k = 0, 1, ...) is         *)
(* represented by the number k; a slot that memset cleared holds NoMsg.    *)
(* No step of the protocol reads a message, so the numbering is only a way *)
(* to tell messages apart.                                                 *)
(***************************************************************************)
EXTENDS KtpWindow, KtpPacket, Sequences, FiniteSets

CONSTANTS
    NMsgs,         \* how many messages the sending application has to send
    Lifetime,      \* packet lifetime, in messages (see LifetimeAssumption)
    Duplicates     \* whether the network may deliver a packet twice

(* External: the network.  UDP may lose, duplicate and reorder packets,    *)
(* but a packet does not live for ever: when message n is sent for the     *)
(* first time no packet about a message below n - Lifetime is left.  A     *)
(* FIFO path, such as the loopback interface, has Lifetime 2*MaxMessages.  *)
(* Some such bound is unavoidable for sequence numbers that wrap.          *)
ASSUME LifetimeAssumption ==
    /\ NMsgs \in Nat
    /\ Lifetime \in Nat
    /\ Duplicates \in BOOLEAN
    /\ MaxMessages <= Lifetime
    /\ Lifetime + MaxMessages <= MaxSeq
    /\ MaxSeq < 128      \* seq+1 must survive a signed char

NoMsg   == -1
NOSPACE == 1
Message == 0..(NMsgs - 1)

VARIABLES
    send_buf,      \* [s, occ, ptr, size] of the sending socket
    swnd,          \* [front, back, ack_num, max_size] of the sending socket
    lst_time,      \* S's two timers for the sending socket: [t, front, back]
    recv_buf,      \* [s, occ, ptr, size] of the receiving socket
    rwnd,          \* [front, back, ack_num, flags] of the receiving socket
    data, acks,    \* packets under way to the receiver / to the sender
    sent,          \* history: how many messages k_sendto has accepted
    rcvd           \* history: the messages k_recvfrom has returned

sender   == <<send_buf, swnd, lst_time>>
receiver == <<recv_buf, rwnd>>
vars == <<send_buf, swnd, lst_time, recv_buf, rwnd, data, acks, sent, rcvd>>

-----------------------------------------------------------------------------
(* Values of the state.                                                    *)

Buffer == [s : [Slots -> Message \cup {NoMsg}], occ : [Slots -> {0, 1}],
           ptr : Slots, size : Int]

EmptyBuffer == [s |-> [i \in Slots |-> NoMsg], occ |-> [i \in Slots |-> 0],
                ptr |-> 0, size |-> 0]

SendWindow == [front : SeqNum, back : SeqNum, ack_num : SeqNum \cup {-1},
               max_size : 0..MaxMessages]
RecvWindow == [front : SeqNum, back : SeqNum, ack_num : SeqNum \cup {-1},
               flags : {0, NOSPACE}]

(* lst_time[i][j].  The C field t is -1 (unset) or the time of the last    *)
(* transmission; here t is whether it is set, and that MESSAGE_TIMEOUT has *)
(* passed since is a choice of the step that looks at it.                  *)
Timer == [t : BOOLEAN, front : SeqNum, back : SeqNum]

(* Packets.  Only the header bytes and the message are on the wire; upto   *)
(* in an ACK is history: how many messages it acknowledges in all.         *)
DataPacket == [seq : 0..255, msg : Message \cup {NoMsg}]
AckPacket  == [ack : 0..255, size : 0..255, upto : Nat]

Data(q, m) == [seq |-> CreatePacket(0, q, 0, 0).seq, msg |-> m]
Ack(a, n, upto) ==
    [ack  |-> CreatePacket(1, 0, a, n).ack,
     size |-> CreatePacket(1, 0, a, n).size,
     upto |-> upto]

SeqNumber(d) == SignedChar(d.seq) - 1
AckNumber(a) == SignedChar(a.ack) - 1
RecvSize(a)  == SignedChar(a.size)

-----------------------------------------------------------------------------
(* The positions of the four window edges in the sequence of all messages, *)
(* and how much room the receiver has: what the wrapped numbers stand for. *)

SndFront == sent - send_buf.size              \* first message not yet acked
SndBack  == SndFront + WindowSize(swnd)       \* first message not yet sent
RcvBack  == Len(rcvd) + MaxMessages           \* first message with no room
RcvFront == RcvBack - WindowSize(rwnd)        \* first message not received

-----------------------------------------------------------------------------
Init ==
    /\ send_buf = EmptyBuffer
    /\ recv_buf = EmptyBuffer
    /\ swnd = [front |-> 0, back |-> 0, ack_num |-> -1,
               max_size |-> MaxMessages]
    /\ rwnd = [front |-> 0, back |-> MaxMessages, ack_num |-> -1, flags |-> 0]
    /\ lst_time = [j \in 0..1 |-> [t |-> FALSE, front |-> 0, back |-> 0]]
    /\ data = {}
    /\ acks = {}
    /\ sent = 0
    /\ rcvd = << >>

(* MUTANT: k_sendto does not look at the size.                             *)
SendBufferNeverFull == FALSE
SendBufferFull == send_buf.size = MaxMessages

(* k_sendto: refused while the buffer is full, and the application of      *)
(* user1.c then tries again; it stops after NMsgs messages.                *)
KSendTo ==
    /\ sent < NMsgs
    /\ ~SendBufferFull
    /\ send_buf' = [s    |-> [send_buf.s EXCEPT ![send_buf.ptr] = sent],
                    occ  |-> [send_buf.occ EXCEPT ![send_buf.ptr] = 1],
                    ptr  |-> NextSlot(send_buf.ptr),
                    size |-> send_buf.size + 1]
    /\ sent' = sent + 1
    /\ UNCHANGED <<swnd, lst_time, receiver, data, acks, rcvd>>

(* k_recvfrom: returns the message in the slot at ptr, if there is one.    *)
KRecvFrom ==
    LET i == recv_buf.ptr IN
    /\ recv_buf.size # 0
    /\ recv_buf.occ[i] # 0
    /\ rcvd' = Append(rcvd, recv_buf.s[i])
    /\ recv_buf' = [s    |-> [recv_buf.s EXCEPT ![i] = NoMsg],
                    occ  |-> [recv_buf.occ EXCEPT ![i] = 0],
                    ptr  |-> NextSlot(i),
                    size |-> recv_buf.size - 1]
    /\ rwnd' = IncreaseWindow(rwnd)
    /\ UNCHANGED <<sender, data, acks, sent>>

-----------------------------------------------------------------------------
(* Thread S.                                                               *)

(* S's first test: something was sent, is not acknowledged to its end, and *)
(* MESSAGE_TIMEOUT has passed.                                             *)
Unacked == lst_time[0].t /\ InWindow(PrevSeq(lst_time[0].back), swnd)

(* MUTANTS: the second timer survives the merge; it is never moved up.     *)
TimersNotMerged(timeout) ==
    CASE timeout -> lst_time
      [] lst_time[0].t /\ ~Unacked ->
           [j \in 0..1 |-> IF j = 0 THEN lst_time[1]
                                    ELSE [lst_time[1] EXCEPT !.t = FALSE]]
      [] OTHER -> lst_time
TimersNotMoved(timeout) ==
    IF timeout THEN [lst_time EXCEPT ![1].t = FALSE] ELSE lst_time

(* The timers after that test: a timeout folds the second into the first   *)
(* (whose end is set again below, when the whole window is sent), and an   *)
(* acknowledged first timer is replaced by the second.                     *)
TimersAfterCheck(timeout) ==
    CASE timeout ->
           [lst_time EXCEPT
              ![0].back = IF lst_time[1].t THEN lst_time[1].back ELSE @,
              ![1].t = FALSE]
      [] lst_time[0].t /\ ~Unacked ->
           [j \in 0..1 |-> IF j = 0 THEN lst_time[1]
                                    ELSE [lst_time[1] EXCEPT !.t = FALSE]]
      [] OTHER -> lst_time

(* MUTANT: one message more than the receiver has room for.                *)
MayExtendInclusive(k) ==
    /\ send_buf.occ[SlotOf(Plus(swnd.back, k))] = 1
    /\ WindowSize(swnd) + k <= swnd.max_size /\ WindowSize(swnd) + k < MaxMessages

(* The k-th test of the loop that extends the send window over the slots   *)
(* that hold a message, up to the size the receiver last advertised.       *)
MayExtend(k) ==
    /\ send_buf.occ[SlotOf(Plus(swnd.back, k))] = 1
    /\ WindowSize(swnd) + k < swnd.max_size

(* The packets of the arc [front, back), from the buffer.                  *)
PacketsOf(front, back) ==
    {Data(q, send_buf.s[SlotOf(q)]) :
        q \in {x \in SeqNum : InWindow(x, [front |-> front, back |-> back])}}

(* The network lets go of packets that are too old, n being the number of  *)
(* messages sent so far.                                                   *)
YoungData(ds, n) == {d \in ds : d.msg + Lifetime >= n}
YoungAcks(as, n) == {a \in as : a.upto + Lifetime > n}

(* A visit of S in which the window grows by k; expired says whether       *)
(* MESSAGE_TIMEOUT has passed since lst_time[0].t.                         *)
SVisit(expired, k) ==
    LET timeout == Unacked /\ expired
        lst     == TimersAfterCheck(timeout)
        back    == Plus(swnd.back, k)
        first   == timeout \/ ~lst[0].t
        from    == IF first THEN swnd.front ELSE lst[0].back
        timer   == [t |-> TRUE, front |-> from, back |-> back]
    IN
    /\ UNCHANGED <<send_buf, receiver, sent, rcvd>>
    /\ \A j \in 0..(k - 1) : MayExtend(j)
    /\ ~MayExtend(k)
    /\ swnd' = [swnd EXCEPT !.back = back]
    /\ IF timeout \/ k > 0
       THEN /\ lst_time' = [lst EXCEPT ![IF first THEN 0 ELSE 1] = timer]
            /\ data' = YoungData(data \cup PacketsOf(from, back), SndBack')
            /\ acks' = YoungAcks(acks, SndBack')
       ELSE /\ lst_time' = lst
            /\ UNCHANGED <<data, acks>>

-----------------------------------------------------------------------------
(* Thread R.  A packet that is read leaves the network, unless the network *)
(* made another copy of it.                                                *)
Taken(net, m) == {net \ {m}} \cup (IF Duplicates THEN {net} ELSE {})

(* The slots of the k messages from sequence number q on.                  *)
SlotRun(q, k) == {SlotOf(Plus(q, j)) : j \in 0..(k - 1)}

(* An ACK for the number already acknowledged only updates the window      *)
(* size.                                                                   *)
DuplicateAck(a) ==
    /\ AckNumber(a) = swnd.ack_num
    /\ swnd' = [swnd EXCEPT !.max_size = RecvSize(a)]
    /\ UNCHANGED send_buf

(* The slots an ACK frees, and the number of messages that are left.       *)
(* MUTANTS: one slot too many; the last message is not counted off.        *)
FreedOneMore(k) == SlotRun(swnd.front, k + 1)
Freed(k) == SlotRun(swnd.front, k)
LeftOneMore(k) == send_buf.size - (k - 1)
Left(k) == send_buf.size - k

(* An ACK inside the window frees the k messages up to it.                 *)
NewAck(a, k) ==
    /\ AckNumber(a) # swnd.ack_num
    /\ InWindow(AckNumber(a), swnd)
    /\ k <= WindowSize(swnd)
    /\ Plus(swnd.front, k - 1) = AckNumber(a)
    /\ swnd' = [swnd EXCEPT !.front    = Plus(@, k),
                            !.ack_num  = AckNumber(a),
                            !.max_size = RecvSize(a)]
    /\ send_buf' =
         [send_buf EXCEPT
            !.s    = [i \in Slots |-> IF i \in Freed(k) THEN NoMsg ELSE @[i]],
            !.occ  = [i \in Slots |-> IF i \in Freed(k) THEN 0 ELSE @[i]],
            !.size = Left(k)]

(* Any other ACK is ignored.                                               *)
StrayAck(a) ==
    /\ AckNumber(a) # swnd.ack_num
    /\ ~InWindow(AckNumber(a), swnd)
    /\ UNCHANGED <<swnd, send_buf>>

RVisitSender(a) ==
    /\ acks' \in Taken(acks, a)
    /\ \/ DuplicateAck(a)
       \/ \E k \in 1..MaxMessages : NewAck(a, k)
       \/ StrayAck(a)
    /\ UNCHANGED <<lst_time, receiver, data, sent, rcvd>>

(* The visit's first part: with NOSPACE set and room again, R repeats its  *)
(* last ACK with the new window size; due says whether RECIEVE_TIMEOUT has *)
(* passed since it last did.                                               *)
NoSpaceAcks(due) ==
    IF due /\ rwnd.flags = NOSPACE /\ WindowSize(rwnd) > 0
    THEN {Ack(rwnd.ack_num, WindowSize(rwnd), RcvFront)}
    ELSE {}

(* Data in the window whose slot is taken: it was received already.        *)
(* MUTANT: it is counted again.                                            *)
DataCountedAgain(q) ==
    /\ InWindow(q, rwnd)
    /\ recv_buf.occ[SlotOf(q)] # 0
    /\ rwnd' = [rwnd EXCEPT !.flags = 0]
    /\ recv_buf' = [recv_buf EXCEPT !.size = @ + 1]
DataAgain(q) ==
    /\ InWindow(q, rwnd)
    /\ recv_buf.occ[SlotOf(q)] # 0
    /\ rwnd' = [rwnd EXCEPT !.flags = 0]
    /\ UNCHANGED recv_buf

Stored(q, m) ==
    [recv_buf EXCEPT !.s[SlotOf(q)] = m, !.occ[SlotOf(q)] = 1, !.size = @ + 1]

(* Data ahead of the next expected message: stored, not acknowledged.      *)
DataAhead(q, m) ==
    /\ InWindow(q, rwnd)
    /\ recv_buf.occ[SlotOf(q)] = 0
    /\ q # rwnd.front
    /\ recv_buf' = Stored(q, m)
    /\ rwnd' = [rwnd EXCEPT !.flags = 0]

(* The k messages from q on are there and the one after them is not, or is *)
(* outside the window.  MUTANT: only the last of them is looked at.        *)
HighestStored(occ, q, k) == occ[SlotOf(Plus(q, k - 1))] # 0
InOrderRun(occ, q, k) ==
    /\ \A i \in SlotRun(q, k) : occ[i] # 0
    /\ k = WindowSize(rwnd) \/ occ[SlotOf(Plus(q, k))] = 0

(* NOSPACE is set when the window closes; MUTANT: it is not.               *)
FlagNeverSet(size) == 0
FlagFor(size) == IF size = 0 THEN NOSPACE ELSE 0

(* The next expected message: the window's front moves over the k messages *)
(* that are there without a gap, and the last of them is acknowledged.     *)
DataInOrder(q, m, k) ==
    /\ InWindow(q, rwnd)
    /\ recv_buf.occ[SlotOf(q)] = 0
    /\ q = rwnd.front
    /\ k <= WindowSize(rwnd)
    /\ recv_buf' = Stored(q, m)
    /\ InOrderRun(recv_buf'.occ, q, k)
    /\ rwnd' = [rwnd EXCEPT !.front   = Plus(q, k),
                            !.ack_num = Plus(q, k - 1),
                            !.flags   = FlagFor(WindowSize(rwnd) - k)]

(* Data outside the window.  MUTANT: it resets NOSPACE too.                *)
DataOutsideResets(q) ==
    /\ ~InWindow(q, rwnd)
    /\ rwnd' = [rwnd EXCEPT !.flags = 0]
    /\ UNCHANGED recv_buf
DataOutside(q) ==
    /\ ~InWindow(q, rwnd)
    /\ UNCHANGED <<recv_buf, rwnd>>

(* A repetition of the last acknowledged message is acknowledged again.    *)
(* MUTANT: it is not.                                                      *)
NoRepeatedAcks(q) == {}
RepeatedAcks(q) ==
    IF ~InWindow(q, rwnd) /\ q = rwnd.ack_num
    THEN {Ack(q, WindowSize(rwnd), RcvFront)}
    ELSE {}

RVisitReceiver(due, d) ==
    LET q == SeqNumber(d) IN
    /\ UNCHANGED <<sender, sent, rcvd>>
    /\ data' \in Taken(data, d)
    /\ \/ /\ DataAgain(q) \/ DataAhead(q, d.msg) \/ DataOutside(q)
          /\ acks' = acks \cup NoSpaceAcks(due) \cup RepeatedAcks(q)
       \/ \E k \in 1..MaxMessages :
          /\ DataInOrder(q, d.msg, k)
          /\ acks' = acks \cup NoSpaceAcks(due)
                          \cup {Ack(rwnd'.ack_num, WindowSize(rwnd'), RcvFront')}

(* A visit of R that finds no packet for the receiving socket.             *)
RVisitIdle ==
    /\ NoSpaceAcks(TRUE) # {}
    /\ acks' = acks \cup NoSpaceAcks(TRUE)
    /\ UNCHANGED <<sender, receiver, data, sent, rcvd>>

-----------------------------------------------------------------------------
(* External: packets are lost; dropmessage() has the same effect.          *)
LoseData == \E d \in data : data' = data \ {d} /\ UNCHANGED <<sender, receiver, acks, sent, rcvd>>
LoseAck  == \E a \in acks : acks' = acks \ {a} /\ UNCHANGED <<sender, receiver, data, sent, rcvd>>
Lose == LoseData \/ LoseAck

Next ==
    \/ KSendTo
    \/ KRecvFrom
    \/ \E expired \in BOOLEAN, k \in 0..MaxMessages : SVisit(expired, k)
    \/ \E a \in acks : RVisitSender(a)
    \/ \E d \in data, due \in BOOLEAN : RVisitReceiver(due, d)
    \/ RVisitIdle
    \/ Lose

Spec == Init /\ [][Next]_vars

-----------------------------------------------------------------------------
(* Types of the state; a receive buffer never counts more messages than it *)
(* has slots, and the network carries only packets (ksocket.h).            *)
TypeOK ==
    /\ send_buf \in Buffer
    /\ swnd \in SendWindow
    /\ lst_time \in [0..1 -> Timer]
    /\ recv_buf \in Buffer
    /\ rwnd \in RecvWindow
    /\ data \subseteq DataPacket
    /\ acks \subseteq AckPacket
    /\ sent \in 0..NMsgs
    /\ rcvd \in Seq(Message \cup {NoMsg})

(* What k_recvfrom returns is what k_sendto was given: every message once, *)
(* none skipped, in order, whatever the network loses, repeats or          *)
(* reorders.                                                               *)
InOrderDelivery ==
    /\ Len(rcvd) <= sent
    /\ \A i \in 1..Len(rcvd) : rcvd[i] = i - 1

(* S never sends a message for which the receive buffer has no slot, even  *)
(* when the window size it works with is out of date or came in a          *)
(* reordered ACK.                                                          *)
FlowControl == SndBack <= RcvBack

(* k_isempty, "socket is safe to close": a message leaves the send buffer  *)
(* only when the receiving application has it or will find it in the       *)
(* receive buffer.                                                         *)
AckedIsReceived ==
    \A n \in Len(rcvd)..(SndFront - 1) :
        /\ recv_buf.occ[SlotOf(n)] = 1
        /\ recv_buf.s[SlotOf(n)] = n

(* The send buffer still holds every message that is not acknowledged, in  *)
(* the slot from which S would send it again.                              *)
UnackedIsKept ==
    \A n \in SndFront..(sent - 1) :
        /\ send_buf.occ[SlotOf(n)] = 1
        /\ send_buf.s[SlotOf(n)] = n

(* S sends only messages it was given, each under its own number.          *)
PacketsIntact ==
    \A d \in data :
        /\ 0 <= d.msg /\ d.msg < SndBack
        /\ SeqNumber(d) = SeqOf(d.msg)

(* Something that is sent and not acknowledged is covered by S's timers to *)
(* its end: its last message will be found unacknowledged and sent again.  *)
TimersCoverWindow ==
    swnd.front # swnd.back =>
        /\ lst_time[0].t
        /\ IF lst_time[1].t
           THEN /\ lst_time[1].back = swnd.back
                /\ lst_time[1].front = lst_time[0].back
           ELSE lst_time[0].back = swnd.back

(* A sender with nothing under way that believes the receiver is full will *)
(* be told otherwise: the receiver still has NOSPACE set, so that R repeats*)
(* its ACK once there is room.                                             *)
FullIsRemembered ==
    (swnd.front = swnd.back /\ swnd.max_size = 0) => rwnd.flags = NOSPACE

(* The counters k_isempty, k_sendto and k_recvfrom test are the numbers of *)
(* occupied slots.                                                         *)
SizesCount ==
    /\ send_buf.size = Cardinality({i \in Slots : send_buf.occ[i] # 0})
    /\ recv_buf.size = Cardinality({i \in Slots : recv_buf.occ[i] # 0})

(* No window edge ever moves back: nothing acknowledged, received or read  *)
(* is taken back, by a late or repeated packet least of all.               *)
WindowsOnlyAdvance ==
    [][/\ SndFront' >= SndFront /\ SndBack' >= SndBack
       /\ RcvFront' >= RcvFront /\ RcvBack' >= RcvBack]_vars

(* Every message k_sendto accepts is eventually returned by k_recvfrom:    *)
(* neither a full receiver, nor a lost ACK, nor a lost window update stops *)
(* the transfer for ever.  (Checked with the fairness stated in KtpClose.) *)
AllDelivered == <>(Len(rcvd) = NMsgs)

-----------------------------------------------------------------------------
(* The connection is a reliable first-in first-out channel: a send buffer  *)
(* and a receive buffer full of messages is all that it can hold.          *)
Channel == INSTANCE ReliableChannel WITH Capacity <- 2 * MaxMessages

(* Every step of the protocol is, to the two applications, a step of the   *)
(* channel or none.                                                        *)
ImplementsChannel == Channel!Spec

=============================================================================
