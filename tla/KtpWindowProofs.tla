--------------------------- MODULE KtpWindowProofs ---------------------------
(***************************************************************************)
(* What the wrapped arithmetic of KtpWindow computes, for every MaxSeq and *)
(* MaxMessages: as long as messages are close enough together, working     *)
(* with sequence numbers and slots is working with message numbers.        *)
(***************************************************************************)
EXTENDS KtpWindow, KtpPacket, TLAPS

(* Division with remainder, the one fact about % everything else rests on. *)
LEMMA DivMod ==
    ASSUME NEW d \in Nat \ {0}, NEW n \in Int
    PROVE  /\ n \div d \in Int
           /\ n % d \in 0..(d - 1)
           /\ n = d * (n \div d) + (n % d)
  OBVIOUS

(* The remainder is determined by the equation.                            *)
LEMMA ModUnique ==
    ASSUME NEW d \in Nat \ {0}, NEW q \in Int, NEW r \in 0..(d - 1)
    PROVE  (d * q + r) % d = r
  OBVIOUS

(* Multiples of d are d apart.                                             *)
LEMMA MultiplesApart ==
    ASSUME NEW d \in Nat \ {0}, NEW a \in Int, NEW b \in Int, a > b
    PROVE  d * a >= d * b + d
<1>1. d * (a - b - 1) >= 0
  OBVIOUS
<1>2. d * (a - b - 1) = d * a - d * b - d
  OBVIOUS
<1>3. d * a \in Int /\ d * b \in Int
  OBVIOUS
<1> QED BY <1>1, <1>2, <1>3

(* Numbers with the same remainder are at least d apart, or the same.      *)
LEMMA ModInjective ==
    ASSUME NEW d \in Nat \ {0}, NEW m \in Int, NEW n \in Int,
           m % d = n % d, m < n + d, n < m + d
    PROVE  m = n
<1> DEFINE a == m \div d
           b == n \div d
           r == n % d
           p == d * a
           q == d * b
<1>1. m = p + r /\ n = q + r /\ a \in Int /\ b \in Int /\ r \in Int
  BY DivMod
<1>2. p \in Int /\ q \in Int
  BY <1>1
<1>3. a > b => p >= q + d
  BY <1>1, MultiplesApart
<1>4. b > a => q >= p + d
  BY <1>1, MultiplesApart
<1>5. a = b => p = q
  OBVIOUS
<1> HIDE DEF a, b, r, p, q
<1> QED BY <1>1, <1>2, <1>3, <1>4, <1>5

(* Remainders of sums.                                                     *)
LEMMA ModPlus ==
    ASSUME NEW d \in Nat \ {0}, NEW n \in Int, NEW k \in Int
    PROVE  ((n % d) + k) % d = (n + k) % d
<1> DEFINE a == n \div d
           r == n % d
           b == (r + k) \div d
           t == (r + k) % d
<1>1. n = d * a + r /\ a \in Int /\ r \in 0..(d - 1)
  BY DivMod
<1> HIDE DEF a, r
<1>2. r + k = d * b + t /\ b \in Int /\ t \in 0..(d - 1)
  <2>1. r + k \in Int
    BY <1>1
  <2> QED BY <2>1, DivMod
<1> HIDE DEF b, t
<1>3. a + b \in Int /\ n + k = d * (a + b) + t
  BY <1>1, <1>2
<1> DEFINE c == a + b
<1> HIDE DEF c
<1>4. c \in Int /\ n + k = d * c + t
  BY <1>3 DEF c
<1>5. (d * c + t) % d = t
  BY <1>2, <1>4, ModUnique
<1> QED BY <1>4, <1>5 DEF t, r

-----------------------------------------------------------------------------
(* Sequence numbers.                                                       *)

LEMMA Sizes ==
    /\ MaxSeq \in Nat \ {0}
    /\ MaxMessages \in Nat \ {0}
    /\ MaxMessages < MaxSeq
  BY WindowAssumption

LEMMA SeqOfType == \A n \in Nat : SeqOf(n) \in SeqNum
  BY WindowAssumption, DivMod DEF SeqOf, SeqNum

(* Messages less than MaxSeq apart have different sequence numbers.        *)
LEMMA SeqOfInjective ==
    \A m, n \in Nat :
        SeqOf(m) = SeqOf(n) /\ m < n + MaxSeq /\ n < m + MaxSeq => m = n
<1> TAKE m, n \in Nat
<1> HAVE SeqOf(m) = SeqOf(n) /\ m < n + MaxSeq /\ n < m + MaxSeq
<1>1. m % MaxSeq = n % MaxSeq
  BY DEF SeqOf
<1>2. m \in Int /\ n \in Int
  OBVIOUS
<1> QED BY ONLY <1>1, <1>2, Sizes, ModInjective, m < n + MaxSeq, n < m + MaxSeq

LEMMA SeqOfSmall == \A q \in SeqNum : SeqOf(q) = q
<1> TAKE q \in SeqNum
<1>1. SeqOf(q) \in SeqNum /\ q \in Nat
  BY WindowAssumption, SeqOfType DEF SeqNum
<1>2. q = MaxSeq * 0 + q
  BY <1>1, WindowAssumption
<1>3. (MaxSeq * 0 + q) % MaxSeq = q
  BY WindowAssumption, ModUnique, 0 \in Int DEF SeqNum
<1> QED BY <1>2, <1>3 DEF SeqOf

LEMMA PlusSeqOf ==
    \A n, k \in Nat : Plus(SeqOf(n), k) = SeqOf(n + k)
<1> TAKE n, k \in Nat
<1>1. ((n % MaxSeq) + k) % MaxSeq = (n + k) % MaxSeq
  <2>1. n \in Int /\ k \in Int
    OBVIOUS
  <2> QED BY ONLY <2>1, Sizes, ModPlus
<1> QED BY ONLY <1>1 DEF Plus, SeqOf

LEMMA NextSeqOf == \A n \in Nat : NextSeq(SeqOf(n)) = SeqOf(n + 1)
<1> TAKE n \in Nat
<1>1. NextSeq(SeqOf(n)) = Plus(SeqOf(n), 1)
  BY DEF NextSeq, Plus
<1> QED BY <1>1, PlusSeqOf

(* A sequence number whose predecessor is that of message n is that of     *)
(* message n + 1.                                                          *)
LEMMA PrevSeqOf ==
    \A q \in SeqNum, n \in Nat : PrevSeq(q) = SeqOf(n) => q = SeqOf(n + 1)
<1> TAKE q \in SeqNum, n \in Nat
<1> HAVE PrevSeq(q) = SeqOf(n)
<1>1. q \in Nat /\ q + MaxSeq - 1 \in Nat
  BY WindowAssumption DEF SeqNum
<1>2. SeqOf(q + MaxSeq - 1) = SeqOf(n)
  BY DEF PrevSeq, SeqOf
<1>3. SeqOf(q + MaxSeq) = SeqOf(n + 1)
  BY <1>1, <1>2, NextSeqOf, WindowAssumption
<1>4. SeqOf(q + MaxSeq) = q
  <2>1. q + MaxSeq = MaxSeq * 1 + q
    BY <1>1, WindowAssumption
  <2>2. (MaxSeq * 1 + q) % MaxSeq = q
    BY WindowAssumption, ModUnique, 1 \in Int DEF SeqNum
  <2> QED BY <2>1, <2>2 DEF SeqOf
<1> QED BY <1>3, <1>4

(* Sequence numbers repeat every MaxSeq messages.                          *)
LEMMA SeqOfPeriod == \A n \in Nat : SeqOf(n + MaxSeq) = SeqOf(n)
<1> TAKE n \in Nat
<1> DEFINE a == n \div MaxSeq
           r == n % MaxSeq
           c == a + 1
<1>1. n = MaxSeq * a + r /\ a \in Int /\ r \in 0..(MaxSeq - 1)
  BY DivMod, Sizes
<1>2. c \in Int /\ n + MaxSeq = MaxSeq * c + r
  BY <1>1, Sizes
<1> HIDE DEF a, c
<1>3. (MaxSeq * c + r) % MaxSeq = r
  BY <1>1, <1>2, Sizes, ModUnique
<1> QED BY <1>2, <1>3 DEF SeqOf

(* The other direction.                                                    *)
LEMMA PrevSeqOfNext ==
    \A n \in Nat : PrevSeq(SeqOf(n + 1)) = SeqOf(n)
<1> TAKE n \in Nat
<1> DEFINE q == SeqOf(n + 1)
<1>1. q \in 0..(MaxSeq - 1)
  BY SeqOfType DEF SeqNum
<1>2. PrevSeq(q) \in SeqNum
  <2>1. q + MaxSeq - 1 \in Int
    BY <1>1, Sizes
  <2> QED BY <2>1, Sizes, DivMod DEF PrevSeq, SeqNum
<1>3. PrevSeq(q) = Plus(q, MaxSeq - 1)
  <2>1. q + MaxSeq - 1 = q + (MaxSeq - 1)
    BY <1>1, Sizes
  <2> QED BY <2>1 DEF PrevSeq, Plus
<1>4. Plus(q, MaxSeq - 1) = SeqOf((n + 1) + (MaxSeq - 1))
  BY PlusSeqOf, Sizes
<1>5. (n + 1) + (MaxSeq - 1) = n + MaxSeq
  BY Sizes
<1>6. SeqOf(n + MaxSeq) = SeqOf(n)
  BY SeqOfPeriod
<1> QED BY <1>3, <1>4, <1>5, <1>6

LEMMA PrevSeqType == \A q \in SeqNum : PrevSeq(q) \in SeqNum
<1> TAKE q \in SeqNum
<1>1. q + MaxSeq - 1 \in Int
  BY Sizes DEF SeqNum
<1> QED BY <1>1, Sizes, DivMod DEF PrevSeq, SeqNum

-----------------------------------------------------------------------------
(* Buffer slots.                                                           *)

LEMMA SlotOfType == \A n \in Nat : SlotOf(n) \in Slots
  BY WindowAssumption, DivMod DEF SlotOf, Slots

(* Messages less than MaxMessages apart have different slots.              *)
LEMMA SlotOfInjective ==
    \A m, n \in Nat :
        SlotOf(m) = SlotOf(n) /\ m < n + MaxMessages /\ n < m + MaxMessages
            => m = n
<1> TAKE m, n \in Nat
<1> HAVE SlotOf(m) = SlotOf(n) /\ m < n + MaxMessages /\ n < m + MaxMessages
<1>1. m % MaxMessages = n % MaxMessages
  BY DEF SlotOf
<1>2. m \in Int /\ n \in Int
  OBVIOUS
<1> QED BY ONLY <1>1, <1>2, Sizes, ModInjective, m < n + MaxMessages, n < m + MaxMessages

LEMMA NextSlotOf == \A n \in Nat : NextSlot(SlotOf(n)) = SlotOf(n + 1)
<1> TAKE n \in Nat
<1>1. ((n % MaxMessages) + 1) % MaxMessages = (n + 1) % MaxMessages
  <2>1. n \in Int /\ 1 \in Int
    OBVIOUS
  <2> QED BY ONLY <2>1, Sizes, ModPlus
<1> QED BY ONLY <1>1 DEF NextSlot, SlotOf

(* Slots repeat every MaxMessages messages.                                *)
LEMMA SlotOfPeriod == \A n \in Nat : SlotOf(n + MaxMessages) = SlotOf(n)
<1> TAKE n \in Nat
<1> DEFINE a == n \div MaxMessages
           r == n % MaxMessages
           c == a + 1
<1>1. n = MaxMessages * a + r /\ a \in Int /\ r \in 0..(MaxMessages - 1)
  BY DivMod, WindowAssumption
<1>2. c \in Int /\ n + MaxMessages = MaxMessages * c + r
  BY <1>1, WindowAssumption
<1> HIDE DEF a, c
<1>3. (MaxMessages * c + r) % MaxMessages = r
  BY <1>1, <1>2, WindowAssumption, ModUnique
<1> QED BY <1>2, <1>3 DEF SlotOf

(* A message and its sequence number have the same slot: sequence numbers  *)
(* wrap at a multiple of the buffer size.                                  *)
LEMMA SlotOfSeqOf == \A n \in Nat : SlotOf(SeqOf(n)) = SlotOf(n)
<1> TAKE n \in Nat
<1> DEFINE w == MaxSeq \div MaxMessages
           a == n \div MaxSeq
           q == n % MaxSeq
           b == q \div MaxMessages
           r == q % MaxMessages
           c == w * a + b
<1>1. MaxSeq = MaxMessages * w /\ w \in Int
  BY DivMod, WindowAssumption
<1>2. n = MaxSeq * a + q /\ a \in Int /\ q \in Int
  BY DivMod, WindowAssumption
<1>3. q = MaxMessages * b + r /\ b \in Int /\ r \in 0..(MaxMessages - 1)
  <2> HIDE DEF q
  <2> QED BY <1>2, DivMod, WindowAssumption
<1> HIDE DEF w, a, q, b, r
<1>4. c \in Int /\ n = MaxMessages * c + r
  <2>1. n = (MaxMessages * w) * a + MaxMessages * b + r
    <3> DEFINE x == MaxSeq * a
               y == MaxMessages * b
    <3>1. n = x + q /\ q = y + r /\ x \in Int /\ y \in Int /\ r \in Int
      BY <1>2, <1>3, Sizes
    <3>2. x = (MaxMessages * w) * a
      BY ONLY <1>1
    <3> HIDE DEF x, y
    <3>3. n = x + y + r
      BY <3>1
    <3> QED BY ONLY <3>2, <3>3 DEF y
  <2>2. (MaxMessages * w) * a = MaxMessages * (w * a)
    BY <1>1, <1>2, WindowAssumption
  <2>3. w * a \in Int
    BY <1>1, <1>2
  <2>4. MaxMessages * (w * a + b) = MaxMessages * (w * a) + MaxMessages * b
    BY <2>3, <1>3, WindowAssumption
  <2>5. MaxMessages * (w * a) \in Int /\ MaxMessages * b \in Int
    BY <2>3, <1>3, WindowAssumption
  <2> QED BY <2>1, <2>2, <2>3, <2>4, <2>5, <1>3
<1> HIDE DEF c
<1>5. (MaxMessages * c + r) % MaxMessages = r
  BY <1>3, <1>4, WindowAssumption, ModUnique
<1> QED BY <1>4, <1>5 DEF SlotOf, SeqOf, r, q

-----------------------------------------------------------------------------
(* Windows.  The multiple of MaxSeq below a message at most MaxSeq away    *)
(* from another is that of the other or one of its neighbours.             *)
LEMMA NearMultiple ==
    ASSUME NEW m \in Nat, NEW n \in Nat, n <= m + MaxSeq, m <= n + MaxSeq
    PROVE  LET z == m - SeqOf(m) IN
           n - SeqOf(n) \in {z - MaxSeq, z, z + MaxSeq}
<1> DEFINE a == m \div MaxSeq
           b == n \div MaxSeq
           p == MaxSeq * a
           q == MaxSeq * b
<1>1. m = p + SeqOf(m) /\ n = q + SeqOf(n)
  BY DivMod, Sizes DEF SeqOf
<1>2. a \in Int /\ b \in Int
  BY DivMod, Sizes
<1>3. p \in Int /\ q \in Int
  BY <1>2, Sizes
<1>4. SeqOf(m) \in 0..(MaxSeq - 1) /\ SeqOf(n) \in 0..(MaxSeq - 1)
  BY SeqOfType DEF SeqNum
<1> DEFINE up == MaxSeq * (a + 1)
           dn == MaxSeq * (a - 1)
<1>5. up = p + MaxSeq /\ dn = p - MaxSeq
  BY <1>2, Sizes
<1>6. b > a + 1 => q >= up + MaxSeq
  BY <1>2, Sizes, MultiplesApart
<1>7. b < a - 1 => dn >= q + MaxSeq
  BY <1>2, Sizes, MultiplesApart
<1>8. b = a + 1 => q = up
  OBVIOUS
<1>9. b = a - 1 => q = dn
  OBVIOUS
<1>10. b = a => q = p
  OBVIOUS
<1> HIDE DEF a, b, p, q, up, dn
<1>11. ~(b > a + 1) /\ ~(b < a - 1)
  BY <1>1, <1>3, <1>4, <1>5, <1>6, <1>7, Sizes
<1>12. b \in {a - 1, a, a + 1}
  BY <1>2, <1>11
<1>13. m - SeqOf(m) = p /\ n - SeqOf(n) = q
  BY <1>1, <1>3, <1>4, Sizes
<1> QED BY <1>3, <1>5, <1>8, <1>9, <1>10, <1>12, <1>13, Sizes

(* get_window_size is the number of messages in the window.                *)
LEMMA WindowSizeIsLength ==
    ASSUME NEW wnd, NEW lo, NEW hi, Stores(wnd, lo, hi)
    PROVE  WindowSize(wnd) = hi - lo
<1>1. lo \in Nat /\ hi \in Nat /\ lo <= hi /\ hi < lo + MaxSeq
  BY DEF Stores
<1>2. SeqOf(lo) \in 0..(MaxSeq - 1) /\ SeqOf(hi) \in 0..(MaxSeq - 1)
  BY <1>1, SeqOfType DEF SeqNum
<1>3. LET z == lo - SeqOf(lo) IN
      hi - SeqOf(hi) \in {z - MaxSeq, z, z + MaxSeq}
  BY <1>1, NearMultiple, Sizes
<1> QED BY <1>1, <1>2, <1>3, Sizes DEF WindowSize, Stores

(* in_window is membership in [lo, hi), for every message near enough to   *)
(* the window for its sequence number to be unambiguous.                   *)
LEMMA InWindowIsMembership ==
    ASSUME NEW wnd, NEW lo, NEW hi, Stores(wnd, lo, hi),
           NEW n \in Nat, hi <= n + MaxSeq, n < lo + MaxSeq
    PROVE  InWindow(SeqOf(n), wnd) <=> lo <= n /\ n < hi
<1>1. lo \in Nat /\ hi \in Nat /\ lo <= hi /\ hi < lo + MaxSeq
  BY DEF Stores
<1>2. /\ SeqOf(lo) \in 0..(MaxSeq - 1) /\ SeqOf(hi) \in 0..(MaxSeq - 1)
      /\ SeqOf(n) \in 0..(MaxSeq - 1)
  BY <1>1, SeqOfType DEF SeqNum
<1>3. LET z == lo - SeqOf(lo) IN
      hi - SeqOf(hi) \in {z - MaxSeq, z, z + MaxSeq}
  BY <1>1, NearMultiple, Sizes
<1>4. LET z == lo - SeqOf(lo) IN
      n - SeqOf(n) \in {z - MaxSeq, z, z + MaxSeq}
  BY <1>1, NearMultiple, Sizes
<1>5. wnd.front = SeqOf(lo) /\ wnd.back = SeqOf(hi)
  BY DEF Stores
<1> QED BY <1>1, <1>2, <1>3, <1>4, <1>5, Sizes DEF InWindow

(* Conversely, a sequence number in the window is that of a message in it. *)
LEMMA InWindowHasMessage ==
    ASSUME NEW wnd, NEW lo, NEW hi, Stores(wnd, lo, hi),
           NEW q \in SeqNum, InWindow(q, wnd)
    PROVE  \E n \in Nat : lo <= n /\ n < hi /\ q = SeqOf(n)
<1> DEFINE f == SeqOf(lo)
           n == IF q >= f THEN lo - f + q ELSE lo - f + MaxSeq + q
<1>1. lo \in Nat /\ hi \in Nat /\ lo <= hi /\ hi < lo + MaxSeq
  BY DEF Stores
<1>2. SeqOf(lo) \in 0..(MaxSeq - 1) /\ SeqOf(hi) \in 0..(MaxSeq - 1)
  BY <1>1, SeqOfType DEF SeqNum
<1>3. LET z == lo - SeqOf(lo) IN
      hi - SeqOf(hi) \in {z - MaxSeq, z, z + MaxSeq}
  BY <1>1, NearMultiple, Sizes
<1>4. wnd.front = SeqOf(lo) /\ wnd.back = SeqOf(hi)
  BY DEF Stores
<1>5. n \in Int /\ lo <= n /\ n < hi
  BY <1>1, <1>2, <1>3, <1>4, Sizes DEF InWindow, SeqNum
<1>6. SeqOf(n) = q
  <2> DEFINE a == lo \div MaxSeq
             p == MaxSeq * a
             up == MaxSeq * (a + 1)
  <2>1. lo = p + f /\ a \in Int /\ p \in Int
    BY <1>1, DivMod, Sizes DEF SeqOf
  <2>2. up = p + MaxSeq
    BY <2>1, Sizes
  <2>3. (MaxSeq * a + q) % MaxSeq = q
    BY <2>1, Sizes, ModUnique DEF SeqNum
  <2>4. (MaxSeq * (a + 1) + q) % MaxSeq = q
    <3>1. a + 1 \in Int
      BY <2>1
    <3> QED BY <3>1, Sizes, ModUnique DEF SeqNum
  <2>5. n = p + q \/ n = up + q
    <3> HIDE DEF a, p, up
    <3> QED BY <2>1, <2>2, <1>2, Sizes DEF SeqNum
  <2> QED BY ONLY <2>3, <2>4, <2>5 DEF SeqOf
<1> QED BY <1>1, <1>5, <1>6

-----------------------------------------------------------------------------
(* Headers.                                                                *)

(* decode_packet gets back the numbers create_packet was given, as long as *)
(* each of them, increased by one where it is, fits a signed char.  With   *)
(* MAX_SEQ_NUMBER at 128 or more sequence numbers would come back negative.*)
THEOREM HeaderRoundTrip ==
    ASSUME NEW is_ack \in 0..127, NEW q \in -1..126, NEW a \in -1..126,
           NEW z \in 0..127
    PROVE  DecodePacket(CreatePacket(is_ack, q, a, z)) =
             [is_ack |-> is_ack, seq_number |-> q, ack_number |-> a,
              recv_size |-> z]
  BY DEF DecodePacket, CreatePacket, Byte, SignedChar

=============================================================================
