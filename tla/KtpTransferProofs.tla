-------------------------- MODULE KtpTransferProofs --------------------------
(***************************************************************************)
(* Proofs about KtpTransfer, for every buffer size, sequence-number range, *)
(* packet lifetime and number of messages: the inductive invariant IInv,   *)
(* and from it the safety properties and the reliable-channel refinement.  *)
(***************************************************************************)
EXTENDS KtpTransferInv, KtpWindowProofs, FiniteSetTheorems

(* The assumptions on the constants that the proofs use.                   *)
LEMMA Constants ==
    /\ MaxSeq \in Nat \ {0} /\ MaxMessages \in Nat \ {0}
    /\ NMsgs \in Nat /\ Lifetime \in Nat
    /\ MaxMessages < MaxSeq /\ Lifetime + MaxMessages <= MaxSeq
    /\ MaxSeq < 128
  BY Sizes, LifetimeAssumption

(* The edges are message numbers, and what the code computes from them.    *)
EdgesFacts ==
    /\ SndFront \in Nat /\ SndBack \in Nat
    /\ RcvFront \in Nat /\ RcvBack \in Nat
    /\ sent \in Nat /\ Len(rcvd) \in Nat
    /\ RcvBack = Len(rcvd) + MaxMessages
    /\ SndFront <= SndBack /\ SndBack <= SndFront + MaxMessages
    /\ RcvFront <= RcvBack /\ RcvBack <= RcvFront + MaxMessages
    /\ WindowSize(swnd) = SndBack - SndFront
    /\ WindowSize(rwnd) = RcvBack - RcvFront
    /\ send_buf.size = sent - SndFront
    /\ send_buf.size \in Int
    /\ SndBack <= sent /\ sent <= SndFront + MaxMessages
    /\ SndFront <= RcvFront /\ RcvFront <= SndBack /\ SndBack <= RcvBack
    /\ Len(rcvd) <= RcvFront

WrappedEdges ==
    /\ swnd.front = SeqOf(SndFront) /\ swnd.back = SeqOf(SndBack)
    /\ rwnd.front = SeqOf(RcvFront) /\ rwnd.back = SeqOf(RcvBack)

(* No edge moves back in this step.                                        *)
EdgesAdvance ==
    /\ SndFront' >= SndFront /\ SndBack' >= SndBack
    /\ RcvFront' >= RcvFront /\ RcvBack' >= RcvBack

LEMMA Edges == IInv => EdgesFacts /\ WrappedEdges
<1> SUFFICES ASSUME IInv PROVE EdgesFacts /\ WrappedEdges
  OBVIOUS
<1>1. Len(rcvd) \in Nat /\ sent \in Nat /\ send_buf.size \in Int
  BY Constants DEF IInv, TypeOK, Buffer
<1>2. Stores(swnd, SndFront, SndBack) /\ Stores(rwnd, RcvFront, RcvBack)
  BY DEF IInv, SenderInv, ReceiverInv
<1>3. /\ WindowSize(swnd) = SndBack - SndFront
      /\ WindowSize(rwnd) = RcvBack - RcvFront
  BY <1>2, WindowSizeIsLength
<1>4. /\ SndFront \in Nat /\ SndBack \in Nat /\ SndFront <= SndBack
      /\ RcvFront \in Nat /\ RcvBack \in Nat /\ RcvFront <= RcvBack
  BY <1>2 DEF Stores
<1>5. RcvBack = Len(rcvd) + MaxMessages /\ send_buf.size = sent - SndFront
  BY <1>1, <1>4 DEF RcvBack, SndFront
<1>6. SndBack <= SndFront + MaxMessages /\ RcvBack <= RcvFront + MaxMessages
  BY <1>1, <1>4, <1>5, Constants DEF IInv, SenderInv, ReceiverInv
<1>7. /\ swnd.front = SeqOf(SndFront) /\ swnd.back = SeqOf(SndBack)
      /\ rwnd.front = SeqOf(RcvFront) /\ rwnd.back = SeqOf(RcvBack)
  BY <1>2 DEF Stores
<1>8. /\ SndBack <= sent /\ sent <= SndFront + MaxMessages
      /\ SndFront <= RcvFront /\ RcvFront <= SndBack /\ SndBack <= RcvBack
      /\ Len(rcvd) <= RcvFront
  BY DEF IInv, SenderInv, ReceiverInv, WindowsInv
<1> QED BY <1>1, <1>3, <1>4, <1>5, <1>6, <1>7, <1>8 DEF EdgesFacts, WrappedEdges

-----------------------------------------------------------------------------
(* Initially.                                                              *)
LEMMA InitIInv == Init => IInv
<1> SUFFICES ASSUME Init PROVE IInv
  OBVIOUS
<1>1. 0 \in Slots /\ 0 \in SeqNum
  BY Constants DEF Slots, SeqNum
<1>2. SeqOf(0) = 0 /\ SlotOf(0) = 0
  <2>1. SeqOf(0) = 0
    BY <1>1, SeqOfSmall
  <2>2. MaxMessages * 0 + 0 = 0
    BY Constants
  <2>3. (MaxMessages * 0 + 0) % MaxMessages = 0
    BY Constants, ModUnique, 0 \in Int, 0 \in 0..(MaxMessages - 1)
  <2> QED BY <2>1, <2>2, <2>3 DEF SlotOf
<1>3. SeqOf(MaxMessages) = MaxMessages /\ MaxMessages \in SeqNum
  BY Constants, SeqOfSmall DEF SeqNum
<1>4. TypeOK
  BY <1>1, <1>3, Constants DEF Init, TypeOK, Buffer, EmptyBuffer, SendWindow,
     RecvWindow, Timer, NoMsg, NOSPACE
<1>5. Len(rcvd) = 0 /\ RcvBack = MaxMessages
  BY Constants DEF Init, RcvBack
<1>6. /\ WindowSize(swnd) = 0 /\ WindowSize(rwnd) = MaxMessages
      /\ SndFront = 0 /\ SndBack = 0 /\ RcvFront = 0
  BY <1>5, Constants
     DEF Init, EmptyBuffer, WindowSize, SndFront, SndBack, RcvFront
<1>7. SenderInv
  <2>1. Stores(swnd, SndFront, SndBack)
    BY <1>2, <1>6, Constants DEF Init, Stores
  <2>2. \A n \in 0..(MaxMessages - 1) : SlotOf(n) \in Slots
    BY SlotOfType, Constants
  <2> QED BY <1>2, <1>6, <2>1, <2>2, Constants
          DEF Init, EmptyBuffer, SenderInv, UnackedIsKept, LastBefore
<1>8. ReceiverInv
  <2>1. Stores(rwnd, RcvFront, RcvBack)
    BY <1>2, <1>3, <1>5, <1>6, Constants DEF Init, Stores
  <2>2. \A n \in 0..(MaxMessages - 1) : SlotOf(n) \in Slots
    BY SlotOfType, Constants
  <2> QED BY <1>2, <1>5, <1>6, <2>1, <2>2, Constants
          DEF Init, EmptyBuffer, ReceiverInv, LastBefore, NOSPACE
<1>9. WindowsInv /\ DataInv /\ AcksInv /\ TimersInv
  BY <1>5, <1>6, Constants DEF Init, WindowsInv, DataInv, AcksInv, TimersInv
<1> QED BY <1>4, <1>7, <1>8, <1>9 DEF IInv

-----------------------------------------------------------------------------
(* An ACK that is under way stays justified when the receiver's edges move *)
(* up, SndBack stays, and NOSPACE is only reset while SndBack is ahead.    *)
LEMMA AcksStay ==
    ASSUME IInv, SndBack' = SndBack,
           RcvFront' \in Nat, RcvFront <= RcvFront',
           RcvBack' \in Nat, RcvBack <= RcvBack',
           \/ rwnd'.flags = rwnd.flags
           \/ RcvFront < SndBack
    PROVE  \A a \in acks : \E z \in 0..MaxMessages : AckInv(a, z)'
<1> USE Constants
<1> TAKE a \in acks
<1>1. PICK z \in 0..MaxMessages : AckInv(a, z)
  BY DEF IInv, AcksInv
<1>2. a.upto \in Nat
  BY DEF IInv, TypeOK, AckPacket
<1>3. EdgesFacts
  BY Edges
<1>4. AckInv(a, z)'
  <2> USE DEF EdgesFacts
  <2>1. /\ a.upto \in Nat /\ z \in Nat /\ 0 < a.upto /\ a.upto <= RcvFront
        /\ SndBack < a.upto + MaxSeq /\ a.upto + z <= RcvBack
        /\ a = Ack(SeqOf(a.upto - 1), z, a.upto)
        /\ (a.upto = SndBack /\ z = 0) => rwnd.flags = NOSPACE
    BY <1>1, <1>2 DEF AckInv
  <2>2. /\ a.upto <= RcvFront' /\ a.upto + z <= RcvBack'
        /\ SndBack' < a.upto + MaxSeq
    <3>1. RcvFront \in Nat /\ RcvBack \in Nat
      BY ONLY <1>3
    <3>2. a.upto <= RcvFront' /\ a.upto + z <= RcvBack'
      <4> HIDE <1>3 DEF EdgesFacts
      <4> QED BY ONLY <2>1, <3>1, RcvFront' \in Nat, RcvFront <= RcvFront',
                      RcvBack' \in Nat, RcvBack <= RcvBack'
    <3> QED BY ONLY <3>2, <2>1, SndBack' = SndBack
  <2>3. (a.upto = SndBack' /\ z = 0) => rwnd'.flags = NOSPACE
    <3>1. RcvFront < SndBack => a.upto # SndBack
      BY ONLY <2>1, <1>3
    <3> QED BY <3>1, <2>1
  <2> QED BY ONLY <2>1, <2>2, <2>3 DEF AckInv
<1> QED BY <1>4

(* Packets only disappear: nothing else changes.                           *)
LEMMA FewerPackets ==
    ASSUME IInv, send_buf' = send_buf, swnd' = swnd, lst_time' = lst_time,
           recv_buf' = recv_buf, rwnd' = rwnd, sent' = sent, rcvd' = rcvd,
           data' \subseteq data, acks' \subseteq acks
    PROVE  IInv' /\ EdgesAdvance
<1>e. EdgesFacts
  BY Edges
<1>i. TypeOK /\ SenderInv /\ ReceiverInv /\ WindowsInv /\ DataInv /\ AcksInv /\ TimersInv
  BY DEF IInv
<1>1. SndFront' = SndFront /\ SndBack' = SndBack
  BY DEF SndFront, SndBack, WindowSize
<1>2. RcvFront' = RcvFront /\ RcvBack' = RcvBack
  BY DEF RcvFront, RcvBack, WindowSize
<1>3. TypeOK'
  BY <1>i DEF TypeOK
<1>4. SenderInv' /\ ReceiverInv' /\ TimersInv'
  BY <1>1, <1>2, <1>i
     DEF SenderInv, ReceiverInv, TimersInv, UnackedIsKept, Stores, LastBefore
<1>5. WindowsInv' /\ DataInv'
  BY <1>1, <1>2, <1>i DEF WindowsInv, DataInv
<1>6. AcksInv'
  <2>1. \A a \in acks : \E z \in 0..MaxMessages : AckInv(a, z)'
    BY <1>1, <1>2, <1>e, AcksStay DEF EdgesFacts
  <2> QED BY <2>1 DEF AcksInv
<1>7. EdgesAdvance
  BY ONLY <1>1, <1>2, <1>e DEF EdgesFacts, EdgesAdvance
<1> QED BY <1>3, <1>4, <1>5, <1>6, <1>7 DEF IInv

(* The application stores a message: the slot of message `sent` was free,  *)
(* and no edge moves.                                                      *)
LEMMA KSendToStep == IInv /\ KSendTo => IInv' /\ EdgesAdvance
<1> SUFFICES ASSUME IInv, KSendTo PROVE IInv' /\ EdgesAdvance
  OBVIOUS
<1>e. EdgesFacts
  BY Edges
<1>w. WrappedEdges
  BY Edges
<1>i. TypeOK /\ SenderInv /\ ReceiverInv /\ WindowsInv /\ DataInv /\ AcksInv /\ TimersInv
  BY DEF IInv
<1> USE Constants, <1>e DEF EdgesFacts
<1>1. /\ swnd' = swnd /\ lst_time' = lst_time /\ recv_buf' = recv_buf
      /\ rwnd' = rwnd /\ data' = data /\ acks' = acks /\ rcvd' = rcvd
      /\ sent' = sent + 1 /\ sent < NMsgs
      /\ send_buf.size # MaxMessages
  BY DEF KSendTo, receiver, SendBufferFull
<1>2. /\ send_buf'.size = send_buf.size + 1
      /\ send_buf'.ptr = NextSlot(send_buf.ptr)
      /\ send_buf'.s = [send_buf.s EXCEPT ![send_buf.ptr] = sent]
      /\ send_buf'.occ = [send_buf.occ EXCEPT ![send_buf.ptr] = 1]
  BY DEF KSendTo
<1>3. send_buf.ptr = SlotOf(sent) /\ SlotOf(sent) \in Slots
  BY SlotOfType, <1>i DEF SenderInv
<1>4. SndFront' = SndFront
  <2>1. SndFront' = sent' - send_buf'.size
    BY DEF SndFront
  <2>2. SndFront = sent - send_buf.size
    BY DEF SndFront
  <2> QED BY <2>1, <2>2, <1>1, <1>2
<1>5. SndBack' = SndBack /\ RcvFront' = RcvFront /\ RcvBack' = RcvBack
  BY <1>1, <1>4 DEF SndBack, RcvFront, RcvBack, WindowSize
<1>6. sent < SndFront + MaxMessages
  BY ONLY <1>1, <1>e, Constants DEF EdgesFacts
<1>7. NextSlot(send_buf.ptr) = SlotOf(sent + 1) /\ SlotOf(sent + 1) \in Slots
  BY <1>3, NextSlotOf, SlotOfType
<1>8. send_buf.s \in [Slots -> Message \cup {NoMsg}] /\ send_buf.occ \in [Slots -> {0, 1}]
  BY <1>i DEF TypeOK, Buffer
<1>9. TypeOK'
  <2>1. send_buf' \in Buffer
    BY <1>1, <1>2, <1>3, <1>7, <1>8 DEF KSendTo, Buffer, Message
  <2> QED BY <1>1, <2>1, <1>i DEF TypeOK
<1>10. SenderInv'
  <2>1. Stores(swnd, SndFront, SndBack)'
    BY <1>1, <1>4, <1>5, <1>i DEF SenderInv, Stores
  <2>2. UnackedIsKept'
    <3> SUFFICES ASSUME NEW n \in SndFront..sent
                 PROVE  /\ send_buf'.occ[SlotOf(n)] = 1
                        /\ send_buf'.s[SlotOf(n)] = n
      BY <1>1, <1>4, sent + 1 - 1 = sent DEF UnackedIsKept
    <3>1. n \in Nat /\ SlotOf(n) \in Slots
      BY SlotOfType
    <3>2. CASE n = sent
      BY <3>1, <3>2, <1>2, <1>3, <1>8
    <3>3. CASE n # sent
      <4>1. SlotOf(n) # SlotOf(sent)
        BY <3>1, <3>3, <1>6, SlotOfInjective
      <4>2. send_buf.occ[SlotOf(n)] = 1 /\ send_buf.s[SlotOf(n)] = n
        <5>1. n \in SndFront..(sent - 1)
          BY <3>3
        <5> QED BY <5>1, <1>i DEF SenderInv, UnackedIsKept
      <4> QED BY <4>1, <4>2, <3>1, <1>2, <1>3, <1>8
    <3> QED BY <3>2, <3>3
  <2>3. ASSUME NEW n \in (sent + 1)..(SndFront + MaxMessages - 1)
        PROVE  send_buf'.occ[SlotOf(n)] = 0
    <3>1. n \in Nat /\ SlotOf(n) \in Slots
      BY SlotOfType
    <3>2. SlotOf(n) # SlotOf(sent)
      BY <3>1, SlotOfInjective
    <3>3. send_buf.occ[SlotOf(n)] = 0
      <4>1. n \in sent..(SndFront + MaxMessages - 1)
        OBVIOUS
      <4> QED BY <4>1, <1>i DEF SenderInv
    <3> QED BY <3>1, <3>2, <3>3, <1>2, <1>3, <1>8
  <2> QED BY <1>1, <1>2, <1>4, <1>5, <1>6, <1>7, <2>1, <2>2, <2>3, <1>i DEF SenderInv, LastBefore
<1>11. ReceiverInv'
  BY <1>1, <1>4, <1>5, <1>i DEF ReceiverInv, Stores, LastBefore
<1>12. WindowsInv' /\ DataInv' /\ AcksInv' /\ TimersInv'
  BY <1>1, <1>4, <1>5, <1>i DEF WindowsInv, DataInv, AcksInv, AckInv, TimersInv
<1>13. EdgesAdvance
  BY ONLY <1>4, <1>5, <1>e DEF EdgesFacts, EdgesAdvance
<1> QED BY <1>9, <1>10, <1>11, <1>12, <1>13 DEF IInv

(* The application takes a message: it is the next one, because the slot   *)
(* of message RcvFront is empty; the window opens by one slot.             *)
LEMMA KRecvFromStep ==
    IInv /\ KRecvFrom =>
        /\ IInv' /\ EdgesAdvance
        /\ rcvd' = Append(rcvd, Len(rcvd)) /\ Len(rcvd) < sent
<1> SUFFICES ASSUME IInv, KRecvFrom
             PROVE  /\ IInv' /\ EdgesAdvance
                    /\ rcvd' = Append(rcvd, Len(rcvd)) /\ Len(rcvd) < sent
  OBVIOUS
<1>e. EdgesFacts
  BY Edges
<1>w. WrappedEdges
  BY Edges
<1>i. TypeOK /\ SenderInv /\ ReceiverInv /\ WindowsInv /\ DataInv /\ AcksInv /\ TimersInv
  BY DEF IInv
<1> USE Constants, <1>e DEF EdgesFacts
<1> DEFINE r == Len(rcvd)
<1>1. /\ send_buf' = send_buf /\ swnd' = swnd /\ lst_time' = lst_time
      /\ data' = data /\ acks' = acks /\ sent' = sent
      /\ recv_buf.occ[recv_buf.ptr] # 0
      /\ rcvd' = Append(rcvd, recv_buf.s[recv_buf.ptr])
  BY DEF KRecvFrom, sender
<1>2. /\ recv_buf'.size = recv_buf.size - 1
      /\ recv_buf'.ptr = NextSlot(recv_buf.ptr)
      /\ recv_buf'.s = [recv_buf.s EXCEPT ![recv_buf.ptr] = NoMsg]
      /\ recv_buf'.occ = [recv_buf.occ EXCEPT ![recv_buf.ptr] = 0]
  BY DEF KRecvFrom
<1>3. /\ rwnd'.back = NextSeq(rwnd.back) /\ rwnd'.front = rwnd.front
      /\ rwnd'.ack_num = rwnd.ack_num /\ rwnd'.flags = rwnd.flags
      /\ rwnd' \in RecvWindow
  <2>1. rwnd \in RecvWindow
    BY <1>i DEF TypeOK
  <2>2. NextSeq(rwnd.back) \in SeqNum
    BY SeqOfType, NextSeqOf, <1>w DEF WrappedEdges
  <2> QED BY <2>1, <2>2 DEF KRecvFrom, IncreaseWindow, RecvWindow
<1>4. recv_buf.ptr = SlotOf(r) /\ SlotOf(r) \in Slots
  BY SlotOfType, <1>i DEF ReceiverInv
<1>5. r < RcvFront
  <2>1. r <= RcvFront /\ (RcvFront < RcvBack => recv_buf.occ[SlotOf(RcvFront)] = 0)
    BY <1>i DEF ReceiverInv
  <2> QED BY <2>1, <1>1, <1>4
<1>6. recv_buf.s[recv_buf.ptr] = r
  <2>1. \A n \in r..(RcvFront - 1) : recv_buf.s[SlotOf(n)] = n
    BY ONLY <1>i DEF ReceiverInv
  <2>2. r \in r..(RcvFront - 1)
    BY <1>5
  <2> QED BY ONLY <2>1, <2>2, <1>4
<1>7. rcvd \in Seq(Message \cup {NoMsg}) /\ r \in Message
  BY <1>5, <1>i DEF TypeOK, WindowsInv, SenderInv, Message
<1>8. rcvd' = Append(rcvd, r) /\ Len(rcvd') = r + 1 /\ rcvd' \in Seq(Message \cup {NoMsg})
  <2>1. rcvd' = Append(rcvd, r)
    BY <1>1, <1>6
  <2>2. r \in Message \cup {NoMsg}
    BY <1>7
  <2> QED BY ONLY <2>1, <2>2, <1>7
<1>9. RcvBack' = RcvBack + 1
  BY <1>8 DEF RcvBack
<1>10. Stores(rwnd', RcvFront, RcvBack + 1)
  <2>1. NextSeq(SeqOf(RcvBack)) = SeqOf(RcvBack + 1)
    BY NextSeqOf
  <2>2. rwnd'.front = SeqOf(RcvFront) /\ rwnd'.back = SeqOf(RcvBack + 1)
    BY ONLY <1>3, <2>1, <1>w DEF WrappedEdges
  <2>3. RcvFront <= RcvBack + 1 /\ RcvBack + 1 < RcvFront + MaxSeq
    BY <1>5
  <2> QED BY <2>2, <2>3 DEF Stores
<1>11. RcvFront' = RcvFront
  <2>1. WindowSize(rwnd') = RcvBack + 1 - RcvFront
    BY <1>10, WindowSizeIsLength
  <2>2. WindowSize(rwnd)' = WindowSize(rwnd')
    BY DEF WindowSize
  <2>3. RcvFront' = RcvBack' - WindowSize(rwnd)'
    BY DEF RcvFront
  <2>4. RcvBack \in Nat /\ RcvFront \in Nat
    BY <1>e
  <2> QED BY ONLY <2>1, <2>2, <2>3, <2>4, <1>9
<1>12. SndFront' = SndFront /\ SndBack' = SndBack
  BY <1>1 DEF SndFront, SndBack, WindowSize
<1>13. recv_buf.s \in [Slots -> Message \cup {NoMsg}] /\ recv_buf.occ \in [Slots -> {0, 1}]
  BY <1>i DEF TypeOK, Buffer
<1>14. NextSlot(recv_buf.ptr) = SlotOf(r + 1) /\ SlotOf(r + 1) \in Slots
  BY <1>4, NextSlotOf, SlotOfType
<1>15. TypeOK'
  <2>1. recv_buf' \in Buffer
    BY <1>2, <1>4, <1>13, <1>14 DEF KRecvFrom, Buffer, IInv, TypeOK
  <2> QED BY <1>1, <1>3, <1>8, <2>1, <1>i DEF TypeOK
<1>16. ASSUME NEW n \in (r + 1)..(RcvBack - 1)
       PROVE  /\ recv_buf'.occ[SlotOf(n)] = recv_buf.occ[SlotOf(n)]
              /\ recv_buf'.s[SlotOf(n)] = recv_buf.s[SlotOf(n)]
  <2>1. n \in Nat /\ SlotOf(n) \in Slots
    BY SlotOfType
  <2>2. SlotOf(n) # SlotOf(r)
    BY <2>1, SlotOfInjective
  <2> QED BY <2>1, <2>2, <1>2, <1>4, <1>13
<1>17. recv_buf'.occ[SlotOf(RcvBack)] = 0
  BY SlotOfPeriod, <1>2, <1>4, <1>13
<1>18. ReceiverInv'
  <2>1. Stores(rwnd, RcvFront, RcvBack)'
    BY <1>9, <1>10, <1>11 DEF Stores
  <2>2. \A n \in (r + 1)..(RcvFront - 1) :
          recv_buf'.occ[SlotOf(n)] = 1 /\ recv_buf'.s[SlotOf(n)] = n
    <3> TAKE n \in (r + 1)..(RcvFront - 1)
    <3>1. n \in r..(RcvFront - 1) /\ n \in (r + 1)..(RcvBack - 1)
      OBVIOUS
    <3> QED BY <3>1, <1>16, <1>i DEF ReceiverInv
  <2>3. ASSUME NEW n \in RcvFront..RcvBack, recv_buf'.occ[SlotOf(n)] # 0
        PROVE  recv_buf'.s[SlotOf(n)] = n /\ RcvFront < n /\ n < SndBack
    <3>1. n # RcvBack
      BY <1>17, <2>3
    <3> QED BY <3>1, <1>5, <1>16, <2>3, <1>i DEF ReceiverInv
  <2>4. \A i \in 1..(r + 1) : rcvd'[i] = i - 1
    <3>1. \A i \in 1..r : rcvd[i] = i - 1
      BY <1>i DEF ReceiverInv
    <3> QED BY ONLY <3>1, <1>7, <1>8
  <2>5. RcvFront' # RcvBack'
    BY <1>9, <1>11
  <2>6. \A n \in RcvFront..RcvBack : recv_buf'.occ[SlotOf(n)] # 0 =>
            recv_buf'.s[SlotOf(n)] = n /\ RcvFront < n /\ n < SndBack
    BY <2>3
  <2>7. Len(rcvd)' = r + 1 /\ r + 1 <= RcvFront /\ r \in Nat
    BY <1>5, <1>8
  <2>8. recv_buf'.ptr = SlotOf(r + 1)
    BY ONLY <1>2, <1>14
  <2>9. rwnd'.ack_num = LastBefore(RcvFront)
    BY ONLY <1>3, <1>i DEF ReceiverInv
  <2>10. rwnd'.flags = NOSPACE => 0 < RcvFront
    BY ONLY <1>3, <1>i DEF ReceiverInv
  <2>11. RcvBack' - 1 = RcvBack
    BY <1>9
  <2> HIDE <1>e DEF EdgesFacts
  <2> HIDE DEF r
  <2> QED BY ONLY <1>11, <1>12, <2>1, <2>2, <2>4, <2>5, <2>6, <2>7, <2>8, <2>9, <2>10,
                  <2>11, <1>8
          DEF ReceiverInv, LastBefore
<1>19. SenderInv' /\ TimersInv'
  BY <1>1, <1>12, <1>i DEF SenderInv, UnackedIsKept, Stores, LastBefore, TimersInv
<1>20. WindowsInv' /\ DataInv' /\ AcksInv'
  <2>1. WindowsInv'
    BY <1>1, <1>3, <1>9, <1>11, <1>12, <1>i DEF WindowsInv, TypeOK, SendWindow
  <2>2. DataInv'
    BY <1>1, <1>12, <1>i DEF DataInv
  <2>3. AcksInv'
    BY <1>1, <1>3, <1>9, <1>11, <1>12, AcksStay DEF AcksInv
  <2> QED BY <2>1, <2>2, <2>3
<1>21. r < sent
  BY <1>5, <1>i DEF WindowsInv, SenderInv
<1>22. EdgesAdvance
  BY ONLY <1>9, <1>11, <1>12, <1>e DEF EdgesFacts, EdgesAdvance
<1> QED BY <1>8, <1>15, <1>18, <1>19, <1>20, <1>21, <1>22 DEF IInv

-----------------------------------------------------------------------------
(* Thread S.  The timers after S's first test still end where the window   *)
(* ends; and unless that test found a timeout, the first of them ends at   *)
(* some message of the window, from which the new messages are sent.       *)
LEMMA STimers ==
    ASSUME IInv, NEW timeout \in BOOLEAN, timeout => Unacked
    PROVE  LET lst == TimersAfterCheck(timeout) IN
           /\ lst \in [0..1 -> Timer]
           /\ lst[1].t => /\ lst[0].t
                          /\ lst[1].front = lst[0].back
                          /\ lst[1].back = swnd.back
           /\ (~timeout /\ lst[0].t /\ ~lst[1].t) => lst[0].back = swnd.back
           /\ swnd.front # swnd.back => lst[0].t
           /\ timeout => lst[0].t /\ ~lst[1].t
           /\ (~timeout /\ lst[0].t) =>
                 \E x \in SndFront..SndBack : lst[0].back = SeqOf(x)
<1> DEFINE lst == TimersAfterCheck(timeout)
<1>e. EdgesFacts
  BY Edges
<1>w. WrappedEdges
  BY Edges
<1>i. TypeOK /\ TimersInv /\ SenderInv
  BY DEF IInv
<1>1. /\ lst_time \in [0..1 -> Timer]
      /\ lst_time[0] \in Timer /\ lst_time[1] \in Timer
  BY <1>i DEF TypeOK
<1>2. /\ lst_time[0].t \in BOOLEAN /\ lst_time[0].back \in SeqNum
      /\ lst_time[1].t \in BOOLEAN /\ lst_time[1].back \in SeqNum
  BY <1>1 DEF Timer
<1>3. /\ lst_time[1].t =>
            /\ lst_time[0].t
            /\ lst_time[1].front = lst_time[0].back
            /\ lst_time[1].back = swnd.back
      /\ (lst_time[0].t /\ ~lst_time[1].t) => lst_time[0].back = swnd.back
      /\ swnd.front # swnd.back => lst_time[0].t
  BY <1>i DEF TimersInv
<1>4. SndBack \in SndFront..SndBack /\ swnd.back = SeqOf(SndBack)
  BY <1>e, <1>w DEF EdgesFacts, WrappedEdges
<1>5. CASE timeout
  <2>1. lst = [lst_time EXCEPT
                 ![0].back = IF lst_time[1].t THEN lst_time[1].back ELSE @,
                 ![1].t = FALSE]
    BY <1>5 DEF TimersAfterCheck
  <2>2. lst_time[0].t
    BY <1>5 DEF Unacked
  <2> DEFINE e  == IF lst_time[1].t THEN lst_time[1].back ELSE lst_time[0].back
             t0 == [lst_time[0] EXCEPT !.back = e]
             t1 == [lst_time[1] EXCEPT !.t = FALSE]
  <2>3. t0 \in Timer /\ t0.t /\ t1 \in Timer /\ ~t1.t
    BY ONLY <1>1, <1>2, <2>2 DEF Timer
  <2>4. lst = [lst_time EXCEPT ![0] = t0, ![1] = t1]
    BY ONLY <2>1, <1>1
  <2>5. lst[0] = t0 /\ lst[1] = t1 /\ lst \in [0..1 -> Timer]
    <3> HIDE DEF t0, t1, lst
    <3> QED BY ONLY <2>3, <2>4, <1>1
  <2> QED BY <1>5, <2>3, <2>5
<1>6. CASE ~timeout /\ lst_time[0].t /\ ~Unacked
  <2>1. lst = [j \in 0..1 |-> IF j = 0 THEN lst_time[1]
                                     ELSE [lst_time[1] EXCEPT !.t = FALSE]]
    BY <1>6 DEF TimersAfterCheck
  <2>2. lst[0] = lst_time[1] /\ ~lst[1].t /\ lst \in [0..1 -> Timer]
    <3> DEFINE t1 == [lst_time[1] EXCEPT !.t = FALSE]
    <3>1. t1 \in Timer /\ ~t1.t
      BY ONLY <1>1 DEF Timer
    <3>2. lst = [k \in 0..1 |-> IF k = 0 THEN lst_time[1] ELSE t1]
      BY ONLY <2>1
    <3> HIDE DEF t1, lst
    <3> QED BY ONLY <3>1, <3>2, <1>1
  <2>3. swnd.front # swnd.back => lst_time[1].t
    <3> SUFFICES ASSUME swnd.front # swnd.back, ~lst_time[1].t PROVE FALSE
      BY <1>2
    <3>1. lst_time[0].back = SeqOf(SndBack)
      BY <1>3, <1>4, <1>6
    <3>2. SndBack - 1 \in Nat /\ SndFront <= SndBack - 1
      <4>1. SndFront # SndBack
        BY <1>w DEF WrappedEdges
      <4> QED BY ONLY <4>1, <1>e DEF EdgesFacts
    <3>3. InWindow(SeqOf(SndBack - 1), swnd)
      <4>1. Stores(swnd, SndFront, SndBack)
        BY <1>i DEF SenderInv
      <4>2. /\ SndBack <= (SndBack - 1) + MaxSeq
            /\ SndBack - 1 < SndFront + MaxSeq
            /\ SndBack - 1 < SndBack
        BY ONLY <1>e, Constants DEF EdgesFacts
      <4> QED BY ONLY <4>1, <4>2, <3>2, InWindowIsMembership
    <3>4. PrevSeq(SeqOf(SndBack)) = SeqOf(SndBack - 1)
      <4>1. (SndBack - 1) + 1 = SndBack
        BY ONLY <1>e DEF EdgesFacts
      <4> QED BY ONLY <4>1, <3>2, PrevSeqOfNext
    <3> QED BY <1>6, <3>1, <3>3, <3>4 DEF Unacked
  <2>4. lst[0].t => lst[0].back = swnd.back
    BY <1>3, <2>2
  <2> QED BY <1>4, <1>6, <2>2, <2>3, <2>4
<1>7. CASE ~timeout /\ ~(lst_time[0].t /\ ~Unacked)
  <2>1. lst = lst_time
    BY <1>7 DEF TimersAfterCheck
  <2>2. ASSUME lst_time[0].t
        PROVE  \E x \in SndFront..SndBack : lst_time[0].back = SeqOf(x)
    <3>1. InWindow(PrevSeq(lst_time[0].back), swnd)
      BY <1>7, <2>2 DEF Unacked
    <3>2. PrevSeq(lst_time[0].back) \in SeqNum
      BY <1>2, PrevSeqType
    <3>3. Stores(swnd, SndFront, SndBack)
      BY <1>i DEF SenderInv
    <3>4. PICK n \in Nat : /\ SndFront <= n /\ n < SndBack
                           /\ PrevSeq(lst_time[0].back) = SeqOf(n)
      BY ONLY <3>1, <3>2, <3>3, InWindowHasMessage
    <3>5. lst_time[0].back = SeqOf(n + 1)
      BY <1>2, <3>4, PrevSeqOf
    <3>6. n + 1 \in SndFront..SndBack
      BY ONLY <3>4, <1>e DEF EdgesFacts
    <3> QED BY <3>5, <3>6
  <2> QED BY <1>1, <1>3, <1>7, <2>1, <2>2
<1> QED BY <1>5, <1>6, <1>7

(* The window grows only over messages that are in the buffer, and no      *)
(* further than the receiver allowed.                                      *)
LEMMA SGrows ==
    ASSUME IInv, NEW k \in Nat, \A j \in 0..(k - 1) : MayExtend(j)
    PROVE  /\ SndBack + k <= sent
           /\ k > 0 => SndBack + k <= SndFront + swnd.max_size
           /\ k > 0 => swnd.max_size # 0
           /\ SndBack + k <= SndFront + MaxMessages
           /\ SndBack + k <= RcvBack
<1>e. EdgesFacts
  BY Edges
<1>w. WrappedEdges
  BY Edges
<1>i. SenderInv /\ WindowsInv /\ TypeOK
  BY DEF IInv
<1>m. swnd.max_size \in 0..MaxMessages
  BY <1>i DEF TypeOK, SendWindow
<1>1. CASE k = 0
  BY ONLY <1>1, <1>e, Constants DEF EdgesFacts
<1>2. CASE k # 0
  <2>1. MayExtend(k - 1)
    BY <1>2, k - 1 \in 0..(k - 1)
  <2>2. (SndBack - SndFront) + (k - 1) < swnd.max_size
    BY <2>1, <1>e DEF MayExtend, EdgesFacts
  <2>3. SndBack + k <= SndFront + swnd.max_size /\ swnd.max_size # 0
    BY ONLY <2>2, <1>2, <1>m, <1>e, Constants DEF EdgesFacts
  <2>4. SndFront + swnd.max_size <= RcvBack
    BY <1>i DEF WindowsInv
  <2>5. SndBack + k <= sent
    <3> SUFFICES ASSUME ~(SndBack + k <= sent) PROVE FALSE
      OBVIOUS
    <3> DEFINE j == sent - SndBack
    <3>1. j \in Nat /\ j \in 0..(k - 1) /\ SndBack + j = sent
      BY ONLY ~(SndBack + k <= sent), k \in Nat, <1>e DEF EdgesFacts
    <3>2. sent \in sent..(SndFront + MaxMessages - 1)
      BY ONLY ~(SndBack + k <= sent), <2>3, <1>m, <1>e, Constants DEF EdgesFacts
    <3> HIDE DEF j
    <3>3. send_buf.occ[SlotOf(Plus(swnd.back, j))] = 1
      BY <3>1 DEF MayExtend
    <3>4. Plus(swnd.back, j) = SeqOf(sent)
      <4>1. Plus(SeqOf(SndBack), j) = SeqOf(SndBack + j)
        BY ONLY <3>1, <1>e, PlusSeqOf DEF EdgesFacts
      <4> QED BY ONLY <4>1, <3>1, <1>w DEF WrappedEdges
    <3>5. SlotOf(SeqOf(sent)) = SlotOf(sent)
      BY <1>e, SlotOfSeqOf DEF EdgesFacts
    <3>6. send_buf.occ[SlotOf(sent)] = 0
      BY <3>2, <1>i DEF SenderInv
    <3> QED BY <3>3, <3>4, <3>5, <3>6
  <2> QED BY ONLY <2>3, <2>4, <2>5, <1>m, <1>e, Constants DEF EdgesFacts
<1> QED BY <1>1, <1>2

(* A header's fields survive the trip.                                     *)
LEMMA SeqTravels ==
    \A q \in SeqNum : \A m : /\ Data(q, m).seq \in 0..255
                             /\ Data(q, m).msg = m
                             /\ SeqNumber(Data(q, m)) = q
  BY Constants DEF Data, CreatePacket, Byte, SignedChar, SeqNumber, SeqNum

LEMMA AckTravels ==
    \A q \in SeqNum, z \in 0..MaxMessages : \A u :
        /\ Ack(q, z, u).ack \in 0..255 /\ Ack(q, z, u).size \in 0..255
        /\ Ack(q, z, u).upto = u
        /\ AckNumber(Ack(q, z, u)) = q
        /\ RecvSize(Ack(q, z, u)) = z
  BY Constants DEF Ack, CreatePacket, Byte, SignedChar, AckNumber, RecvSize, SeqNum

(* What S sends is in the buffer: the messages x, ..., c-1 themselves.     *)
LEMMA PacketsOfArc ==
    ASSUME IInv, NEW x \in Nat, NEW c \in Nat, SndFront <= x, x <= c,
           c <= sent, NEW d \in PacketsOf(SeqOf(x), SeqOf(c))
    PROVE  \E n \in Nat : x <= n /\ n < c /\ d = Data(SeqOf(n), n)
<1>e. EdgesFacts
  BY Edges
<1> DEFINE wnd == [front |-> SeqOf(x), back |-> SeqOf(c)]
<1>1. PICK q \in SeqNum : InWindow(q, wnd) /\ d = Data(q, send_buf.s[SlotOf(q)])
  BY DEF PacketsOf
<1>2. Stores(wnd, x, c)
  <2>1. c < x + MaxSeq
    BY ONLY SndFront <= x, c <= sent, x \in Nat, c \in Nat, <1>e, Constants DEF EdgesFacts
  <2>2. wnd.front = SeqOf(x) /\ wnd.back = SeqOf(c)
    OBVIOUS
  <2> HIDE DEF wnd
  <2> QED BY ONLY <2>1, <2>2, x \in Nat, c \in Nat, x <= c DEF Stores
<1> HIDE DEF wnd
<1>3. PICK n \in Nat : x <= n /\ n < c /\ q = SeqOf(n)
  BY ONLY <1>1, <1>2, InWindowHasMessage
<1>4. n \in SndFront..(sent - 1)
  BY ONLY <1>3, n \in Nat, SndFront <= x, c <= sent, x \in Nat, c \in Nat, <1>e DEF EdgesFacts
<1>5. send_buf.s[SlotOf(n)] = n
  BY <1>4 DEF IInv, SenderInv, UnackedIsKept
<1>6. SlotOf(q) = SlotOf(n)
  BY <1>3, SlotOfSeqOf
<1> QED BY <1>1, <1>3, <1>5, <1>6

(* A visit of S: the window grows by k messages, all of them in the buffer *)
(* and within the receiver's room, and what is sent is what they are.      *)
LEMMA SVisitStep ==
    ASSUME IInv, NEW expired \in BOOLEAN, NEW k \in 0..MaxMessages,
           SVisit(expired, k)
    PROVE  IInv' /\ EdgesAdvance
<1> DEFINE timeout == Unacked /\ expired
           lst   == TimersAfterCheck(timeout)
           c     == SndBack + k
           back  == Plus(swnd.back, k)
           first == timeout \/ ~lst[0].t
           from  == IF first THEN swnd.front ELSE lst[0].back
           timer == [t |-> TRUE, front |-> from, back |-> back]
           sends == timeout \/ k > 0
<1>e. EdgesFacts
  BY Edges
<1>w. WrappedEdges
  BY Edges
<1>i. TypeOK /\ SenderInv /\ ReceiverInv /\ WindowsInv /\ DataInv /\ AcksInv /\ TimersInv
  BY DEF IInv
<1>1. /\ send_buf' = send_buf /\ recv_buf' = recv_buf /\ rwnd' = rwnd
      /\ sent' = sent /\ rcvd' = rcvd
      /\ swnd' = [swnd EXCEPT !.back = back]
      /\ \A j \in 0..(k - 1) : MayExtend(j)
  BY DEF SVisit, receiver
<1>2. IF sends
      THEN /\ lst_time' = [lst EXCEPT ![IF first THEN 0 ELSE 1] = timer]
           /\ data' = YoungData(data \cup PacketsOf(from, back), SndBack')
           /\ acks' = YoungAcks(acks, SndBack')
      ELSE lst_time' = lst /\ data' = data /\ acks' = acks
  BY DEF SVisit
<1>3. timeout \in BOOLEAN /\ (timeout => Unacked)
  BY <1>i DEF Unacked, TypeOK, Timer
<1>4. /\ lst \in [0..1 -> Timer]
      /\ lst[1].t => /\ lst[0].t
                     /\ lst[1].front = lst[0].back
                     /\ lst[1].back = swnd.back
      /\ (~timeout /\ lst[0].t /\ ~lst[1].t) => lst[0].back = swnd.back
      /\ swnd.front # swnd.back => lst[0].t
      /\ timeout => lst[0].t /\ ~lst[1].t
      /\ (~timeout /\ lst[0].t) =>
            \E x \in SndFront..SndBack : lst[0].back = SeqOf(x)
  <2> HIDE DEF timeout
  <2> QED BY <1>3, STimers
<1>5. /\ c \in Nat /\ SndBack <= c /\ c <= sent /\ k \in Nat
      /\ k > 0 => swnd.max_size # 0
      /\ c <= SndFront + MaxMessages
      /\ c <= RcvBack
  <2>1. k \in Nat
    OBVIOUS
  <2>2. /\ c <= sent /\ (k > 0 => swnd.max_size # 0)
        /\ c <= SndFront + MaxMessages /\ c <= RcvBack
    BY <1>1, <2>1, SGrows
  <2> QED BY ONLY <2>1, <2>2, <1>e DEF EdgesFacts
<1>6. back = SeqOf(c)
  BY <1>5, <1>w, <1>e, PlusSeqOf DEF WrappedEdges, EdgesFacts
<1>7. k = 0 => c = SndBack
  BY <1>e DEF EdgesFacts
<1> HIDE DEF lst, timeout, c, back
<1>8. swnd \in SendWindow /\ swnd' \in SendWindow
      /\ swnd'.front = swnd.front /\ swnd'.back = SeqOf(c)
      /\ swnd'.ack_num = swnd.ack_num /\ swnd'.max_size = swnd.max_size
  <2>1. SeqOf(c) \in SeqNum
    BY <1>5, SeqOfType
  <2> QED BY <2>1, <1>1, <1>6, <1>i DEF TypeOK, SendWindow
<1>9. Stores(swnd', SndFront, c)
  <2>1. c < SndFront + MaxSeq /\ SndFront <= c /\ SndFront \in Nat
    BY ONLY <1>5, <1>e, Constants DEF EdgesFacts
  <2>2. swnd'.front = SeqOf(SndFront)
    BY <1>8, <1>w DEF WrappedEdges
  <2> QED BY ONLY <2>1, <2>2, <1>5, <1>8 DEF Stores
<1>10. SndFront' = SndFront
  BY <1>1 DEF SndFront
<1>11. SndBack' = c
  <2>1. WindowSize(swnd)' = c - SndFront
    <3>1. WindowSize(swnd') = c - SndFront
      BY <1>9, WindowSizeIsLength
    <3> QED BY <3>1 DEF WindowSize
  <2> QED BY <2>1, <1>10, <1>5, <1>e DEF SndBack, EdgesFacts
<1>12. RcvFront' = RcvFront /\ RcvBack' = RcvBack
  BY <1>1 DEF RcvFront, RcvBack, WindowSize
<1>13. first => from = SeqOf(SndFront)
  BY <1>w DEF WrappedEdges
<1>14. PICK x \in SndFront..SndBack : from = SeqOf(x)
  <2>1. SndFront \in SndFront..SndBack
    BY <1>e DEF EdgesFacts
  <2>2. CASE first
    BY <2>1, <2>2, <1>13
  <2>3. CASE ~first
    BY <2>3, <1>3, <1>4
  <2> QED BY <2>2, <2>3
<1>15. timer \in Timer
  <2>1. SeqOf(c) \in SeqNum /\ SeqOf(x) \in SeqNum
    <3>1. x \in Nat
      BY <1>14, <1>e DEF EdgesFacts
    <3> QED BY <3>1, <1>5, SeqOfType
  <2> QED BY <2>1, <1>6, <1>14 DEF Timer
<1> HIDE DEF first, from
<1>16. \A d \in data' :
          \/ d \in data /\ (c <= d.msg + Lifetime \/ c = SndBack)
          \/ \E n \in Nat : /\ SndFront <= n /\ n < c
                            /\ c <= n + Lifetime
                            /\ d = Data(SeqOf(n), n)
  <2> TAKE d \in data'
  <2>1. CASE sends
    <3>1. d \in data \cup PacketsOf(from, back) /\ d.msg + Lifetime >= c
      BY <2>1, <1>2, <1>11 DEF YoungData
    <3>2. CASE d \in data
      <4>1. d.msg \in Nat
        BY <3>2, <1>i DEF DataInv
      <4>2. c <= d.msg + Lifetime
        BY ONLY <4>1, <3>1, <1>5, Constants
      <4> QED BY <4>2, <3>2
    <3>3. CASE d \in PacketsOf(from, back)
      <4>1. x \in Nat /\ SndFront <= x /\ x <= c
        BY ONLY <1>14, <1>5, <1>e DEF EdgesFacts
      <4>2. d \in PacketsOf(SeqOf(x), SeqOf(c))
        BY <3>3, <1>6, <1>14
      <4>3. PICK n \in Nat : x <= n /\ n < c /\ d = Data(SeqOf(n), n)
        BY <4>1, <4>2, <1>5, PacketsOfArc
      <4>4. d.msg = n
        BY <4>3 DEF Data
      <4>5. c <= n + Lifetime /\ SndFront <= n
        BY ONLY <3>1, <4>1, <4>3, <4>4, <1>5, <1>e, Constants DEF EdgesFacts
      <4> QED BY <4>3, <4>5
    <3> QED BY <3>1, <3>2, <3>3
  <2>2. CASE ~sends
    <3>1. k = 0 /\ d \in data
      BY <2>2, <1>2, <1>5
    <3> QED BY <3>1, <1>7
  <2> QED BY <2>1, <2>2
<1>17. DataInv'
  <2> SUFFICES ASSUME NEW d \in data'
               PROVE  /\ d.msg \in Nat
                      /\ d = Data(SeqOf(d.msg), d.msg)
                      /\ d.msg < c
                      /\ c <= d.msg + Lifetime
    BY <1>11 DEF DataInv
  <2>1. CASE d \in data
    <3>1. /\ d.msg \in Nat /\ d = Data(SeqOf(d.msg), d.msg)
          /\ d.msg < SndBack /\ SndBack <= d.msg + Lifetime
      BY <2>1, <1>i DEF DataInv
    <3>2. d.msg < c
      BY ONLY <3>1, <1>5, <1>e DEF EdgesFacts
    <3>3. c <= d.msg + Lifetime
      <4>1. CASE \E n \in Nat : c <= n + Lifetime /\ d = Data(SeqOf(n), n)
        BY <4>1 DEF Data
      <4> QED BY <4>1, <3>1, <1>16
    <3> QED BY <3>1, <3>2, <3>3
  <2>2. CASE d \notin data
    <3>1. PICK n \in Nat : n < c /\ c <= n + Lifetime /\ d = Data(SeqOf(n), n)
      BY <2>2, <1>16
    <3>2. d.msg = n
      BY <3>1 DEF Data
    <3> QED BY <3>1, <3>2
  <2> QED BY <2>1, <2>2
<1>18. data' \subseteq DataPacket
  <2> SUFFICES ASSUME NEW d \in data' PROVE d \in DataPacket
    OBVIOUS
  <2>1. d.msg \in Nat /\ d = Data(SeqOf(d.msg), d.msg) /\ d.msg < c
    BY <1>11, <1>17 DEF DataInv
  <2>2. d.msg \in Message
    BY ONLY <2>1, <1>5, <1>i, <1>e, Constants DEF TypeOK, Message, EdgesFacts
  <2>3. SeqOf(d.msg) \in SeqNum
    BY <2>1, SeqOfType
  <2>4. Data(SeqOf(d.msg), d.msg).seq \in 0..255
    BY <2>3, SeqTravels
  <2> QED BY <2>1, <2>2, <2>4 DEF Data, DataPacket
<1>19. acks' \subseteq acks /\ \A a \in acks' : c < a.upto + Lifetime \/ c = SndBack
  <2>1. CASE sends
    <3>1. acks' = {a \in acks : a.upto + Lifetime > c}
      BY <2>1, <1>2, <1>11 DEF YoungAcks
    <3>2. \A a \in acks : a.upto \in Nat
      BY <1>i DEF TypeOK, AckPacket
    <3> QED BY ONLY <3>1, <3>2, <1>5, Constants
  <2>2. CASE ~sends
    <3>1. k = 0 /\ acks' = acks
      BY <2>2, <1>2, <1>5
    <3> QED BY <3>1, <1>7
  <2> QED BY <2>1, <2>2
<1>20. AcksInv'
  <2> SUFFICES ASSUME NEW a \in acks' PROVE \E z \in 0..MaxMessages : AckInv(a, z)'
    BY DEF AcksInv
  <2>1. PICK z \in 0..MaxMessages : AckInv(a, z)
    BY <1>19, <1>i DEF AcksInv
  <2>2. a.upto \in Nat
    BY <1>19, <1>i DEF TypeOK, AckPacket
  <2>3. c < a.upto + MaxSeq
    <3>1. SndBack < a.upto + MaxSeq
      BY <2>1 DEF AckInv
    <3>2. c < a.upto + Lifetime \/ c = SndBack
      BY <1>19
    <3> QED BY ONLY <3>1, <3>2, <2>2, <1>5, Constants
  <2>4. (a.upto = c /\ z = 0) => rwnd.flags = NOSPACE
    <3>1. a.upto = c => a.upto = SndBack
      <4>1. a.upto <= RcvFront
        BY <2>1 DEF AckInv
      <4> QED BY ONLY <4>1, <2>2, <1>5, <1>e DEF EdgesFacts
    <3> QED BY <3>1, <2>1 DEF AckInv
  <2>5. AckInv(a, z)'
    BY <2>1, <2>3, <2>4, <1>1, <1>11, <1>12 DEF AckInv
  <2> QED BY <2>5
<1>21. /\ lst_time' \in [0..1 -> Timer]
       /\ lst_time'[1].t =>
            /\ lst_time'[0].t
            /\ lst_time'[1].front = lst_time'[0].back
            /\ lst_time'[1].back = back
       /\ (lst_time'[0].t /\ ~lst_time'[1].t) => lst_time'[0].back = back
       /\ swnd.front # back => lst_time'[0].t
  <2>1. timer.t /\ timer.front = from /\ timer.back = back
    OBVIOUS
  <2> HIDE DEF timer
  <2>2. CASE sends /\ first
    <3>1. lst_time' = [lst EXCEPT ![0] = timer]
      BY <1>2, <2>2
    <3>2. lst_time'[0] = timer /\ lst_time'[1] = lst[1]
      BY <3>1, <1>4
    <3>3. ~lst[1].t
      BY <2>2, <1>4 DEF first
    <3> QED BY <2>1, <3>1, <3>2, <3>3, <1>4, <1>15
  <2>3. CASE sends /\ ~first
    <3>1. lst_time' = [lst EXCEPT ![1] = timer]
      BY <1>2, <2>3
    <3>2. lst_time'[0] = lst[0] /\ lst_time'[1] = timer
      BY <3>1, <1>4
    <3>3. lst[0].t /\ from = lst[0].back
      BY <2>3, <1>4, <1>3 DEF first, from
    <3> QED BY <2>1, <3>1, <3>2, <3>3, <1>4, <1>15
  <2>4. CASE ~sends
    <3>1. lst_time' = lst /\ ~timeout /\ back = swnd.back
      BY <2>4, <1>2, <1>3, <1>5, <1>6, <1>7, <1>w DEF WrappedEdges
    <3> QED BY <3>1, <1>4
  <2> QED BY <2>2, <2>3, <2>4
<1>22. TypeOK'
  <2>1. acks' \subseteq AckPacket
    BY <1>19, <1>i DEF TypeOK
  <2> QED BY <2>1, <1>1, <1>8, <1>18, <1>21, <1>i DEF TypeOK
<1>23. TimersInv'
  BY <1>6, <1>8, <1>21 DEF TimersInv
<1>24. SenderInv'
  <2>1. Stores(swnd, SndFront, SndBack)'
    BY <1>9, <1>10, <1>11 DEF Stores
  <2> QED BY <2>1, <1>1, <1>5, <1>8, <1>10, <1>11, <1>i DEF SenderInv, UnackedIsKept, LastBefore
<1>25. ReceiverInv'
  <2>1. \A n \in RcvFront..(RcvBack - 1) :
          recv_buf.occ[SlotOf(n)] # 0 =>
              recv_buf.s[SlotOf(n)] = n /\ RcvFront < n /\ n < c
    <3> TAKE n \in RcvFront..(RcvBack - 1)
    <3> HAVE recv_buf.occ[SlotOf(n)] # 0
    <3>1. recv_buf.s[SlotOf(n)] = n /\ RcvFront < n /\ n < SndBack
      BY <1>i DEF ReceiverInv
    <3> QED BY <3>1, <1>5, <1>e DEF EdgesFacts
  <2> QED BY <2>1, <1>1, <1>11, <1>12, <1>i DEF ReceiverInv, Stores, LastBefore
<1>26. WindowsInv'
  <2>1. RcvFront <= c /\ SndFront <= RcvFront
    BY ONLY <1>5, <1>e DEF EdgesFacts
  <2>2. (SndFront = c /\ swnd.max_size = 0) => rwnd.flags = NOSPACE
    <3>1. SndFront = c => SndFront = SndBack
      BY ONLY <1>5, <1>e DEF EdgesFacts
    <3> QED BY <3>1, <1>i DEF WindowsInv
  <2> QED BY <2>1, <2>2, <1>1, <1>5, <1>8, <1>10, <1>11, <1>12, <1>i DEF WindowsInv
<1>27. EdgesAdvance
  BY ONLY <1>5, <1>10, <1>11, <1>12, <1>e DEF EdgesFacts, EdgesAdvance
<1> QED BY <1>17, <1>20, <1>22, <1>23, <1>24, <1>25, <1>26, <1>27 DEF IInv

-----------------------------------------------------------------------------
(* Thread R at the sending socket.  What an ACK says, read back.           *)
LEMMA AckMeans ==
    ASSUME IInv, NEW a \in acks
    PROVE  \E z \in 0..MaxMessages :
             /\ AckNumber(a) = SeqOf(a.upto - 1) /\ RecvSize(a) = z
             /\ a.upto \in Nat /\ a.upto - 1 \in Nat
             /\ a.upto <= RcvFront /\ a.upto + z <= RcvBack
             /\ SndBack < a.upto + MaxSeq
             /\ (a.upto = SndBack /\ z = 0) => rwnd.flags = NOSPACE
             /\ InWindow(AckNumber(a), swnd) <=> SndFront < a.upto
<1>e. EdgesFacts
  BY Edges
<1>1. PICK z \in 0..MaxMessages : AckInv(a, z)
  BY DEF IInv, AcksInv
<1>2. /\ a = Ack(SeqOf(a.upto - 1), z, a.upto)
      /\ 0 < a.upto /\ a.upto <= RcvFront
      /\ SndBack < a.upto + MaxSeq /\ a.upto + z <= RcvBack
      /\ (a.upto = SndBack /\ z = 0) => rwnd.flags = NOSPACE
  BY <1>1 DEF AckInv
<1>3. a.upto \in Nat
  BY DEF IInv, TypeOK, AckPacket
<1>4. a.upto - 1 \in Nat
  BY ONLY <1>2, <1>3
<1>5. AckNumber(a) = SeqOf(a.upto - 1) /\ RecvSize(a) = z
  <2>1. SeqOf(a.upto - 1) \in SeqNum
    BY <1>4, SeqOfType
  <2> QED BY <2>1, <1>2, AckTravels
<1>6. InWindow(AckNumber(a), swnd) <=> SndFront < a.upto
  <2>1. Stores(swnd, SndFront, SndBack)
    BY DEF IInv, SenderInv
  <2>2. SndBack <= (a.upto - 1) + MaxSeq /\ a.upto - 1 < SndFront + MaxSeq
    <3>1. /\ SndFront \in Nat /\ SndBack \in Nat /\ RcvFront \in Nat
          /\ SndBack <= SndFront + MaxMessages /\ RcvFront <= SndBack
      BY ONLY <1>e DEF EdgesFacts
    <3>2. a.upto <= RcvFront /\ SndBack < a.upto + MaxSeq
      BY ONLY <1>2
    <3>3. MaxSeq \in Nat /\ MaxMessages \in Nat /\ MaxMessages < MaxSeq
      BY ONLY Constants
    <3> QED BY ONLY <3>1, <3>2, <3>3, <1>3
  <2>3. InWindow(SeqOf(a.upto - 1), swnd) <=>
            SndFront <= a.upto - 1 /\ a.upto - 1 < SndBack
    BY ONLY <2>1, <2>2, <1>4, InWindowIsMembership
  <2>4. (SndFront <= a.upto - 1 /\ a.upto - 1 < SndBack) <=> SndFront < a.upto
    <3>1. /\ SndFront \in Nat /\ SndBack \in Nat /\ RcvFront \in Nat
          /\ RcvFront <= SndBack
      BY ONLY <1>e DEF EdgesFacts
    <3>2. a.upto <= RcvFront
      BY ONLY <1>2
    <3> QED BY ONLY <3>1, <3>2, <1>3
  <2> QED BY ONLY <2>3, <2>4, <1>5
<1> QED BY <1>2, <1>3, <1>4, <1>5, <1>6

(* A repeated acknowledgment of the last message before the window: its    *)
(* window size is counted from where the window starts.                    *)
LEMMA DuplicateAckIsForFront ==
    ASSUME IInv, NEW a \in acks, AckNumber(a) = swnd.ack_num
    PROVE  a.upto = SndFront
<1>e. EdgesFacts
  BY Edges
<1>1. /\ AckNumber(a) = SeqOf(a.upto - 1)
      /\ a.upto \in Nat /\ a.upto - 1 \in Nat /\ a.upto <= RcvFront
      /\ SndBack < a.upto + MaxSeq
  BY AckMeans
<1>2. swnd.ack_num = LastBefore(SndFront)
  BY DEF IInv, SenderInv
<1>3. SeqOf(a.upto - 1) # -1
  BY <1>1, SeqOfType, Constants DEF SeqNum
<1>4. SndFront # 0 /\ SeqOf(a.upto - 1) = SeqOf(SndFront - 1)
  BY <1>1, <1>2, <1>3 DEF LastBefore
<1>5. /\ SndFront - 1 \in Nat
      /\ a.upto - 1 < (SndFront - 1) + MaxSeq
      /\ SndFront - 1 < (a.upto - 1) + MaxSeq
  <2>1. /\ SndFront \in Nat /\ SndBack \in Nat /\ RcvFront \in Nat
        /\ SndFront <= SndBack /\ SndBack <= SndFront + MaxMessages
        /\ RcvFront <= SndBack
    BY ONLY <1>e DEF EdgesFacts
  <2>2. a.upto \in Nat /\ a.upto <= RcvFront /\ SndBack < a.upto + MaxSeq
    BY ONLY <1>1
  <2>3. MaxSeq \in Nat /\ MaxMessages \in Nat /\ MaxMessages < MaxSeq
    BY ONLY Constants
  <2>4. SndFront # 0
    BY ONLY <1>4
  <2> QED BY ONLY <2>1, <2>2, <2>3, <2>4
<1>6. a.upto - 1 = SndFront - 1
  BY ONLY <1>1, <1>4, <1>5, SeqOfInjective
<1>7. SndFront \in Nat /\ a.upto \in Nat
  BY ONLY <1>1, <1>e DEF EdgesFacts
<1> QED BY ONLY <1>6, <1>7

LEMMA DuplicateAckStep ==
    ASSUME IInv, NEW a \in acks, DuplicateAck(a), acks' \subseteq acks,
           lst_time' = lst_time, recv_buf' = recv_buf, rwnd' = rwnd,
           data' = data, sent' = sent, rcvd' = rcvd
    PROVE  IInv' /\ EdgesAdvance
<1>e. EdgesFacts
  BY Edges
<1>i. TypeOK /\ SenderInv /\ ReceiverInv /\ WindowsInv /\ DataInv /\ AcksInv /\ TimersInv
  BY DEF IInv
<1>1. PICK z \in 0..MaxMessages :
        /\ RecvSize(a) = z /\ a.upto + z <= RcvBack
        /\ (a.upto = SndBack /\ z = 0) => rwnd.flags = NOSPACE
  BY AckMeans
<1>2. a.upto = SndFront
  BY DuplicateAckIsForFront DEF DuplicateAck
<1>3. swnd \in SendWindow /\ swnd' = [swnd EXCEPT !.max_size = z] /\ send_buf' = send_buf
  BY <1>1, <1>i DEF DuplicateAck, TypeOK
<1>4. /\ swnd'.front = swnd.front /\ swnd'.back = swnd.back
      /\ swnd'.ack_num = swnd.ack_num /\ swnd'.max_size = z
      /\ swnd' \in SendWindow
  BY ONLY <1>3 DEF SendWindow
<1>5. SndFront' = SndFront /\ SndBack' = SndBack
  BY <1>3, <1>4 DEF SndFront, SndBack, WindowSize
<1>6. RcvFront' = RcvFront /\ RcvBack' = RcvBack
  BY DEF RcvFront, RcvBack, WindowSize
<1>7. TypeOK'
  BY <1>3, <1>4, <1>i DEF TypeOK
<1>8. SenderInv' /\ TimersInv'
  BY <1>3, <1>4, <1>5, <1>i DEF SenderInv, UnackedIsKept, Stores, LastBefore, TimersInv
<1>9. ReceiverInv' /\ DataInv'
  BY <1>5, <1>6, <1>i DEF ReceiverInv, Stores, LastBefore, DataInv
<1>10. WindowsInv'
  BY <1>1, <1>2, <1>4, <1>5, <1>6, <1>i DEF WindowsInv
<1>11. AcksInv'
  <2>1. \A b \in acks : \E y \in 0..MaxMessages : AckInv(b, y)'
    BY <1>5, <1>6, <1>e, AcksStay DEF EdgesFacts
  <2> QED BY <2>1 DEF AcksInv
<1>12. EdgesAdvance
  BY ONLY <1>5, <1>6, <1>e DEF EdgesFacts, EdgesAdvance
<1> QED BY <1>7, <1>8, <1>9, <1>10, <1>11, <1>12 DEF IInv

(* The slots an ACK for the k messages from SndFront on frees.             *)
LEMMA FreedSlots ==
    ASSUME IInv, NEW k \in Nat
    PROVE  Freed(k) = {SlotOf(SndFront + j) : j \in 0..(k - 1)}
<1>e. EdgesFacts
  BY Edges
<1>w. WrappedEdges
  BY Edges
<1>1. ASSUME NEW j \in 0..(k - 1)
      PROVE  SlotOf(Plus(swnd.front, j)) = SlotOf(SndFront + j)
  <2>1. j \in Nat /\ SndFront + j \in Nat /\ SndFront \in Nat
    BY <1>e DEF EdgesFacts
  <2>2. Plus(swnd.front, j) = SeqOf(SndFront + j)
    BY <2>1, <1>w, PlusSeqOf DEF WrappedEdges
  <2> QED BY <2>1, <2>2, SlotOfSeqOf
<1> QED BY <1>1 DEF Freed, SlotRun

(* A new acknowledgment moves the window's front to the first message it   *)
(* does not cover; exactly the slots of the messages before that are free. *)
LEMMA NewAckStep ==
    ASSUME IInv, NEW a \in acks, NEW k \in 1..MaxMessages, NewAck(a, k),
           acks' \subseteq acks,
           lst_time' = lst_time, recv_buf' = recv_buf, rwnd' = rwnd,
           data' = data, sent' = sent, rcvd' = rcvd
    PROVE  IInv' /\ EdgesAdvance
<1> DEFINE u == a.upto
<1>e. EdgesFacts
  BY Edges
<1>w. WrappedEdges
  BY Edges
<1>i. TypeOK /\ SenderInv /\ ReceiverInv /\ WindowsInv /\ DataInv /\ AcksInv /\ TimersInv
  BY DEF IInv
<1>1. PICK z \in 0..MaxMessages :
        /\ AckNumber(a) = SeqOf(u - 1) /\ RecvSize(a) = z
        /\ u \in Nat /\ u - 1 \in Nat
        /\ u <= RcvFront /\ u + z <= RcvBack
        /\ (u = SndBack /\ z = 0) => rwnd.flags = NOSPACE
        /\ InWindow(AckNumber(a), swnd) <=> SndFront < u
  BY AckMeans
<1>2. /\ InWindow(AckNumber(a), swnd)
      /\ k <= WindowSize(swnd) /\ Plus(swnd.front, k - 1) = AckNumber(a)
      /\ swnd' = [swnd EXCEPT !.front    = Plus(@, k),
                              !.ack_num  = AckNumber(a),
                              !.max_size = RecvSize(a)]
      /\ send_buf' =
           [send_buf EXCEPT
              !.s    = [i \in Slots |-> IF i \in Freed(k) THEN NoMsg ELSE @[i]],
              !.occ  = [i \in Slots |-> IF i \in Freed(k) THEN 0 ELSE @[i]],
              !.size = send_buf.size - k]
  BY DEF NewAck, Left
<1>3. SndFront < u /\ k <= SndBack - SndFront /\ k \in Nat /\ k - 1 \in Nat
  <2>1. WindowSize(swnd) = SndBack - SndFront
    BY ONLY <1>e DEF EdgesFacts
  <2>2. k \in Nat /\ k - 1 \in Nat
    BY ONLY k \in 1..MaxMessages, Constants
  <2> QED BY ONLY <2>1, <2>2, <1>1, <1>2
<1>u. u \in Nat /\ u - 1 \in Nat /\ u <= RcvFront
  BY <1>1
<1> HIDE DEF u
<1>4. SndFront + k = u
  <2>1. SeqOf(SndFront + (k - 1)) = SeqOf(u - 1)
    BY <1>1, <1>2, <1>3, <1>w, <1>e, PlusSeqOf DEF WrappedEdges, EdgesFacts
  <2>2. /\ SndFront + (k - 1) \in Nat
        /\ SndFront + (k - 1) < (u - 1) + MaxSeq
        /\ u - 1 < SndFront + (k - 1) + MaxSeq
    BY ONLY <1>u, <1>3, <1>e, Constants DEF EdgesFacts
  <2>3. SndFront + (k - 1) = u - 1
    BY ONLY <1>u, <2>1, <2>2, SeqOfInjective
  <2> QED BY ONLY <1>u, <1>3, <2>3, <1>e DEF EdgesFacts
<1>5. Plus(swnd.front, k) = SeqOf(u)
  BY <1>3, <1>4, <1>w, <1>e, PlusSeqOf DEF WrappedEdges, EdgesFacts
<1>6. u <= SndBack /\ SndFront <= u
  BY ONLY <1>u, <1>3, <1>e DEF EdgesFacts
<1>7. /\ swnd'.front = SeqOf(u) /\ swnd'.back = swnd.back
      /\ swnd'.ack_num = SeqOf(u - 1) /\ swnd'.max_size = z
      /\ swnd' \in SendWindow
  <2>1. SeqOf(u) \in SeqNum /\ SeqOf(u - 1) \in SeqNum
    BY <1>1, SeqOfType
  <2>2. swnd \in SendWindow
    BY <1>i DEF TypeOK
  <2>3. swnd' = [swnd EXCEPT !.front = SeqOf(u), !.ack_num = SeqOf(u - 1), !.max_size = z]
    BY ONLY <1>1, <1>2, <1>5, <2>2 DEF SendWindow
  <2> QED BY ONLY <2>1, <2>2, <2>3 DEF SendWindow
<1>8. /\ send_buf \in Buffer
      /\ send_buf.s \in [Slots -> Message \cup {NoMsg}]
      /\ send_buf.occ \in [Slots -> {0, 1}]
  BY <1>i DEF TypeOK, Buffer
<1>9. /\ send_buf'.s   = [i \in Slots |-> IF i \in Freed(k) THEN NoMsg ELSE send_buf.s[i]]
      /\ send_buf'.occ = [i \in Slots |-> IF i \in Freed(k) THEN 0 ELSE send_buf.occ[i]]
      /\ send_buf'.size = send_buf.size - k
      /\ send_buf'.ptr = send_buf.ptr
      /\ send_buf' \in Buffer
  <2> DEFINE s1 == [i \in Slots |-> IF i \in Freed(k) THEN NoMsg ELSE send_buf.s[i]]
             o1 == [i \in Slots |-> IF i \in Freed(k) THEN 0 ELSE send_buf.occ[i]]
             z1 == send_buf.size - k
  <2>1. send_buf' = [send_buf EXCEPT !.s = s1, !.occ = o1, !.size = z1]
    BY ONLY <1>2
  <2>2. s1 \in [Slots -> Message \cup {NoMsg}] /\ o1 \in [Slots -> {0, 1}] /\ z1 \in Int
    BY ONLY <1>8, <1>3, <1>e DEF EdgesFacts
  <2> HIDE DEF s1, o1, z1
  <2>3. /\ send_buf'.s = s1 /\ send_buf'.occ = o1 /\ send_buf'.size = z1
        /\ send_buf'.ptr = send_buf.ptr /\ send_buf' \in Buffer
    BY ONLY <2>1, <2>2, <1>8 DEF Buffer
  <2> QED BY ONLY <2>3 DEF s1, o1, z1
<1>10. SndFront' = u
  <2>1. SndFront' = sent' - send_buf'.size
    BY DEF SndFront
  <2> QED BY ONLY <2>1, <1>9, <1>3, <1>4, sent' = sent, <1>e DEF EdgesFacts
<1>11. Stores(swnd', u, SndBack)
  <2>1. u \in Nat /\ SndBack \in Nat /\ u <= SndBack /\ SndBack < u + MaxSeq
    BY ONLY <1>1, <1>6, <1>e, Constants DEF EdgesFacts
  <2>2. swnd'.front = SeqOf(u) /\ swnd'.back = SeqOf(SndBack)
    BY <1>7, <1>w DEF WrappedEdges
  <2> QED BY ONLY <2>1, <2>2 DEF Stores
<1>12. SndBack' = SndBack
  <2>1. WindowSize(swnd') = SndBack - u
    BY ONLY <1>11, WindowSizeIsLength
  <2>2. SndBack' = SndFront' + WindowSize(swnd')
    BY DEF SndBack, WindowSize
  <2> QED BY ONLY <2>1, <2>2, <1>1, <1>10, <1>e DEF EdgesFacts
<1>13. RcvFront' = RcvFront /\ RcvBack' = RcvBack
  BY DEF RcvFront, RcvBack, WindowSize
<1>14. Freed(k) = {SlotOf(SndFront + j) : j \in 0..(k - 1)}
  BY <1>3, FreedSlots
<1>15. UnackedIsKept'
  <2> SUFFICES ASSUME NEW n \in u..(sent - 1)
               PROVE  send_buf'.occ[SlotOf(n)] = 1 /\ send_buf'.s[SlotOf(n)] = n
    BY <1>10 DEF UnackedIsKept
  <2>1. n \in Nat /\ n \in SndFront..(sent - 1)
    BY ONLY <1>1, <1>6, n \in u..(sent - 1), <1>e DEF EdgesFacts
  <2>2. SlotOf(n) \in Slots
    BY <2>1, SlotOfType
  <2>3. SlotOf(n) \notin Freed(k)
    <3> SUFFICES ASSUME NEW j \in 0..(k - 1), SlotOf(n) = SlotOf(SndFront + j) PROVE FALSE
      BY <1>14
    <3>1. /\ SndFront + j \in Nat /\ n # SndFront + j
          /\ n < SndFront + j + MaxMessages /\ SndFront + j < n + MaxMessages
      BY ONLY j \in 0..(k - 1), n \in u..(sent - 1), <1>1, <1>3, <1>4, <2>1, <1>e,
         Constants DEF EdgesFacts
    <3> QED BY <2>1, <3>1, SlotOfInjective
  <2>4. send_buf.occ[SlotOf(n)] = 1 /\ send_buf.s[SlotOf(n)] = n
    BY <2>1, <1>i DEF SenderInv, UnackedIsKept
  <2> QED BY <2>2, <2>3, <2>4, <1>9
<1>16. ASSUME NEW n \in sent..(u + MaxMessages - 1)
       PROVE  send_buf'.occ[SlotOf(n)] = 0
  <2>1. n \in Nat
    BY <1>e DEF EdgesFacts
  <2>2. SlotOf(n) \in Slots
    BY <2>1, SlotOfType
  <2>3. CASE n < SndFront + MaxMessages
    <3>1. n \in sent..(SndFront + MaxMessages - 1)
      BY ONLY <2>1, <2>3, n \in sent..(u + MaxMessages - 1), <1>e, Constants DEF EdgesFacts
    <3>2. send_buf.occ[SlotOf(n)] = 0
      BY <3>1, <1>i DEF SenderInv
    <3> QED BY <2>2, <3>2, <1>9
  <2>4. CASE ~(n < SndFront + MaxMessages)
    <3> DEFINE j == n - SndFront - MaxMessages
    <3>1. j \in 0..(k - 1) /\ SndFront + j \in Nat /\ SndFront + j + MaxMessages = n
      BY ONLY <2>1, <2>4, n \in sent..(u + MaxMessages - 1), <1>1, <1>3, <1>4, <1>e,
         Constants DEF EdgesFacts
    <3> HIDE DEF j
    <3>2. SlotOf(n) = SlotOf(SndFront + j)
      BY <3>1, SlotOfPeriod
    <3>3. SlotOf(n) \in Freed(k)
      BY <3>1, <3>2, <1>14
    <3> QED BY <2>2, <3>3, <1>9
  <2> QED BY <2>3, <2>4
<1>17. SenderInv'
  <2>1. Stores(swnd, SndFront, SndBack)'
    BY <1>10, <1>11, <1>12 DEF Stores
  <2>2. SndBack <= sent /\ sent <= u + MaxMessages
    BY ONLY <1>1, <1>6, <1>e, Constants DEF EdgesFacts
  <2>3. send_buf'.ptr = SlotOf(sent)
    BY <1>9, <1>i DEF SenderInv
  <2>4. swnd'.ack_num = LastBefore(u)
    BY <1>1, <1>7 DEF LastBefore
  <2>5. (LastBefore(SndFront))' = LastBefore(u)
    BY <1>10 DEF LastBefore
  <2>6. \A n \in sent..(u + MaxMessages - 1) : send_buf'.occ[SlotOf(n)] = 0
    BY <1>16
  <2> QED BY <1>10, <1>12, <1>15, <2>1, <2>2, <2>3, <2>4, <2>5, <2>6 DEF SenderInv
<1>18. TypeOK'
  BY <1>7, <1>9, <1>i DEF TypeOK
<1>19. TimersInv'
  <2>1. swnd'.front # swnd.back => swnd.front # swnd.back
    <3> SUFFICES ASSUME SeqOf(SndFront) = SeqOf(SndBack) PROVE u = SndBack
      BY <1>7, <1>w DEF WrappedEdges
    <3>1. SndFront = SndBack
      BY <1>e, Constants, SeqOfInjective DEF EdgesFacts
    <3> QED BY ONLY <3>1, <1>1, <1>6, <1>e DEF EdgesFacts
  <2> QED BY <2>1, <1>7, <1>i DEF TimersInv
<1>20. ReceiverInv' /\ DataInv'
  BY <1>12, <1>13, <1>i DEF ReceiverInv, Stores, LastBefore, DataInv
<1>21. WindowsInv'
  BY <1>1, <1>7, <1>10, <1>12, <1>13, <1>i DEF WindowsInv
<1>22. AcksInv'
  <2>1. \A b \in acks : \E y \in 0..MaxMessages : AckInv(b, y)'
    BY <1>12, <1>13, <1>e, AcksStay DEF EdgesFacts
  <2> QED BY <2>1 DEF AcksInv
<1>23. EdgesAdvance
  BY ONLY <1>1, <1>6, <1>10, <1>12, <1>13, <1>e DEF EdgesFacts, EdgesAdvance
<1> QED BY <1>17, <1>18, <1>19, <1>20, <1>21, <1>22, <1>23 DEF IInv

LEMMA RVisitSenderStep ==
    ASSUME IInv, NEW a \in acks, RVisitSender(a)
    PROVE  IInv' /\ EdgesAdvance
<1>1. /\ acks' \subseteq acks
      /\ lst_time' = lst_time /\ recv_buf' = recv_buf /\ rwnd' = rwnd
      /\ data' = data /\ sent' = sent /\ rcvd' = rcvd
  <2>1. acks' \in Taken(acks, a)
    BY DEF RVisitSender
  <2>2. acks' \subseteq acks
    BY <2>1 DEF Taken
  <2> QED BY <2>2 DEF RVisitSender, receiver
<1>2. CASE DuplicateAck(a)
  BY <1>1, <1>2, DuplicateAckStep
<1>3. CASE \E k \in 1..MaxMessages : NewAck(a, k)
  BY <1>1, <1>3, NewAckStep
<1>4. CASE StrayAck(a)
  <2>1. swnd' = swnd /\ send_buf' = send_buf
    BY <1>4 DEF StrayAck
  <2> QED BY <1>1, <2>1, FewerPackets
<1> QED BY <1>2, <1>3, <1>4 DEF RVisitSender

-----------------------------------------------------------------------------
(* Thread R at the receiving socket.  What a visit must establish: the     *)
(* receiver's half of the invariant, and that the ACKs it sends are true.  *)
LEMMA ReceiverVisit ==
    ASSUME IInv, send_buf' = send_buf, swnd' = swnd, lst_time' = lst_time,
           sent' = sent, rcvd' = rcvd, data' \subseteq data,
           recv_buf' \in Buffer, rwnd' \in RecvWindow, ReceiverInv',
           RcvFront' \in Nat, RcvFront <= RcvFront', RcvFront' <= SndBack,
           rwnd'.flags = rwnd.flags \/ RcvFront < SndBack,
           \A b \in acks' \ acks :
               b \in AckPacket /\ \E z \in 0..MaxMessages : AckInv(b, z)'
    PROVE  IInv' /\ EdgesAdvance
<1>e. EdgesFacts
  BY Edges
<1>i. TypeOK /\ SenderInv /\ WindowsInv /\ DataInv /\ AcksInv /\ TimersInv
  BY DEF IInv
<1>1. SndFront' = SndFront /\ SndBack' = SndBack
  BY DEF SndFront, SndBack, WindowSize
<1>2. RcvBack' = RcvBack
  BY DEF RcvBack
<1>3. TypeOK'
  <2>1. acks' \subseteq AckPacket
    BY <1>i DEF TypeOK
  <2> QED BY <2>1, <1>i DEF TypeOK
<1>4. SenderInv' /\ TimersInv' /\ DataInv'
  BY <1>1, <1>i DEF SenderInv, UnackedIsKept, Stores, LastBefore, TimersInv, DataInv
<1>5. WindowsInv'
  <2>1. SndFront <= RcvFront' /\ (SndFront = SndBack => ~(RcvFront < SndBack))
    BY ONLY RcvFront' \in Nat, RcvFront <= RcvFront', <1>e DEF EdgesFacts
  <2> QED BY <1>1, <1>2, <2>1, <1>i DEF WindowsInv
<1>6. AcksInv'
  <2>1. \A a \in acks : \E z \in 0..MaxMessages : AckInv(a, z)'
    BY <1>1, <1>2, <1>e, AcksStay DEF EdgesFacts
  <2> QED BY <2>1 DEF AcksInv
<1>7. EdgesAdvance
  BY ONLY <1>1, <1>2, RcvFront' \in Nat, RcvFront <= RcvFront', <1>e
     DEF EdgesFacts, EdgesAdvance
<1> QED BY <1>3, <1>4, <1>5, <1>6, <1>7 DEF IInv

(* An ACK the receiver builds from where its window starts is true, and    *)
(* stays so when the window moves on.                                      *)
LEMMA LastAckIsTrue ==
    ASSUME IInv, NEW b, b = Ack(rwnd.ack_num, WindowSize(rwnd), RcvFront),
           0 < RcvFront, SndBack' = SndBack, RcvBack' = RcvBack,
           RcvFront' \in Nat, RcvFront <= RcvFront',
           RcvFront = RcvBack => rwnd'.flags = NOSPACE
    PROVE  b \in AckPacket /\ \E z \in 0..MaxMessages : AckInv(b, z)'
<1>e. EdgesFacts
  BY Edges
<1>z. PICK z \in 0..MaxMessages : z = RcvBack - RcvFront
  <2>1. RcvBack - RcvFront \in 0..MaxMessages
    BY ONLY <1>e, Constants DEF EdgesFacts
  <2> QED BY <2>1
<1>1. z \in 0..MaxMessages /\ WindowSize(rwnd) = z /\ RcvFront - 1 \in Nat
  BY ONLY <1>e, <1>z, 0 < RcvFront, Constants DEF EdgesFacts
<1>2. rwnd.ack_num = SeqOf(RcvFront - 1)
  <2>1. RcvFront # 0
    BY ONLY <1>e, 0 < RcvFront DEF EdgesFacts
  <2> QED BY <2>1 DEF IInv, ReceiverInv, LastBefore
<1>3. SeqOf(RcvFront - 1) \in SeqNum
  BY <1>1, SeqOfType
<1>4. b = Ack(SeqOf(RcvFront - 1), z, RcvFront)
  BY <1>1, <1>2
<1>5. b.upto = RcvFront /\ b.ack \in 0..255 /\ b.size \in 0..255
  BY <1>1, <1>3, <1>4, AckTravels, SMTT(60)
<1>6. b \in AckPacket
  BY <1>4, <1>5, <1>e DEF Ack, AckPacket, EdgesFacts
<1>7. /\ SndBack < RcvFront + MaxSeq /\ RcvFront + z <= RcvBack
      /\ z = 0 => RcvFront = RcvBack
  BY ONLY <1>e, <1>z, Constants DEF EdgesFacts
<1>8. AckInv(b, z)'
  BY <1>4, <1>5, <1>7, <1>e DEF AckInv, EdgesFacts
<1> QED BY <1>1, <1>6, <1>8

LEMMA NoSpaceAcksAreLast ==
    ASSUME IInv, NEW due \in BOOLEAN, NEW b \in NoSpaceAcks(due)
    PROVE  /\ b = Ack(rwnd.ack_num, WindowSize(rwnd), RcvFront)
           /\ 0 < RcvFront /\ RcvFront # RcvBack
<1>e. EdgesFacts
  BY Edges
<1>1. /\ b = Ack(rwnd.ack_num, WindowSize(rwnd), RcvFront)
      /\ rwnd.flags = NOSPACE /\ WindowSize(rwnd) > 0
  BY DEF NoSpaceAcks
<1>2. 0 < RcvFront
  BY <1>1 DEF IInv, ReceiverInv
<1> QED BY <1>1, <1>2, <1>e DEF EdgesFacts

(* No packet for the receiving socket, or one that is not news: nothing    *)
(* changes but the ACKs.                                                   *)
LEMMA OnlyAcksStep ==
    ASSUME IInv, send_buf' = send_buf, swnd' = swnd, lst_time' = lst_time,
           sent' = sent, rcvd' = rcvd, data' \subseteq data,
           recv_buf' = recv_buf, rwnd' = rwnd,
           \A b \in acks' \ acks :
               b = Ack(rwnd.ack_num, WindowSize(rwnd), RcvFront) /\ 0 < RcvFront
    PROVE  IInv' /\ EdgesAdvance
<1>e. EdgesFacts
  BY Edges
<1>1. SndBack' = SndBack /\ RcvFront' = RcvFront /\ RcvBack' = RcvBack
  BY DEF SndFront, SndBack, RcvFront, RcvBack, WindowSize
<1>2. ReceiverInv'
  BY <1>1 DEF IInv, ReceiverInv, Stores, LastBefore
<1>3. recv_buf' \in Buffer /\ rwnd' \in RecvWindow
  BY DEF IInv, TypeOK
<1>4. RcvFront' \in Nat /\ RcvFront <= RcvFront' /\ RcvFront' <= SndBack
  BY ONLY <1>1, <1>e DEF EdgesFacts
<1>5. RcvFront = RcvBack => rwnd'.flags = NOSPACE
  BY DEF IInv, ReceiverInv
<1>6. \A b \in acks' \ acks :
          b \in AckPacket /\ \E z \in 0..MaxMessages : AckInv(b, z)'
  BY <1>1, <1>4, <1>5, LastAckIsTrue
<1> QED BY <1>2, <1>3, <1>4, <1>6, ReceiverVisit

LEMMA RVisitIdleStep == IInv /\ RVisitIdle => IInv' /\ EdgesAdvance
<1> SUFFICES ASSUME IInv, RVisitIdle PROVE IInv' /\ EdgesAdvance
  OBVIOUS
<1>1. /\ send_buf' = send_buf /\ swnd' = swnd /\ lst_time' = lst_time
      /\ sent' = sent /\ rcvd' = rcvd /\ data' = data
      /\ recv_buf' = recv_buf /\ rwnd' = rwnd
      /\ acks' = acks \cup NoSpaceAcks(TRUE)
  BY DEF RVisitIdle, sender, receiver
<1>2. \A b \in acks' \ acks :
          b = Ack(rwnd.ack_num, WindowSize(rwnd), RcvFront) /\ 0 < RcvFront
  BY <1>1, NoSpaceAcksAreLast
<1> QED BY <1>1, <1>2, OnlyAcksStep

(* What a data packet is: the message it carries, in its slot; in the      *)
(* window or not as the message is.                                        *)
LEMMA DataMeans ==
    ASSUME IInv, NEW d \in data
    PROVE  /\ d.msg \in Nat /\ d.msg \in Message /\ d.msg < SndBack
           /\ SeqNumber(d) = SeqOf(d.msg) /\ SlotOf(SeqNumber(d)) = SlotOf(d.msg)
           /\ InWindow(SeqNumber(d), rwnd) <=> RcvFront <= d.msg /\ d.msg < RcvBack
<1>e. EdgesFacts
  BY Edges
<1>1. /\ d.msg \in Nat /\ d = Data(SeqOf(d.msg), d.msg)
      /\ d.msg < SndBack /\ SndBack <= d.msg + Lifetime
  BY DEF IInv, DataInv
<1>2. SeqNumber(d) = SeqOf(d.msg)
  <2>1. SeqOf(d.msg) \in SeqNum
    BY <1>1, SeqOfType
  <2> QED BY <2>1, <1>1, SeqTravels
<1>3. SlotOf(SeqNumber(d)) = SlotOf(d.msg)
  BY <1>1, <1>2, SlotOfSeqOf
<1>4. InWindow(SeqNumber(d), rwnd) <=> RcvFront <= d.msg /\ d.msg < RcvBack
  <2>1. Stores(rwnd, RcvFront, RcvBack)
    BY DEF IInv, ReceiverInv
  <2>2. RcvBack <= d.msg + MaxSeq /\ d.msg < RcvFront + MaxSeq
    BY ONLY <1>1, <1>e, Constants, SMTT(60) DEF EdgesFacts
  <2> QED BY ONLY <1>1, <1>2, <2>1, <2>2, InWindowIsMembership
<1>5. d.msg \in Message
  <2>1. sent <= NMsgs
    BY Constants DEF IInv, TypeOK
  <2> QED BY ONLY <1>1, <2>1, <1>e, Constants DEF EdgesFacts, Message
<1> QED BY <1>1, <1>2, <1>3, <1>4, <1>5

(* Data that is already there: NOSPACE is reset, and may be, because the   *)
(* sender has something under way.                                         *)
LEMMA DataAgainStep ==
    ASSUME IInv, NEW d \in data, DataAgain(SeqNumber(d)),
           send_buf' = send_buf, swnd' = swnd, lst_time' = lst_time,
           sent' = sent, rcvd' = rcvd, data' \subseteq data,
           \A b \in acks' \ acks :
               /\ b = Ack(rwnd.ack_num, WindowSize(rwnd), RcvFront)
               /\ 0 < RcvFront /\ RcvFront # RcvBack
    PROVE  IInv' /\ EdgesAdvance
<1>e. EdgesFacts
  BY Edges
<1>i. TypeOK /\ ReceiverInv
  BY DEF IInv
<1>1. RcvFront <= d.msg /\ d.msg < RcvBack /\ d.msg < SndBack /\ d.msg \in Nat
  BY DataMeans DEF DataAgain
<1>2. RcvFront < SndBack /\ RcvFront # RcvBack
  BY ONLY <1>1, <1>e DEF EdgesFacts
<1>3. /\ rwnd'.front = rwnd.front /\ rwnd'.back = rwnd.back
      /\ rwnd'.ack_num = rwnd.ack_num /\ rwnd'.flags = 0
      /\ rwnd' \in RecvWindow /\ recv_buf' = recv_buf
  <2>1. rwnd \in RecvWindow
    BY <1>i DEF TypeOK
  <2>2. rwnd' = [rwnd EXCEPT !.flags = 0] /\ recv_buf' = recv_buf
    BY DEF DataAgain
  <2> QED BY ONLY <2>1, <2>2 DEF RecvWindow
<1>4. SndBack' = SndBack /\ RcvFront' = RcvFront /\ RcvBack' = RcvBack
  BY <1>3 DEF SndFront, SndBack, RcvFront, RcvBack, WindowSize
<1>5. ReceiverInv'
  BY <1>2, <1>3, <1>4, <1>i DEF ReceiverInv, Stores, LastBefore, NOSPACE
<1>6. RcvFront' \in Nat /\ RcvFront <= RcvFront' /\ RcvFront' <= SndBack
  BY ONLY <1>4, <1>e DEF EdgesFacts
<1>7. \A b \in acks' \ acks :
          b \in AckPacket /\ \E z \in 0..MaxMessages : AckInv(b, z)'
  BY <1>2, <1>4, <1>6, LastAckIsTrue
<1>8. recv_buf' \in Buffer
  BY <1>3, <1>i DEF TypeOK
<1> QED BY <1>2, <1>3, <1>5, <1>6, <1>7, <1>8, ReceiverVisit

(* Storing a message changes its own slot only.                            *)
LEMMA StoredFacts ==
    ASSUME IInv, NEW d \in data, recv_buf' = Stored(SeqNumber(d), d.msg)
    PROVE  /\ recv_buf'.ptr = recv_buf.ptr /\ recv_buf' \in Buffer
           /\ recv_buf'.occ \in [Slots -> {0, 1}]
           /\ recv_buf'.occ[SlotOf(d.msg)] = 1
           /\ recv_buf'.s[SlotOf(d.msg)] = d.msg
           /\ \A n \in Nat :
                 n # d.msg /\ n < d.msg + MaxMessages /\ d.msg < n + MaxMessages
                 => /\ recv_buf'.occ[SlotOf(n)] = recv_buf.occ[SlotOf(n)]
                    /\ recv_buf'.s[SlotOf(n)] = recv_buf.s[SlotOf(n)]
<1> DEFINE i == SlotOf(d.msg)
<1>1. d.msg \in Nat /\ d.msg \in Message /\ SlotOf(SeqNumber(d)) = i
  BY DataMeans
<1>2. i \in Slots /\ \A n \in Nat : SlotOf(n) \in Slots
  BY <1>1, SlotOfType
<1>3. recv_buf \in Buffer
  BY DEF IInv, TypeOK
<1>4. recv_buf' = [recv_buf EXCEPT !.s[i] = d.msg, !.occ[i] = 1, !.size = @ + 1]
  BY <1>1 DEF Stored
<1>5. \A n \in Nat :
          n # d.msg /\ n < d.msg + MaxMessages /\ d.msg < n + MaxMessages
          => SlotOf(n) # i
  BY <1>1, SlotOfInjective
<1> HIDE DEF i
<1>6. /\ recv_buf'.s = [recv_buf.s EXCEPT ![i] = d.msg]
      /\ recv_buf'.occ = [recv_buf.occ EXCEPT ![i] = 1]
      /\ recv_buf'.ptr = recv_buf.ptr
      /\ recv_buf' \in Buffer
  <2> DEFINE s1 == [recv_buf.s EXCEPT ![i] = d.msg]
             o1 == [recv_buf.occ EXCEPT ![i] = 1]
             z1 == recv_buf.size + 1
  <2>1. recv_buf' = [recv_buf EXCEPT !.s = s1, !.occ = o1, !.size = z1]
    BY ONLY <1>3, <1>4 DEF Buffer
  <2>2. s1 \in [Slots -> Message \cup {NoMsg}] /\ o1 \in [Slots -> {0, 1}] /\ z1 \in Int
    BY ONLY <1>1, <1>2, <1>3 DEF Buffer
  <2> HIDE DEF s1, o1, z1
  <2>3. /\ recv_buf'.s = s1 /\ recv_buf'.occ = o1
        /\ recv_buf'.ptr = recv_buf.ptr /\ recv_buf' \in Buffer
    BY ONLY <2>1, <2>2, <1>3 DEF Buffer
  <2> QED BY ONLY <2>3 DEF s1, o1
<1>7. /\ recv_buf.s \in [Slots -> Message \cup {NoMsg}]
      /\ recv_buf.occ \in [Slots -> {0, 1}]
      /\ recv_buf'.occ \in [Slots -> {0, 1}]
  BY ONLY <1>3, <1>6 DEF Buffer
<1>8. recv_buf'.occ[i] = 1 /\ recv_buf'.s[i] = d.msg
  BY ONLY <1>2, <1>6, <1>7
<1>9. ASSUME NEW j \in Slots, j # i
      PROVE  recv_buf'.occ[j] = recv_buf.occ[j] /\ recv_buf'.s[j] = recv_buf.s[j]
  BY ONLY <1>2, <1>6, <1>7, <1>9
<1> QED BY <1>2, <1>5, <1>6, <1>7, <1>8, <1>9 DEF i

LEMMA DataAheadStep ==
    ASSUME IInv, NEW d \in data, DataAhead(SeqNumber(d), d.msg),
           send_buf' = send_buf, swnd' = swnd, lst_time' = lst_time,
           sent' = sent, rcvd' = rcvd, data' \subseteq data,
           \A b \in acks' \ acks :
               /\ b = Ack(rwnd.ack_num, WindowSize(rwnd), RcvFront)
               /\ 0 < RcvFront /\ RcvFront # RcvBack
    PROVE  IInv' /\ EdgesAdvance
<1> DEFINE m == d.msg
<1>e. EdgesFacts
  BY Edges
<1>w. WrappedEdges
  BY Edges
<1>i. TypeOK /\ ReceiverInv
  BY DEF IInv
<1>1. /\ RcvFront <= m /\ m < RcvBack /\ m < SndBack /\ m \in Nat
      /\ SeqNumber(d) = SeqOf(m)
  BY DataMeans DEF DataAhead
<1>2. m # RcvFront
  BY <1>1, <1>w DEF DataAhead, WrappedEdges
<1>3. RcvFront < SndBack /\ RcvFront # RcvBack
  BY ONLY <1>1, <1>e DEF EdgesFacts
<1>4. /\ rwnd'.front = rwnd.front /\ rwnd'.back = rwnd.back
      /\ rwnd'.ack_num = rwnd.ack_num /\ rwnd'.flags = 0
      /\ rwnd' \in RecvWindow
  <2>1. rwnd \in RecvWindow
    BY <1>i DEF TypeOK
  <2>2. rwnd' = [rwnd EXCEPT !.flags = 0]
    BY DEF DataAhead
  <2> QED BY ONLY <2>1, <2>2 DEF RecvWindow
<1>5. /\ recv_buf'.ptr = recv_buf.ptr /\ recv_buf' \in Buffer
      /\ recv_buf'.occ[SlotOf(m)] = 1 /\ recv_buf'.s[SlotOf(m)] = m
      /\ \A n \in Nat :
            n # m /\ n < m + MaxMessages /\ m < n + MaxMessages
            => /\ recv_buf'.occ[SlotOf(n)] = recv_buf.occ[SlotOf(n)]
               /\ recv_buf'.s[SlotOf(n)] = recv_buf.s[SlotOf(n)]
  BY StoredFacts DEF DataAhead
<1> HIDE DEF m
<1>6. SndBack' = SndBack /\ RcvFront' = RcvFront /\ RcvBack' = RcvBack
  BY <1>4 DEF SndFront, SndBack, RcvFront, RcvBack, WindowSize
<1>7. ASSUME NEW n \in Len(rcvd)..(RcvBack - 1), n # m
      PROVE  /\ recv_buf'.occ[SlotOf(n)] = recv_buf.occ[SlotOf(n)]
             /\ recv_buf'.s[SlotOf(n)] = recv_buf.s[SlotOf(n)]
  <2>1. n \in Nat /\ n < m + MaxMessages /\ m < n + MaxMessages
    BY ONLY <1>1, n \in Len(rcvd)..(RcvBack - 1), <1>e, Constants DEF EdgesFacts
  <2> QED BY <2>1, <1>5, <1>7
<1>8. ReceiverInv'
  <2>1. ASSUME NEW n \in Len(rcvd)..(RcvFront - 1)
        PROVE  recv_buf'.occ[SlotOf(n)] = 1 /\ recv_buf'.s[SlotOf(n)] = n
    <3>1. n \in Len(rcvd)..(RcvBack - 1) /\ n # m
      BY ONLY <1>1, n \in Len(rcvd)..(RcvFront - 1), <1>e DEF EdgesFacts
    <3>2. recv_buf.occ[SlotOf(n)] = 1 /\ recv_buf.s[SlotOf(n)] = n
      BY <1>i DEF ReceiverInv
    <3> QED BY <3>1, <3>2, <1>7
  <2>2. ASSUME NEW n \in RcvFront..(RcvBack - 1), recv_buf'.occ[SlotOf(n)] # 0
        PROVE  recv_buf'.s[SlotOf(n)] = n /\ RcvFront < n /\ n < SndBack
    <3>1. CASE n = m
      <4>1. RcvFront < m
        BY ONLY <1>1, <1>2, <1>e DEF EdgesFacts
      <4> QED BY <3>1, <4>1, <1>1, <1>5
    <3>2. CASE n # m
      <4>1. n \in Len(rcvd)..(RcvBack - 1)
        BY ONLY n \in RcvFront..(RcvBack - 1), <1>e DEF EdgesFacts
      <4>2. recv_buf.occ[SlotOf(n)] # 0 /\ recv_buf'.s[SlotOf(n)] = recv_buf.s[SlotOf(n)]
        BY <2>2, <3>2, <4>1, <1>7
      <4> QED BY <4>2, <1>i DEF ReceiverInv
    <3> QED BY <3>1, <3>2
  <2>3. \A n \in Len(rcvd)..(RcvFront - 1) :
            recv_buf'.occ[SlotOf(n)] = 1 /\ recv_buf'.s[SlotOf(n)] = n
    BY <2>1
  <2>4. \A n \in RcvFront..(RcvBack - 1) :
            recv_buf'.occ[SlotOf(n)] # 0 =>
                recv_buf'.s[SlotOf(n)] = n /\ RcvFront < n /\ n < SndBack
    BY <2>2
  <2> QED BY <2>3, <2>4, <1>3, <1>4, <1>5, <1>6, <1>i
          DEF ReceiverInv, Stores, LastBefore, NOSPACE
<1>9. RcvFront' \in Nat /\ RcvFront <= RcvFront' /\ RcvFront' <= SndBack
  BY ONLY <1>6, <1>e DEF EdgesFacts
<1>10. \A b \in acks' \ acks :
           b \in AckPacket /\ \E z \in 0..MaxMessages : AckInv(b, z)'
  BY <1>3, <1>6, <1>9, LastAckIsTrue
<1> QED BY <1>3, <1>4, <1>5, <1>8, <1>9, <1>10, ReceiverVisit

(* The next message in order: the window's front moves past it and past    *)
(* whatever had arrived ahead of it without a gap.                         *)
LEMMA DataInOrderStep ==
    ASSUME IInv, NEW d \in data, NEW k \in 1..MaxMessages,
           DataInOrder(SeqNumber(d), d.msg, k),
           send_buf' = send_buf, swnd' = swnd, lst_time' = lst_time,
           sent' = sent, rcvd' = rcvd, data' \subseteq data,
           \A b \in acks' \ acks :
               \/ /\ b = Ack(rwnd.ack_num, WindowSize(rwnd), RcvFront)
                  /\ 0 < RcvFront /\ RcvFront # RcvBack
               \/ b = Ack(rwnd'.ack_num, WindowSize(rwnd'), RcvFront')
    PROVE  IInv' /\ EdgesAdvance
<1> DEFINE g == RcvFront
           h == RcvBack
           u == g + k
           q == SeqNumber(d)
<1>e. EdgesFacts
  BY Edges
<1>w. WrappedEdges
  BY Edges
<1>i. TypeOK /\ ReceiverInv
  BY DEF IInv
<1>1. /\ InWindow(q, rwnd) /\ q = rwnd.front /\ k <= WindowSize(rwnd)
      /\ recv_buf' = Stored(q, d.msg)
      /\ InOrderRun(recv_buf'.occ, q, k)
      /\ rwnd' = [rwnd EXCEPT !.front   = Plus(q, k),
                              !.ack_num = Plus(q, k - 1),
                              !.flags   = FlagFor(WindowSize(rwnd) - k)]
  BY DEF DataInOrder
<1>2. /\ g <= d.msg /\ d.msg < h /\ d.msg < SndBack /\ d.msg \in Nat
      /\ q = SeqOf(d.msg)
  BY <1>1, DataMeans
<1>3. d.msg = g
  <2>1. SeqOf(d.msg) = SeqOf(g)
    BY <1>1, <1>2, <1>w DEF WrappedEdges
  <2>2. g \in Nat /\ d.msg < g + MaxSeq /\ g < d.msg + MaxSeq
    BY ONLY <1>2, <1>e, Constants DEF EdgesFacts
  <2> QED BY ONLY <2>1, <2>2, <1>2, SeqOfInjective
<1>4. /\ k \in Nat /\ k - 1 \in Nat /\ u \in Nat /\ u - 1 \in Nat
      /\ u <= h /\ g < u /\ 0 < u /\ g < SndBack /\ g # h
  <2>1. k <= h - g
    BY <1>1, <1>e DEF EdgesFacts
  <2> QED BY ONLY <2>1, k \in 1..MaxMessages, <1>2, <1>e, Constants DEF EdgesFacts
<1>5. ASSUME NEW j \in Nat
      PROVE  Plus(q, j) = SeqOf(g + j) /\ SlotOf(Plus(q, j)) = SlotOf(g + j)
  <2>1. g \in Nat /\ g + j \in Nat
    BY <1>e DEF EdgesFacts
  <2>2. Plus(q, j) = SeqOf(g + j)
    BY <2>1, <1>2, <1>3, PlusSeqOf
  <2> QED BY <2>1, <2>2, SlotOfSeqOf
<1>6. WindowSize(rwnd) = h - g
  BY <1>e DEF EdgesFacts
<1>7. /\ recv_buf'.ptr = recv_buf.ptr /\ recv_buf' \in Buffer
      /\ recv_buf'.occ \in [Slots -> {0, 1}]
      /\ recv_buf'.occ[SlotOf(g)] = 1 /\ recv_buf'.s[SlotOf(g)] = g
      /\ \A n \in Nat :
            n # g /\ n < g + MaxMessages /\ g < n + MaxMessages
            => /\ recv_buf'.occ[SlotOf(n)] = recv_buf.occ[SlotOf(n)]
               /\ recv_buf'.s[SlotOf(n)] = recv_buf.s[SlotOf(n)]
  BY <1>1, <1>3, StoredFacts
<1>8. /\ \A n \in g..(u - 1) : recv_buf'.occ[SlotOf(n)] # 0
      /\ u # h => recv_buf'.occ[SlotOf(u)] = 0
  <2>1. /\ \A i \in SlotRun(q, k) : recv_buf'.occ[i] # 0
        /\ k = WindowSize(rwnd) \/ recv_buf'.occ[SlotOf(Plus(q, k))] = 0
    BY <1>1 DEF InOrderRun
  <2>2. ASSUME NEW n \in g..(u - 1) PROVE recv_buf'.occ[SlotOf(n)] # 0
    <3> DEFINE j == n - g
    <3>1. j \in 0..(k - 1) /\ j \in Nat /\ g + j = n
      BY ONLY n \in g..(u - 1), <1>4, <1>e DEF EdgesFacts
    <3> HIDE DEF j
    <3>2. SlotOf(Plus(q, j)) \in SlotRun(q, k)
      BY <3>1 DEF SlotRun
    <3> QED BY <2>1, <3>1, <3>2, <1>5
  <2>3. u # h => k # WindowSize(rwnd)
    BY ONLY <1>4, <1>6, <1>e DEF EdgesFacts
  <2>4. SlotOf(Plus(q, k)) = SlotOf(u)
    BY <1>4, <1>5
  <2> QED BY <2>1, <2>2, <2>3, <2>4
<1>9. /\ rwnd'.front = SeqOf(u) /\ rwnd'.back = rwnd.back
      /\ rwnd'.ack_num = SeqOf(u - 1)
      /\ rwnd'.flags = FlagFor(h - u)
      /\ rwnd' \in RecvWindow
  <2>1. Plus(q, k) = SeqOf(u)
    BY <1>4, <1>5
  <2>2. Plus(q, k - 1) = SeqOf(u - 1)
    <3>1. g + (k - 1) = u - 1
      BY ONLY <1>4, <1>e DEF EdgesFacts
    <3> QED BY <3>1, <1>4, <1>5
  <2>3. WindowSize(rwnd) - k = h - u
    BY ONLY <1>4, <1>6, <1>e DEF EdgesFacts
  <2>4. SeqOf(u) \in SeqNum /\ SeqOf(u - 1) \in SeqNum
    BY <1>4, SeqOfType
  <2>5. FlagFor(h - u) \in {0, NOSPACE}
    BY DEF FlagFor
  <2>6. rwnd \in RecvWindow
    BY <1>i DEF TypeOK
  <2>7. rwnd' = [rwnd EXCEPT !.front = SeqOf(u), !.ack_num = SeqOf(u - 1),
                             !.flags = FlagFor(h - u)]
    BY ONLY <1>1, <2>1, <2>2, <2>3
  <2> QED BY ONLY <2>4, <2>5, <2>6, <2>7 DEF RecvWindow
<1>10. (u = h => rwnd'.flags = NOSPACE) /\ (rwnd'.flags = NOSPACE => u = h)
  <2>1. h - u = 0 <=> u = h
    <3>1. h \in Int /\ u \in Int
      BY ONLY <1>4, <1>e DEF EdgesFacts
    <3> HIDE DEF h, u
    <3> QED BY ONLY <3>1
  <2> QED BY <2>1, <1>9 DEF FlagFor, NOSPACE
<1>11. Stores(rwnd', u, h)
  <2>1. u \in Nat /\ h \in Nat /\ u <= h /\ h < u + MaxSeq
    BY ONLY <1>4, <1>e, Constants DEF EdgesFacts
  <2>2. rwnd'.front = SeqOf(u) /\ rwnd'.back = SeqOf(h)
    BY <1>9, <1>w DEF WrappedEdges
  <2> QED BY ONLY <2>1, <2>2 DEF Stores
<1>12. RcvBack' = h /\ SndBack' = SndBack
  BY DEF RcvBack, SndFront, SndBack, WindowSize
<1>13. WindowSize(rwnd') = h - u
  BY ONLY <1>11, WindowSizeIsLength
<1>14. RcvFront' = u
  <2>1. RcvFront' = RcvBack' - WindowSize(rwnd')
    BY DEF RcvFront, WindowSize
  <2> QED BY ONLY <2>1, <1>4, <1>12, <1>13, <1>e DEF EdgesFacts
<1>15. ASSUME NEW n \in Len(rcvd)..(h - 1), n # g
       PROVE  /\ recv_buf'.occ[SlotOf(n)] = recv_buf.occ[SlotOf(n)]
              /\ recv_buf'.s[SlotOf(n)] = recv_buf.s[SlotOf(n)]
  <2>1. n \in Nat /\ n < g + MaxMessages /\ g < n + MaxMessages
    BY ONLY n \in Len(rcvd)..(h - 1), <1>4, <1>e, Constants DEF EdgesFacts
  <2> QED BY <2>1, <1>7, <1>15
<1>16. ASSUME NEW n \in g..(h - 1), n # g, recv_buf'.occ[SlotOf(n)] # 0
       PROVE  recv_buf'.s[SlotOf(n)] = n /\ n < SndBack
  <2>1. n \in Len(rcvd)..(h - 1)
    BY ONLY n \in g..(h - 1), <1>e DEF EdgesFacts
  <2>2. /\ recv_buf.occ[SlotOf(n)] # 0
        /\ recv_buf'.s[SlotOf(n)] = recv_buf.s[SlotOf(n)]
    BY <2>1, <1>15, <1>16
  <2> QED BY <2>2, <1>i DEF ReceiverInv
<1>17. u <= SndBack
  <2>1. CASE u - 1 = g
    BY ONLY <2>1, <1>4, <1>e DEF EdgesFacts
  <2>2. CASE u - 1 # g
    <3>1. u - 1 \in g..(h - 1) /\ u - 1 \in g..(u - 1)
      BY ONLY <1>4, <1>e DEF EdgesFacts
    <3>2. u - 1 < SndBack
      BY <2>2, <3>1, <1>8, <1>16
    <3> QED BY ONLY <3>2, <1>4, <1>e DEF EdgesFacts
  <2> QED BY <2>1, <2>2
<1> HIDE DEF u
<1>18. ReceiverInv'
  <2>1. ASSUME NEW n \in Len(rcvd)..(u - 1)
        PROVE  recv_buf'.occ[SlotOf(n)] = 1 /\ recv_buf'.s[SlotOf(n)] = n
    <3>1. n \in Len(rcvd)..(h - 1)
      BY ONLY n \in Len(rcvd)..(u - 1), <1>4, <1>e DEF EdgesFacts
    <3>2. CASE n < g
      <4>1. n \in Len(rcvd)..(g - 1) /\ n # g
        BY ONLY <3>2, n \in Len(rcvd)..(u - 1), <1>4, <1>e DEF EdgesFacts
      <4>2. recv_buf.occ[SlotOf(n)] = 1 /\ recv_buf.s[SlotOf(n)] = n
        BY <4>1, <1>i DEF ReceiverInv
      <4> QED BY <3>1, <4>1, <4>2, <1>15
    <3>3. CASE n = g
      BY <3>3, <1>7
    <3>4. CASE ~(n < g) /\ n # g
      <4>1. n \in g..(u - 1) /\ n \in g..(h - 1) /\ n \in Nat
        BY ONLY <3>1, <3>4, n \in Len(rcvd)..(u - 1), <1>4, <1>e DEF EdgesFacts
      <4>2. recv_buf'.occ[SlotOf(n)] # 0
        BY <4>1, <1>8
      <4>3. recv_buf'.occ[SlotOf(n)] = 1
        <5>1. SlotOf(n) \in Slots
          BY <4>1, SlotOfType
        <5> QED BY <5>1, <4>2, <1>7
      <4> QED BY <3>4, <4>1, <4>2, <4>3, <1>16
    <3> QED BY <3>2, <3>3, <3>4
  <2>2. ASSUME NEW n \in u..(h - 1), recv_buf'.occ[SlotOf(n)] # 0
        PROVE  recv_buf'.s[SlotOf(n)] = n /\ u < n /\ n < SndBack
    <3>1. n \in g..(h - 1) /\ n # g /\ u # h
      BY ONLY n \in u..(h - 1), <1>4, <1>e, SMTT(60) DEF EdgesFacts
    <3>2. n # u
      BY <2>2, <3>1, <1>8
    <3>3. u < n
      BY ONLY <3>2, n \in u..(h - 1), <1>4, <1>e DEF EdgesFacts
    <3> QED BY <2>2, <3>1, <3>3, <1>16
  <2>3. \A n \in Len(rcvd)..(u - 1) :
            recv_buf'.occ[SlotOf(n)] = 1 /\ recv_buf'.s[SlotOf(n)] = n
    BY <2>1
  <2>4. \A n \in u..(h - 1) : recv_buf'.occ[SlotOf(n)] # 0 =>
            recv_buf'.s[SlotOf(n)] = n /\ u < n /\ n < SndBack
    BY <2>2
  <2>5. Stores(rwnd, RcvFront, RcvBack)'
    BY <1>11, <1>12, <1>14 DEF Stores
  <2>6. Len(rcvd) <= u
    BY ONLY <1>4, <1>e DEF EdgesFacts
  <2>7. rwnd'.ack_num = (LastBefore(RcvFront))'
    <3>1. u # 0
      BY ONLY <1>4
    <3> QED BY <3>1, <1>9, <1>14 DEF LastBefore
  <2>8. recv_buf'.ptr = SlotOf(Len(rcvd)) /\ \A i \in 1..Len(rcvd) : rcvd[i] = i - 1
    BY <1>7, <1>i DEF ReceiverInv
  <2> QED BY <2>3, <2>4, <2>5, <2>6, <2>7, <2>8, <1>4, <1>10, <1>12, <1>14
          DEF ReceiverInv
<1>19. RcvFront' \in Nat /\ RcvFront <= RcvFront' /\ RcvFront' <= SndBack
  BY ONLY <1>4, <1>14, <1>17, <1>e DEF EdgesFacts
<1>20. ASSUME NEW b \in acks' \ acks
       PROVE  b \in AckPacket /\ \E z \in 0..MaxMessages : AckInv(b, z)'
  <2>1. CASE b = Ack(rwnd.ack_num, WindowSize(rwnd), RcvFront) /\ 0 < RcvFront
    BY <2>1, <1>4, <1>12, <1>19, LastAckIsTrue
  <2>2. CASE b = Ack(rwnd'.ack_num, WindowSize(rwnd'), RcvFront')
    <3>1. PICK z \in 0..MaxMessages : z = h - u
      <4>1. h - u \in 0..MaxMessages
        BY ONLY <1>4, <1>e, Constants DEF EdgesFacts
      <4> QED BY <4>1
    <3>2. PICK n \in Nat : n = u
      BY <1>4
    <3>3. b = Ack(SeqOf(n - 1), z, n)
      BY <2>2, <3>1, <3>2, <1>9, <1>13, <1>14
    <3>4. SeqOf(n - 1) \in SeqNum
      BY <3>2, <1>4, SeqOfType
    <3>5. b.upto = n /\ b.ack \in 0..255 /\ b.size \in 0..255
      BY <3>3, <3>4, AckTravels
    <3>6. b \in AckPacket
      BY <3>3, <3>5 DEF Ack, AckPacket
    <3>7. /\ 0 < n /\ n <= RcvFront' /\ SndBack < n + MaxSeq
          /\ n + z <= RcvBack' /\ (z = 0 => u = h)
      BY ONLY <3>1, <3>2, <1>4, <1>12, <1>14, <1>17, <1>e, Constants DEF EdgesFacts
    <3>8. AckInv(b, z)'
      BY <3>3, <3>5, <3>7, <1>10, <1>12 DEF AckInv
    <3> QED BY <3>6, <3>8
  <2> QED BY <2>1, <2>2
<1> QED BY <1>4, <1>7, <1>9, <1>18, <1>19, <1>20, ReceiverVisit

LEMMA RVisitReceiverStep ==
    ASSUME IInv, NEW d \in data, NEW due \in BOOLEAN, RVisitReceiver(due, d)
    PROVE  IInv' /\ EdgesAdvance
<1> DEFINE q == SeqNumber(d)
<1>1. /\ data' \subseteq data
      /\ send_buf' = send_buf /\ swnd' = swnd /\ lst_time' = lst_time
      /\ sent' = sent /\ rcvd' = rcvd
  <2>1. data' \in Taken(data, d)
    BY DEF RVisitReceiver
  <2>2. data' \subseteq data
    BY <2>1 DEF Taken
  <2> QED BY <2>2 DEF RVisitReceiver, sender
<1>2. \A b \in NoSpaceAcks(due) :
        /\ b = Ack(rwnd.ack_num, WindowSize(rwnd), RcvFront)
        /\ 0 < RcvFront /\ RcvFront # RcvBack
  BY NoSpaceAcksAreLast
<1>3. CASE /\ DataAgain(q) \/ DataAhead(q, d.msg) \/ DataOutside(q)
           /\ acks' = acks \cup NoSpaceAcks(due) \cup RepeatedAcks(q)
  <2>1. CASE InWindow(q, rwnd)
    <3>1. RepeatedAcks(q) = {}
      BY <2>1 DEF RepeatedAcks
    <3>2. \A b \in acks' \ acks :
            /\ b = Ack(rwnd.ack_num, WindowSize(rwnd), RcvFront)
            /\ 0 < RcvFront /\ RcvFront # RcvBack
      BY <1>2, <1>3, <3>1
    <3>3. DataAgain(q) \/ DataAhead(q, d.msg)
      BY <1>3, <2>1 DEF DataOutside
    <3> QED BY <1>1, <3>2, <3>3, DataAgainStep, DataAheadStep
  <2>2. CASE ~InWindow(q, rwnd)
    <3>1. recv_buf' = recv_buf /\ rwnd' = rwnd
      BY <1>3, <2>2 DEF DataAgain, DataAhead, DataOutside
    <3>2. ASSUME NEW b \in RepeatedAcks(q)
          PROVE  b = Ack(rwnd.ack_num, WindowSize(rwnd), RcvFront) /\ 0 < RcvFront
      <4>1. q = rwnd.ack_num /\ b = Ack(q, WindowSize(rwnd), RcvFront)
        BY DEF RepeatedAcks
      <4>2. q # -1
        BY DataMeans, SeqOfType, Constants DEF SeqNum
      <4>3. RcvFront # 0
        BY <4>1, <4>2 DEF IInv, ReceiverInv, LastBefore
      <4>4. 0 < RcvFront
        BY <4>3, Edges DEF EdgesFacts
      <4> QED BY <4>1, <4>4
    <3>3. \A b \in acks' \ acks :
            b = Ack(rwnd.ack_num, WindowSize(rwnd), RcvFront) /\ 0 < RcvFront
      BY <1>2, <1>3, <3>2
    <3> QED BY <1>1, <3>1, <3>3, OnlyAcksStep
  <2> QED BY <2>1, <2>2
<1>4. CASE \E k \in 1..MaxMessages :
             /\ DataInOrder(q, d.msg, k)
             /\ acks' = acks \cup NoSpaceAcks(due)
                             \cup {Ack(rwnd'.ack_num, WindowSize(rwnd'), RcvFront')}
  <2>1. PICK k \in 1..MaxMessages :
          /\ DataInOrder(q, d.msg, k)
          /\ acks' = acks \cup NoSpaceAcks(due)
                          \cup {Ack(rwnd'.ack_num, WindowSize(rwnd'), RcvFront')}
    BY <1>4
  <2>2. \A b \in acks' \ acks :
          \/ /\ b = Ack(rwnd.ack_num, WindowSize(rwnd), RcvFront)
             /\ 0 < RcvFront /\ RcvFront # RcvBack
          \/ b = Ack(rwnd'.ack_num, WindowSize(rwnd'), RcvFront')
    BY <1>2, <2>1
  <2> QED BY <1>1, <2>1, <2>2, DataInOrderStep
<1> QED BY <1>3, <1>4 DEF RVisitReceiver

-----------------------------------------------------------------------------
(* What a step is to the two applications: a message handed over while     *)
(* there is room for it, the next message taken, or nothing.               *)
LEMMA NextStep ==
    ASSUME IInv, [Next]_vars
    PROVE  /\ IInv' /\ EdgesAdvance
           /\ [Channel!Next]_<<sent, rcvd>>
<1>e. EdgesFacts
  BY Edges
<1>1. CASE KSendTo
  <2>1. /\ sent < NMsgs /\ sent' = sent + 1 /\ rcvd' = rcvd
        /\ send_buf.size # MaxMessages
    BY <1>1 DEF KSendTo, SendBufferFull
  <2>2. sent - Len(rcvd) < 2 * MaxMessages
    BY ONLY <2>1, <1>e, Constants DEF EdgesFacts
  <2> QED BY <1>1, <2>1, <2>2, KSendToStep DEF Channel!Next, Channel!Send
<1>2. CASE KRecvFrom
  <2>1. sent' = sent
    BY <1>2 DEF KRecvFrom
  <2> QED BY <1>2, <2>1, KRecvFromStep DEF Channel!Next, Channel!Receive
<1>3. ASSUME NEW expired \in BOOLEAN, NEW k \in 0..MaxMessages, SVisit(expired, k)
      PROVE  IInv' /\ EdgesAdvance /\ UNCHANGED <<sent, rcvd>>
  <2>1. UNCHANGED <<sent, rcvd>>
    BY <1>3 DEF SVisit
  <2> QED BY <1>3, <2>1, SVisitStep
<1>4. ASSUME NEW a \in acks, RVisitSender(a)
      PROVE  IInv' /\ EdgesAdvance /\ UNCHANGED <<sent, rcvd>>
  <2>1. UNCHANGED <<sent, rcvd>>
    BY <1>4 DEF RVisitSender
  <2> QED BY <1>4, <2>1, RVisitSenderStep
<1>5. ASSUME NEW d \in data, NEW due \in BOOLEAN, RVisitReceiver(due, d)
      PROVE  IInv' /\ EdgesAdvance /\ UNCHANGED <<sent, rcvd>>
  <2>1. UNCHANGED <<sent, rcvd>>
    BY <1>5 DEF RVisitReceiver
  <2> QED BY <1>5, <2>1, RVisitReceiverStep
<1>6. CASE RVisitIdle
  <2>1. UNCHANGED <<sent, rcvd>>
    BY <1>6 DEF RVisitIdle
  <2> QED BY <1>6, <2>1, RVisitIdleStep
<1>7. CASE Lose
  <2>1. /\ send_buf' = send_buf /\ swnd' = swnd /\ lst_time' = lst_time
        /\ recv_buf' = recv_buf /\ rwnd' = rwnd /\ sent' = sent /\ rcvd' = rcvd
        /\ data' \subseteq data /\ acks' \subseteq acks
    BY <1>7 DEF Lose, LoseData, LoseAck, sender, receiver
  <2> QED BY <2>1, FewerPackets
<1>8. CASE UNCHANGED vars
  <2>1. /\ send_buf' = send_buf /\ swnd' = swnd /\ lst_time' = lst_time
        /\ recv_buf' = recv_buf /\ rwnd' = rwnd /\ sent' = sent /\ rcvd' = rcvd
        /\ data' \subseteq data /\ acks' \subseteq acks
    BY <1>8 DEF vars
  <2> QED BY <2>1, FewerPackets
<1> QED BY <1>1, <1>2, <1>3, <1>4, <1>5, <1>6, <1>7, <1>8 DEF Next

-----------------------------------------------------------------------------
(* The inductive invariant holds in every reachable state: initsocket.c    *)
(* and ksocket.c together keep the two buffers, the four window edges, the *)
(* timers and the packets under way in agreement.                          *)
THEOREM InductiveInvariant == Spec => []IInv
<1>1. IInv /\ [Next]_vars => IInv'
  BY NextStep
<1> QED BY <1>1, InitIInv, PTL DEF Spec

(* The state of the two sockets keeps its types: no window edge, slot or   *)
(* header byte leaves its range (ksocket.h).                               *)
THEOREM TypeCorrect == Spec => []TypeOK
<1>1. IInv => TypeOK
  BY DEF IInv
<1> QED BY <1>1, InductiveInvariant, PTL

(* k_recvfrom returns the messages given to k_sendto, each once, in order, *)
(* whatever is lost, repeated or reordered on the way.                     *)
THEOREM Delivery == Spec => []InOrderDelivery
<1>1. IInv => InOrderDelivery
  <2> SUFFICES ASSUME IInv PROVE InOrderDelivery
    OBVIOUS
  <2>1. Len(rcvd) <= sent
    BY ONLY IInv, Edges DEF EdgesFacts
  <2>2. \A i \in 1..Len(rcvd) : rcvd[i] = i - 1
    BY DEF IInv, ReceiverInv
  <2> QED BY <2>1, <2>2 DEF InOrderDelivery
<1> QED BY <1>1, InductiveInvariant, PTL

(* S never sends a message the receive buffer has no slot for.             *)
THEOREM NoOverrun == Spec => []FlowControl
<1>1. IInv => FlowControl
  BY DEF IInv, WindowsInv, FlowControl
<1> QED BY <1>1, InductiveInvariant, PTL

(* A message that has left the send buffer is at the receiver: k_isempty   *)
(* means that the socket is safe to close.                                 *)
THEOREM AcknowledgedArrived == Spec => []AckedIsReceived
<1>1. IInv => AckedIsReceived
  <2> SUFFICES ASSUME IInv, NEW n \in Len(rcvd)..(SndFront - 1)
               PROVE  recv_buf.occ[SlotOf(n)] = 1 /\ recv_buf.s[SlotOf(n)] = n
    BY DEF AckedIsReceived
  <2>1. EdgesFacts
    BY Edges
  <2>2. n \in Len(rcvd)..(RcvFront - 1)
    BY ONLY <2>1, n \in Len(rcvd)..(SndFront - 1) DEF EdgesFacts
  <2> QED BY <2>2 DEF IInv, ReceiverInv
<1> QED BY <1>1, InductiveInvariant, PTL

(* Every unacknowledged message is still in its slot of the send buffer.   *)
THEOREM NothingForgotten == Spec => []UnackedIsKept
<1>1. IInv => UnackedIsKept
  BY DEF IInv, SenderInv
<1> QED BY <1>1, InductiveInvariant, PTL

(* Every data packet carries a message that was sent, under its number.    *)
THEOREM NothingInvented == Spec => []PacketsIntact
<1>1. IInv => PacketsIntact
  <2> SUFFICES ASSUME IInv PROVE PacketsIntact
    OBVIOUS
  <2> QED BY DataMeans DEF PacketsIntact
<1> QED BY <1>1, InductiveInvariant, PTL

(* Whatever is sent and not acknowledged has a timer that ends with it.    *)
THEOREM TimersCover == Spec => []TimersCoverWindow
<1>1. IInv => TimersCoverWindow
  <2> SUFFICES ASSUME IInv PROVE TimersCoverWindow
    OBVIOUS
  <2>1. lst_time[1].t \in BOOLEAN
    BY DEF IInv, TypeOK, Timer
  <2> QED BY <2>1 DEF IInv, TimersInv, TimersCoverWindow
<1> QED BY <1>1, InductiveInvariant, PTL

(* A sender that waits for room is owed an ACK: the receiver remembers     *)
(* that it said there was none.                                            *)
THEOREM RoomIsAnnounced == Spec => []FullIsRemembered
<1>1. IInv => FullIsRemembered
  <2> SUFFICES ASSUME IInv, swnd.front = swnd.back, swnd.max_size = 0
               PROVE  rwnd.flags = NOSPACE
    BY DEF FullIsRemembered
  <2>1. EdgesFacts /\ WrappedEdges
    BY Edges
  <2>2. /\ SndFront \in Nat /\ SndBack \in Nat
        /\ SndFront < SndBack + MaxSeq /\ SndBack < SndFront + MaxSeq
    BY ONLY <2>1, Constants DEF EdgesFacts
  <2>3. SndFront = SndBack
    BY <2>1, <2>2, SeqOfInjective DEF WrappedEdges
  <2> QED BY <2>3 DEF IInv, WindowsInv
<1> QED BY <1>1, InductiveInvariant, PTL

(* No window edge ever moves back.                                         *)
THEOREM NoRegression == Spec => WindowsOnlyAdvance
<1>1. IInv /\ [Next]_vars =>
        [/\ SndFront' >= SndFront /\ SndBack' >= SndBack
         /\ RcvFront' >= RcvFront /\ RcvBack' >= RcvBack]_vars
  BY NextStep DEF EdgesAdvance
<1> QED BY <1>1, InductiveInvariant, PTL DEF Spec, WindowsOnlyAdvance

(* The protocol implements a reliable FIFO channel of 2*MaxMessages slots. *)
THEOREM Refinement == Spec => ImplementsChannel
<1>1. Init => Channel!Init
  BY DEF Init, Channel!Init
<1>2. IInv /\ [Next]_vars => [Channel!Next]_<<sent, rcvd>>
  BY NextStep
<1> QED BY <1>1, <1>2, InductiveInvariant, PTL DEF Spec, ImplementsChannel, Channel!Spec

-----------------------------------------------------------------------------
(* The counters of the two buffers.                                        *)

OccupiedIn(buf) == {i \in Slots : buf.occ[i] # 0}

LEMMA SlotsFinite == \A buf : IsFiniteSet(OccupiedIn(buf))
<1>1. 0 \in Int /\ MaxMessages - 1 \in Int
  BY Constants
<1>2. IsFiniteSet(Slots)
  BY <1>1, FS_Interval DEF Slots
<1> QED
  BY <1>2, FS_Subset DEF OccupiedIn

(* Any MaxMessages messages in a row use all slots.                        *)
LEMMA SlotOfOnto ==
    ASSUME NEW lo \in Nat, NEW i \in Slots
    PROVE  \E n \in lo..(lo + MaxMessages - 1) : SlotOf(n) = i
<1> DEFINE M == MaxMessages
           a == lo \div M
           r == lo % M
           p == M * a
           n == IF i >= r THEN p + i ELSE p + M + i
<1>1. /\ M \in Nat \ {0} /\ lo \in Int /\ i \in 0..(M - 1) /\ i \in Int
  BY Constants DEF Slots
<1>2. a \in Int /\ r \in 0..(M - 1) /\ lo = p + r /\ p \in Int
  BY <1>1, DivMod
<1>3. (p + i) % M = i
  BY <1>1, <1>2, ModUnique
<1>4. (p + M + i) % M = i
  <2>1. p + M + i = M * (a + 1) + i /\ a + 1 \in Int
    BY <1>1, <1>2
  <2> QED
    BY <1>1, <2>1, ModUnique
<1> HIDE DEF a, r, p, M
<1>5. n \in lo..(lo + M - 1)
  BY <1>1, <1>2
<1>6. n % M = i
  BY <1>3, <1>4
<1> HIDE DEF n
<1> QED
  BY <1>5, <1>6 DEF SlotOf, M

(* The send buffer's slots are those of the messages that it holds, one    *)
(* each.                                                                   *)
LEMMA SendCount ==
    ASSUME IInv
    PROVE  send_buf.size = Cardinality(OccupiedIn(send_buf))
<1> DEFINE lo == SndFront
           z  == send_buf.size
           S  == OccupiedIn(send_buf)
           f  == [k \in 1..z |-> SlotOf(lo + k - 1)]
<1>1. /\ lo \in Nat /\ sent \in Nat /\ z = sent - lo /\ lo <= sent
      /\ sent <= lo + MaxMessages /\ MaxMessages \in Nat /\ z \in Nat
  BY Edges, Constants DEF EdgesFacts
<1>2. /\ \A n \in lo..(sent - 1) : send_buf.occ[SlotOf(n)] = 1
      /\ \A n \in sent..(lo + MaxMessages - 1) : send_buf.occ[SlotOf(n)] = 0
  BY DEF IInv, SenderInv, UnackedIsKept
<1> HIDE DEF lo, z
<1>3. \A k \in 1..z : lo + k - 1 \in lo..(sent - 1) /\ lo + k - 1 \in Nat
  BY <1>1
<1>4. f \in [1..z -> S]
  BY <1>2, <1>3, SlotOfType DEF OccupiedIn
<1>5. ASSUME NEW k \in 1..z, NEW l \in 1..z, f[k] = f[l]
      PROVE  k = l
  <2>1. lo + k - 1 = lo + l - 1
    <3>1. SlotOf(lo + k - 1) = SlotOf(lo + l - 1)
      BY <1>5
    <3>2. /\ lo + k - 1 < lo + l - 1 + MaxMessages
          /\ lo + l - 1 < lo + k - 1 + MaxMessages
      BY <1>1
    <3> QED
      BY <1>3, <3>1, <3>2, SlotOfInjective
  <2> QED
    BY <1>1, <2>1
<1>6. ASSUME NEW i \in S
      PROVE  \E k \in 1..z : f[k] = i
  <2>1. i \in Slots /\ send_buf.occ[i] # 0
    BY DEF OccupiedIn
  <2>2. PICK n \in lo..(lo + MaxMessages - 1) : SlotOf(n) = i
    BY <1>1, <2>1, SlotOfOnto
  <2>3. n \in lo..(sent - 1)
    BY <1>1, <1>2, <2>1, <2>2
  <2>4. n - lo + 1 \in 1..z /\ lo + (n - lo + 1) - 1 = n
    BY <1>1, <2>3
  <2> QED
    BY <2>2, <2>4
<1> HIDE DEF f, S
<1>7. f \in Bijection(1..z, S)
  BY <1>4, <1>5, <1>6, Zenon DEF Bijection, Injection, Surjection, IsInjective
<1>8. Cardinality(S) = z
  BY <1>1, <1>7, FS_CountingElements, Zenon DEF ExistsBijection
<1> QED
  BY <1>8 DEF S, z

(* The receive buffer counts the messages R stores and the application     *)
(* takes.                                                                  *)
ReceiveCount == recv_buf.size = Cardinality(OccupiedIn(recv_buf))

LEMMA ReceiveCountTakes ==
    ASSUME IInv, ReceiveCount, KRecvFrom
    PROVE  ReceiveCount'
<1> DEFINE i == recv_buf.ptr
<1>1. /\ recv_buf.occ \in [Slots -> {0, 1}] /\ i \in Slots /\ recv_buf.occ[i] # 0
      /\ recv_buf'.occ = [recv_buf.occ EXCEPT ![i] = 0]
      /\ recv_buf'.size = recv_buf.size - 1
  BY DEF IInv, TypeOK, Buffer, KRecvFrom
<1>2. OccupiedIn(recv_buf)' = OccupiedIn(recv_buf) \ {i} /\ i \in OccupiedIn(recv_buf)
  BY <1>1 DEF OccupiedIn
<1> QED
  BY <1>1, <1>2, SlotsFinite, FS_RemoveElement DEF ReceiveCount

LEMMA ReceiveCountStores ==
    ASSUME IInv, ReceiveCount, NEW d \in data,
           recv_buf.occ[SlotOf(SeqNumber(d))] = 0,
           recv_buf' = Stored(SeqNumber(d), d.msg)
    PROVE  ReceiveCount'
<1> DEFINE i == SlotOf(SeqNumber(d))
           s1 == [recv_buf.s EXCEPT ![i] = d.msg]
           o1 == [recv_buf.occ EXCEPT ![i] = 1]
           z1 == recv_buf.size + 1
<1>1. i \in Slots /\ recv_buf \in Buffer
  BY DataMeans, SlotOfType DEF IInv, TypeOK
<1>2. recv_buf' = [recv_buf EXCEPT !.s = s1, !.occ = o1, !.size = z1]
  BY <1>1 DEF Stored, Buffer
<1>3. recv_buf'.occ = o1 /\ recv_buf'.size = z1 /\ recv_buf.occ \in [Slots -> {0, 1}]
  <2> HIDE DEF s1, o1, z1
  <2> QED
    BY ONLY <1>1, <1>2 DEF Buffer
<1>4. recv_buf.occ[i] = 0
  OBVIOUS
<1> HIDE DEF i
<1>5. /\ OccupiedIn(recv_buf)' = OccupiedIn(recv_buf) \cup {i}
      /\ i \notin OccupiedIn(recv_buf)
  BY <1>1, <1>3, <1>4 DEF OccupiedIn
<1>6. Cardinality(OccupiedIn(recv_buf)') = Cardinality(OccupiedIn(recv_buf)) + 1
  BY <1>5, SlotsFinite, FS_AddElement
<1> QED
  BY <1>3, <1>6 DEF ReceiveCount

LEMMA ReceiveCountNext ==
    ASSUME IInv, ReceiveCount, [Next]_vars
    PROVE  ReceiveCount'
<1>1. CASE KRecvFrom
  BY <1>1, ReceiveCountTakes
<1>2. CASE recv_buf' = recv_buf
  BY <1>2 DEF ReceiveCount, OccupiedIn
<1>3. ASSUME NEW d \in data, NEW due \in BOOLEAN, RVisitReceiver(due, d)
      PROVE  ReceiveCount'
  <2>1. \/ recv_buf' = recv_buf
        \/ /\ recv_buf.occ[SlotOf(SeqNumber(d))] = 0
           /\ recv_buf' = Stored(SeqNumber(d), d.msg)
    BY <1>3 DEF RVisitReceiver, DataAgain, DataAhead, DataOutside, DataInOrder
  <2> QED
    BY <1>2, <2>1, ReceiveCountStores
<1>4. CASE UNCHANGED vars \/ KSendTo \/ RVisitIdle \/ Lose
  <2>1. recv_buf' = recv_buf
    BY <1>4 DEF vars, KSendTo, RVisitIdle, Lose, LoseData, LoseAck, receiver
  <2> QED
    BY <1>2, <2>1
<1>5. ASSUME NEW expired \in BOOLEAN, NEW k \in 0..MaxMessages, SVisit(expired, k)
      PROVE  ReceiveCount'
  <2>1. recv_buf' = recv_buf
    BY <1>5 DEF SVisit, receiver
  <2> QED
    BY <1>2, <2>1
<1>6. ASSUME NEW a \in acks, RVisitSender(a)
      PROVE  ReceiveCount'
  <2>1. recv_buf' = recv_buf
    BY <1>6 DEF RVisitSender, receiver
  <2> QED
    BY <1>2, <2>1
<1> QED
  BY <1>1, <1>3, <1>4, <1>5, <1>6 DEF Next

(* The size that k_isempty, k_sendto and k_recvfrom test is the number of  *)
(* slots in use, in both buffers: the two are kept by different threads,   *)
(* at different places.                                                    *)
THEOREM SizesAreCounts == Spec => []SizesCount
<1>1. Init => ReceiveCount
  <2> SUFFICES ASSUME Init PROVE ReceiveCount
    OBVIOUS
  <2>1. recv_buf.size = 0 /\ OccupiedIn(recv_buf) = {}
    BY DEF Init, EmptyBuffer, OccupiedIn
  <2> QED
    BY <2>1, FS_EmptySet DEF ReceiveCount
<1>2. IInv /\ ReceiveCount /\ [Next]_vars => IInv' /\ ReceiveCount'
  BY NextStep, ReceiveCountNext
<1>3. IInv /\ ReceiveCount => SizesCount
  BY SendCount DEF ReceiveCount, SizesCount, OccupiedIn
<1> QED
  BY <1>1, <1>2, <1>3, InitIInv, PTL DEF Spec

=============================================================================
