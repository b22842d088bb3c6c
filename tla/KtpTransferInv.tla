--------------------------- MODULE KtpTransferInv ----------------------------
(***************************************************************************)
(* The inductive invariant of KtpTransfer.  It says where the four edges   *)
(*                                                                         *)
(*     SndFront <= RcvFront <= SndBack <= RcvBack                          *)
(*                                                                         *)
(* lie in the sequence of all messages, what the wrapped numbers and the   *)
(* slots of the two sockets hold in terms of them, and what a packet that  *)
(* is still under way may say.                                             *)
(***************************************************************************)
EXTENDS KtpTransfer

(* The sequence number before that of message n; -1 before the first.      *)
LastBefore(n) == IF n = 0 THEN -1 ELSE SeqOf(n - 1)

(* The send buffer holds the messages SndFront, ..., sent-1 and nothing    *)
(* else.                                                                   *)
SenderInv ==
    /\ Stores(swnd, SndFront, SndBack)
    /\ SndBack <= sent
    /\ sent <= SndFront + MaxMessages
    /\ send_buf.ptr = SlotOf(sent)
    /\ swnd.ack_num = LastBefore(SndFront)
    /\ UnackedIsKept
    /\ \A n \in sent..(SndFront + MaxMessages - 1) :
          send_buf.occ[SlotOf(n)] = 0

(* The receive buffer holds the messages Len(rcvd), ..., RcvFront-1, not   *)
(* RcvFront, and possibly some after that; it remembers being full.        *)
ReceiverInv ==
    /\ Stores(rwnd, RcvFront, RcvBack)
    /\ Len(rcvd) <= RcvFront
    /\ recv_buf.ptr = SlotOf(Len(rcvd))
    /\ rwnd.ack_num = LastBefore(RcvFront)
    /\ \A n \in Len(rcvd)..(RcvFront - 1) :
          recv_buf.occ[SlotOf(n)] = 1 /\ recv_buf.s[SlotOf(n)] = n
    /\ \A n \in RcvFront..(RcvBack - 1) :
          recv_buf.occ[SlotOf(n)] # 0 =>
              recv_buf.s[SlotOf(n)] = n /\ RcvFront < n /\ n < SndBack
    /\ RcvFront = RcvBack => rwnd.flags = NOSPACE
    /\ rwnd.flags = NOSPACE => 0 < RcvFront
    /\ \A i \in 1..Len(rcvd) : rcvd[i] = i - 1

(* The order of the edges, and the room the sender believes in.            *)
WindowsInv ==
    /\ SndFront <= RcvFront
    /\ RcvFront <= SndBack
    /\ SndBack <= RcvBack
    /\ SndFront + swnd.max_size <= RcvBack
    /\ (SndFront = SndBack /\ swnd.max_size = 0) => rwnd.flags = NOSPACE

(* Data under way: a message that was sent, not too long ago.              *)
DataInv ==
    \A d \in data :
        /\ d.msg \in Nat
        /\ d = Data(SeqOf(d.msg), d.msg)
        /\ d.msg < SndBack
        /\ SndBack <= d.msg + Lifetime

(* ACKs under way: for messages the receiver has, with no more room than   *)
(* there still is; one that says there is none for what is next is backed  *)
(* by NOSPACE.                                                             *)
AckInv(a, z) ==
    /\ a = Ack(SeqOf(a.upto - 1), z, a.upto)
    /\ 0 < a.upto
    /\ a.upto <= RcvFront
    /\ SndBack < a.upto + MaxSeq
    /\ a.upto + z <= RcvBack
    /\ (a.upto = SndBack /\ z = 0) => rwnd.flags = NOSPACE

AcksInv == \A a \in acks : \E z \in 0..MaxMessages : AckInv(a, z)

(* S's timers end where the window ends.                                   *)
TimersInv ==
    /\ lst_time[1].t =>
          /\ lst_time[0].t
          /\ lst_time[1].front = lst_time[0].back
          /\ lst_time[1].back = swnd.back
    /\ (lst_time[0].t /\ ~lst_time[1].t) => lst_time[0].back = swnd.back
    /\ swnd.front # swnd.back => lst_time[0].t

(* The inductive invariant: every step of the protocol, with any loss,     *)
(* duplication and reordering of packets, keeps all of this true.          *)
IInv ==
    /\ TypeOK
    /\ SenderInv
    /\ ReceiverInv
    /\ WindowsInv
    /\ DataInv
    /\ AcksInv
    /\ TimersInv
=============================================================================
