------------------------------- MODULE KtpClose -------------------------------
(***************************************************************************)
(* The end of a transfer: KtpTransfer with a receiving application that    *)
(* closes its socket as soon as it has read the last message, the one that *)
(* says "end of file" (A4/user2.c), and thread main of initsocket, which   *)
(* then clears it (A4/initsocket.c).  The sending application waits until  *)
(* k_isempty says that its send buffer is empty, and closes its own socket *)
(* only then (A4/user1.c).                                                 *)
(***************************************************************************)
EXTENDS KtpTransfer

VARIABLE
    rsock          \* the receiving socket: "open", "closed" by k_close but
                   \* still served by thread R, "cleared" by main

closeVars == <<vars, rsock>>

InitClose == Init /\ rsock = "open"

(* k_close, called by user2.c once it has read the last message.           *)
KCloseReceiver ==
    /\ rsock = "open"
    /\ Len(rcvd) = NMsgs
    /\ rsock' = "closed"
    /\ UNCHANGED vars

(* main clears a terminated socket and closes its descriptor.  No thread   *)
(* looks at the buffer and the window afterwards: they stay as they were.  *)
MainClearReceiver ==
    /\ rsock = "closed"
    /\ rsock' = "cleared"
    /\ UNCHANGED vars

(* The sending side and the network do what they did; user2.c reads while  *)
(* it has not closed.                                                      *)
ReadOn == rsock = "open" /\ KRecvFrom /\ UNCHANGED rsock
Sending(A) == A /\ UNCHANGED rsock

(* Thread R visits the receiving socket as long as it is allocated: data   *)
(* for a cleared one finds no port, and can only be lost.                  *)
Served(A) == rsock # "cleared" /\ A /\ UNCHANGED rsock

NextClose ==
    \/ Sending(KSendTo)
    \/ ReadOn
    \/ \E expired \in BOOLEAN, k \in 0..MaxMessages : Sending(SVisit(expired, k))
    \/ \E a \in acks : Sending(RVisitSender(a))
    \/ \E d \in data, due \in BOOLEAN : Served(RVisitReceiver(due, d))
    \/ Served(RVisitIdle)
    \/ Sending(Lose)
    \/ KCloseReceiver
    \/ MainClearReceiver

(* Fairness.  The applications keep calling (the loops of user1.c and      *)
(* user2.c); S and R visit every socket again and again, and a timer that  *)
(* is not reset expires; and the network is not down for ever: if there    *)
(* are packets to deliver again and again, some are delivered.  None is    *)
(* assumed of k_close and main: how long the closing takes is left open.   *)
FairnessClose ==
    /\ WF_closeVars(Sending(KSendTo))
    /\ WF_closeVars(ReadOn)
    /\ WF_closeVars(\E k \in 0..MaxMessages : Sending(SVisit(TRUE, k)))
    /\ WF_closeVars(Served(RVisitIdle))
    /\ \A n \in Message :
          SF_closeVars(\E d \in data : d.msg = n /\ Served(RVisitReceiver(TRUE, d)))
    /\ SF_closeVars(\E a \in acks : Sending(RVisitSender(a)))

FairSpecClose == InitClose /\ [][NextClose]_closeVars /\ FairnessClose

-----------------------------------------------------------------------------
(* user1.c's wait for k_isempty ends: a lost ACK is made good by R's       *)
(* answer to the repetition, also after k_close.  Or else main has cleared *)
(* the receiving socket, and no ACK it has sent is left.  Then the wait    *)
(* never ends, although every message has been read: user2.c does not wait *)
(* for its last ACK to arrive.                                             *)
DrainsOrDeserted ==
    \/ <>[](sent = NMsgs /\ send_buf.size = 0)
    \/ <>[](rsock = "cleared" /\ acks = {} /\ Len(rcvd) = NMsgs)
=============================================================================
