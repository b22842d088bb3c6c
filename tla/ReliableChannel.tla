--------------------------- MODULE ReliableChannel ---------------------------
(***************************************************************************)
(* What one direction of a KTP connection promises its two applications:   *)
(* a bounded first-in first-out channel that loses nothing.  Message k is  *)
(* the k-th one the sender handed over.                                    *)
(***************************************************************************)
EXTENDS Integers, Sequences

CONSTANTS NMsgs,      \* how many messages the sender has to send
          Capacity    \* how many messages the channel holds

VARIABLES sent,       \* number of messages accepted from the sender
          rcvd        \* the messages handed to the receiver

Init == sent = 0 /\ rcvd = << >>

Send ==
    /\ sent < NMsgs
    /\ sent - Len(rcvd) < Capacity
    /\ sent' = sent + 1
    /\ UNCHANGED rcvd

Receive ==
    /\ Len(rcvd) < sent
    /\ rcvd' = Append(rcvd, Len(rcvd))
    /\ UNCHANGED sent

Next == Send \/ Receive

Spec == Init /\ [][Next]_<<sent, rcvd>>
=============================================================================
