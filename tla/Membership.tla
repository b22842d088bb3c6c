------------------------------ MODULE Membership ------------------------------
(***************************************************************************)
(* What the CLDP client of A7 promises to whoever uses its list: a bounded *)
(* set of hosts, each with the time since it was heard.  A host that is    *)
(* heard is a member as long as there is room; members that have been      *)
(* silent for more than Limit may be forgotten, all of them at once.       *)
(***************************************************************************)
EXTENDS Naturals, FiniteSets

CONSTANTS
    Hosts,         \* who may be heard
    Capacity,      \* how many members there may be
    Limit          \* the silence that is tolerated

VARIABLE silence   \* the time since each member was heard: [members -> Nat]

Members == DOMAIN silence

Init == silence = [h \in {} |-> 0]

Hear(h) ==
    /\ h \in Members \/ Cardinality(Members) < Capacity
    /\ silence' = [m \in Members \cup {h} |-> IF m = h THEN 0 ELSE silence[m]]

(* Beyond the limit it is not counted how long the silence lasts.          *)
Pass ==
    silence' = [m \in Members |-> IF silence[m] > Limit THEN silence[m]
                                                        ELSE silence[m] + 1]

Forget ==
    silence' = [m \in {h \in Members : silence[h] <= Limit} |-> silence[m]]

(* The client starts again, and knows nobody.                              *)
Reset == silence' = [h \in {} |-> 0]

Next == (\E h \in Hosts : Hear(h)) \/ Pass \/ Forget \/ Reset

Spec == Init /\ [][Next]_silence
=============================================================================
