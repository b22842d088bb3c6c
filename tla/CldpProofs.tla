------------------------------ MODULE CldpProofs ------------------------------
(***************************************************************************)
(* Proofs about Cldp, for any number of hosts, entries and seconds: the    *)
(* types, that a server has one entry, whose response is its own, and that *)
(* the client's list implements Membership.                                *)
(***************************************************************************)
EXTENDS Cldp, FiniteSetTheorems, WellFoundedInduction, TLAPS

(* A set of entries that is not empty has a first one.                     *)
LEMMA FirstIsIn ==
    ASSUME NEW S, S \subseteq Indexes, S # {}
    PROVE  First(S) \in S
<1>1. S \subseteq Nat
  BY CldpAssumption DEF Indexes
<1>2. \A x, y \in Nat : x < y => <<x, y>> \in OpToRel(<, Nat)
  BY Zenon DEF OpToRel
<1>3. PICK i \in S : \A j \in S : ~(<<j, i>> \in OpToRel(<, Nat))
  BY <1>1, NatLessThanWellFounded, WFMin
<1>4. \A j \in S : ~(j < i)
  BY <1>1, <1>2, <1>3, Zenon
<1>5. \A j \in S : i <= j
  BY <1>1, <1>4
<1> QED
  BY <1>5 DEF First

(* What the proofs need of the constants.                                  *)
LEMMA Constants ==
    /\ MaxServers \in Nat /\ HelloInterval \in Nat /\ QueryInterval \in Nat
    /\ ServerTimeout \in Nat /\ Tolerance \in Nat
    /\ NoAddr \notin Hosts
<1>1. HelloInterval + 1 \in Nat \ {0} /\ ServerTimeout \in Nat
  BY CldpAssumption
<1>2. ServerTimeout \div (HelloInterval + 1) \in Nat
  BY <1>1
<1> QED
  BY <1>1, <1>2, CldpAssumption, NoAddrAssumption DEF Tolerance

(* The invariant, and the third part it needs: queries and responses under *)
(* way belong to servers that were asked.                                  *)
NetWasAsked ==
    \A s \in Servers : Query(s) \in net \/ Response(s) \in net => asked[s]

ListOK == servers \in [Indexes -> Entry] /\ OneEntry
Inv == TypeOK /\ OneEntry /\ RespondedWasAsked /\ NetWasAsked

-----------------------------------------------------------------------------
(* The list.                                                               *)

New(h) == [addr |-> h, last_seen |-> 0, active |-> TRUE, responded |-> FALSE]

(* The entry of a host that has one.                                       *)
LEMMA EntryOf ==
    ASSUME OneEntry, NEW i \in Indexes, servers[i].active
    PROVE  /\ Entries(servers[i].addr) = {i}
           /\ First(Entries(servers[i].addr)) = i
<1>1. Entries(servers[i].addr) = {i}
  BY DEF OneEntry, Entries
<1>2. First({i}) \in {i}
  BY FirstIsIn
<1> QED
  BY <1>1, <1>2

(* A host that is listed has an entry, and it is the one that is found.    *)
LEMMA ListedHas ==
    ASSUME NEW h, Listed(h)
    PROVE  \E i \in Indexes : /\ servers[i].active /\ servers[i].addr = h
                              /\ i = First(Entries(h))
<1>1. First(Entries(h)) \in Entries(h)
  BY FirstIsIn DEF Listed, Entries
<1> QED
  BY <1>1 DEF Entries

(* The three cases of handle_hello.                                        *)
LEMMA HeardCases ==
    ASSUME NEW h
    PROVE  \/ /\ Listed(h)
              /\ \E i \in Indexes :
                     /\ servers[i].active /\ servers[i].addr = h
                     /\ Heard(h) = [servers EXCEPT ![i].last_seen = 0]
           \/ /\ ~Listed(h)
              /\ \E i \in Indexes :
                     /\ ~servers[i].active
                     /\ Heard(h) = [servers EXCEPT ![i] = New(h)]
           \/ ~Listed(h) /\ Unused = {} /\ Heard(h) = servers
<1>1. CASE Listed(h)
  BY <1>1, ListedHas DEF Heard
<1>2. CASE ~Listed(h) /\ Unused # {}
  <2>1. First(Unused) \in Unused
    BY <1>2, FirstIsIn DEF Unused
  <2> QED
    BY <1>2, <2>1 DEF Heard, Unused, New
<1>3. CASE ~Listed(h) /\ Unused = {}
  BY <1>3 DEF Heard
<1> QED
  BY <1>1, <1>2, <1>3

(* The two of handle_response.                                             *)
LEMMA RespondedCases ==
    ASSUME NEW h
    PROVE  \/ \E i \in Indexes :
                  /\ servers[i].active /\ servers[i].addr = h
                  /\ Responded(h) = [servers EXCEPT ![i].responded = TRUE]
           \/ Responded(h) = servers
  BY ListedHas DEF Responded

(* A HELLO keeps one entry per host.                                       *)
LEMMA HeardOK ==
    ASSUME ListOK, NEW h \in Hosts, servers' = Heard(h)
    PROVE  ListOK'
<1>1. CASE servers' = servers
  BY <1>1 DEF ListOK, OneEntry
<1>2. ASSUME NEW i \in Indexes, servers[i].active,
             servers' = [servers EXCEPT ![i].last_seen = 0]
      PROVE  ListOK'
  <2>1. servers' \in [Indexes -> Entry]
    BY <1>2, Constants DEF ListOK, Entry
  <2> QED
    BY <1>2, <2>1 DEF ListOK, OneEntry, Entry
<1>3. ASSUME ~Listed(h), NEW i \in Indexes, servers' = [servers EXCEPT ![i] = New(h)]
      PROVE  ListOK'
  <2>1. New(h) \in Entry
    BY Constants DEF New, Entry
  <2>2. servers' \in [Indexes -> Entry]
    BY <1>3, <2>1 DEF ListOK
  <2>3. \A j \in Indexes : ~(servers[j].active /\ servers[j].addr = h)
    BY <1>3 DEF Listed, Entries
  <2> QED
    BY <1>3, <2>2, <2>3 DEF ListOK, OneEntry, New
<1> QED
  BY <1>1, <1>2, <1>3, HeardCases

(* No entry takes over the response of another one.                        *)
LEMMA HeardAsked ==
    ASSUME ListOK, RespondedWasAsked, NEW h \in Hosts, servers' = Heard(h),
           UNCHANGED asked
    PROVE  RespondedWasAsked'
<1> USE DEF RespondedWasAsked, Entries
<1>1. CASE servers' = servers
  BY <1>1
<1>2. ASSUME NEW i \in Indexes, servers' = [servers EXCEPT ![i].last_seen = 0]
      PROVE  RespondedWasAsked'
  BY <1>2 DEF ListOK, Entry
<1>3. ASSUME NEW i \in Indexes, servers' = [servers EXCEPT ![i] = New(h)]
      PROVE  RespondedWasAsked'
  BY <1>3 DEF ListOK, New
<1> QED
  BY <1>1, <1>2, <1>3, HeardCases

(* A RESPONSE is recorded for the server that was asked.                   *)
LEMMA RespondedOK ==
    ASSUME ListOK, RespondedWasAsked, NEW h \in Hosts, servers' = Responded(h),
           UNCHANGED asked, h \in Servers => asked[h]
    PROVE  ListOK' /\ RespondedWasAsked'
<1>1. CASE servers' = servers
  BY <1>1 DEF ListOK, OneEntry, RespondedWasAsked, Entries
<1>2. ASSUME NEW i \in Indexes, servers[i].active, servers[i].addr = h,
             servers' = [servers EXCEPT ![i].responded = TRUE]
      PROVE  ListOK' /\ RespondedWasAsked'
  <2>1. servers' \in [Indexes -> Entry]
    <3>1. servers[i] \in Entry
      BY DEF ListOK
    <3>2. [servers[i] EXCEPT !.responded = TRUE] \in Entry
      BY <3>1 DEF Entry
    <3> QED
      BY <1>2, <3>2 DEF ListOK
  <2>2. \A j \in Indexes : /\ servers'[j].active = servers[j].active
                           /\ servers'[j].addr = servers[j].addr
                           /\ j # i => servers'[j] = servers[j]
    BY <1>2 DEF ListOK, Entry
  <2>3. OneEntry'
    BY <2>2 DEF ListOK, OneEntry
  <2>4. RespondedWasAsked'
    BY <1>2, <2>2 DEF RespondedWasAsked, Entries
  <2> QED
    BY <2>1, <2>3, <2>4 DEF ListOK
<1> QED
  BY <1>1, <1>2, RespondedCases

-----------------------------------------------------------------------------
(* The invariant.                                                          *)
(* It holds at the start.                                                  *)
LEMMA InitInv == Init => Inv
<1> SUFFICES ASSUME Init PROVE Inv
  OBVIOUS
<1>1. NoEntry \in Entry
  BY Constants DEF NoEntry, Entry
<1>2. TypeOK
  <2>1. servers \in [Indexes -> Entry]
    BY <1>1 DEF Init
  <2>2. helloIn \in [Servers -> 0..(HelloInterval + 1)]
    BY Constants DEF Init
  <2>3. missed \in [Servers -> 0..Tolerance] /\ queryIn \in 0..QueryInterval
    BY Constants DEF Init
  <2> QED
    BY <2>1, <2>2, <2>3 DEF Init, TypeOK
<1> QED
  BY <1>2 DEF Init, Inv, OneEntry, RespondedWasAsked, NetWasAsked, NoEntry, Entries

(* A packet tells its type and host.                                       *)
LEMMA Packets ==
    \A s \in Servers :
        /\ Hello(s) \in Packet /\ Query(s) \in Packet /\ Response(s) \in Packet
        /\ \A r \in Servers :
               /\ Hello(s) # Query(r) /\ Hello(s) # Response(r)
               /\ Query(s) # Response(r)
               /\ Query(s) = Query(r) => s = r
               /\ Response(s) = Response(r) => s = r
  BY DEF Packet, Hello, Query, Response

(* The packets that the client handles.                                    *)
LEMMA HandleInv ==
    ASSUME Inv,
           \/ \E s \in Servers : HandleHello(s) \/ HandleResponse(s)
           \/ \E h \in Others : HandleOther(h)
    PROVE  Inv'
<1> USE DEF Inv, serverState, history
<1>0. ListOK
  BY DEF TypeOK, ListOK
<1>1. ASSUME NEW s \in Servers, HandleHello(s) PROVE Inv'
  <2>1. ListOK' /\ RespondedWasAsked'
    BY <1>0, <1>1, HeardOK, HeardAsked DEF HandleHello, Hosts
  <2>2. TypeOK'
    <3>1. missed' \in [Servers -> 0..Tolerance]
      BY <1>1, Constants DEF HandleHello, TypeOK
    <3>2. steady' \in [Servers -> BOOLEAN]
      BY <1>1 DEF HandleHello, TypeOK
    <3> QED
      BY <1>1, <2>1, <3>1, <3>2 DEF HandleHello, TypeOK, ListOK
  <2>3. NetWasAsked'
    BY <1>1 DEF HandleHello, NetWasAsked
  <2> QED
    BY <2>1, <2>2, <2>3 DEF ListOK
<1>2. ASSUME NEW s \in Servers, HandleResponse(s) PROVE Inv'
  <2>1. asked[s]
    BY <1>2 DEF HandleResponse, NetWasAsked
  <2>2. ListOK' /\ RespondedWasAsked'
    BY <1>0, <1>2, <2>1, RespondedOK DEF HandleResponse, Hosts
  <2>3. TypeOK'
    BY <1>2, <2>2 DEF HandleResponse, TypeOK, ListOK
  <2>4. NetWasAsked'
    BY <1>2 DEF HandleResponse, NetWasAsked
  <2> QED
    BY <2>2, <2>3, <2>4 DEF ListOK
<1>3. ASSUME NEW h \in Others, HandleOther(h) PROVE Inv'
  <2>1. h \in Hosts /\ h \notin Servers
    BY CldpAssumption DEF Hosts
  <2>2. CASE servers' = Heard(h)
    BY <1>0, <1>3, <2>1, <2>2, HeardOK, HeardAsked
       DEF HandleOther, ListOK, TypeOK, NetWasAsked
  <2>3. CASE servers' = Responded(h)
    BY <1>0, <1>3, <2>1, <2>3, RespondedOK
       DEF HandleOther, ListOK, TypeOK, NetWasAsked
  <2>4. CASE servers' = servers
    BY <1>3, <2>4 DEF HandleOther, TypeOK, NetWasAsked, OneEntry,
                      RespondedWasAsked, Entries
  <2> QED
    BY <1>3, <2>2, <2>3, <2>4 DEF HandleOther
<1> QED
  BY <1>1, <1>2, <1>3

(* check_timeouts, the restart and the clock: they change no address.      *)
LEMMA ListInv ==
    ASSUME Inv, CheckTimeouts \/ ClientRestart \/ Tick
    PROVE  Inv'
<1> USE DEF Inv, serverState, history
<1>1. CASE CheckTimeouts
  <2>1. servers' \in [Indexes -> Entry]
    BY <1>1, ZenonT(60) DEF CheckTimeouts, TypeOK, Entry
  <2>2. \A i \in Indexes : /\ servers'[i].active => servers[i].active
                           /\ servers'[i].addr = servers[i].addr
                           /\ servers'[i].responded = servers[i].responded
    BY <1>1 DEF CheckTimeouts, TypeOK, Entry
  <2>3. TypeOK'
    BY <1>1, <2>1 DEF CheckTimeouts, TypeOK
  <2>4. OneEntry'
    BY <2>2 DEF OneEntry
  <2>5. RespondedWasAsked' /\ NetWasAsked'
    BY <1>1, <2>2 DEF CheckTimeouts, RespondedWasAsked, NetWasAsked, Entries
  <2> QED
    BY <2>3, <2>4, <2>5
<1>2. CASE ClientRestart
  <2>1. servers' \in [Indexes -> Entry]
    BY <1>2, Constants DEF ClientRestart, NoEntry, Entry
  <2>2. \A i \in Indexes : ~servers'[i].active
    BY <1>2 DEF ClientRestart, NoEntry
  <2>3. TypeOK'
    <3>1. queryIn' \in 0..QueryInterval
      BY <1>2, Constants DEF ClientRestart
    <3> QED
      BY <1>2, <2>1, <3>1 DEF ClientRestart, TypeOK
  <2>4. OneEntry'
    BY <2>2 DEF OneEntry
  <2>5. RespondedWasAsked' /\ NetWasAsked'
    BY <1>2, <2>2 DEF ClientRestart, RespondedWasAsked, NetWasAsked, Entries
  <2> QED
    BY <2>3, <2>4, <2>5
<1>3. CASE Tick
  <2>1. servers' \in [Indexes -> Entry]
    BY <1>3, Constants DEF Tick, TypeOK, Entry
  <2>2. \A i \in Indexes : /\ servers'[i].active = servers[i].active
                           /\ servers'[i].addr = servers[i].addr
                           /\ servers'[i].responded = servers[i].responded
    BY <1>3 DEF Tick, TypeOK, Entry
  <2>3. queryIn' \in 0..QueryInterval
    BY <1>3, Constants DEF Tick, TypeOK
  <2>4. helloIn' \in [Servers -> 0..(HelloInterval + 1)]
    BY <1>3, Constants DEF Tick, TypeOK
  <2> QED
    BY <1>3, <2>1, <2>2, <2>3, <2>4
       DEF Tick, TypeOK, OneEntry, RespondedWasAsked, NetWasAsked, Entries
<1> QED
  BY <1>1, <1>2, <1>3

(* The steps that leave the list alone.                                    *)
LEMMA NetInv ==
    ASSUME Inv,
           \/ QuerySender \/ Lose
           \/ \E s \in Servers : HelloBroadcaster(s) \/ HandleClientQuery(s)
                                     \/ Crash(s) \/ Restart(s)
    PROVE  Inv'
<1> USE DEF Inv, clientState, serverState, history
<1>1. servers' = servers
  BY DEF QuerySender, Lose, HelloBroadcaster, HandleClientQuery, Crash, Restart
<1>2. OneEntry'
  BY <1>1 DEF OneEntry
<1>3. CASE QuerySender
  <2>1. TypeOK'
    BY <1>3, Constants, Packets DEF QuerySender, TypeOK
  <2>2. RespondedWasAsked'
    BY <1>3 DEF QuerySender, RespondedWasAsked, Entries
  <2>3. NetWasAsked'
    BY <1>3, Packets DEF QuerySender, NetWasAsked, TypeOK
  <2> QED
    BY <1>2, <2>1, <2>2, <2>3
<1>4. CASE Lose
  BY <1>2, <1>4 DEF Lose, TypeOK, RespondedWasAsked, NetWasAsked, Entries
<1>5. ASSUME NEW s \in Servers, HelloBroadcaster(s) PROVE Inv'
  <2>1. TypeOK'
    BY <1>5, Constants, Packets DEF HelloBroadcaster, TypeOK
  <2>2. NetWasAsked'
    BY <1>5, Packets DEF HelloBroadcaster, NetWasAsked
  <2> QED
    BY <1>2, <1>5, <2>1, <2>2 DEF HelloBroadcaster, RespondedWasAsked, Entries
<1>6. ASSUME NEW s \in Servers, HandleClientQuery(s) PROVE Inv'
  <2>1. TypeOK'
    BY <1>6, Packets DEF HandleClientQuery, TypeOK
  <2>2. NetWasAsked'
    BY <1>6, Packets DEF HandleClientQuery, NetWasAsked
  <2> QED
    BY <1>2, <1>6, <2>1, <2>2 DEF HandleClientQuery, RespondedWasAsked, Entries
<1>7. ASSUME NEW s \in Servers, Crash(s) \/ Restart(s) PROVE Inv'
  <2>1. TypeOK'
    <3>1. CASE Crash(s)
      BY <3>1 DEF Crash, TypeOK
    <3>2. CASE Restart(s)
      <4>1. helloIn' \in [Servers -> 0..(HelloInterval + 1)]
        BY <3>2, Constants DEF Restart, TypeOK
      <4> QED
        BY <3>2, <4>1 DEF Restart, TypeOK
    <3> QED
      BY <1>7, <3>1, <3>2
  <2> QED
    BY <1>2, <1>7, <2>1 DEF Crash, Restart, RespondedWasAsked, NetWasAsked, Entries
<1> QED
  BY <1>3, <1>4, <1>5, <1>6, <1>7

(* Every step keeps the invariant, so it always holds.                     *)
LEMMA NextInv == Inv /\ [Next]_vars => Inv'
<1> SUFFICES ASSUME Inv, [Next]_vars PROVE Inv'
  OBVIOUS
<1>1. CASE UNCHANGED vars
  BY <1>1 DEF Inv, vars, clientState, serverState, history, TypeOK, OneEntry,
              RespondedWasAsked, NetWasAsked, Entries
<1>2. CASE Next
  BY <1>2, HandleInv, ListInv, NetInv DEF Next
<1> QED
  BY <1>1, <1>2

(* From the two facts above.                                               *)
LEMMA Invariance == Spec => []Inv
  BY InitInv, NextInv, PTL DEF Spec

(* The client's list, the servers and the packets stay of their types.     *)
THEOREM TypeCorrect == Spec => []TypeOK
<1>1. Inv => TypeOK
  BY DEF Inv
<1> QED
  BY <1>1, Invariance, PTL

(* However often a server is dropped and heard again, it has one entry.    *)
THEOREM Unique == Spec => []OneEntry
<1>1. Inv => OneEntry
  BY DEF Inv
<1> QED
  BY <1>1, Invariance, PTL

(* A response on record was given by the server it is recorded for.        *)
THEOREM Responses == Spec => []RespondedWasAsked
<1>1. Inv => RespondedWasAsked
  BY DEF Inv
<1> QED
  BY <1>1, Invariance, PTL

-----------------------------------------------------------------------------
(* The list implements Membership.  The mapping is stated for any list, so *)
(* that a fact about it serves for the list before and after a step.       *)
Holder(list, h) == {i \in Indexes : list[i].active /\ list[i].addr = h}
Held(list) == {h \in Hosts : Holder(list, h) # {}}
SilenceOf(list) == [h \in Held(list) |-> list[First(Holder(list, h))].last_seen]
Single(list) ==
    \A i, j \in Indexes : (/\ list[i].active /\ list[j].active
                           /\ list[i].addr = list[j].addr) => i = j

(* The mapping, before and after a step.                                   *)
LEMMA SilenceIs ==
    /\ Silence = SilenceOf(servers) /\ Silence' = SilenceOf(servers')
    /\ OneEntry <=> Single(servers)
    /\ OneEntry' <=> Single(servers')
  BY DEF Silence, SilenceOf, Held, Holder, Listed, Entries, OneEntry, Single

(* The value at a host is the one of its entry.                            *)
LEMMA SilenceAt ==
    ASSUME NEW list, Single(list), NEW i \in Indexes, list[i].active,
           list[i].addr \in Hosts
    PROVE  /\ list[i].addr \in Held(list)
           /\ SilenceOf(list)[list[i].addr] = list[i].last_seen
<1>1. Holder(list, list[i].addr) = {i}
  BY DEF Single, Holder
<1>2. First({i}) \in {i}
  BY FirstIsIn
<1>3. list[i].addr \in Held(list)
  BY <1>1 DEF Held
<1> QED
  BY <1>1, <1>2, <1>3 DEF SilenceOf

(* Lists with the same entries in use have the same members.               *)
LEMMA SameHeld ==
    ASSUME NEW list, NEW next,
           \A i \in Indexes : /\ next[i].active = list[i].active
                              /\ list[i].active => next[i].addr = list[i].addr
    PROVE  Held(next) = Held(list)
<1>1. \A h \in Hosts : Holder(next, h) = Holder(list, h)
  BY DEF Holder
<1> QED
  BY <1>1 DEF Held


(* As long as an entry is unused there is room for one more member.        *)
LEMMA Room ==
    ASSUME NEW list, NEW u \in Indexes, ~list[u].active
    PROVE  Cardinality(Held(list)) < MaxServers
<1> DEFINE T == Indexes \ {u}
           f == [h \in Held(list) |-> First(Holder(list, h))]
<1>1. IsFiniteSet(T) /\ Cardinality(T) = MaxServers - 1
  <2>1. MaxServers \in Int /\ MaxServers >= 1
    BY CldpAssumption
  <2>2. IsFiniteSet(Indexes) /\ Cardinality(Indexes) = MaxServers
    BY <2>1, FS_Interval DEF Indexes
  <2> QED
    BY <2>2, FS_RemoveElement
<1>2. \A h \in Held(list) : f[h] \in Holder(list, h)
  BY FirstIsIn DEF Held, Holder
<1>3. \A h \in Held(list) : f[h] \in T /\ list[f[h]].addr = h
  BY <1>2 DEF Holder
<1>4. f \in Injection(Held(list), T)
  BY <1>3 DEF Injection, IsInjective
<1>5. IsFiniteSet(Held(list)) /\ Cardinality(Held(list)) <= Cardinality(T)
  BY <1>1, <1>4, FS_Injection
<1>6. Cardinality(Held(list)) \in Nat
  BY <1>5, FS_CardinalityType
<1> QED
  BY <1>1, <1>5, <1>6, Constants

(* Membership counts as this module does.                                  *)
LEMMA SameCardinality == \A S : Group!Cardinality(S) = Cardinality(S)
  BY DEF Group!Cardinality, Cardinality, Group!IsFiniteSet, IsFiniteSet

(* handle_hello is Hear, or has no effect when the list is full.           *)
LEMMA HeardHears ==
    ASSUME ListOK, ListOK', NEW h \in Hosts, servers' = Heard(h)
    PROVE  Group!Hear(h) \/ UNCHANGED Silence
<1>0. /\ Single(servers) /\ Single(servers')
      /\ servers \in [Indexes -> Entry] /\ servers' \in [Indexes -> Entry]
  BY SilenceIs DEF ListOK
<1> DEFINE S == SilenceOf(servers)
           N == SilenceOf(servers')
<1>1. SUFFICES \/ /\ h \in Held(servers) \/ Cardinality(Held(servers)) < MaxServers
                  /\ Held(servers') = Held(servers) \cup {h}
                  /\ \A m \in Held(servers') : N[m] = IF m = h THEN 0 ELSE S[m]
               \/ servers' = servers
  <2>1. CASE servers' = servers
    BY <2>1, SilenceIs
  <2>2. CASE /\ h \in Held(servers) \/ Cardinality(Held(servers)) < MaxServers
             /\ Held(servers') = Held(servers) \cup {h}
             /\ \A m \in Held(servers') : N[m] = IF m = h THEN 0 ELSE S[m]
    <3>1. N = [m \in Held(servers') |-> N[m]] /\ DOMAIN S = Held(servers)
      BY DEF SilenceOf
    <3>2. N = [m \in Held(servers) \cup {h} |-> IF m = h THEN 0 ELSE S[m]]
      BY <2>2, <3>1, Zenon
    <3> HIDE DEF S, N
    <3> QED
      BY <2>2, <3>1, <3>2, SilenceIs, SameCardinality DEF Group!Hear, Group!Members, S, N
  <2> QED
    BY <1>1, <2>1, <2>2
<1>2. ASSUME NEW i \in Indexes, servers[i].active, servers[i].addr = h,
             servers' = [servers EXCEPT ![i].last_seen = 0]
      PROVE  /\ h \in Held(servers) /\ Held(servers') = Held(servers)
             /\ \A m \in Held(servers') : N[m] = IF m = h THEN 0 ELSE S[m]
  <2>1. \A j \in Indexes : /\ servers'[j].active = servers[j].active
                           /\ servers'[j].addr = servers[j].addr
                           /\ servers'[j].last_seen =
                                 IF j = i THEN 0 ELSE servers[j].last_seen
    BY <1>0, <1>2 DEF Entry
  <2>2. Held(servers') = Held(servers)
    BY <2>1, SameHeld
  <2>3. h \in Held(servers)
    BY <1>0, <1>2, SilenceAt
  <2>4. ASSUME NEW m \in Held(servers')
        PROVE  N[m] = IF m = h THEN 0 ELSE S[m]
    <3>1. PICK j \in Indexes : servers[j].active /\ servers[j].addr = m
      BY <2>2, <2>4 DEF Held, Holder
    <3>2. m \in Hosts
      BY <2>4 DEF Held
    <3>3. S[m] = servers[j].last_seen /\ N[m] = servers'[j].last_seen
      BY <1>0, <2>1, <3>1, <3>2, SilenceAt
    <3>4. j = i <=> m = h
      BY <1>0, <1>2, <3>1 DEF Single
    <3> QED
      BY <2>1, <3>3, <3>4
  <2> QED
    BY <2>2, <2>3, <2>4
<1>3. ASSUME NEW i \in Indexes, ~servers[i].active,
             servers' = [servers EXCEPT ![i] = New(h)]
      PROVE  /\ Cardinality(Held(servers)) < MaxServers
             /\ Held(servers') = Held(servers) \cup {h}
             /\ \A m \in Held(servers') : N[m] = IF m = h THEN 0 ELSE S[m]
  <2>1. Cardinality(Held(servers)) < MaxServers
    BY <1>3, Room
  <2>2. /\ servers'[i].active /\ servers'[i].addr = h /\ servers'[i].last_seen = 0
        /\ \A j \in Indexes : j # i => servers'[j] = servers[j]
    BY <1>0, <1>3 DEF New
  <2>3. h \in Held(servers') /\ N[h] = 0
    BY <1>0, <2>2, SilenceAt
  <2>4. ASSUME NEW m \in Held(servers) \cup Held(servers'), m # h
        PROVE  m \in Held(servers) /\ m \in Held(servers') /\ N[m] = S[m]
    <3>1. PICK j \in Indexes : j # i /\ servers[j].active /\ servers[j].addr = m
      BY <1>3, <2>2, <2>4 DEF Held, Holder
    <3>2. m \in Hosts
      BY <2>4 DEF Held
    <3> QED
      BY <1>0, <2>2, <3>1, <3>2, SilenceAt
  <2> QED
    BY <2>1, <2>3, <2>4
<1> QED
  BY <1>2, <1>3, HeardCases


(* handle_response does not show.                                          *)
LEMMA RespondedStutters ==
    ASSUME ListOK, ListOK', NEW h \in Hosts, servers' = Responded(h)
    PROVE  UNCHANGED Silence
<1>1. \A i \in Indexes : /\ servers'[i].active = servers[i].active
                         /\ servers'[i].addr = servers[i].addr
                         /\ servers'[i].last_seen = servers[i].last_seen
  BY RespondedCases DEF ListOK, Entry
<1>2. /\ Single(servers) /\ Single(servers')
      /\ Held(servers') = Held(servers)
  BY <1>1, SilenceIs, SameHeld DEF ListOK
<1>3. \A m \in Held(servers) : Holder(servers', m) = Holder(servers, m)
  BY <1>1 DEF Holder
<1>4. \A m \in Held(servers) : First(Holder(servers, m)) \in Indexes
  BY FirstIsIn DEF Held, Holder
<1>5. SilenceOf(servers') = SilenceOf(servers)
  BY <1>1, <1>2, <1>3, <1>4 DEF SilenceOf
<1> QED
  BY <1>5, SilenceIs

(* check_timeouts is Forget.                                               *)
LEMMA TimeoutsForget ==
    ASSUME ListOK, ListOK', CheckTimeouts
    PROVE  Group!Forget
<1> DEFINE S == SilenceOf(servers)
           N == SilenceOf(servers')
           kept == {h \in Held(servers) : S[h] <= ServerTimeout}
<1>0. Single(servers) /\ Single(servers') /\ servers \in [Indexes -> Entry]
  BY SilenceIs DEF ListOK
<1>1. \A i \in Indexes :
          /\ servers'[i].active <=>
                servers[i].active /\ servers[i].last_seen <= ServerTimeout
          /\ servers'[i].addr = servers[i].addr
          /\ servers'[i].last_seen = servers[i].last_seen
  <2>1. \A i \in Indexes : /\ servers[i] \in Entry
                           /\ servers[i].last_seen \in Nat
    BY <1>0, Constants DEF Entry
  <2> QED
    BY <2>1, Constants DEF CheckTimeouts, Entry
<1>2. ASSUME NEW m \in Held(servers')
      PROVE  m \in kept /\ N[m] = S[m]
  <2>1. PICK i \in Indexes : servers'[i].active /\ servers'[i].addr = m
    BY <1>2 DEF Held, Holder
  <2>2. m \in Hosts
    BY <1>2 DEF Held
  <2>3. N[m] = servers'[i].last_seen
    BY <1>0, <2>1, <2>2, SilenceAt
  <2>4. m \in Held(servers) /\ S[m] = servers[i].last_seen
    BY <1>0, <1>1, <2>1, <2>2, SilenceAt
  <2> QED
    BY <1>1, <2>1, <2>3, <2>4
<1>3. ASSUME NEW m \in kept
      PROVE  m \in Held(servers')
  <2>1. PICK i \in Indexes : servers[i].active /\ servers[i].addr = m
    BY <1>3 DEF Held, Holder
  <2>2. m \in Hosts
    BY <1>3 DEF Held
  <2>3. servers[i].last_seen <= ServerTimeout
    BY <1>0, <1>3, <2>1, <2>2, SilenceAt
  <2> QED
    BY <1>0, <1>1, <2>1, <2>2, <2>3, SilenceAt
<1>4. Held(servers') = kept
  BY <1>2, <1>3
<1>5. DOMAIN S = Held(servers) /\ N = [m \in Held(servers') |-> N[m]]
  BY DEF SilenceOf
<1>6. N = [m \in {h \in DOMAIN S : S[h] <= ServerTimeout} |-> S[m]]
  BY <1>2, <1>4, <1>5, Zenon
<1> QED
  BY <1>6, SilenceIs DEF Group!Forget, Group!Members

(* A second passes for every member.                                       *)
LEMMA TickPasses ==
    ASSUME ListOK, ListOK', Tick
    PROVE  Group!Pass
<1> DEFINE S == SilenceOf(servers)
           N == SilenceOf(servers')
<1>0. Single(servers) /\ Single(servers') /\ servers \in [Indexes -> Entry]
  BY SilenceIs DEF ListOK
<1>1. \A i \in Indexes :
          /\ servers'[i].active = servers[i].active
          /\ servers'[i].addr = servers[i].addr
          /\ servers'[i].last_seen =
                IF servers[i].last_seen > ServerTimeout
                THEN servers[i].last_seen ELSE servers[i].last_seen + 1
  BY <1>0 DEF Tick, Entry
<1>2. Held(servers') = Held(servers)
  BY <1>1, SameHeld
<1>3. ASSUME NEW m \in Held(servers)
      PROVE  N[m] = IF S[m] > ServerTimeout THEN S[m] ELSE S[m] + 1
  <2>1. PICK i \in Indexes : servers[i].active /\ servers[i].addr = m
    BY <1>3 DEF Held, Holder
  <2>2. m \in Hosts
    BY <1>3 DEF Held
  <2>3. S[m] = servers[i].last_seen /\ N[m] = servers'[i].last_seen
    BY <1>0, <1>1, <2>1, <2>2, SilenceAt
  <2> QED
    BY <1>1, <2>3
<1>4. DOMAIN S = Held(servers) /\ N = [m \in Held(servers') |-> N[m]]
  BY DEF SilenceOf
<1>5. N = [m \in DOMAIN S |-> IF S[m] > ServerTimeout THEN S[m] ELSE S[m] + 1]
  BY <1>2, <1>3, <1>4, Zenon
<1> QED
  BY <1>5, SilenceIs DEF Group!Pass, Group!Members

(* An empty list has no members.                                           *)
LEMMA NoMembers ==
    ASSUME NEW list, \A i \in Indexes : ~list[i].active
    PROVE  SilenceOf(list) = [h \in {} |-> 0]
<1>1. Held(list) = {}
  BY DEF Held, Holder
<1> QED
  BY <1>1 DEF SilenceOf


(* Each step of the client, the servers and the network is a step of       *)
(* Membership, or does not show.                                           *)
LEMMA StepMaps ==
    ASSUME Inv, Inv', [Next]_vars
    PROVE  [Group!Next]_Silence
<1>0. ListOK /\ ListOK'
  BY DEF Inv, TypeOK, ListOK
<1>1. CASE servers' = servers
  BY <1>1, SilenceIs
<1>2. ASSUME NEW s \in Servers, HandleHello(s) PROVE [Group!Next]_Silence
  <2>1. s \in Hosts /\ servers' = Heard(s)
    BY <1>2 DEF HandleHello, Hosts
  <2>2. Group!Hear(s) \/ UNCHANGED Silence
    BY <1>0, <2>1, HeardHears
  <2> QED
    BY <2>1, <2>2 DEF Group!Next
<1>3. ASSUME NEW s \in Servers, HandleResponse(s) PROVE [Group!Next]_Silence
  <2>1. s \in Hosts /\ servers' = Responded(s)
    BY <1>3 DEF HandleResponse, Hosts
  <2> QED
    BY <1>0, <2>1, RespondedStutters
<1>4. ASSUME NEW h \in Others, HandleOther(h) PROVE [Group!Next]_Silence
  <2>1. h \in Hosts
    BY DEF Hosts
  <2>2. CASE servers' = Heard(h)
    <3>1. Group!Hear(h) \/ UNCHANGED Silence
      BY <1>0, <2>1, <2>2, HeardHears
    <3> QED
      BY <2>1, <3>1 DEF Group!Next
  <2>3. CASE servers' = Responded(h)
    BY <1>0, <2>1, <2>3, RespondedStutters
  <2> QED
    BY <1>1, <1>4, <2>2, <2>3 DEF HandleOther
<1>5. CASE CheckTimeouts
  BY <1>0, <1>5, TimeoutsForget DEF Group!Next
<1>6. CASE Tick
  BY <1>0, <1>6, TickPasses DEF Group!Next
<1>7. CASE ClientRestart
  <2>1. \A i \in Indexes : ~servers'[i].active
    BY <1>7 DEF ClientRestart, NoEntry
  <2> QED
    BY <2>1, NoMembers, SilenceIs DEF Group!Next, Group!Reset
<1>8. CASE QuerySender \/ Lose \/ UNCHANGED vars
  BY <1>1, <1>8 DEF QuerySender, Lose, vars, clientState
<1>9. ASSUME NEW s \in Servers,
             \/ HelloBroadcaster(s) \/ HandleClientQuery(s)
             \/ Crash(s) \/ Restart(s)
      PROVE  [Group!Next]_Silence
  BY <1>1, <1>9 DEF HelloBroadcaster, HandleClientQuery, Crash, Restart, clientState
<1> QED
  BY <1>2, <1>3, <1>4, <1>5, <1>6, <1>7, <1>8, <1>9 DEF Next

(* Whoever uses the client's list sees a bounded set of hosts, from which  *)
(* only the silent ones are dropped, whatever becomes of the entries.      *)
THEOREM Implementation == Spec => ImplementsMembership
<1>1. Init => Group!Init
  <2> SUFFICES ASSUME Init PROVE Group!Init
    OBVIOUS
  <2>1. \A i \in Indexes : ~servers[i].active
    BY DEF Init, NoEntry
  <2> QED
    BY <2>1, NoMembers, SilenceIs DEF Group!Init
<1>2. Inv /\ Inv' /\ [Next]_vars => [Group!Next]_Silence
  BY StepMaps
<1> QED
  BY <1>1, <1>2, Invariance, PTL DEF Spec, ImplementsMembership, Group!Spec

-----------------------------------------------------------------------------
(* The time limit.  A server's next HELLO falls due HelloInterval + 1 at   *)
(* the latest after the last one; until Tolerance of them have gone by the *)
(* limit is not reached.                                                   *)

Due(m) == (m + 1) * (HelloInterval + 1)

LEMMA DueIs ==
    /\ Due(0) = HelloInterval + 1
    /\ \A m \in Nat : /\ Due(m) \in Nat
                      /\ Due(m + 1) = Due(m) + (HelloInterval + 1)
                      /\ m < Tolerance => Due(m) <= ServerTimeout
<1> DEFINE d == HelloInterval + 1
<1>1. d \in Nat \ {0} /\ ServerTimeout \in Nat /\ Tolerance = ServerTimeout \div d
      /\ Tolerance \in Nat
  BY Constants DEF Tolerance
<1> HIDE DEF d
<1>2. d * Tolerance <= ServerTimeout
  BY <1>1
<1>3. Due(0) = d /\ \A m \in Nat : Due(m) = (m + 1) * d
  BY <1>1 DEF Due, d
<1>4. ASSUME NEW m \in Nat
      PROVE  /\ Due(m) \in Nat /\ Due(m + 1) = Due(m) + d
             /\ m < Tolerance => Due(m) <= ServerTimeout
  <2>1. Due(m) = (m + 1) * d /\ Due(m + 1) = (m + 1 + 1) * d
    BY <1>3
  <2>2. (m + 1) * d \in Nat /\ (m + 1 + 1) * d = (m + 1) * d + d
    BY <1>1
  <2>3. ASSUME m < Tolerance PROVE (m + 1) * d <= ServerTimeout
    <3>1. PICK k \in Nat : Tolerance = m + 1 + k
      <4>1. Tolerance - (m + 1) \in Nat /\ Tolerance = m + 1 + (Tolerance - (m + 1))
        BY <1>1, <2>3
      <4> QED
        BY <4>1
    <3>2. d * Tolerance = (m + 1) * d + k * d /\ k * d \in Nat
      BY <1>1, <3>1
    <3> QED
      BY <1>1, <1>2, <2>2, <3>2
  <2> QED
    BY <2>1, <2>2, <2>3
<1> QED
  BY <1>3, <1>4 DEF d

(* What the client's clock says of a server that has run since it was heard*)
(* last.                                                                   *)
OnTimeAt(s) ==
    steady[s] =>
        /\ up[s]
        /\ missed[s] < Tolerance =>
               \A i \in Entries(s) :
                   servers[i].last_seen + helloIn[s] <= Due(missed[s])

OnTime == \A s \in Servers : OnTimeAt(s)

(* Where nothing happened to a server, and no entry of its own is new.     *)
LEMMA OnTimeKept ==
    ASSUME NEW s \in Servers, OnTimeAt(s),
           steady'[s] = steady[s], up'[s] = up[s], missed'[s] = missed[s],
           helloIn'[s] = helloIn[s],
           \A i \in Entries(s)' : /\ i \in Entries(s)
                                  /\ servers'[i].last_seen = servers[i].last_seen
    PROVE  OnTimeAt(s)'
  BY DEF OnTimeAt

(* What handle_hello and handle_response do to the entry of each host.     *)
LEMMA HeardEntries ==
    ASSUME ListOK, NEW h, servers' = Heard(h)
    PROVE  /\ \A i \in Entries(h)' : servers'[i].last_seen = 0
           /\ \A s : s # h => \A i \in Entries(s)' :
                  i \in Entries(s) /\ servers'[i].last_seen = servers[i].last_seen
<1>1. ASSUME NEW i \in Indexes, servers[i].active, servers[i].addr = h,
             servers' = [servers EXCEPT ![i].last_seen = 0]
      PROVE  /\ \A j \in Entries(h)' : servers'[j].last_seen = 0
             /\ \A s : s # h => \A j \in Entries(s)' :
                    j \in Entries(s) /\ servers'[j].last_seen = servers[j].last_seen
  <2>1. /\ servers'[i].last_seen = 0
        /\ \A j \in Indexes : /\ servers'[j].active = servers[j].active
                              /\ servers'[j].addr = servers[j].addr
                              /\ j # i => servers'[j] = servers[j]
    BY <1>1 DEF ListOK, Entry
  <2>2. \A j \in Entries(h)' : j = i
    BY <1>1, <2>1 DEF ListOK, OneEntry, Entries
  <2> QED
    BY <1>1, <2>1, <2>2 DEF Entries
<1>2. ASSUME ~Listed(h), NEW i \in Indexes, servers' = [servers EXCEPT ![i] = New(h)]
      PROVE  /\ \A j \in Entries(h)' : servers'[j].last_seen = 0
             /\ \A s : s # h => \A j \in Entries(s)' :
                    j \in Entries(s) /\ servers'[j].last_seen = servers[j].last_seen
  <2>1. /\ servers'[i] = New(h)
        /\ \A j \in Indexes : j # i => servers'[j] = servers[j]
    BY <1>2 DEF ListOK
  <2>2. \A j \in Entries(h)' : j = i
    BY <1>2, <2>1 DEF Listed, Entries
  <2> QED
    BY <2>1, <2>2 DEF Entries, New
<1>3. CASE ~Listed(h) /\ servers' = servers
  BY <1>3 DEF Listed, Entries
<1> QED
  BY <1>1, <1>2, <1>3, HeardCases

LEMMA RespondedEntries ==
    ASSUME ListOK, NEW h, servers' = Responded(h)
    PROVE  \A s : \A i \in Entries(s)' :
               i \in Entries(s) /\ servers'[i].last_seen = servers[i].last_seen
<1>1. CASE servers' = servers
  BY <1>1 DEF Entries
<1>2. ASSUME NEW i \in Indexes, servers' = [servers EXCEPT ![i].responded = TRUE]
      PROVE  \A j \in Indexes : /\ servers'[j].active = servers[j].active
                                /\ servers'[j].addr = servers[j].addr
                                /\ servers'[j].last_seen = servers[j].last_seen
  BY <1>2 DEF ListOK, Entry
<1> QED
  BY <1>1, <1>2, RespondedCases DEF Entries

(* The packets the client handles: only a HELLO of its own matters to a    *)
(* server.                                                                 *)
LEMMA OnTimeHandle ==
    ASSUME Inv, OnTime,
           \/ \E r \in Servers : HandleHello(r) \/ HandleResponse(r)
           \/ \E h \in Others : HandleOther(h)
    PROVE  OnTime'
<1> SUFFICES ASSUME NEW s \in Servers PROVE OnTimeAt(s)'
  BY DEF OnTime
<1> USE DEF serverState, history
<1>0. ListOK /\ OnTimeAt(s)
  BY DEF Inv, TypeOK, ListOK, OnTime
<1>1. ASSUME NEW r \in Servers, HandleHello(r) PROVE OnTimeAt(s)'
  <2>1. servers' = Heard(r) /\ up' = up /\ helloIn' = helloIn
    BY <1>1 DEF HandleHello
  <2>2. CASE s = r
    <3>1. /\ missed'[s] = 0 /\ steady'[s] = up[s]
          /\ helloIn[s] \in 0..(HelloInterval + 1)
      BY <1>1, <2>2 DEF HandleHello, Inv, TypeOK
    <3>2. \A i \in Entries(s)' : servers'[i].last_seen = 0
      BY <1>0, <2>1, <2>2, HeardEntries
    <3>3. Due(0) = HelloInterval + 1 /\ HelloInterval \in Nat
      BY DueIs, Constants
    <3>4. 0 + helloIn[s] <= Due(0)
      BY <3>1, <3>3
    <3> QED
      BY <2>1, <3>1, <3>2, <3>4 DEF OnTimeAt
  <2>3. CASE s # r
    <3>1. missed'[s] = missed[s] /\ steady'[s] = steady[s]
      BY <1>1, <2>3 DEF HandleHello, Inv, TypeOK
    <3> QED
      BY <1>0, <2>1, <2>3, <3>1, HeardEntries, OnTimeKept
  <2> QED
    BY <2>2, <2>3
<1>2. ASSUME NEW r \in Servers, HandleResponse(r) PROVE OnTimeAt(s)'
  <2>1. servers' = Responded(r) /\ UNCHANGED <<up, helloIn, missed, steady>>
    BY <1>2 DEF HandleResponse
  <2> QED
    BY <1>0, <2>1, RespondedEntries, OnTimeKept
<1>3. ASSUME NEW h \in Others, HandleOther(h) PROVE OnTimeAt(s)'
  <2>1. s # h
    BY CldpAssumption
  <2>2. /\ servers' = Heard(h) \/ servers' = Responded(h) \/ servers' = servers
        /\ UNCHANGED <<up, helloIn, missed, steady>>
    BY <1>3 DEF HandleOther
  <2>3. \A i \in Entries(s)' : /\ i \in Entries(s)
                               /\ servers'[i].last_seen = servers[i].last_seen
    <3>1. CASE servers' = servers
      BY <3>1 DEF Entries
    <3> QED
      BY <1>0, <2>1, <2>2, <3>1, HeardEntries, RespondedEntries
  <2> QED
    BY <1>0, <2>2, <2>3, OnTimeKept
<1> QED
  BY <1>1, <1>2, <1>3

(* A HELLO is sent, and the next one falls due.                            *)
LEMMA OnTimeHello ==
    ASSUME Inv, OnTime, NEW r \in Servers, HelloBroadcaster(r)
    PROVE  OnTime'
<1> SUFFICES ASSUME NEW s \in Servers PROVE OnTimeAt(s)'
  BY DEF OnTime
<1>1. /\ servers' = servers /\ up' = up /\ steady' = steady
      /\ Entries(s)' = Entries(s) /\ OnTimeAt(s)
  BY DEF HelloBroadcaster, clientState, Entries, OnTime
<1>2. CASE s # r
  <2>1. missed'[s] = missed[s] /\ helloIn'[s] = helloIn[s]
    BY <1>2 DEF HelloBroadcaster, Inv, TypeOK
  <2> QED
    BY <1>1, <2>1, OnTimeKept
<1>3. CASE s = r
  <2>1. /\ helloIn[s] = 0 /\ helloIn'[s] \in {HelloInterval, HelloInterval + 1}
        /\ missed[s] \in 0..Tolerance
        /\ missed'[s] = IF missed[s] < Tolerance THEN missed[s] + 1 ELSE missed[s]
        /\ servers \in [Indexes -> Entry]
    BY <1>3 DEF HelloBroadcaster, Inv, TypeOK
  <2> SUFFICES ASSUME steady[s], missed'[s] < Tolerance, NEW i \in Entries(s)
               PROVE  servers[i].last_seen + helloIn'[s] <= Due(missed'[s])
    BY <1>1 DEF OnTimeAt
  <2>2. missed[s] \in Nat /\ missed'[s] = missed[s] + 1 /\ missed[s] < Tolerance
    BY <2>1, Constants
  <2>3. servers[i].last_seen \in Nat
    BY <2>1, Constants DEF Entries, Entry
  <2>4. servers[i].last_seen + helloIn[s] <= Due(missed[s])
    BY <1>1, <2>2 DEF OnTimeAt
  <2>5. Due(missed'[s]) = Due(missed[s]) + (HelloInterval + 1) /\ Due(missed[s]) \in Nat
    BY <2>2, DueIs
  <2>6. HelloInterval \in Nat
    BY Constants
  <2> QED
    BY <2>1, <2>3, <2>4, <2>5, <2>6
<1> QED
  BY <1>2, <1>3

(* A second passes.                                                        *)
LEMMA OnTimeTick ==
    ASSUME Inv, OnTime, Tick
    PROVE  OnTime'
<1> SUFFICES ASSUME NEW s \in Servers, steady[s], missed[s] < Tolerance,
                    NEW i \in Entries(s)
             PROVE  servers'[i].last_seen + helloIn'[s] <= Due(missed[s])
  <2>1. \A s \in Servers : Entries(s)' = Entries(s)
    BY DEF Tick, Inv, TypeOK, Entry, Entries
  <2>2. up' = up /\ missed' = missed /\ steady' = steady
    BY DEF Tick, history
  <2> QED
    BY <2>1, <2>2 DEF OnTime, OnTimeAt
<1>1. /\ up[s] /\ servers[i].last_seen + helloIn[s] <= Due(missed[s])
      /\ i \in Indexes
  BY DEF OnTime, OnTimeAt, Entries
<1>2. /\ servers[i].last_seen \in Int /\ helloIn[s] \in Int
      /\ missed[s] \in Nat
  BY <1>1, Constants DEF Inv, TypeOK, Entry
<1>3. helloIn'[s] = helloIn[s] - 1
  BY <1>1 DEF Tick
<1>4. \/ servers'[i].last_seen = servers[i].last_seen
      \/ servers'[i].last_seen = servers[i].last_seen + 1
  BY <1>1 DEF Tick, Inv, TypeOK, Entry
<1>5. Due(missed[s]) \in Nat
  BY <1>2, DueIs
<1> QED
  BY <1>1, <1>2, <1>3, <1>4, <1>5

LEMMA OnTimeNext == Inv /\ OnTime /\ [Next]_vars => OnTime'
<1> SUFFICES ASSUME Inv, OnTime, [Next]_vars PROVE OnTime'
  OBVIOUS
<1> USE DEF clientState, serverState, history
<1>1. ASSUME \/ UNCHANGED vars \/ QuerySender \/ Lose
             \/ \E s \in Servers : HandleClientQuery(s)
      PROVE  OnTime'
  <2>1. UNCHANGED <<servers, up, helloIn, missed, steady>>
    BY <1>1 DEF vars, QuerySender, Lose, HandleClientQuery
  <2> QED
    BY <2>1 DEF OnTime, OnTimeAt, Entries
<1>2. CASE CheckTimeouts \/ ClientRestart
  <2>1. UNCHANGED <<up, helloIn, missed, steady>>
    BY <1>2 DEF CheckTimeouts, ClientRestart
  <2>2. \A i \in Indexes : servers'[i].active =>
            /\ servers[i].active /\ servers'[i].addr = servers[i].addr
            /\ servers'[i].last_seen = servers[i].last_seen
    BY <1>2 DEF CheckTimeouts, ClientRestart, NoEntry, Inv, TypeOK, Entry
  <2>3. \A s \in Servers : \A i \in Entries(s)' :
            i \in Entries(s) /\ servers'[i].last_seen = servers[i].last_seen
    BY <2>2 DEF Entries
  <2> QED
    BY <2>1, <2>3 DEF OnTime, OnTimeAt
<1>3. ASSUME NEW r \in Servers, Crash(r) \/ Restart(r) PROVE OnTime'
  <2>1. servers' = servers /\ missed' = missed
    BY <1>3 DEF Crash, Restart
  <2>2. \A s \in Servers : steady'[s] =>
            steady[s] /\ s # r /\ up'[s] = up[s] /\ helloIn'[s] = helloIn[s]
    <3>1. CASE Crash(r)
      BY <3>1 DEF Crash, Inv, TypeOK
    <3>2. CASE Restart(r)
      <4>1. ~steady[r]
        BY <3>2 DEF Restart, OnTime, OnTimeAt
      <4> QED
        BY <3>2, <4>1 DEF Restart, Inv, TypeOK
    <3> QED
      BY <1>3, <3>1, <3>2
  <2> QED
    BY <2>1, <2>2 DEF OnTime, OnTimeAt, Entries
<1> QED
  BY <1>1, <1>2, <1>3, OnTimeHandle, OnTimeHello, OnTimeTick DEF Next

(* check_timeouts of cldp_client.c drops no server that is up and whose    *)
(* HELLOs arrive, as long as fewer of them are lost in a row than the      *)
(* timeout leaves time for.                                                *)
THEOREM DropsOnlySilent == Spec => DroppedWasSilent
<1>1. ASSUME Inv, OnTime, CheckTimeouts, NEW s \in Servers, Listed(s), ~Listed(s)'
      PROVE  ~steady[s] \/ missed[s] >= Tolerance
  <2> SUFFICES ASSUME steady[s], missed[s] < Tolerance
               PROVE  FALSE
    BY <1>1, Constants DEF Inv, TypeOK
  <2>1. PICK i \in Entries(s) : TRUE
    BY <1>1 DEF Listed
  <2>2. i \in Indexes /\ servers[i].active /\ i \notin Entries(s)'
    BY <1>1 DEF Listed, Entries
  <2>3. servers[i].last_seen > ServerTimeout
    BY <1>1, <2>1, <2>2 DEF CheckTimeouts, Inv, TypeOK, Entry, Entries
  <2>4. servers[i].last_seen + helloIn[s] <= Due(missed[s])
    BY <1>1, <2>1 DEF OnTime, OnTimeAt
  <2>5. Due(missed[s]) <= ServerTimeout /\ Due(missed[s]) \in Nat
    BY <1>1, DueIs DEF Inv, TypeOK
  <2>6. servers[i].last_seen \in Int /\ helloIn[s] \in Nat /\ ServerTimeout \in Nat
    BY <1>1, <2>2, Constants DEF Inv, TypeOK, Entry
  <2> QED
    BY <2>3, <2>4, <2>5, <2>6
<1>2. Inv /\ OnTime =>
        [CheckTimeouts =>
            \A s \in Servers : Listed(s) /\ ~Listed(s)' =>
                ~steady[s] \/ missed[s] >= Tolerance]_vars
  BY <1>1
<1>3. Init => OnTime
  BY DEF Init, OnTime, OnTimeAt
<1> QED
  BY <1>2, <1>3, InitInv, NextInv, OnTimeNext, PTL DEF Spec, DroppedWasSilent

=============================================================================
