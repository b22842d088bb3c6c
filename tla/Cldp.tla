--------------------------------- MODULE Cldp ---------------------------------
(***************************************************************************)
(* Discovery in A7: servers that announce themselves with HELLO and answer *)
(* QUERY with RESPONSE (cldp_server.c), and one client that keeps a list   *)
(* of them (cldp_client.c).  Packets are raw IP: they may be lost,         *)
(* delayed and reordered.  Everything the client does with its list is     *)
(* done under server_mutex, so each visit to the list is one step.         *)
(*                                                                         *)
(* Time is counted in seconds.  A step happens in the second between two   *)
(* ticks; last_seen is kept as the number of ticks since, up to            *)
(* SERVER_TIMEOUT + 1, as only "now - last_seen > SERVER_TIMEOUT" is asked *)
(* of it.  What is in a RESPONSE, and transaction ids, which no step       *)
(* compares, are left out.                                                 *)
(***************************************************************************)
EXTENDS Integers, FiniteSets

CONSTANTS
    Servers,         \* hosts whose server is modelled
    Others,          \* hosts that may send anything at any time
    MaxServers,      \* MAX_SERVERS : entries of the list
    HelloInterval,   \* HELLO_INTERVAL of the servers
    QueryInterval,   \* QUERY_INTERVAL of the client
    ServerTimeout    \* SERVER_TIMEOUT

ASSUME CldpAssumption ==
    /\ Servers \cap Others = {}
    /\ {MaxServers, HelloInterval, QueryInterval, ServerTimeout}
           \subseteq Nat \ {0}

Hosts   == Servers \cup Others
Indexes == 1..MaxServers
NoAddr  == "0.0.0.0"

ASSUME NoAddrAssumption == NoAddr \notin Hosts

VARIABLES
    servers,         \* client: the list
    idle,            \* client: a second has begun since select() last returned
    queryIn,         \* client: how long query_sender still sleeps
    up,              \* servers: which of them run
    helloIn,         \* servers: how long hello_broadcaster still sleeps
    net,             \* the packets under way
    missed,          \* history: HELLOs sent since one was last handled
    steady,          \* history: the server ran since then
    asked            \* history: a QUERY was ever sent to the server

clientState == <<servers, idle, queryIn>>
serverState == <<up, helloIn>>
history == <<missed, steady, asked>>
vars == <<clientState, serverState, net, history>>

Packet == [type : {"HELLO", "QUERY", "RESPONSE"}, host : Servers]
Hello(s) == [type |-> "HELLO", host |-> s]
Query(s) == [type |-> "QUERY", host |-> s]
Response(s) == [type |-> "RESPONSE", host |-> s]

(* How many HELLOs in a row must be missed before a server is dropped: the *)
(* time from one to the next, by the client's clock in whole seconds, is   *)
(* HelloInterval or one more.                                              *)
Tolerance == ServerTimeout \div (HelloInterval + 1)

NoEntry == [addr |-> NoAddr, last_seen |-> 0, active |-> FALSE,
            responded |-> FALSE]

Init ==
    /\ servers = [i \in Indexes |-> NoEntry]
    /\ idle = FALSE /\ queryIn = 0
    /\ up = [s \in Servers |-> TRUE] /\ helloIn = [s \in Servers |-> 0]
    /\ net = {}
    /\ missed = [s \in Servers |-> 0] /\ steady = [s \in Servers |-> FALSE]
    /\ asked = [s \in Servers |-> FALSE]

-----------------------------------------------------------------------------
(* The list.                                                               *)
(* MUTANT: an entry that timed out is still found by its address.          *)
EntriesStale(h) == {i \in Indexes : servers[i].addr = h}

Entries(h) == {i \in Indexes : servers[i].active /\ servers[i].addr = h}
Unused == {i \in Indexes : ~servers[i].active}
First(S) == CHOOSE i \in S : \A j \in S : i <= j
Listed(h) == Entries(h) # {}

(* MUTANT: any unused entry is taken before the address is looked for.     *)
HeardAnew(h) ==
    IF Unused # {}
    THEN [servers EXCEPT ![First(Unused)] =
              [addr |-> h, last_seen |-> 0, active |-> TRUE,
               responded |-> FALSE]]
    ELSE IF Listed(h)
    THEN [servers EXCEPT ![First(Entries(h))].last_seen = 0]
    ELSE servers

(* MUTANT: last_seen is set to a time that has not come yet.               *)
HeardAhead(h) ==
    IF Listed(h)
    THEN [servers EXCEPT ![First(Entries(h))].last_seen = -1]
    ELSE IF Unused # {}
    THEN [servers EXCEPT ![First(Unused)] =
              [addr |-> h, last_seen |-> 0, active |-> TRUE,
               responded |-> FALSE]]
    ELSE servers

(* MUTANT: last_response_time is not reset for the entry's new owner.      *)
HeardKeeps(h) ==
    IF Listed(h)
    THEN [servers EXCEPT ![First(Entries(h))].last_seen = 0]
    ELSE IF Unused # {}
    THEN [servers EXCEPT ![First(Unused)] =
              [@ EXCEPT !.addr = h, !.last_seen = 0, !.active = TRUE]]
    ELSE servers

(* handle_hello: update the entry of the address, or take the first unused *)
(* one; if there is none, the HELLO has no effect.                         *)
Heard(h) ==
    IF Listed(h)
    THEN [servers EXCEPT ![First(Entries(h))].last_seen = 0]
    ELSE IF Unused # {}
    THEN [servers EXCEPT ![First(Unused)] =
              [addr |-> h, last_seen |-> 0, active |-> TRUE,
               responded |-> FALSE]]
    ELSE servers

(* handle_response: by the address only, and it is no sign of life.        *)
Responded(h) ==
    IF Listed(h)
    THEN [servers EXCEPT ![First(Entries(h))].responded = TRUE]
    ELSE servers

-----------------------------------------------------------------------------
(* The client.  A packet makes select() return, and it starts anew.        *)
HandleHello(s) ==
    /\ Hello(s) \in net /\ net' = net \ {Hello(s)}
    /\ servers' = Heard(s) /\ idle' = FALSE
    /\ missed' = [missed EXCEPT ![s] = 0]
    /\ steady' = [steady EXCEPT ![s] = up[s]]
    /\ UNCHANGED <<queryIn, serverState, asked>>

HandleResponse(s) ==
    /\ Response(s) \in net /\ net' = net \ {Response(s)}
    /\ servers' = Responded(s) /\ idle' = FALSE
    /\ UNCHANGED <<queryIn, serverState, history>>

(* Packets of the other hosts: HELLO, RESPONSE, or one that is dropped.    *)
HandleOther(h) ==
    /\ servers' \in {Heard(h), Responded(h), servers} /\ idle' = FALSE
    /\ UNCHANGED <<queryIn, serverState, net, history>>

(* MUTANT: the timeout of one silent server is applied to the whole list.  *)
CheckTimeoutsAll ==
    /\ idle /\ idle' = FALSE
    /\ servers' = [i \in Indexes |->
           IF \E j \in Indexes : servers[j].last_seen > ServerTimeout
           THEN [servers[i] EXCEPT !.active = FALSE]
           ELSE servers[i]]
    /\ UNCHANGED <<queryIn, serverState, net, history>>

(* MUTANT: the loop over the entries ends after the first one.             *)
CheckTimeoutsOnce ==
    /\ idle /\ idle' = FALSE
    /\ servers' = [i \in Indexes |->
           IF i = 1 /\ servers[i].active
              /\ servers[i].last_seen > ServerTimeout
           THEN [servers[i] EXCEPT !.active = FALSE]
           ELSE servers[i]]
    /\ UNCHANGED <<queryIn, serverState, net, history>>

(* select() returns after a second without any packet.                     *)
CheckTimeouts ==
    /\ idle /\ idle' = FALSE
    /\ servers' = [i \in Indexes |->
           IF servers[i].active /\ servers[i].last_seen > ServerTimeout
           THEN [servers[i] EXCEPT !.active = FALSE]
           ELSE servers[i]]
    /\ UNCHANGED <<queryIn, serverState, net, history>>

(* One round of query_sender.                                              *)
QuerySender ==
    /\ queryIn = 0 /\ queryIn' = QueryInterval
    /\ LET queried == {s \in Servers : Listed(s)}
       IN  /\ net' = net \cup {Query(s) : s \in queried}
           /\ asked' = [s \in Servers |-> asked[s] \/ s \in queried]
    /\ UNCHANGED <<servers, idle, serverState, missed, steady>>

(* signal_handler ends the client; it is started again with an empty list. *)
ClientRestart ==
    /\ servers' = [i \in Indexes |-> NoEntry]
    /\ idle' = FALSE /\ queryIn' = 0
    /\ UNCHANGED <<serverState, net, history>>

-----------------------------------------------------------------------------
(* The servers.  To sleep for HELLO_INTERVAL takes so many ticks, or one   *)
(* more, as the time spent in each round adds up.                          *)
HelloBroadcaster(s) ==
    /\ up[s] /\ helloIn[s] = 0
    /\ net' = net \cup {Hello(s)}
    /\ \E n \in {HelloInterval, HelloInterval + 1} :
           helloIn' = [helloIn EXCEPT ![s] = n]
    /\ missed' = [missed EXCEPT ![s] = IF @ < Tolerance THEN @ + 1 ELSE @]
    /\ UNCHANGED <<clientState, up, steady, asked>>

HandleClientQuery(s) ==
    /\ up[s] /\ Query(s) \in net
    /\ net' = (net \ {Query(s)}) \cup {Response(s)}
    /\ UNCHANGED <<clientState, serverState, history>>

Crash(s) ==
    /\ up[s] /\ up' = [up EXCEPT ![s] = FALSE]
    /\ steady' = [steady EXCEPT ![s] = FALSE]
    /\ UNCHANGED <<clientState, helloIn, net, missed, asked>>

(* A server announces itself as soon as it is started.                     *)
Restart(s) ==
    /\ ~up[s] /\ up' = [up EXCEPT ![s] = TRUE]
    /\ helloIn' = [helloIn EXCEPT ![s] = 0]
    /\ UNCHANGED <<clientState, net, history>>

-----------------------------------------------------------------------------
(* Time and the network.                                                   *)

(* Threads wake up when their sleep is over, and select() returns after a  *)
(* second: none of them lets a second pass.                                *)
Tick ==
    /\ queryIn > 0 /\ ~idle
    /\ \A s \in Servers : up[s] => helloIn[s] > 0
    /\ queryIn' = queryIn - 1 /\ idle' = TRUE
    /\ helloIn' = [s \in Servers |-> IF up[s] THEN helloIn[s] - 1 ELSE 0]
    /\ servers' = [i \in Indexes |->
           IF servers[i].last_seen > ServerTimeout THEN servers[i]
           ELSE [servers[i] EXCEPT !.last_seen = @ + 1]]
    /\ UNCHANGED <<up, net, history>>

Lose ==
    /\ \E p \in net : net' = net \ {p}
    /\ UNCHANGED <<clientState, serverState, history>>

-----------------------------------------------------------------------------
Next ==
    \/ \E s \in Servers :
          \/ HandleHello(s) \/ HandleResponse(s) \/ HelloBroadcaster(s)
          \/ HandleClientQuery(s) \/ Crash(s) \/ Restart(s)
    \/ \E h \in Others : HandleOther(h)
    \/ CheckTimeouts \/ QuerySender \/ ClientRestart \/ Tick \/ Lose

Spec == Init /\ [][Next]_vars

-----------------------------------------------------------------------------
(* Properties.                                                             *)
Entry == [addr : Hosts \cup {NoAddr}, last_seen : 0..(ServerTimeout + 1),
          active : BOOLEAN, responded : BOOLEAN]

TypeOK ==
    /\ servers \in [Indexes -> Entry]
    /\ idle \in BOOLEAN /\ queryIn \in 0..QueryInterval
    /\ up \in [Servers -> BOOLEAN]
    /\ helloIn \in [Servers -> 0..(HelloInterval + 1)]
    /\ net \subseteq Packet
    /\ missed \in [Servers -> 0..Tolerance]
    /\ steady \in [Servers -> BOOLEAN] /\ asked \in [Servers -> BOOLEAN]

(* A server has one entry, however often it is dropped and heard again and *)
(* whoever had the entry before.                                           *)
OneEntry ==
    \A i, j \in Indexes :
        (/\ servers[i].active /\ servers[j].active
         /\ servers[i].addr = servers[j].addr) => i = j

(* An entry that counts as responded belongs to a server that has been     *)
(* sent a QUERY (by this client, or by an earlier run of it): a response   *)
(* is never booked to a server nobody asked, because the entry's previous  *)
(* owner was.                                                              *)
RespondedWasAsked ==
    \A s \in Servers : \A i \in Entries(s) : servers[i].responded => asked[s]

(* check_timeouts drops only a server that was down, or whose last HELLOs, *)
(* as many as the timeout is to tolerate, did not arrive; other traffic,   *)
(* and a client that finds no time to check, do not change that.           *)
DroppedWasSilent ==
    [][CheckTimeouts =>
          \A s \in Servers : Listed(s) /\ ~Listed(s)' =>
              ~steady[s] \/ missed[s] >= Tolerance]_vars

(* The list is a set with a capacity, in which each member's silence is    *)
(* counted; entries that are dropped and taken again do not show.          *)
Silence ==
    [h \in {x \in Hosts : Listed(x)} |-> servers[First(Entries(h))].last_seen]
Group == INSTANCE Membership WITH silence <- Silence, Capacity <- MaxServers,
                                  Limit <- ServerTimeout
ImplementsMembership == Group!Spec

(* A server that is down for good leaves the list - provided the client    *)
(* has a second without packets again and again: it checks in no other.    *)
DeadServersLeave ==
    \A s \in Servers :
        []<><<CheckTimeouts>>_vars /\ <>[](~up[s]) => <>[](~Listed(s))
=============================================================================
