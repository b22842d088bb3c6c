--------------------------- MODULE ChatRoundsProofs ---------------------------
(***************************************************************************)
(* Proofs about ChatRounds, for any number of clients up to 250, any       *)
(* largest number and any backlog: the types, and that rounds are fair.    *)
(***************************************************************************)
EXTENDS ChatRounds, FiniteSetTheorems, WellFoundedInduction, TLAPS

(* The entries of the round.  entrycnt is kept apart from the array, and   *)
(* is what ends the round: it has to be their number.                      *)
Entered == {c \in Clients : entries[c]}

EntriesCounted == Entered \subseteq Players /\ entrycnt = Cardinality(Entered)

(* Who has an entry sent a number or is gone.                              *)
EntriesAreReal ==
    \A c \in Clients : entries[c] => took[c] # NoNumber \/ blacklist[c]

(* maxclentry is the number of an entry, of the client maxclentryfd, or    *)
(* there is none above INT_MIN; no number taken in the round is larger.    *)
(* While the server sleeps nothing is left of the round but its result.    *)
MaximumIsHeld ==
    /\ maxclentryfd = NoClient => maxclentry = INT_MIN
    /\ maxclentryfd # NoClient => /\ entries[maxclentryfd]
                                  /\ took[maxclentryfd] = maxclentry
    /\ pc = "sleep" => /\ maxclentryfd = NoClient
                       /\ \A c \in Clients : ~entries[c]
    /\ pc \in {"select", "serve", "exit"} =>
           \A c \in Clients : took[c] <= maxclentry

Inv == TypeOK /\ EntriesCounted /\ EntriesAreReal /\ MaximumIsHeld /\ RoundIsFair

-----------------------------------------------------------------------------
(* What the proofs need of the constants.                                  *)
LEMMA Constants ==
    /\ MaxClients \in Nat /\ Numbers \subseteq Nat /\ INT_MIN \in Numbers
    /\ Clients \subseteq Nat /\ NoClient \notin Clients /\ NoNumber \notin Numbers
    /\ IsFiniteSet(Clients)
<1>1. MaxClients \in Nat /\ MaxNumber \in Nat
  BY ChatAssumption
<1>2. IsFiniteSet(1..MaxClients)
  BY <1>1, FS_Interval
<1> QED
  BY <1>1, <1>2 DEF Numbers, INT_MIN, Clients, NoClient, NoNumber

(* A set of naturals that is not empty has a least element.                *)
LEMMA MinIsIn ==
    ASSUME NEW S, S \subseteq Nat, S # {}
    PROVE  Min(S) \in S
<1>1. \A x, y \in Nat : x < y => <<x, y>> \in OpToRel(<, Nat)
  BY Zenon DEF OpToRel
<1>2. PICK i \in S : \A j \in S : ~(<<j, i>> \in OpToRel(<, Nat))
  BY NatLessThanWellFounded, WFMin
<1>3. \A j \in S : ~(j < i)
  BY <1>1, <1>2, Zenon
<1>4. \A j \in S : i <= j
  BY <1>3
<1> QED
  BY <1>4 DEF Min

(* The loop's turn is a client's, or the loop is at its end.               *)
LEMMA TurnInRange ==
    ASSUME NEW from \in Nat \ {0}, NEW n \in Nat, NEW fds, from <= n + 1
    PROVE  Turn(from, n, fds) \in 1..(n + 1)
<1> DEFINE S == {c \in from..n : blacklist[c] \/ c \in fds} \cup {n + 1}
<1>1. S \subseteq 1..(n + 1) /\ S # {}
  OBVIOUS
<1>2. Min(S) \in S
  BY <1>1, MinIsIn
<1> QED
  BY <1>1, <1>2 DEF Turn

(* As many entries as players: everybody has one.                          *)
LEMMA AllEntered ==
    ASSUME TypeOK, EntriesCounted, entrycnt = numclient
    PROVE  Entered = Players
<1>1. numclient \in Nat
  BY Constants DEF TypeOK
<1>2. IsFiniteSet(Players) /\ Cardinality(Players) = numclient
  BY <1>1, FS_Interval DEF Players
<1> QED
  BY <1>2, FS_Subset DEF EntriesCounted

(* There are no more entries than players.                                 *)
LEMMA CountBounded ==
    ASSUME NEW n \in Nat, NEW S, S \subseteq 1..n
    PROVE  IsFiniteSet(S) /\ Cardinality(S) \in 0..n
<1>1. IsFiniteSet(1..n) /\ Cardinality(1..n) = n
  BY FS_Interval
<1>2. IsFiniteSet(S) /\ Cardinality(S) <= n
  BY <1>1, FS_Subset
<1>3. Cardinality(S) \in Nat
  BY <1>2, FS_CardinalityType
<1> QED
  BY <1>2, <1>3


-----------------------------------------------------------------------------
(* The invariant holds at the start.                                       *)
LEMMA InitInv == Init => Inv
<1> SUFFICES ASSUME Init PROVE Inv
  OBVIOUS
<1>1. TypeOK
  BY Constants DEF Init, TypeOK, Players, Nothing, NoneTaken, NoResult, Resets
<1>2. Entered = {}
  BY DEF Init, Entered, Nothing
<1>3. EntriesCounted
  BY <1>2, FS_EmptySet DEF Init, EntriesCounted
<1>4. EntriesAreReal /\ RoundIsFair
  BY DEF Init, EntriesAreReal, RoundIsFair, Nothing
<1>5. MaximumIsHeld
  BY Constants DEF Init, MaximumIsHeld, NoneTaken, INT_MIN, NoNumber
<1> QED
  BY <1>1, <1>3, <1>4, <1>5 DEF Inv

(* The clients change nothing that the round is made of.                   *)
LEMMA ClientInv ==
    ASSUME Inv, NEW c \in Clients,
           \/ Connect(c) \/ Leave(c) \/ ResetArrives(c)
           \/ \E n \in Numbers : Send(c, n)
    PROVE  Inv'
<1>1. UNCHANGED <<loopState, numclient, cliaddr, roundState, blacklist, took,
                  result, leavers>>
  BY DEF Connect, Leave, ResetArrives, Send
<1>0. /\ reset' \in [Clients -> Resets]
      /\ \A d \in Clients : NoPeer(d) => NoPeer(d)'
  <2>1. \/ reset' = reset \/ reset' = [reset EXCEPT ![c] = "error"]
        \/ reset' = [reset EXCEPT ![c] = "dead"]
    BY DEF Connect, Leave, ResetArrives, Send
  <2> QED
    BY <2>1 DEF Inv, TypeOK, Resets, NoPeer
<1>2. EntriesCounted' /\ EntriesAreReal' /\ MaximumIsHeld' /\ RoundIsFair'
  <2>1. EntriesCounted' /\ EntriesAreReal' /\ MaximumIsHeld'
    BY <1>1 DEF Inv, EntriesCounted, Entered, EntriesAreReal, MaximumIsHeld,
                Players, loopState, roundState
  <2>2. Players \subseteq Clients /\ Players' = Players
    BY <1>1, Constants DEF Inv, TypeOK, Players, Clients
  <2>3. RoundIsFair'
    BY <1>0, <1>1, <2>2 DEF Inv, RoundIsFair, loopState
  <2> QED
    BY <2>1, <2>3
<1>3. TypeOK'
  <2>1. conn' \in [Clients -> {"none", "open", "closed"}]
    <3>1. \/ conn' = conn
          \/ conn' = [conn EXCEPT ![c] = "open"]
          \/ conn' = [conn EXCEPT ![c] = "closed"]
      BY DEF Connect, Leave, ResetArrives, Send, clientState
    <3> QED
      BY <3>1 DEF Inv, TypeOK
  <2>2. inbox' \in [Clients -> Seq(Numbers)]
    <3>1. ASSUME NEW n \in Numbers, Send(c, n)
          PROVE  inbox' \in [Clients -> Seq(Numbers)]
      <4>1. Append(inbox[c], n) \in Seq(Numbers)
        BY DEF Inv, TypeOK
      <4>2. inbox' = [inbox EXCEPT ![c] = Append(inbox[c], n)]
        BY <3>1 DEF Send
      <4> QED
        BY <4>1, <4>2, Zenon DEF Inv, TypeOK
    <3> QED
      BY <3>1 DEF Inv, TypeOK, Connect, Leave, ResetArrives, clientState
  <2>3. asked' \in [Clients -> BOOLEAN]
    BY DEF Inv, TypeOK, Connect, Leave, ResetArrives, Send, clientState
  <2>4. ignored' \subseteq Players
    BY DEF Inv, TypeOK, Connect, Leave, ResetArrives, Send
  <2> QED
    BY <1>0, <1>1, <2>1, <2>2, <2>3, <2>4
       DEF Inv, TypeOK, Players, loopState, roundState
<1> QED
  BY <1>2, <1>3 DEF Inv

(* What send() does to connections.                                        *)
LEMMA ResetsTyped ==
    ASSUME TypeOK, NEW S
    PROVE  /\ ResetBy(S) \in [Clients -> Resets]
           /\ \A c \in Clients : NoPeer(c) => ResetBy(S)[c] \in {"error", "dead"}
  BY DEF TypeOK, ResetBy, Resets, NoPeer

(* select(), and a new player.                                             *)
LEMMA SelectInv ==
    ASSUME Inv, Select
    PROVE  Inv'
<1>1. UNCHANGED <<roundState, blacklist, conn, inbox, took, result, ignored>>
  BY DEF Select
<1>2. numclient' \in {numclient, numclient + 1} /\ numclient' <= MaxClients
  <2>1. CASE Backlog = {}
    BY <2>1, Constants DEF Select, Inv, TypeOK
  <2>2. CASE Backlog # {}
    <3>1. numclient # MaxClients
      BY <2>2 DEF Backlog, Players, Clients
    <3> QED
      BY <2>2, <3>1, Constants DEF Select, Inv, TypeOK
  <2> QED
    BY <2>1, <2>2
<1>3. Players \subseteq Players' /\ numclient' \in 0..MaxClients
  BY <1>2, Constants DEF Players, Inv, TypeOK
<1>4. TypeOK'
  <2>1. ready' \subseteq Players'
    BY <1>3 DEF Select, Readable
  <2>2. pos' \in 1..(MaxClients + 1)
    <3>1. pos' \in 1..(numclient' + 1)
      BY <1>3, Constants, TurnInRange DEF Select
    <3>2. numclient' \in Nat /\ numclient' <= MaxClients /\ MaxClients \in Nat
      BY <1>3, Constants
    <3>3. \A m, n \in Nat : m <= n => 1..(m + 1) \subseteq 1..(n + 1)
      OBVIOUS
    <3>4. 1..(numclient' + 1) \subseteq 1..(MaxClients + 1)
      BY <3>2, <3>3, Zenon
    <3> QED
      BY <3>1, <3>4, Zenon
  <2>3. asked' \in [Clients -> BOOLEAN] /\ reset' \in [Clients -> Resets]
    <3>1. CASE Backlog = {}
      BY <3>1 DEF Select, Inv, TypeOK
    <3>2. CASE Backlog # {}
      <4>1. /\ asked' = [asked EXCEPT ![numclient + 1] = conn[numclient + 1] = "open"]
            /\ reset' = ResetBy({numclient + 1})
        BY <3>2 DEF Select
      <4>2. (conn[numclient + 1] = "open") \in BOOLEAN
        OBVIOUS
      <4>3. asked' \in [Clients -> BOOLEAN]
        BY <4>1, <4>2, ZenonT(60) DEF Inv, TypeOK
      <4> QED
        BY <4>1, <4>3, ResetsTyped DEF Inv, TypeOK
    <3> QED
      BY <3>1, <3>2
  <2>4. entrycnt' \in 0..numclient'
    BY <1>1, <1>2, Constants DEF roundState, Inv, TypeOK
  <2>5. result' \in [number : Numbers \cup {NoNumber},
                     winner : Players' \cup {NoClient}]
    BY <1>1, <1>3 DEF Inv, TypeOK
  <2>6. cliaddr' \in Players' \cup {NoClient}
    <3>1. CASE Backlog = {}
      BY <1>3, <3>1 DEF Select, Inv, TypeOK
    <3>2. CASE Backlog # {}
      <4>1. cliaddr' = numclient + 1 /\ numclient' = numclient + 1 /\ numclient \in Nat
        BY <3>2, Constants DEF Select, Inv, TypeOK
      <4> QED
        BY <4>1 DEF Players
    <3> QED
      BY <3>1, <3>2
  <2> QED
    BY <1>1, <1>3, <2>1, <2>2, <2>3, <2>4, <2>5, <2>6
       DEF Inv, TypeOK, Select, roundState
<1>5. EntriesCounted' /\ EntriesAreReal' /\ MaximumIsHeld' /\ RoundIsFair'
  BY <1>1, <1>3 DEF Select, Inv, EntriesCounted, Entered, EntriesAreReal,
                    MaximumIsHeld, RoundIsFair, roundState
<1> QED
  BY <1>4, <1>5 DEF Inv


-----------------------------------------------------------------------------
(* An entry of a player, which is counted if it is new.                    *)
LEMMA EnterOne ==
    ASSUME TypeOK, EntriesCounted, NEW c \in Players, UNCHANGED numclient,
           entries' = [entries EXCEPT ![c] = TRUE],
           entrycnt' = IF entries[c] THEN entrycnt ELSE entrycnt + 1
    PROVE  /\ EntriesCounted' /\ entrycnt' \in 0..numclient
           /\ entries' \in [Clients -> BOOLEAN]
           /\ \A d \in Clients : entries'[d] <=> d = c \/ entries[d]
<1>1. c \in Clients /\ numclient \in Nat
  BY Constants DEF TypeOK, Players, Clients
<1>2. \A d \in Clients : entries'[d] <=> d = c \/ entries[d]
  BY <1>1 DEF TypeOK
<1>3. Entered' = Entered \cup {c} /\ (c \in Entered <=> entries[c])
  BY <1>1, <1>2 DEF Entered
<1>4. Entered' \subseteq Players /\ Players' = Players /\ Entered \subseteq Players
  BY <1>3 DEF EntriesCounted, Players
<1>5. IsFiniteSet(Entered) /\ Cardinality(Entered') \in 0..numclient
  BY <1>1, <1>4, CountBounded DEF Players
<1>6. Cardinality(Entered') = entrycnt'
  BY <1>3, <1>5, FS_AddElement DEF EntriesCounted
<1> QED
  BY <1>1, <1>2, <1>4, <1>5, <1>6 DEF EntriesCounted, TypeOK

(* Where the loop goes on.                                                 *)
LEMMA PosMoves ==
    ASSUME TypeOK, Serve
    PROVE  pos' \in 1..(MaxClients + 1)
<1>1. numclient \in Nat /\ numclient <= MaxClients /\ MaxClients \in Nat
  BY Constants DEF TypeOK
<1>2. pos + 1 \in Nat \ {0} /\ pos + 1 <= numclient + 1
  BY <1>1 DEF Serve, Players
<1>3. pos' \in 1..(numclient + 1)
  BY <1>1, <1>2, TurnInRange DEF Serve
<1>4. \A m, n \in Nat : m <= n => 1..(m + 1) \subseteq 1..(n + 1)
  OBVIOUS
<1>5. 1..(numclient + 1) \subseteq 1..(MaxClients + 1)
  BY <1>1, <1>4, Zenon
<1> QED
  BY <1>3, <1>5, Zenon

(* A client found gone earlier.                                            *)
LEMMA CountGoneInv ==
    ASSUME Inv, Serve, CountGone(pos)
    PROVE  Inv'
<1> USE DEF Inv
<1>1. /\ pos \in Players /\ pos \in Clients /\ pc = "serve"
      /\ UNCHANGED <<pc, ready, numclient, cliaddr, maxclentry, maxclentryfd,
                     blacklist, conn, inbox, reset, asked, took, result, ignored,
                     leavers>>
  BY Constants DEF Serve, CountGone, Players, Clients, TypeOK
<1>2. /\ EntriesCounted' /\ entrycnt' \in 0..numclient
      /\ entries' \in [Clients -> BOOLEAN]
      /\ \A d \in Clients : entries'[d] <=> d = pos \/ entries[d]
  BY <1>1, EnterOne DEF CountGone
<1>3. TypeOK'
  BY <1>1, <1>2, PosMoves DEF TypeOK, Players
<1>4. EntriesAreReal'
  BY <1>1, <1>2 DEF EntriesAreReal, CountGone
<1>5. maxclentryfd # NoClient => maxclentryfd \in Clients
  BY Constants DEF TypeOK, Players, Clients
<1>6. MaximumIsHeld' /\ RoundIsFair'
  BY <1>1, <1>2, <1>5 DEF MaximumIsHeld, RoundIsFair
<1> QED
  BY <1>2, <1>3, <1>4, <1>6

(* A client found gone now.                                                *)
LEMMA FindGoneInv ==
    ASSUME Inv, Serve, FindGone(pos)
    PROVE  Inv'
<1> USE DEF Inv
<1>1. /\ pos \in Players /\ pos \in Clients /\ pc = "serve"
      /\ UNCHANGED <<pc, ready, numclient, cliaddr, entries, entrycnt, maxclentry,
                     maxclentryfd, conn, inbox, reset, asked, took, result,
                     ignored>>
      /\ blacklist' = [blacklist EXCEPT ![pos] = TRUE]
      /\ leavers' = leavers \cup {pos}
  BY Constants DEF Serve, FindGone, roundState, Players, Clients, TypeOK
<1>2. TypeOK'
  BY <1>1, PosMoves DEF TypeOK, Players
<1>3. EntriesCounted' /\ MaximumIsHeld' /\ RoundIsFair'
  BY <1>1 DEF EntriesCounted, Entered, MaximumIsHeld, RoundIsFair, Players
<1>4. EntriesAreReal'
  BY <1>1 DEF EntriesAreReal, TypeOK
<1> QED
  BY <1>2, <1>3, <1>4


(* A client whose connection was reset.                                    *)
LEMMA UnnamedInv ==
    ASSUME Inv, Serve, Unnamed(pos)
    PROVE  Inv'
<1> USE DEF Inv
<1>1. /\ pc = "serve" /\ inbox' = [inbox EXCEPT ![pos] = <<>>]
      /\ reset' = reset \/ reset' = [reset EXCEPT ![pos] = "dead"]
      /\ UNCHANGED <<pc, ready, numclient, cliaddr, roundState, blacklist, conn,
                     asked, took, result, ignored, leavers>>
  BY DEF Serve, Unnamed
<1>2. inbox' \in [Clients -> Seq(Numbers)]
  <2>1. <<>> \in Seq(Numbers)
    OBVIOUS
  <2> QED
    BY <1>1, <2>1, ZenonT(60) DEF TypeOK
<1>3. reset' \in [Clients -> Resets]
  BY <1>1 DEF TypeOK, Resets
<1>4. TypeOK'
  BY <1>1, <1>2, <1>3, PosMoves DEF TypeOK, Players, roundState
<1> QED
  BY <1>1, <1>4 DEF EntriesCounted, Entered, EntriesAreReal, MaximumIsHeld,
                    RoundIsFair, Players, roundState

(* A number: taken, dropped, or refused.                                   *)
LEMMA ReceiveInv ==
    ASSUME Inv, Serve, Receive(pos)
    PROVE  Inv'
<1> USE DEF Inv
<1> DEFINE n == Head(inbox[pos])
<1>1. /\ pos \in Players /\ pos \in Clients /\ pc = "serve"
      /\ inbox[pos] # <<>>
      /\ inbox' = [inbox EXCEPT ![pos] = <<>>] /\ cliaddr' = pos
      /\ UNCHANGED <<ready, numclient, blacklist, conn, asked, result, leavers>>
  BY Constants DEF Serve, Receive, Players, Clients, TypeOK
<1>2. n \in Numbers
  <2>1. inbox[pos] \in Seq(Numbers)
    BY <1>1 DEF TypeOK
  <2> QED
    BY <1>1, <2>1
<1>3. inbox' \in [Clients -> Seq(Numbers)]
  BY <1>1 DEF TypeOK
<1>4. CASE UNCHANGED <<pc, roundState, took>>
                /\ reset' \in [Clients -> Resets] /\ ignored' \subseteq Players
  <2>1. TypeOK'
    BY <1>1, <1>3, <1>4, PosMoves DEF roundState, TypeOK, Players
  <2> QED
    BY <1>1, <1>4, <2>1 DEF roundState, EntriesCounted, Entered, EntriesAreReal,
                            MaximumIsHeld, RoundIsFair, Players
<1>5. CASE /\ ~entries[pos] /\ entries' = [entries EXCEPT ![pos] = TRUE]
           /\ entrycnt' = entrycnt + 1 /\ took' = [took EXCEPT ![pos] = n]
           /\ IF n > maxclentry
              THEN maxclentry' = n /\ maxclentryfd' = pos
              ELSE UNCHANGED <<maxclentry, maxclentryfd>>
           /\ UNCHANGED <<pc, reset, ignored>>
  <2>1. /\ EntriesCounted' /\ entrycnt' \in 0..numclient
        /\ entries' \in [Clients -> BOOLEAN]
        /\ \A d \in Clients : entries'[d] <=> d = pos \/ entries[d]
    BY <1>1, <1>5, EnterOne
  <2>2. took' \in [Clients -> Numbers \cup {NoNumber}]
    BY <1>2, <1>5 DEF TypeOK
  <2>3. TypeOK'
    BY <1>1, <1>2, <1>3, <1>5, <2>1, <2>2, PosMoves DEF TypeOK, Players
  <2>4. took'[pos] = n /\ \A d \in Clients \ {pos} : took'[d] = took[d]
    BY <1>1, <1>5 DEF TypeOK
  <2>5. EntriesAreReal'
    BY <1>1, <1>2, <2>1, <2>4, Constants DEF EntriesAreReal
  <2>6. maxclentryfd # NoClient => maxclentryfd \in Clients
    BY Constants DEF TypeOK, Players, Clients
  <2>7. \A d \in Clients : took[d] \in Int /\ took[d] <= maxclentry
    <3>1. \A d \in Clients : took[d] \in Numbers \cup {NoNumber}
      BY DEF TypeOK
    <3>2. Numbers \cup {NoNumber} \subseteq Int
      BY Constants DEF NoNumber
    <3> QED
      BY <1>1, <3>1, <3>2 DEF MaximumIsHeld
  <2>8. n \in Nat /\ maxclentry \in Nat /\ pos # NoClient
    BY <1>1, <1>2, Constants DEF TypeOK
  <2>9. MaximumIsHeld'
    <3>1. \A d \in Clients : took'[d] <= maxclentry'
      BY <1>5, <2>4, <2>7, <2>8
    <3>2. CASE n > maxclentry
      BY <1>1, <1>5, <2>1, <2>4, <2>8, <3>1, <3>2 DEF MaximumIsHeld
    <3>3. CASE ~(n > maxclentry)
      <4>1. maxclentryfd # NoClient => maxclentryfd # pos
        BY <1>5 DEF MaximumIsHeld
      <4> QED
        BY <1>1, <1>5, <2>1, <2>4, <2>6, <3>1, <3>3, <4>1 DEF MaximumIsHeld
    <3> QED
      BY <3>2, <3>3
  <2>10. RoundIsFair'
    BY <1>1, <1>5 DEF RoundIsFair
  <2> QED
    BY <2>1, <2>3, <2>5, <2>9, <2>10
<1>6. reset \in [Clients -> Resets] /\ ignored \subseteq Players
  BY DEF TypeOK
<1>7. ResetBy({pos}) \in [Clients -> Resets]
  BY ResetsTyped
<1> QED
  BY <1>1, <1>4, <1>5, <1>6, <1>7 DEF Receive


-----------------------------------------------------------------------------
(* The end of a pass.                                                      *)
LEMMA EndPassInv ==
    ASSUME Inv, EndPass
    PROVE  Inv'
<1> USE DEF Inv
<1>1. /\ pc = "serve" /\ pc' = "select" /\ pos' = 1 /\ ready' = {}
      /\ UNCHANGED <<numclient, cliaddr, roundState, blacklist, clientState,
                     reset, took, result, ignored, leavers>>
  BY DEF EndPass
<1>2. 1 \in 1..(MaxClients + 1)
  BY Constants
<1>3. TypeOK'
  BY <1>1, <1>2 DEF TypeOK, Players, roundState, clientState
<1> QED
  BY <1>1, <1>3 DEF EntriesCounted, Entered, EntriesAreReal, MaximumIsHeld,
                    RoundIsFair, Players, roundState

(* The end of the game, if nobody sent a number above INT_MIN.             *)
LEMMA GiveUpInv ==
    ASSUME Inv, GiveUp
    PROVE  Inv'
<1> USE DEF Inv
<1>1. /\ pc = "serve" /\ pc' = "exit" /\ maxclentryfd = NoClient
      /\ entrycnt = numclient
      /\ UNCHANGED <<pos, ready, numclient, cliaddr, roundState, blacklist,
                     clientState, reset, took, result, ignored, leavers>>
  BY DEF GiveUp
<1>2. TypeOK'
  BY <1>1 DEF TypeOK, Players, roundState, clientState
<1>3. EntriesCounted' /\ EntriesAreReal' /\ MaximumIsHeld'
  BY <1>1 DEF EntriesCounted, Entered, EntriesAreReal, MaximumIsHeld, Players,
              roundState
<1>4. ASSUME NEW c \in Players
      PROVE  took[c] = INT_MIN \/ (blacklist[c] /\ took[c] = NoNumber)
  <2>1. c \in Clients /\ entries[c]
    BY <1>1, AllEntered DEF Entered
  <2>2. took[c] <= INT_MIN /\ (took[c] # NoNumber \/ blacklist[c])
    BY <1>1, <2>1 DEF MaximumIsHeld, EntriesAreReal
  <2>3. took[c] \in Numbers \cup {NoNumber}
    BY <2>1 DEF TypeOK
  <2>4. took[c] \in Numbers => took[c] = INT_MIN
    <3>1. took[c] \in Numbers => took[c] \in Nat
      BY Constants
    <3> QED
      BY <2>2, <3>1 DEF INT_MIN
  <2> QED
    BY <2>2, <2>3, <2>4
<1>5. RoundIsFair'
  BY <1>1, <1>4 DEF RoundIsFair, Players
<1> QED
  BY <1>2, <1>3, <1>5

(* The end of a round.                                                     *)
LEMMA EndRoundInv ==
    ASSUME Inv, EndRound
    PROVE  Inv'
<1> USE DEF Inv
<1>1. /\ pc = "serve" /\ pc' \in {"sleep", "killed"}
      /\ entrycnt = numclient /\ maxclentryfd # NoClient
      /\ cliaddr' = IF NoPeer(maxclentryfd) THEN cliaddr ELSE maxclentryfd
      /\ result' = [number |-> maxclentry, winner |-> cliaddr']
      /\ entrycnt' = 0 /\ entries' = Nothing
      /\ maxclentry' = INT_MIN /\ maxclentryfd' = NoClient
      /\ UNCHANGED <<pos, ready, numclient, blacklist, clientState, took,
                     ignored, leavers>>
  BY DEF EndRound, Cleared
<1>2. /\ reset' \in [Clients -> Resets]
      /\ \A c \in Clients : NoPeer(c) => NoPeer(c)'
  BY ResetsTyped DEF EndRound, NoPeer, TypeOK
<1>3. TypeOK'
  <2>1. entries' \in [Clients -> BOOLEAN]
    BY <1>1 DEF Nothing
  <2>2. entrycnt' \in 0..numclient
    BY <1>1, Constants DEF TypeOK
  <2>3. result' \in [number : Numbers \cup {NoNumber},
                     winner : Players \cup {NoClient}]
    BY <1>1 DEF TypeOK
  <2>4. cliaddr' \in Players \cup {NoClient}
    BY <1>1 DEF TypeOK
  <2> QED
    BY <1>1, <1>2, <2>1, <2>2, <2>3, <2>4, Constants DEF TypeOK, Players, clientState
<1>4. Entered' = {}
  BY <1>1 DEF Entered, Nothing
<1>5. EntriesCounted' /\ EntriesAreReal'
  BY <1>1, <1>4, FS_EmptySet DEF EntriesCounted, EntriesAreReal, Nothing
<1>6. MaximumIsHeld'
  BY <1>1 DEF MaximumIsHeld, Nothing
<1>7. Players \subseteq Clients
  BY Constants DEF TypeOK, Players, Clients
<1>8. \A c \in Players : /\ blacklist[c] \/ took[c] # NoNumber
                         /\ took[c] <= maxclentry
  BY <1>1, <1>7, AllEntered DEF Entered, EntriesAreReal, MaximumIsHeld
<1>9. took[maxclentryfd] = maxclentry /\ maxclentryfd \in Players
  BY <1>1 DEF MaximumIsHeld, TypeOK
<1>10. \/ took[result'.winner] = result'.number
       \/ \E c \in Players : took[c] = result'.number /\ NoPeer(c)'
  <2>1. CASE NoPeer(maxclentryfd)
    BY <1>1, <1>2, <1>7, <1>9, <2>1
  <2>2. CASE ~NoPeer(maxclentryfd)
    BY <1>1, <1>9, <2>2
  <2> QED
    BY <2>1, <2>2
<1>11. RoundIsFair'
  BY <1>1, <1>8, <1>10 DEF RoundIsFair, Players
<1> QED
  BY <1>3, <1>5, <1>6, <1>11

(* The beginning of the next one.                                          *)
LEMMA PromptInv ==
    ASSUME Inv, Prompt
    PROVE  Inv'
<1> USE DEF Inv
<1>1. /\ pc = "sleep" /\ pc' \in {"select", "killed"}
      /\ took' = NoneTaken /\ result' = NoResult /\ pos' = 1 /\ ready' = {}
      /\ UNCHANGED <<numclient, cliaddr, roundState, blacklist, conn, inbox,
                     ignored, leavers>>
  BY DEF Prompt
<1>2. reset' \in [Clients -> Resets] /\ asked' \in [Clients -> BOOLEAN]
  BY ResetsTyped DEF Prompt, TypeOK
<1>3. took' \in [Clients -> {NoNumber}] /\ 1 \in 1..(MaxClients + 1)
  BY <1>1, Constants DEF NoneTaken
<1>4. TypeOK'
  BY <1>1, <1>2, <1>3 DEF TypeOK, Players, roundState, NoResult
<1>5. RoundIsFair' /\ EntriesCounted'
  BY <1>1 DEF RoundIsFair, EntriesCounted, Entered, Players, roundState
<1>6. UNCHANGED <<entries, maxclentry, maxclentryfd, blacklist>>
  BY <1>1 DEF roundState
<1>7. EntriesAreReal'
  BY <1>1, <1>6 DEF EntriesAreReal, MaximumIsHeld
<1>8. \A c \in Clients : took'[c] <= INT_MIN
  BY <1>1 DEF NoneTaken, NoNumber, INT_MIN
<1>9. MaximumIsHeld'
  BY <1>1, <1>6, <1>8 DEF MaximumIsHeld
<1> QED
  BY <1>4, <1>5, <1>7, <1>9


-----------------------------------------------------------------------------
(* Every step keeps the invariant, so it always holds.                     *)
LEMMA NextInv == Inv /\ [Next]_vars => Inv'
<1> SUFFICES ASSUME Inv, [Next]_vars PROVE Inv'
  OBVIOUS
<1>1. CASE UNCHANGED vars
  BY <1>1 DEF Inv, vars, loopState, roundState, clientState, TypeOK,
              EntriesCounted, Entered, EntriesAreReal, MaximumIsHeld,
              RoundIsFair, Players, NoPeer
<1>2. CASE Serve
  BY <1>2, CountGoneInv, FindGoneInv, UnnamedInv, ReceiveInv DEF Serve
<1>3. CASE Select \/ EndPass \/ GiveUp \/ EndRound \/ Prompt
  BY <1>3, SelectInv, EndPassInv, GiveUpInv, EndRoundInv, PromptInv
<1> QED
  BY <1>1, <1>2, <1>3, ClientInv DEF Next, Server

(* From the two facts above.                                               *)
LEMMA Invariance == Spec => []Inv
  BY InitInv, NextInv, PTL DEF Spec

(* The server's variables stay of their types, and it never counts more    *)
(* entries than there are players, though it counts those that left too.   *)
THEOREM TypeCorrect == Spec => []TypeOK
<1>1. Inv => TypeOK
  BY DEF Inv
<1> QED
  BY <1>1, Invariance, PTL

(* A round ends with a number of every player who was not found gone, and  *)
(* with the largest of them and its sender, whoever comes and goes; unless *)
(* the sender's connection was reset, when another may be named.           *)
THEOREM Fair == Spec => []RoundIsFair
<1>1. Inv => RoundIsFair
  BY DEF Inv
<1> QED
  BY <1>1, Invariance, PTL

=============================================================================
