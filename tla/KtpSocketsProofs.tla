--------------------------- MODULE KtpSocketsProofs ---------------------------
(***************************************************************************)
(* Proofs about KtpSockets, for any number of sockets, processes and       *)
(* addresses: the types, that a socket has one owner and a descriptor one  *)
(* socket, that k_bind never admits an address twice, and which names a    *)
(* socket's descriptor can have.                                           *)
(***************************************************************************)
EXTENDS KtpSockets, FiniteSetTheorems, WellFoundedInduction, TLAPS

-----------------------------------------------------------------------------
(* The invariant.                                                          *)

(* Inside k_bind, or before or after it: the process has a socket.         *)
Having  == {"unbound", "scan", "dup", "nodup", "bound"}
Binding == Having \ {"bound"}

HasSocket == \A p \in Pids : procs[p].at \in Having => procs[p].sock \in Ids

(* What clear_socket leaves, and the calls of a dead owner do not undo.    *)
FreeIsClear ==
    \A i \in Ids : ~socks[i].is_allocated =>
        /\ socks[i].sockfd = NoFd
        /\ ~robbed => ~socks[i].is_bound

(* A socket is not bound as long as its owner may write its addresses.     *)
UnboundYet ==
    ~robbed => \A p \in Pids :
        procs[p].at \in Binding => ~socks[procs[p].sock].is_bound

(* Socket i is bound, or its owner's scan is past socket k.                *)
Passed(i, k) ==
    /\ socks[i].is_allocated
    /\ \/ socks[i].is_bound
       \/ \E p \in Pids : /\ procs[p].sock = i
                          /\ \/ procs[p].at = "nodup"
                             \/ procs[p].at = "scan" /\ k < procs[p].i

(* Of two sockets that passed each other, the second to pass saw the       *)
(* addresses of the first.  UniqueBinding is the case of two bound ones.   *)
PassedDiffer ==
    ~robbed => \A i, k \in Ids :
        i # k /\ Passed(i, k) /\ Passed(k, i) =>
            socks[i].src # socks[k].src /\ socks[i].dst # socks[k].dst

(* Only open descriptors have a name, and none is open after exit().       *)
NamesAreOpen ==
    /\ \A fd \in Fds : name[fd] # NoAddr => fd \in open
    /\ ~running => open = {}

(* A socket that was sent from was bound by the owner who sends.           *)
SentIsBound ==
    ~robbed => /\ \A p \in Pids : procs[p].at = "bound" =>
                      socks[procs[p].sock].is_bound
               /\ \A i \in Ids : socks[i].sent => socks[i].is_bound

Table == HasSocket /\ FreeIsClear /\ OwnedByOne /\ UnboundYet /\ PassedDiffer
Descriptors == DescriptorsAccounted /\ NamesAreOpen /\ BoundToSource
Inv == TypeOK /\ Table /\ SentIsBound /\ Descriptors

-----------------------------------------------------------------------------
(* Numbers and descriptors.                                                *)

(* The next socket of main's, G's and R's loops is one of the table.       *)
LEMMA NextIdIsId ==
    ASSUME NEW i \in Ids
    PROVE  NextId(i) \in Ids
<1>1. CASE i + 1 < MaxSockets
  BY <1>1, SocketsAssumption DEF NextId, Ids
<1>2. CASE i + 1 = MaxSockets
  BY <1>2, SocketsAssumption DEF NextId, Ids
<1> QED
  BY <1>1, <1>2, SocketsAssumption DEF Ids

(* A set of descriptors that is not empty has a lowest one.                *)
LEMMA LowestIsFree ==
    ASSUME Fds \ open # {}
    PROVE  LowestFree \in Fds \ open
<1> DEFINE S == Fds \ open
<1>1. S \subseteq Nat
  BY DEF Fds
<1>2. \A x, y \in Nat : x < y => <<x, y>> \in OpToRel(<, Nat)
  BY Zenon DEF OpToRel
<1>3. PICK a \in S : \A b \in S : ~(<<b, a>> \in OpToRel(<, Nat))
  BY <1>1, NatLessThanWellFounded, WFMin
<1>4. \A b \in S : ~(b < a)
  BY <1>1, <1>2, <1>3, Zenon
<1>5. \A b \in S : a <= b
  BY <1>1, <1>4
<1> QED
  BY <1>5 DEF LowestFree

(* There is a descriptor left for a socket that has none: the others have  *)
(* at most one each.                                                       *)
LEMMA DescriptorLeft ==
    ASSUME TypeOK, running, DescriptorsAccounted, NEW i \in Ids,
           socks[i].sockfd = NoFd
    PROVE  Fds \ open # {}
<1> SUFFICES ASSUME Fds \subseteq open PROVE FALSE
  OBVIOUS
<1> DEFINE Others == Ids \ {i}
           f == [fd \in Fds |-> CHOOSE j \in Others : socks[j].sockfd = fd]
<1>1. \A fd \in Fds : \E j \in Others : socks[j].sockfd = fd
  BY DEF DescriptorsAccounted, Fds, NoFd
<1>2. \A fd \in Fds : f[fd] \in Others /\ socks[f[fd]].sockfd = fd
  BY <1>1
<1>3. f \in Injection(Fds, Others)
  <2>1. f \in [Fds -> Others]
    BY <1>2, Zenon
  <2>2. \A a, b \in Fds : f[a] = f[b] => a = b
    BY <1>2, Zenon
  <2> QED
    BY <2>1, <2>2, Zenon DEF Injection, IsInjective
<1>4. IsFiniteSet(Ids) /\ Cardinality(Ids) = MaxSockets
  BY FS_Interval, SocketsAssumption DEF Ids
<1>5. IsFiniteSet(Others) /\ Cardinality(Others) = MaxSockets - 1
  BY <1>4, FS_RemoveElement, Zenon
<1>6. IsFiniteSet(Fds) /\ Cardinality(Fds) = MaxSockets
  BY FS_Interval, SocketsAssumption DEF Fds
<1>7. Cardinality(Fds) <= Cardinality(Others)
  BY <1>3, <1>5, FS_Injection, Zenon
<1> QED
  BY <1>5, <1>6, <1>7, SocketsAssumption

-----------------------------------------------------------------------------
(* The types.                                                              *)

(* What the calls, main and G write into a socket leaves it a socket.      *)
LEMMA SocketWrites ==
    ASSUME NEW k \in Socket
    PROVE  /\ \A p \in Pids :
                 [k EXCEPT !.is_allocated = TRUE, !.pid = p] \in Socket
           /\ \A src, dst \in Addrs \cup {NoAddr} :
                 [k EXCEPT !.dst = dst, !.src = src] \in Socket
           /\ [k EXCEPT !.is_bound = TRUE] \in Socket
           /\ [k EXCEPT !.is_terminated = TRUE] \in Socket
           /\ [k EXCEPT !.sent = TRUE] \in Socket
           /\ \A fd \in Fds : [k EXCEPT !.sockfd = fd] \in Socket
           /\ [ClearSocket(k) EXCEPT !.is_bound = FALSE] \in Socket
<1>1. \A p \in Pids : [k EXCEPT !.is_allocated = TRUE, !.pid = p] \in Socket
  BY DEF Socket
<1>2. \A src, dst \in Addrs \cup {NoAddr} :
         [k EXCEPT !.dst = dst, !.src = src] \in Socket
  BY DEF Socket
<1>3. /\ [k EXCEPT !.is_bound = TRUE] \in Socket
      /\ [k EXCEPT !.is_terminated = TRUE] \in Socket
      /\ [k EXCEPT !.sent = TRUE] \in Socket
  BY DEF Socket
<1>4. \A fd \in Fds : [k EXCEPT !.sockfd = fd] \in Socket
  BY DEF Socket
<1>5. [ClearSocket(k) EXCEPT !.is_bound = FALSE] \in Socket
  BY DEF Socket, ClearSocket
<1> QED
  BY <1>1, <1>2, <1>3, <1>4, <1>5

(* A process that has not a socket yet gets one, or does not.              *)
LEMMA TypeKSocketTry ==
    ASSUME TypeOK, HasSocket, NEW p \in Pids, KSocketTry(p)
    PROVE  (TypeOK /\ HasSocket)'
<1> DEFINE i == procs[p].i
<1>1. i \in Ids
  BY DEF TypeOK
<1>2. UNCHANGED <<main, g, r, kernel, running, robbed>>
  BY DEF KSocketTry
<1>3. CASE IsFree(socks[i])
  <2>1. socks' = [socks EXCEPT ![i].is_allocated = TRUE, ![i].pid = p]
    BY <1>3 DEF KSocketTry
  <2>2. procs' = [procs EXCEPT ![p] = [at |-> "unbound", sock |-> i, i |-> 0]]
    BY <1>3 DEF KSocketTry
  <2>3. socks' \in [Ids -> Socket]
    BY <1>1, <2>1, SocketWrites DEF TypeOK
  <2>4. 0 \in Ids
    BY SocketsAssumption DEF Ids
  <2>5. procs' \in [Pids -> [at : Places, sock : Ids \cup {NoSock}, i : Ids]]
    BY <1>1, <2>2, <2>4 DEF TypeOK, Places
  <2>6. HasSocket'
    BY <1>1, <2>2 DEF HasSocket, TypeOK
  <2> QED
    BY <1>2, <2>3, <2>5, <2>6 DEF TypeOK, kernel
<1>4. CASE ~IsFree(socks[i])
  <2> DEFINE next == IF i + 1 < MaxSockets
                     THEN [at |-> "socket", sock |-> NoSock, i |-> i + 1]
                     ELSE [at |-> "dead", sock |-> NoSock, i |-> 0]
  <2>1. procs' = [procs EXCEPT ![p] = next] /\ socks' = socks
    BY <1>4 DEF KSocketTry
  <2>2. next \in [at : Places, sock : Ids \cup {NoSock}, i : Ids]
    BY <1>1, SocketsAssumption DEF Places, Ids
  <2>3. next.at \notin Having
    BY DEF Having
  <2> HIDE DEF next
  <2>4. procs' \in [Pids -> [at : Places, sock : Ids \cup {NoSock}, i : Ids]]
    BY <2>1, <2>2 DEF TypeOK
  <2>5. HasSocket'
    BY <2>1, <2>3 DEF HasSocket, TypeOK
  <2> QED
    BY <1>2, <2>1, <2>4, <2>5 DEF TypeOK, kernel
<1> QED
  BY <1>3, <1>4

(* The steps of k_bind, k_sendto, k_close and exit(): what the process     *)
(* does.                                                                   *)
LEMMA TypeApp ==
    ASSUME TypeOK, HasSocket, NEW p \in Pids, App(p)
    PROVE  (TypeOK /\ HasSocket)'
<1> DEFINE i == procs[p].sock
           Proc == [at : Places, sock : Ids \cup {NoSock}, i : Ids]
<1>0. CASE KSocketTry(p)
  BY <1>0, TypeKSocketTry
<1>1. 0 \in Ids
  BY SocketsAssumption DEF Ids
<1>2. ASSUME NEW src \in Addrs, NEW dst \in Addrs, KBindWrite(p, src, dst)
      PROVE  (TypeOK /\ HasSocket)'
  <2>1. i \in Ids
    BY <1>2 DEF KBindWrite, HasSocket, Having
  <2>2. socks' \in [Ids -> Socket]
    BY <1>2, <2>1, SocketWrites DEF KBindWrite, TypeOK
  <2>3. procs' \in [Pids -> Proc]
    BY <1>1, <1>2, ZenonT(60) DEF KBindWrite, TypeOK, Places
  <2>4. HasSocket'
    BY <1>2, <2>1 DEF KBindWrite, HasSocket, TypeOK
  <2> QED
    BY <1>2, <2>2, <2>3, <2>4 DEF KBindWrite, TypeOK, kernel
<1>3. CASE KBindScan(p)
  <2> DEFINE j == procs[p].i
             next == CASE Clashes(i, j) -> [procs[p] EXCEPT !.at = "dup", !.i = 0]
                       [] ~Clashes(i, j) /\ j + 1 < MaxSockets ->
                              [procs[p] EXCEPT !.i = j + 1]
                       [] OTHER -> [procs[p] EXCEPT !.at = "nodup", !.i = 0]
  <2>1. i \in Ids /\ j \in Ids /\ procs[p] \in Proc
    BY <1>3 DEF KBindScan, HasSocket, Having, TypeOK
  <2>2. procs' = [procs EXCEPT ![p] = next]
    BY <1>3 DEF KBindScan, TypeOK
  <2>3. next \in Proc /\ next.sock = i
    <3>1. CASE Clashes(i, j)
      BY <1>1, <2>1, <3>1 DEF Places
    <3>2. CASE ~Clashes(i, j) /\ j + 1 < MaxSockets
      <4>1. j + 1 \in Ids
        BY <2>1, <3>2, SocketsAssumption DEF Ids
      <4> QED
        BY <2>1, <3>2, <4>1
    <3>3. CASE ~Clashes(i, j) /\ ~(j + 1 < MaxSockets)
      BY <1>1, <2>1, <3>3 DEF Places
    <3> QED
      BY <3>1, <3>2, <3>3
  <2> HIDE DEF next
  <2>4. procs' \in [Pids -> Proc]
    BY <2>2, <2>3 DEF TypeOK
  <2>5. HasSocket'
    BY <2>1, <2>2, <2>3 DEF HasSocket, TypeOK
  <2> QED
    BY <1>3, <2>4, <2>5 DEF KBindScan, TypeOK, kernel
<1>4. CASE KBindEnd(p)
  <2>1. i \in Ids
    BY <1>4 DEF KBindEnd, HasSocket, Having
  <2>2. socks' \in [Ids -> Socket]
    <3>1. socks[i] \in Socket
      BY <2>1 DEF TypeOK
    <3>2. \/ socks' = [socks EXCEPT ![i] = [socks[i] EXCEPT !.dst = NoAddr, !.src = NoAddr]]
          \/ socks' = [socks EXCEPT ![i] = [socks[i] EXCEPT !.is_bound = TRUE]]
      BY <1>4, <2>1 DEF KBindEnd, TypeOK
    <3>3. /\ [socks[i] EXCEPT !.dst = NoAddr, !.src = NoAddr] \in Socket
          /\ [socks[i] EXCEPT !.is_bound = TRUE] \in Socket
      BY <3>1, SocketWrites
    <3> QED
      BY <3>2, <3>3 DEF TypeOK
  <2>3. procs' \in [Pids -> Proc]
    BY <1>4 DEF KBindEnd, TypeOK, Places
  <2>4. HasSocket'
    BY <1>4, <2>1 DEF KBindEnd, HasSocket, TypeOK
  <2> QED
    BY <1>4, <2>2, <2>3, <2>4 DEF KBindEnd, TypeOK, kernel
<1>5. CASE KClose(p)
  <2>1. i \in Ids
    BY <1>5 DEF KClose, HasSocket, Having
  <2>2. socks' \in [Ids -> Socket]
    BY <1>5, <2>1, SocketWrites DEF KClose, TypeOK
  <2>3. procs' \in [Pids -> Proc]
    BY <1>1, <1>5 DEF KClose, TypeOK, Places
  <2>4. HasSocket'
    BY <1>5 DEF KClose, HasSocket, TypeOK, Having
  <2> QED
    BY <1>5, <2>2, <2>3, <2>4 DEF KClose, TypeOK, kernel
<1>6. CASE Exit(p)
  <2>1. procs' \in [Pids -> Proc]
    BY <1>1, <1>6 DEF Exit, TypeOK, Places
  <2>2. HasSocket'
    BY <1>6 DEF Exit, HasSocket, TypeOK, Having
  <2> QED
    BY <1>6, <2>1, <2>2 DEF Exit, TypeOK, kernel
<1>7. CASE KSendTo(p)
  <2>1. i \in Ids
    BY <1>7 DEF KSendTo, HasSocket, Having
  <2>2. socks' \in [Ids -> Socket]
    BY <1>7, <2>1, SocketWrites DEF KSendTo, TypeOK
  <2> QED
    BY <1>7, <2>2 DEF KSendTo, TypeOK, HasSocket, kernel
<1> QED
  BY <1>0, <1>2, <1>3, <1>4, <1>5, <1>6, <1>7 DEF App

(* The descriptor main serves a socket with.                               *)
Served(i) == IF socks[i].sockfd = NoFd THEN LowestFree ELSE socks[i].sockfd

LEMMA ServedIsFd ==
    ASSUME TypeOK, running, DescriptorsAccounted, NEW i \in Ids
    PROVE  /\ Served(i) \in Fds
           /\ socks[i].sockfd = NoFd => Served(i) \notin open
<1>1. CASE socks[i].sockfd = NoFd
  BY <1>1, DescriptorLeft, LowestIsFree DEF Served
<1>2. CASE socks[i].sockfd # NoFd
  BY <1>2 DEF Served, TypeOK, Socket
<1> QED
  BY <1>1, <1>2

(* Threads main and G.                                                     *)
LEMMA TypeMainVisit ==
    ASSUME TypeOK, DescriptorsAccounted, MainVisit
    PROVE  TypeOK'
<1>1. main \in Ids /\ main' \in Ids
  BY NextIdIsId DEF MainVisit, TypeOK
<1>2. running /\ UNCHANGED <<procs, g, r, running>>
  BY DEF MainVisit
<1>3. CASE UNCHANGED <<socks, kernel, robbed>>
  BY <1>1, <1>2, <1>3 DEF TypeOK, kernel
<1>4. CASE MainClear(main)
  <2>1. socks' \in [Ids -> Socket]
    BY <1>1, <1>4, SocketWrites DEF MainClear, TypeOK
  <2>2. name' \in [Fds -> Addrs \cup {NoAddr, Ephemeral}]
    BY <1>4 DEF MainClear, TypeOK
  <2>3. open' \subseteq Fds /\ ready' \subseteq open'
    BY <1>4 DEF MainClear, TypeOK
  <2>4. robbed' \in BOOLEAN
    BY <1>4, Zenon DEF MainClear, TypeOK, OwnerLives
  <2> QED
    BY <1>1, <1>2, <2>1, <2>2, <2>3, <2>4 DEF TypeOK
<1>5. CASE MainServe(main)
  <2>1. Served(main) \in Fds
    BY <1>1, <1>2, ServedIsFd
  <2>2. /\ socks' = [socks EXCEPT ![main].sockfd = Served(main)]
        /\ open' = open \cup {Served(main)}
        /\ name' = IF ToBind(socks[main])
                   THEN Named(Served(main), socks[main].src) ELSE name
        /\ UNCHANGED <<ready, robbed>>
    BY <1>5 DEF MainServe, Served
  <2>3. socks' \in [Ids -> Socket]
    BY <1>1, <2>1, <2>2, SocketWrites DEF TypeOK
  <2>4. socks[main].src \in Addrs \cup {NoAddr}
    BY <1>1 DEF TypeOK, Socket
  <2>5. name' \in [Fds -> Addrs \cup {NoAddr, Ephemeral}]
    BY <2>1, <2>2, <2>4 DEF TypeOK, Named
  <2>6. open' \subseteq Fds /\ ready' \subseteq open'
    BY <2>1, <2>2 DEF TypeOK
  <2> QED
    BY <1>1, <1>2, <2>2, <2>3, <2>5, <2>6 DEF TypeOK
<1> QED
  BY <1>3, <1>4, <1>5 DEF MainVisit

LEMMA TypeGStep ==
    ASSUME TypeOK, GStep
    PROVE  TypeOK'
<1> DEFINE i == g.i
<1>1. i \in Ids /\ NextId(i) \in Ids
  BY NextIdIsId DEF TypeOK
<1>2. g' \in [at : {"look", "kill", "mark"}, i : Ids]
  BY <1>1 DEF GStep, TypeOK
<1>3. socks' \in [Ids -> Socket]
  <2>1. \/ socks' = socks
        \/ socks' = [socks EXCEPT ![i].is_terminated = TRUE]
    BY DEF GStep
  <2>2. socks[i] \in Socket
    BY <1>1 DEF TypeOK
  <2>3. [socks[i] EXCEPT !.is_terminated = TRUE] \in Socket
    BY <2>2, SocketWrites
  <2> QED
    BY <2>1, <2>3 DEF TypeOK
<1> QED
  BY <1>2, <1>3 DEF GStep, TypeOK, kernel

(* Thread R, and the network.                                              *)
LEMMA TypeRStep ==
    ASSUME TypeOK, RStep
    PROVE  TypeOK'
<1> DEFINE i == r.i
           Round == [at : {"build", "select", "wait", "visit", "blocked"},
                     i : Ids, fds : SUBSET Fds]
<1>1. i \in Ids /\ NextId(i) \in Ids /\ r \in Round
  BY NextIdIsId DEF TypeOK
<1>2. 0 \in Ids
  BY SocketsAssumption DEF Ids
<1>3. UNCHANGED <<socks, procs, main, g, robbed>>
  BY DEF RStep
<1>4. ASSUME r' \in Round, UNCHANGED <<running, open, name>>, ready' \subseteq ready
      PROVE  TypeOK'
  BY <1>3, <1>4 DEF TypeOK
<1>5. CASE RBuild
  <2>1. socks[i].sockfd \in Fds \cup {NoFd}
    BY <1>1 DEF TypeOK, Socket
  <2>2. r' \in Round
    BY <1>1, <1>5, <2>1 DEF RBuild
  <2> QED
    BY <1>4, <1>5, <2>2 DEF RBuild
<1>6. CASE RSelect
  <2>1. CASE r.fds \subseteq open
    <3>1. r' = [r EXCEPT !.at = "wait"]
      BY <1>6, <2>1 DEF RSelect
    <3>2. r' \in Round
      BY <1>1, <3>1
    <3> QED
      BY <1>4, <1>6, <2>1, <3>2 DEF RSelect
  <2>2. CASE ~(r.fds \subseteq open)
    BY <1>3, <1>6, <2>2 DEF RSelect, TypeOK
  <2> QED
    BY <2>1, <2>2
<1>7. CASE RWake
  <2>1. r' \in Round
    BY <1>1, <1>2, <1>7 DEF RWake
  <2> QED
    BY <1>4, <1>7, <2>1 DEF RWake
<1>8. CASE RVisit
  <2>1. RNext \in Round
    <3>1. CASE i + 1 < MaxSockets
      <4>1. i + 1 \in Ids
        BY <1>1, <3>1, SocketsAssumption DEF Ids
      <4> QED
        BY <1>1, <3>1, <4>1 DEF RNext
    <3>2. CASE ~(i + 1 < MaxSockets)
      BY <1>2, <3>2 DEF RNext
    <3> QED
      BY <3>1, <3>2
  <2>2. [r EXCEPT !.at = "blocked"] \in Round
    BY <1>1
  <2>3. r' \in Round /\ ready' \subseteq ready /\ UNCHANGED <<running, open, name>>
    BY <1>8, <2>1, <2>2 DEF RVisit
  <2> QED
    BY <1>4, <2>3
<1> QED
  BY <1>5, <1>6, <1>7, <1>8 DEF RStep

(* Every step keeps the types.                                             *)
LEMMA TypeStep ==
    ASSUME TypeOK, HasSocket, DescriptorsAccounted, [Next]_vars
    PROVE  (TypeOK /\ HasSocket)'
<1>1. CASE \E p \in Pids : App(p)
  BY <1>1, TypeApp
<1>2. CASE MainVisit
  BY <1>2, TypeMainVisit DEF MainVisit, HasSocket
<1>3. CASE GStep
  BY <1>3, TypeGStep DEF GStep, HasSocket
<1>4. CASE RStep
  BY <1>4, TypeRStep DEF RStep, HasSocket
<1>5. CASE Arrive
  BY <1>5 DEF Arrive, TypeOK, HasSocket
<1>6. CASE SVisit
  BY <1>6 DEF SVisit, TypeOK, HasSocket
<1>7. CASE UNCHANGED vars
  BY <1>7 DEF vars, kernel, TypeOK, HasSocket
<1> QED
  BY <1>1, <1>2, <1>3, <1>4, <1>5, <1>6, <1>7 DEF Next

-----------------------------------------------------------------------------
(* The owners of sockets and their addresses.                              *)

(* A step that takes no socket and writes no address or is_bound keeps     *)
(* what is known of the table: G's, R's and main's, but for clear_socket.  *)
LEMMA TableKept ==
    ASSUME TypeOK, TypeOK', Table, UNCHANGED <<procs, robbed>>,
           \A i \in Ids :
               /\ socks'[i].is_allocated = socks[i].is_allocated
               /\ socks'[i].pid = socks[i].pid
               /\ socks'[i].is_bound = socks[i].is_bound
               /\ socks'[i].src = socks[i].src
               /\ socks'[i].dst = socks[i].dst
               /\ socks[i].is_allocated \/ socks'[i].sockfd = socks[i].sockfd
    PROVE  Table'
<1>1. HasSocket'
  BY DEF Table, HasSocket
<1>2. FreeIsClear'
  BY DEF Table, FreeIsClear
<1>3. OwnedByOne'
  BY DEF Table, OwnedByOne, HasSocket, Having
<1>4. UnboundYet'
  BY DEF Table, UnboundYet, HasSocket, Having, Binding
<1>5. \A i, k \in Ids : Passed(i, k)' <=> Passed(i, k)
  BY DEF Passed
<1>6. PassedDiffer'
  BY <1>5 DEF Table, PassedDiffer
<1> QED
  BY <1>1, <1>2, <1>3, <1>4, <1>6 DEF Table

(* The addresses stay different when no socket passes another one anew,    *)
(* and those that had passed keep their addresses.                         *)
LEMMA DifferKept ==
    ASSUME PassedDiffer, robbed => robbed',
           robbed' \/ \A i, k \in Ids : i # k /\ Passed(i, k)' =>
               /\ Passed(i, k)
               /\ socks'[i].src = socks[i].src
               /\ socks'[i].dst = socks[i].dst
    PROVE  PassedDiffer'
  BY DEF PassedDiffer

(* Two processes that have a socket have not the same one.                 *)
LEMMA SocketsDiffer ==
    ASSUME OwnedByOne, ~robbed, NEW p \in Pids, NEW q \in Pids, p # q,
           procs[p].at \in Having, procs[q].at \in Having
    PROVE  procs[p].sock # procs[q].sock
  BY DEF OwnedByOne, Having

(* k_socket: the socket that is taken is nobody's, and not bound.          *)
LEMMA TableKSocketTry ==
    ASSUME TypeOK, TypeOK', HasSocket', Table, NEW p \in Pids, KSocketTry(p)
    PROVE  Table'
<1> DEFINE i == procs[p].i
<1>1. i \in Ids /\ robbed' = robbed /\ procs[p].at \notin Having
  BY DEF TypeOK, KSocketTry, Having
<1>2. CASE socks[i].is_allocated
  <2> DEFINE next == IF i + 1 < MaxSockets
                     THEN [at |-> "socket", sock |-> NoSock, i |-> i + 1]
                     ELSE [at |-> "dead", sock |-> NoSock, i |-> 0]
  <2>1. procs' = [procs EXCEPT ![p] = next] /\ socks' = socks
    BY <1>2 DEF KSocketTry, IsFree
  <2>2. next.at \notin Having
    BY DEF Having
  <2> HIDE DEF next
  <2>3. FreeIsClear'
    BY <1>1, <2>1 DEF Table, FreeIsClear
  <2>4. OwnedByOne'
    BY <1>1, <2>1, <2>2 DEF Table, OwnedByOne, TypeOK, Having
  <2>5. UnboundYet'
    BY <1>1, <2>1, <2>2 DEF Table, UnboundYet, TypeOK, Having, Binding
  <2>6. \A j, k \in Ids : Passed(j, k)' => Passed(j, k)
    BY <1>1, <2>1, <2>2 DEF Passed, TypeOK, Having
  <2>7. PassedDiffer'
    BY <1>1, <2>1, <2>6, DifferKept DEF Table
  <2> QED
    BY <2>3, <2>4, <2>5, <2>7 DEF Table
<1>3. CASE ~socks[i].is_allocated
  <2>1. procs' = [procs EXCEPT ![p] = [at |-> "unbound", sock |-> i, i |-> 0]]
    BY <1>3 DEF KSocketTry, IsFree
  <2>2. socks' = [socks EXCEPT ![i].is_allocated = TRUE, ![i].pid = p]
    BY <1>3 DEF KSocketTry, IsFree
  <2>3. /\ socks'[i].is_allocated /\ socks'[i].pid = p
        /\ socks'[i].is_bound = socks[i].is_bound
        /\ \A j \in Ids \ {i} : socks'[j] = socks[j]
        /\ \A j \in Ids : socks'[j].src = socks[j].src /\ socks'[j].dst = socks[j].dst
    <3>1. /\ socks'[i] = [socks[i] EXCEPT !.is_allocated = TRUE, !.pid = p]
          /\ \A j \in Ids \ {i} : socks'[j] = socks[j]
      BY <1>1, <2>2 DEF TypeOK
    <3>2. socks[i] \in Socket
      BY <1>1 DEF TypeOK
    <3>3. /\ socks'[i].is_allocated /\ socks'[i].pid = p
          /\ socks'[i].is_bound = socks[i].is_bound
          /\ socks'[i].src = socks[i].src /\ socks'[i].dst = socks[i].dst
      BY <3>1, <3>2 DEF Socket
    <3> QED
      BY <3>1, <3>3
  <2>4. FreeIsClear'
    BY <1>1, <2>3 DEF Table, FreeIsClear
  <2>5. ~robbed => \A q \in Pids \ {p} :
            procs[q].at \in Having => procs[q].sock # i
    BY <1>3 DEF Table, OwnedByOne, Having
  <2>6. OwnedByOne'
    BY <1>1, <2>1, <2>3, <2>5 DEF Table, OwnedByOne, HasSocket, TypeOK, Having
  <2>7. ~robbed => ~socks'[i].is_bound
    BY <1>1, <1>3, <2>3 DEF Table, FreeIsClear
  <2>8. UnboundYet'
    BY <1>1, <2>1, <2>3, <2>5, <2>7
       DEF Table, UnboundYet, HasSocket, TypeOK, Having, Binding
  <2>9. ~robbed => \A j, k \in Ids : Passed(j, k)' => Passed(j, k)
    <3>1. ASSUME ~robbed, NEW j \in Ids, NEW k \in Ids, Passed(j, k)'
          PROVE  Passed(j, k)
      <4>1. CASE j = i
        BY <3>1, <4>1, <2>1, <2>5, <2>7 DEF Passed, TypeOK, Having
      <4>2. CASE j # i
        BY <3>1, <4>2, <2>1, <2>3 DEF Passed, TypeOK
      <4> QED
        BY <4>1, <4>2
    <3> QED
      BY <3>1
  <2>10. PassedDiffer'
    BY <1>1, <2>3, <2>9, DifferKept DEF Table
  <2> QED
    BY <2>4, <2>6, <2>8, <2>10 DEF Table
<1> QED
  BY <1>2, <1>3

(* The calls on a socket that is owned change neither its owner nor, as    *)
(* long as it is being bound, is_bound.                                    *)
LEMMA OwnersKept ==
    ASSUME HasSocket, OwnedByOne, robbed' = robbed,
           \A q \in Pids : procs'[q].at \in Having =>
               procs[q].at \in Having /\ procs'[q].sock = procs[q].sock,
           \A j \in Ids : /\ socks'[j].is_allocated = socks[j].is_allocated
                          /\ socks'[j].pid = socks[j].pid
    PROVE  OwnedByOne'
<1> SUFFICES ASSUME ~robbed', NEW q \in Pids, procs'[q].at \in Having
             PROVE  /\ socks'[procs'[q].sock].is_allocated
                    /\ socks'[procs'[q].sock].pid = q
  BY Zenon DEF OwnedByOne, Having
<1>1. procs[q].at \in Having /\ procs[q].sock \in Ids /\ procs'[q].sock = procs[q].sock
  BY DEF HasSocket
<1> QED
  BY <1>1 DEF OwnedByOne, Having

LEMMA UnboundKept ==
    ASSUME HasSocket, UnboundYet, robbed' = robbed,
           \A q \in Pids : procs'[q].at \in Binding =>
               /\ procs[q].at \in Binding /\ procs'[q].sock = procs[q].sock
               /\ socks'[procs[q].sock].is_bound = socks[procs[q].sock].is_bound
    PROVE  UnboundYet'
<1> SUFFICES ASSUME ~robbed', NEW q \in Pids, procs'[q].at \in Binding
             PROVE  ~socks'[procs'[q].sock].is_bound
  BY Zenon DEF UnboundYet
<1>1. /\ procs[q].at \in Binding /\ procs'[q].sock = procs[q].sock
      /\ socks'[procs[q].sock].is_bound = socks[procs[q].sock].is_bound
  OBVIOUS
<1> QED
  BY <1>1 DEF UnboundYet

(* k_bind writes the addresses of a socket that has passed no other.       *)
LEMMA TableKBindWrite ==
    ASSUME TypeOK, TypeOK', HasSocket', Table, NEW p \in Pids,
           NEW src \in Addrs, NEW dst \in Addrs, KBindWrite(p, src, dst)
    PROVE  Table'
<1> DEFINE i == procs[p].sock
<1>1. /\ procs[p].at = "unbound" /\ i \in Ids /\ robbed' = robbed
      /\ procs' = [procs EXCEPT ![p].at = "scan", ![p].i = 0]
  BY DEF Table, HasSocket, Having, KBindWrite
<1>2. /\ \A j \in Ids \ {i} : socks'[j] = socks[j]
      /\ \A j \in Ids : /\ socks'[j].is_allocated = socks[j].is_allocated
                        /\ socks'[j].pid = socks[j].pid
                        /\ socks'[j].sockfd = socks[j].sockfd
                        /\ socks'[j].is_bound = socks[j].is_bound
  <2>1. /\ socks'[i] = [socks[i] EXCEPT !.dst = dst, !.src = src]
        /\ \A j \in Ids \ {i} : socks'[j] = socks[j]
    BY <1>1 DEF KBindWrite, TypeOK
  <2>2. socks[i] \in Socket
    BY <1>1 DEF TypeOK
  <2>3. /\ socks'[i].is_allocated = socks[i].is_allocated /\ socks'[i].pid = socks[i].pid
        /\ socks'[i].sockfd = socks[i].sockfd /\ socks'[i].is_bound = socks[i].is_bound
    BY <2>1, <2>2 DEF Socket
  <2> QED
    BY <2>1, <2>3
<1>3. /\ procs'[p].at = "scan" /\ procs'[p].sock = i /\ procs'[p].i = 0
      /\ \A q \in Pids \ {p} : procs'[q] = procs[q]
  BY <1>1 DEF TypeOK
<1>4. FreeIsClear'
  BY <1>1, <1>2 DEF Table, FreeIsClear
<1>5. OwnedByOne'
  <2>1. \A q \in Pids : procs'[q].at \in Having =>
            procs[q].at \in Having /\ procs'[q].sock = procs[q].sock
    BY <1>1, <1>3 DEF Having
  <2> QED
    BY <1>1, <1>2, <2>1, OwnersKept DEF Table
<1>6. UnboundYet'
  <2>1. \A q \in Pids : procs'[q].at \in Binding =>
            /\ procs[q].at \in Binding /\ procs'[q].sock = procs[q].sock
            /\ procs[q].sock \in Ids
    BY <1>1, <1>3 DEF Table, HasSocket, Having, Binding
  <2> QED
    BY <1>1, <1>2, <2>1, UnboundKept DEF Table
<1>7. ~robbed => \A j, k \in Ids : Passed(j, k)' => j # i /\ Passed(j, k)
  <2>1. ASSUME ~robbed, NEW j \in Ids, NEW k \in Ids, Passed(j, k)'
        PROVE  j # i /\ Passed(j, k)
    <3>1. ~socks[i].is_bound
      BY <1>1, <2>1 DEF Table, UnboundYet, Having, Binding
    <3>2. ~(k < 0)
      BY SocketsAssumption DEF Ids
    <3>3. \A q \in Pids \ {p} : procs[q].at \in Having => procs[q].sock # i
      BY <1>1, <2>1, SocketsDiffer DEF Table, Having
    <3>4. j # i
      BY <1>2, <1>3, <2>1, <3>1, <3>2, <3>3 DEF Passed, Having
    <3> QED
      BY <1>2, <1>3, <2>1, <3>4 DEF Passed
  <2> QED
    BY <2>1
<1>8. PassedDiffer'
  BY <1>1, <1>2, <1>7, DifferKept DEF Table
<1> QED
  BY <1>4, <1>5, <1>6, <1>8 DEF Table

(* The scan passes a socket after it compared the addresses.               *)
LEMMA TableKBindScan ==
    ASSUME TypeOK, TypeOK', HasSocket', Table, NEW p \in Pids, KBindScan(p)
    PROVE  Table'
<1> DEFINE i == procs[p].sock
           l == procs[p].i
<1>1. /\ procs[p].at = "scan" /\ i \in Ids /\ l \in Ids
      /\ UNCHANGED <<socks, robbed>>
  BY DEF Table, HasSocket, Having, KBindScan, TypeOK
<1>2. /\ \A q \in Pids \ {p} : procs'[q] = procs[q]
      /\ procs'[p].sock = i
      /\ \/ Clashes(i, l) /\ procs'[p].at = "dup"
         \/ ~Clashes(i, l) /\ procs'[p].at = "scan" /\ procs'[p].i = l + 1
         \/ ~Clashes(i, l) /\ procs'[p].at = "nodup" /\ ~(l + 1 < MaxSockets)
  BY DEF KBindScan, TypeOK
<1>3. FreeIsClear'
  BY <1>1 DEF Table, FreeIsClear
<1>4. OwnedByOne'
  <2>1. \A q \in Pids : procs'[q].at \in Having =>
            procs[q].at \in Having /\ procs'[q].sock = procs[q].sock
    BY <1>1, <1>2 DEF Having
  <2> QED
    BY <1>1, <2>1, OwnersKept DEF Table
<1>5. UnboundYet'
  <2>1. \A q \in Pids : procs'[q].at \in Binding =>
            procs[q].at \in Binding /\ procs'[q].sock = procs[q].sock
    BY <1>1, <1>2 DEF Having, Binding
  <2> QED
    BY <1>1, <2>1, UnboundKept DEF Table
<1>6. \A j, k \in Ids : Passed(j, k)' =>
          Passed(j, k) \/ (j = i /\ k = l /\ ~Clashes(i, l))
  <2>1. ASSUME NEW j \in Ids, NEW k \in Ids, Passed(j, k)', ~Passed(j, k)
        PROVE  j = i /\ k = l /\ ~Clashes(i, l)
    <3>1. socks[j].is_allocated /\ ~socks[j].is_bound
      BY <1>1, <2>1 DEF Passed
    <3>2. PICK q \in Pids : /\ procs'[q].sock = j
                            /\ \/ procs'[q].at = "nodup"
                               \/ procs'[q].at = "scan" /\ k < procs'[q].i
      BY <1>1, <2>1, <3>1 DEF Passed
    <3>3. q = p
      BY <1>2, <2>1, <3>1, <3>2 DEF Passed
    <3>4. ~(procs[p].at = "scan" /\ k < l)
      BY <1>2, <2>1, <3>1, <3>2, <3>3 DEF Passed
    <3>5. k \in 0..(MaxSockets - 1) /\ l \in 0..(MaxSockets - 1)
      BY <1>1 DEF Ids
    <3>6. k = l
      BY <1>1, <1>2, <3>2, <3>3, <3>4, <3>5, SocketsAssumption
    <3> QED
      BY <1>2, <3>2, <3>3, <3>6
  <2> QED
    BY <2>1
<1>7. ASSUME ~robbed, NEW j \in Ids, NEW k \in Ids, j # k,
             Passed(j, k)', Passed(k, j)'
      PROVE  socks[j].src # socks[k].src /\ socks[j].dst # socks[k].dst
  <2>1. socks[j].is_allocated /\ socks[k].is_allocated
    BY <1>1, <1>7 DEF Passed
  <2>2. CASE Passed(j, k) /\ Passed(k, j)
    BY <1>7, <2>2 DEF Table, PassedDiffer
  <2>3. CASE j = i /\ k = l /\ ~Clashes(i, l)
    BY <1>7, <2>1, <2>3 DEF Clashes
  <2>4. CASE k = i /\ j = l /\ ~Clashes(i, l)
    BY <1>7, <2>1, <2>4 DEF Clashes
  <2> QED
    BY <1>6, <1>7, <2>2, <2>3, <2>4
<1>8. PassedDiffer'
  BY <1>1, <1>7 DEF PassedDiffer
<1> QED
  BY <1>3, <1>4, <1>5, <1>8 DEF Table

(* The end of k_bind: a socket that has passed all the others is bound.    *)
LEMMA TableKBindEnd ==
    ASSUME TypeOK, TypeOK', HasSocket', Table, NEW p \in Pids, KBindEnd(p)
    PROVE  Table'
<1> DEFINE i == procs[p].sock
<1>1. /\ procs[p].at \in {"dup", "nodup"} /\ i \in Ids /\ robbed' = robbed
      /\ procs[p].at \in Binding
  BY DEF Table, HasSocket, Having, Binding, KBindEnd
<1>2. /\ \A q \in Pids \ {p} : procs'[q] = procs[q]
      /\ procs'[p].sock = i
      /\ \A j \in Ids : /\ socks'[j].is_allocated = socks[j].is_allocated
                        /\ socks'[j].pid = socks[j].pid
                        /\ socks'[j].sockfd = socks[j].sockfd
                        /\ j # i => socks'[j] = socks[j]
      /\ \/ /\ procs[p].at = "dup" /\ procs'[p].at = "unbound"
            /\ socks'[i].is_bound = socks[i].is_bound
         \/ /\ procs[p].at = "nodup" /\ procs'[p].at = "bound"
            /\ socks'[i].is_bound
            /\ socks'[i].src = socks[i].src /\ socks'[i].dst = socks[i].dst
  BY <1>1 DEF KBindEnd, TypeOK, Socket
<1>3. ~robbed => /\ socks[i].is_allocated /\ ~socks[i].is_bound
                 /\ \A q \in Pids \ {p} :
                        procs[q].at \in Having => procs[q].sock # i
  BY <1>1, SocketsDiffer DEF Table, OwnedByOne, UnboundYet, Having, Binding
<1>4. FreeIsClear'
  BY <1>1, <1>2, <1>3 DEF Table, FreeIsClear
<1>5. OwnedByOne'
  <2>1. \A q \in Pids : procs'[q].at \in Having =>
            procs[q].at \in Having /\ procs'[q].sock = procs[q].sock
    BY <1>1, <1>2 DEF Having
  <2> QED
    BY <1>1, <1>2, <2>1, OwnersKept DEF Table
<1>6. UnboundYet'
  <2>1. CASE robbed
    BY <1>1, <2>1 DEF UnboundYet
  <2>2. CASE ~robbed
    <3>1. ASSUME NEW q \in Pids, procs'[q].at \in Binding
          PROVE  /\ procs[q].at \in Binding /\ procs'[q].sock = procs[q].sock
                 /\ socks'[procs[q].sock].is_bound = socks[procs[q].sock].is_bound
      <4>1. CASE q = p
        BY <1>1, <1>2, <3>1, <4>1 DEF Having, Binding
      <4>2. CASE q # p
        <5>1. procs'[q] = procs[q] /\ procs[q].at \in Having
          BY <1>2, <3>1, <4>2 DEF Having, Binding
        <5>2. procs[q].sock \in Ids \ {i}
          BY <1>3, <2>2, <4>2, <5>1 DEF Table, HasSocket
        <5> QED
          BY <1>2, <3>1, <5>1, <5>2
      <4> QED
        BY <4>1, <4>2
    <3> QED
      BY <1>1, <3>1, UnboundKept DEF Table
  <2> QED
    BY <2>1, <2>2
<1>7. ASSUME ~robbed, NEW j \in Ids, NEW k \in Ids, Passed(j, k)'
      PROVE  /\ Passed(j, k)
             /\ socks'[j].src = socks[j].src /\ socks'[j].dst = socks[j].dst
  <2>1. CASE j # i
    BY <1>2, <1>7, <2>1 DEF Passed
  <2>2. CASE j = i
    <3>1. procs[p].at = "nodup"
      BY <1>1, <1>2, <1>3, <1>7, <2>2 DEF Passed, Having
    <3> QED
      BY <1>2, <1>3, <1>7, <2>2, <3>1 DEF Passed
  <2> QED
    BY <2>1, <2>2
<1>8. PassedDiffer'
  BY <1>1, <1>7, DifferKept DEF Table
<1> QED
  BY <1>4, <1>5, <1>6, <1>8 DEF Table

(* k_close and the end of a process take nothing from another one.         *)
LEMMA TableLeave ==
    ASSUME TypeOK, TypeOK', HasSocket', Table, NEW p \in Pids,
           KClose(p) \/ Exit(p)
    PROVE  Table'
<1>1. /\ robbed' = robbed
      /\ \A q \in Pids \ {p} : procs'[q] = procs[q]
      /\ procs'[p].at \in {"closed", "dead"}
  BY DEF KClose, Exit, TypeOK
<1>2. \A j \in Ids : /\ socks'[j].is_allocated = socks[j].is_allocated
                     /\ socks'[j].pid = socks[j].pid
                     /\ socks'[j].sockfd = socks[j].sockfd
                     /\ socks'[j].is_bound = socks[j].is_bound
                     /\ socks'[j].src = socks[j].src
                     /\ socks'[j].dst = socks[j].dst
  <2>1. CASE KClose(p)
    BY <2>1 DEF KClose, TypeOK, Socket
  <2>2. CASE Exit(p)
    BY <2>2 DEF Exit
  <2> QED
    BY <2>1, <2>2
<1>3. \A q \in Pids : procs'[q].at \in Having => q # p
  BY <1>1 DEF Having
<1>4. FreeIsClear'
  BY <1>1, <1>2 DEF Table, FreeIsClear
<1>5. OwnedByOne'
  BY <1>1, <1>2, <1>3, OwnersKept DEF Table
<1>6. UnboundYet'
  <2>1. \A q \in Pids : procs'[q].at \in Binding =>
            procs'[q] = procs[q] /\ procs[q].sock \in Ids
    BY <1>1, <1>3 DEF Table, HasSocket, Having, Binding
  <2> QED
    BY <1>1, <1>2, <2>1, UnboundKept DEF Table
<1>7. \A j, k \in Ids : Passed(j, k)' => Passed(j, k)
  BY <1>1, <1>2 DEF Passed
<1>8. PassedDiffer'
  BY <1>1, <1>2, <1>7, DifferKept DEF Table
<1> QED
  BY <1>4, <1>5, <1>6, <1>8 DEF Table

(* main clears a socket: if its owner lives, that is on record.            *)
LEMMA TableMainClear ==
    ASSUME TypeOK, TypeOK', HasSocket', Table, NEW i \in Ids, MainClear(i),
           UNCHANGED procs
    PROVE  Table'
<1>1. /\ socks' = [socks EXCEPT ![i] =
                     [ClearSocket(socks[i]) EXCEPT !.is_bound = FALSE]]
      /\ robbed' = (robbed \/ OwnerLives(socks[i]))
  BY DEF MainClear, TypeOK
<1>2. /\ ~socks'[i].is_allocated /\ ~socks'[i].is_bound /\ socks'[i].sockfd = NoFd
      /\ \A j \in Ids \ {i} : socks'[j] = socks[j]
  BY <1>1 DEF TypeOK, Socket, ClearSocket
<1>3. robbed => robbed'
  BY <1>1
<1>4. FreeIsClear'
  BY <1>2, <1>3 DEF Table, FreeIsClear
<1>5. ~robbed' => \A q \in Pids : procs[q].at \in Having => procs[q].sock # i
  <2>1. ASSUME ~robbed', NEW q \in Pids, procs[q].at \in Having, procs[q].sock = i
        PROVE  FALSE
    <3>1. socks[i].pid = q
      BY <1>3, <2>1 DEF Table, OwnedByOne, Having
    <3>2. OwnerLives(socks[i])
      BY <2>1, <3>1 DEF OwnerLives, Having
    <3> QED
      BY <1>1, <2>1, <3>2
  <2> QED
    BY <2>1
<1>6. OwnedByOne'
  BY <1>2, <1>3, <1>5 DEF Table, OwnedByOne, HasSocket, Having
<1>7. UnboundYet'
  BY <1>2, <1>3, <1>5 DEF Table, UnboundYet, HasSocket, Having, Binding
<1>8. \A j, k \in Ids : Passed(j, k)' => j # i /\ Passed(j, k)
  BY <1>2 DEF Passed
<1>9. PassedDiffer'
  BY <1>2, <1>3, <1>8, DifferKept DEF Table
<1> QED
  BY <1>4, <1>6, <1>7, <1>9 DEF Table

(* k_sendto changes neither an owner nor an address.                       *)
LEMMA TableKSendTo ==
    ASSUME TypeOK, TypeOK', Table, NEW p \in Pids, KSendTo(p)
    PROVE  Table'
<1>1. socks' = [socks EXCEPT ![procs[p].sock].sent = TRUE]
  BY DEF KSendTo
<1>2. \A i \in Ids : /\ socks'[i].is_allocated = socks[i].is_allocated
                     /\ socks'[i].pid = socks[i].pid
                     /\ socks'[i].sockfd = socks[i].sockfd
                     /\ socks'[i].is_bound = socks[i].is_bound
                     /\ socks'[i].src = socks[i].src
                     /\ socks'[i].dst = socks[i].dst
  BY <1>1 DEF TypeOK, Socket
<1> QED
  BY <1>2, TableKept DEF KSendTo

(* Every step keeps what is known of the table.                            *)
LEMMA TableStep ==
    ASSUME TypeOK, (TypeOK /\ HasSocket)', Table, DescriptorsAccounted, [Next]_vars
    PROVE  Table'
<1>1. ASSUME NEW p \in Pids, App(p) PROVE Table'
  BY <1>1, TableKSocketTry, TableKBindWrite, TableKBindScan, TableKBindEnd,
     TableKSendTo, TableLeave DEF App
<1>2. CASE MainVisit
  <2>1. main \in Ids /\ UNCHANGED procs
    BY <1>2 DEF MainVisit, TypeOK
  <2>2. CASE UNCHANGED <<socks, kernel, robbed>>
    BY <2>1, <2>2, TableKept
  <2>3. CASE MainClear(main)
    BY <2>1, <2>3, TableMainClear
  <2>4. CASE MainServe(main)
    <3>1. UNCHANGED robbed /\ socks[main].is_allocated
      BY <2>4 DEF MainServe
    <3>2. socks' = [socks EXCEPT ![main].sockfd = Served(main)]
      BY <2>4 DEF MainServe, Served
    <3> QED
      BY <2>1, <3>1, <3>2, TableKept DEF TypeOK, Socket
  <2> QED
    BY <1>2, <2>2, <2>3, <2>4 DEF MainVisit
<1>3. CASE GStep
  <2>1. UNCHANGED <<procs, robbed>>
    BY <1>3 DEF GStep
  <2>2. \/ socks' = socks
        \/ socks' = [socks EXCEPT ![g.i].is_terminated = TRUE]
    BY <1>3 DEF GStep
  <2>3. \A i \in Ids : /\ socks'[i].is_allocated = socks[i].is_allocated
                       /\ socks'[i].pid = socks[i].pid
                       /\ socks'[i].sockfd = socks[i].sockfd
                       /\ socks'[i].is_bound = socks[i].is_bound
                       /\ socks'[i].src = socks[i].src
                       /\ socks'[i].dst = socks[i].dst
    BY <2>2 DEF TypeOK, Socket
  <2> QED
    BY <2>1, <2>3, TableKept
<1>4. CASE RStep
  BY <1>4, TableKept DEF RStep
<1>5. CASE Arrive
  BY <1>5, TableKept DEF Arrive
<1>6. CASE SVisit
  BY <1>6, TableKept DEF SVisit
<1>7. CASE UNCHANGED vars
  BY <1>7, TableKept DEF vars
<1> QED
  BY <1>1, <1>2, <1>3, <1>4, <1>5, <1>6, <1>7 DEF Next

-----------------------------------------------------------------------------
(* The sockets that are sent from.                                         *)

(* A step that takes is_bound from no socket, and sends from none that is  *)
(* not bound.                                                              *)
LEMMA SentKept ==
    ASSUME HasSocket, SentIsBound, robbed' = robbed,
           \A q \in Pids : procs'[q].at = "bound" =>
               \/ procs[q].at = "bound" /\ procs'[q].sock = procs[q].sock
               \/ socks'[procs'[q].sock].is_bound,
           \A i \in Ids :
               /\ socks[i].is_bound => socks'[i].is_bound
               /\ socks'[i].sent => socks[i].sent \/ robbed \/ socks[i].is_bound
    PROVE  SentIsBound'
<1>1. ASSUME ~robbed', NEW q \in Pids, procs'[q].at = "bound"
      PROVE  socks'[procs'[q].sock].is_bound
  <2>1. CASE procs[q].at = "bound" /\ procs'[q].sock = procs[q].sock
    <3>1. procs[q].sock \in Ids /\ socks[procs[q].sock].is_bound
      BY <1>1, <2>1 DEF HasSocket, Having, SentIsBound
    <3> QED
      BY <2>1, <3>1
  <2> QED
    BY <1>1, <2>1
<1>2. ASSUME ~robbed', NEW i \in Ids, socks'[i].sent PROVE socks'[i].is_bound
  BY <1>2 DEF SentIsBound
<1> QED
  BY <1>1, <1>2, Zenon DEF SentIsBound

(* The calls: k_bind's last part sets is_bound before its caller can send. *)
LEMMA SentApp ==
    ASSUME TypeOK, HasSocket, SentIsBound, NEW p \in Pids, App(p)
    PROVE  SentIsBound'
<1>1. ASSUME robbed' = robbed, \A q \in Pids \ {p} : procs'[q] = procs[q],
             procs'[p].at # "bound",
             \A i \in Ids : /\ socks'[i].is_bound = socks[i].is_bound
                            /\ socks'[i].sent = socks[i].sent
      PROVE  SentIsBound'
  BY <1>1, SentKept
<1>2. CASE KSocketTry(p)
  <2>1. \A i \in Ids : /\ socks'[i].is_bound = socks[i].is_bound
                       /\ socks'[i].sent = socks[i].sent
    <3>1. \/ socks' = socks
          \/ socks' = [socks EXCEPT ![procs[p].i].is_allocated = TRUE,
                                    ![procs[p].i].pid = p]
      BY <1>2 DEF KSocketTry
    <3> QED
      BY <3>1 DEF TypeOK, Socket
  <2>2. procs'[p].at # "bound" /\ \A q \in Pids \ {p} : procs'[q] = procs[q]
    BY <1>2 DEF KSocketTry, TypeOK
  <2> QED
    BY <1>1, <1>2, <2>1, <2>2 DEF KSocketTry
<1>3. ASSUME NEW src \in Addrs, NEW dst \in Addrs, KBindWrite(p, src, dst)
      PROVE  SentIsBound'
  <2>1. \A i \in Ids : /\ socks'[i].is_bound = socks[i].is_bound
                       /\ socks'[i].sent = socks[i].sent
    BY <1>3, ZenonT(60) DEF KBindWrite, TypeOK, Socket
  <2>2. procs'[p].at # "bound" /\ \A q \in Pids \ {p} : procs'[q] = procs[q]
    BY <1>3 DEF KBindWrite, TypeOK
  <2> QED
    BY <1>1, <1>3, <2>1, <2>2 DEF KBindWrite
<1>4. CASE KBindScan(p)
  <2>1. procs'[p].at # "bound" /\ \A q \in Pids \ {p} : procs'[q] = procs[q]
    BY <1>4 DEF KBindScan, TypeOK
  <2> QED
    BY <1>1, <1>4, <2>1 DEF KBindScan
<1>5. CASE KBindEnd(p)
  <2>1. procs[p].sock \in Ids
    BY <1>5 DEF KBindEnd, HasSocket, Having
  <2>2. /\ \A q \in Pids \ {p} : procs'[q] = procs[q]
        /\ procs'[p].sock = procs[p].sock
        /\ procs'[p].at = "bound" => socks'[procs[p].sock].is_bound
        /\ \A i \in Ids : /\ socks[i].is_bound => socks'[i].is_bound
                          /\ socks'[i].sent = socks[i].sent
    BY <1>5, <2>1 DEF KBindEnd, TypeOK, Socket
  <2> QED
    BY <1>5, <2>2, SentKept DEF KBindEnd
<1>6. CASE KSendTo(p)
  <2>1. procs[p].sock \in Ids /\ (~robbed => socks[procs[p].sock].is_bound)
    BY <1>6 DEF KSendTo, HasSocket, Having, SentIsBound
  <2>2. \A i \in Ids : /\ socks'[i].is_bound = socks[i].is_bound
                       /\ i # procs[p].sock => socks'[i].sent = socks[i].sent
    <3>1. socks' = [socks EXCEPT ![procs[p].sock].sent = TRUE]
      BY <1>6 DEF KSendTo
    <3>2. \A i \in Ids \ {procs[p].sock} : socks'[i] = socks[i]
      BY <3>1 DEF TypeOK
    <3>3. \A i \in Ids : socks'[i].is_bound = socks[i].is_bound
      BY <3>1 DEF TypeOK, Socket
    <3> QED
      BY <3>2, <3>3
  <2> QED
    BY <1>6, <2>1, <2>2, SentKept DEF KSendTo
<1>7. CASE KClose(p) \/ Exit(p)
  <2>1. \A i \in Ids : /\ socks'[i].is_bound = socks[i].is_bound
                       /\ socks'[i].sent = socks[i].sent
    BY <1>7 DEF KClose, Exit, TypeOK, Socket
  <2>2. procs'[p].at # "bound" /\ \A q \in Pids \ {p} : procs'[q] = procs[q]
    BY <1>7 DEF KClose, Exit, TypeOK
  <2> QED
    BY <1>1, <1>7, <2>1, <2>2 DEF KClose, Exit
<1> QED
  BY <1>2, <1>3, <1>4, <1>5, <1>6, <1>7 DEF App

(* main clears is_bound, of a socket whose owner is not about to send.     *)
LEMMA SentStep ==
    ASSUME TypeOK, Table, SentIsBound, [Next]_vars
    PROVE  SentIsBound'
<1>1. HasSocket /\ OwnedByOne
  BY DEF Table
<1>2. ASSUME UNCHANGED <<procs, robbed>>,
             \A i \in Ids : /\ socks'[i].is_bound = socks[i].is_bound
                            /\ socks'[i].sent = socks[i].sent
      PROVE  SentIsBound'
  BY <1>1, <1>2, SentKept
<1>3. CASE MainVisit
  <2>1. main \in Ids /\ UNCHANGED procs
    BY <1>3 DEF MainVisit, TypeOK
  <2>2. CASE UNCHANGED <<socks, kernel, robbed>>
    BY <1>2, <2>1, <2>2
  <2>3. CASE MainClear(main)
    <3>1. /\ socks' = [socks EXCEPT ![main] =
                         [ClearSocket(socks[main]) EXCEPT !.is_bound = FALSE]]
          /\ robbed' = (robbed \/ OwnerLives(socks[main]))
      BY <2>1, <2>3 DEF MainClear, TypeOK
    <3>2. ~socks'[main].sent /\ \A j \in Ids \ {main} : socks'[j] = socks[j]
      BY <2>1, <3>1 DEF TypeOK, Socket, ClearSocket
    <3>3. ASSUME ~robbed', NEW q \in Pids, procs[q].at = "bound"
          PROVE  procs[q].sock # main
      BY <1>1, <3>1, <3>3 DEF OwnedByOne, OwnerLives
    <3> QED
      BY <1>1, <2>1, <3>1, <3>2, <3>3 DEF SentIsBound, HasSocket, Having
  <2>4. CASE MainServe(main)
    <3>1. UNCHANGED robbed /\ socks' = [socks EXCEPT ![main].sockfd = Served(main)]
      BY <2>4 DEF MainServe, Served
    <3> QED
      BY <1>2, <2>1, <3>1 DEF TypeOK, Socket
  <2> QED
    BY <1>3, <2>2, <2>3, <2>4 DEF MainVisit
<1>4. CASE GStep
  <2>1. \/ socks' = socks
        \/ socks' = [socks EXCEPT ![g.i].is_terminated = TRUE]
    BY <1>4 DEF GStep
  <2>2. \A i \in Ids : /\ socks'[i].is_bound = socks[i].is_bound
                       /\ socks'[i].sent = socks[i].sent
    BY <2>1 DEF TypeOK, Socket
  <2> QED
    BY <1>2, <1>4, <2>2 DEF GStep
<1>5. CASE UNCHANGED <<socks, procs, robbed>>
  BY <1>2, <1>5
<1>6. RStep \/ SVisit \/ Arrive \/ UNCHANGED vars => UNCHANGED <<socks, procs, robbed>>
  BY DEF RStep, SVisit, Arrive, vars
<1> QED
  BY <1>1, <1>3, <1>4, <1>5, <1>6, SentApp DEF Next

-----------------------------------------------------------------------------
(* The descriptors of initsocket and their names.                          *)

(* Every address of a bound socket whose descriptor has a name stays what  *)
(* it is: only its owner, before it is bound, writes it.                   *)
LEMMA NamedAppStep ==
    ASSUME TypeOK, Table, BoundToSource, NEW p \in Pids, App(p)
    PROVE  /\ BoundToSource'
           /\ \A i \in Ids : socks'[i].sockfd = socks[i].sockfd
<1>1. UNCHANGED <<name, robbed>>
  BY DEF App, KSocketTry, KBindWrite, KBindScan, KBindEnd, KSendTo, KClose, Exit,
         kernel
<1>2. ASSUME \A i \in Ids :
                 /\ socks'[i].sockfd = socks[i].sockfd
                 /\ socks[i].sent => socks'[i].sent
                 /\ ~robbed /\ socks[i].is_bound =>
                       socks'[i].is_bound /\ socks'[i].src = socks[i].src
      PROVE  /\ BoundToSource'
             /\ \A i \in Ids : socks'[i].sockfd = socks[i].sockfd
  BY <1>1, <1>2 DEF BoundToSource, NamedFor
<1>3. CASE KSocketTry(p)
  <2>1. \/ socks' = socks
        \/ socks' = [socks EXCEPT ![procs[p].i].is_allocated = TRUE,
                                  ![procs[p].i].pid = p]
    BY <1>3 DEF KSocketTry
  <2>2. \A i \in Ids : /\ socks'[i].sockfd = socks[i].sockfd
                       /\ socks'[i].is_bound = socks[i].is_bound
                       /\ socks'[i].src = socks[i].src
                       /\ socks'[i].sent = socks[i].sent
    BY <2>1 DEF TypeOK, Socket
  <2> QED
    BY <1>2, <2>2
<1>4. ASSUME NEW src \in Addrs, NEW dst \in Addrs, KBindWrite(p, src, dst)
      PROVE  /\ BoundToSource'
             /\ \A i \in Ids : socks'[i].sockfd = socks[i].sockfd
  <2>1. ~robbed => ~socks[procs[p].sock].is_bound
    BY <1>4 DEF KBindWrite, Table, UnboundYet, Having, Binding
  <2>2. socks' = [socks EXCEPT ![procs[p].sock].dst = dst,
                               ![procs[p].sock].src = src]
    BY <1>4 DEF KBindWrite
  <2>3. \A i \in Ids : /\ socks'[i].sockfd = socks[i].sockfd
                       /\ socks'[i].sent = socks[i].sent
                       /\ i # procs[p].sock => socks'[i] = socks[i]
    BY <2>2 DEF TypeOK, Socket
  <2> QED
    BY <1>2, <2>1, <2>3
<1>5. CASE KBindScan(p)
  BY <1>2, <1>5 DEF KBindScan
<1>6. CASE KBindEnd(p)
  <2>1. ~robbed => ~socks[procs[p].sock].is_bound
    BY <1>6 DEF KBindEnd, Table, UnboundYet, Having, Binding
  <2>2. \/ socks' = [socks EXCEPT ![procs[p].sock].dst = NoAddr,
                                  ![procs[p].sock].src = NoAddr]
        \/ socks' = [socks EXCEPT ![procs[p].sock].is_bound = TRUE]
    BY <1>6 DEF KBindEnd
  <2>3. \A i \in Ids : /\ socks'[i].sockfd = socks[i].sockfd
                       /\ socks'[i].sent = socks[i].sent
                       /\ i # procs[p].sock => socks'[i] = socks[i]
    BY <2>2 DEF TypeOK, Socket
  <2> QED
    BY <1>2, <2>1, <2>3
<1>7. CASE KClose(p)
  BY <1>2, <1>7 DEF KClose, TypeOK, Socket
<1>8. CASE Exit(p)
  BY <1>2, <1>8 DEF Exit
<1>9. CASE KSendTo(p)
  BY <1>2, <1>9 DEF KSendTo, TypeOK, Socket
<1> QED
  BY <1>3, <1>4, <1>5, <1>6, <1>7, <1>8, <1>9 DEF App

(* A step that moves no descriptor.                                        *)
LEMMA DescriptorsKept ==
    ASSUME TypeOK, Descriptors, BoundToSource', UNCHANGED <<open, name, running>>,
           \A i \in Ids : socks'[i].sockfd = socks[i].sockfd
    PROVE  Descriptors'
<1>1. {socks'[i].sockfd : i \in Ids} = {socks[i].sockfd : i \in Ids}
  OBVIOUS
<1>2. DescriptorsAccounted'
  BY <1>1 DEF Descriptors, DescriptorsAccounted
<1>3. NamesAreOpen'
  BY DEF Descriptors, NamesAreOpen
<1> QED
  BY <1>2, <1>3 DEF Descriptors

(* main closes the descriptor of the socket it clears.                     *)
LEMMA DescriptorsMainClear ==
    ASSUME TypeOK, Table, Descriptors, NEW c \in Ids, MainClear(c),
           running, UNCHANGED running
    PROVE  Descriptors'
<1> DEFINE fd == socks[c].sockfd
<1>1. /\ socks'[c].sockfd = NoFd
      /\ \A i \in Ids \ {c} : socks'[i] = socks[i]
      /\ \A i \in Ids : socks[i].sockfd \in Fds \cup {NoFd}
  BY DEF MainClear, ClearSocket, TypeOK, Socket
<1>2. /\ open' = open \ {fd}
      /\ name' = [f \in Fds |-> IF f = fd THEN NoAddr ELSE name[f]]
      /\ robbed => robbed'
  BY DEF MainClear
<1>3. /\ open = {socks[i].sockfd : i \in Ids} \ {NoFd}
      /\ \A i, j \in Ids :
            i # j /\ socks[i].sockfd # NoFd => socks[i].sockfd # socks[j].sockfd
  BY DEF Descriptors, DescriptorsAccounted
<1>4. DescriptorsAccounted'
  <2>1. open' = {socks'[i].sockfd : i \in Ids} \ {NoFd}
    BY <1>1, <1>2, <1>3
  <2>2. \A i, j \in Ids : i # j /\ socks'[i].sockfd # NoFd =>
            socks'[i].sockfd # socks'[j].sockfd
    BY <1>1, <1>3
  <2> QED
    BY <2>1, <2>2 DEF DescriptorsAccounted
<1>5. NamesAreOpen'
  BY <1>2 DEF Descriptors, NamesAreOpen, TypeOK
<1>6. BoundToSource'
  BY <1>1, <1>2, <1>3 DEF Descriptors, BoundToSource, NamedFor
<1> QED
  BY <1>4, <1>5, <1>6 DEF Descriptors

(* main opens a descriptor for a socket that has none, and binds it to the *)
(* address of its socket once the socket is bound.                         *)
LEMMA DescriptorsMainServe ==
    ASSUME TypeOK, Table, Descriptors, NEW c \in Ids, MainServe(c),
           running, UNCHANGED running
    PROVE  Descriptors'
<1> DEFINE fd == Served(c)
<1>1. fd \in Fds /\ (socks[c].sockfd = NoFd => fd \notin open)
  BY ServedIsFd DEF Descriptors
<1>2. socks' = [socks EXCEPT ![c].sockfd = fd]
  BY DEF MainServe, Served
<1>3. /\ socks'[c].sockfd = fd
      /\ \A i \in Ids \ {c} : socks'[i] = socks[i]
      /\ \A i \in Ids : /\ socks'[i].is_bound = socks[i].is_bound
                        /\ socks'[i].src = socks[i].src
                        /\ socks'[i].sent = socks[i].sent
                        /\ socks[i].sockfd \in Fds \cup {NoFd}
  BY <1>1, <1>2 DEF TypeOK, Socket
<1>4. /\ open' = open \cup {fd} /\ robbed' = robbed
      /\ name' = IF ToBind(socks[c]) THEN Named(fd, socks[c].src) ELSE name
  BY DEF MainServe, Served
<1>5. /\ open = {socks[i].sockfd : i \in Ids} \ {NoFd}
      /\ \A i, j \in Ids :
            i # j /\ socks[i].sockfd # NoFd => socks[i].sockfd # socks[j].sockfd
  BY DEF Descriptors, DescriptorsAccounted
<1>6. fd # NoFd /\ (socks[c].sockfd # NoFd => fd = socks[c].sockfd)
  BY <1>1 DEF Served, Fds, NoFd
<1>7. \A i \in Ids \ {c} : socks[i].sockfd # fd
  BY <1>1, <1>5, <1>6
<1>8. DescriptorsAccounted'
  <2>1. open' = {socks'[i].sockfd : i \in Ids} \ {NoFd}
    BY <1>3, <1>4, <1>5, <1>6
  <2>2. \A i, j \in Ids : i # j /\ socks'[i].sockfd # NoFd =>
            socks'[i].sockfd # socks'[j].sockfd
    BY <1>3, <1>5, <1>7
  <2> QED
    BY <2>1, <2>2 DEF DescriptorsAccounted
<1>9. /\ \A f \in Fds \ {fd} : name'[f] = name[f]
      /\ \/ name'[fd] = name[fd]
         \/ /\ name[fd] = NoAddr /\ socks[c].is_bound
            /\ name'[fd] = socks[c].src
  BY <1>1, <1>4 DEF TypeOK, ToBind, Named
<1>10. NamesAreOpen'
  BY <1>4, <1>9 DEF Descriptors, NamesAreOpen
<1>11. BoundToSource'
  <2>1. ASSUME ~robbed, NEW i \in Ids, socks'[i].sockfd # NoFd,
               name'[socks'[i].sockfd] # NoAddr
        PROVE  (socks[i].is_bound /\ NamedFor(socks[i], socks[i].sockfd))'
    <3>1. CASE i # c
      <4>1. /\ socks'[i] = socks[i] /\ socks[i].sockfd \in Fds \ {fd}
            /\ name'[socks[i].sockfd] = name[socks[i].sockfd]
        BY <1>3, <1>7, <1>9, <2>1, <3>1
      <4> QED
        BY <2>1, <4>1, <1>4 DEF Descriptors, BoundToSource, NamedFor
    <3>2. CASE i = c /\ name'[fd] = name[fd]
      <4>1. socks[c].sockfd # NoFd
        BY <1>1, <1>3, <2>1, <3>2 DEF Descriptors, NamesAreOpen
      <4> QED
        BY <1>3, <1>6, <2>1, <3>2, <4>1 DEF Descriptors, BoundToSource, NamedFor
    <3>3. CASE i = c /\ name'[fd] # name[fd]
      BY <1>3, <1>9, <3>3 DEF NamedFor
    <3> QED
      BY <3>1, <3>2, <3>3
  <2> QED
    BY <1>4, <2>1 DEF BoundToSource
<1> QED
  BY <1>8, <1>10, <1>11 DEF Descriptors

(* The kernel names a descriptor that S sends from: its socket is bound.   *)
LEMMA DescriptorsSVisit ==
    ASSUME TypeOK, SentIsBound, Descriptors, SVisit
    PROVE  Descriptors'
<1>1. PICK c \in Ids :
         /\ socks[c].sent /\ socks[c].sockfd # NoFd
         /\ name' = [name EXCEPT ![socks[c].sockfd] = Ephemeral]
  BY DEF SVisit
<1>2. UNCHANGED <<socks, open, running, robbed>> /\ running
  BY DEF SVisit
<1>3. /\ socks[c].sockfd \in Fds
      /\ \A i \in Ids : socks[i].sockfd \in Fds \cup {NoFd}
  BY <1>1 DEF TypeOK, Socket
<1>4. /\ name'[socks[c].sockfd] = Ephemeral
      /\ \A fd \in Fds \ {socks[c].sockfd} : name'[fd] = name[fd]
  BY <1>1, <1>3 DEF TypeOK
<1>5. DescriptorsAccounted'
  BY <1>2 DEF Descriptors, DescriptorsAccounted
<1>6. socks[c].sockfd \in open
  BY <1>1, <1>2 DEF Descriptors, DescriptorsAccounted
<1>7. NamesAreOpen'
  BY <1>2, <1>4, <1>6 DEF Descriptors, NamesAreOpen
<1>8. BoundToSource'
  <2>1. ASSUME ~robbed, NEW i \in Ids, socks[i].sockfd # NoFd,
               name'[socks[i].sockfd] # NoAddr
        PROVE  socks[i].is_bound /\ NamedFor(socks[i], socks[i].sockfd)'
    <3>1. CASE i = c
      BY <1>1, <1>2, <1>4, <2>1, <3>1 DEF SentIsBound, NamedFor
    <3>2. CASE i # c
      <4>1. socks[i].sockfd \in Fds \ {socks[c].sockfd}
        BY <1>1, <1>2, <1>3, <2>1, <3>2 DEF Descriptors, DescriptorsAccounted
      <4>2. name'[socks[i].sockfd] = name[socks[i].sockfd]
        BY <1>4, <4>1
      <4> QED
        BY <1>2, <2>1, <4>2 DEF Descriptors, BoundToSource, NamedFor
    <3> QED
      BY <3>1, <3>2
  <2> QED
    BY <1>2, <2>1 DEF BoundToSource
<1> QED
  BY <1>5, <1>7, <1>8 DEF Descriptors

(* Every step keeps the descriptors accounted for.                         *)
LEMMA DescriptorsStep ==
    ASSUME TypeOK, TypeOK', Table, SentIsBound, Descriptors, [Next]_vars
    PROVE  Descriptors'
<1>1. ASSUME NEW p \in Pids, App(p) PROVE Descriptors'
  <2>1. UNCHANGED <<open, name, running>>
    BY <1>1 DEF App, KSocketTry, KBindWrite, KBindScan, KBindEnd, KSendTo,
                KClose, Exit, kernel
  <2> QED
    BY <1>1, <2>1, NamedAppStep, DescriptorsKept DEF Descriptors
<1>2. ASSUME UNCHANGED <<open, name, running, robbed>>,
             \A i \in Ids : /\ socks'[i].sockfd = socks[i].sockfd
                            /\ socks'[i].is_bound = socks[i].is_bound
                            /\ socks'[i].src = socks[i].src
                            /\ socks'[i].sent = socks[i].sent
      PROVE  Descriptors'
  <2>1. BoundToSource'
    BY <1>2 DEF Descriptors, BoundToSource, NamedFor
  <2> QED
    BY <1>2, <2>1, DescriptorsKept
<1>3. CASE MainVisit
  <2>1. running /\ UNCHANGED running /\ main \in Ids
    BY <1>3 DEF MainVisit, TypeOK
  <2>2. CASE UNCHANGED <<socks, kernel, robbed>>
    BY <1>2, <2>1, <2>2 DEF kernel
  <2>3. CASE MainClear(main)
    BY <2>1, <2>3, DescriptorsMainClear
  <2>4. CASE MainServe(main)
    BY <2>1, <2>4, DescriptorsMainServe
  <2> QED
    BY <1>3, <2>2, <2>3, <2>4 DEF MainVisit
<1>4. CASE GStep
  <2>1. \/ socks' = socks
        \/ socks' = [socks EXCEPT ![g.i].is_terminated = TRUE]
    BY <1>4 DEF GStep
  <2>2. \A i \in Ids : /\ socks'[i].sockfd = socks[i].sockfd
                       /\ socks'[i].is_bound = socks[i].is_bound
                       /\ socks'[i].src = socks[i].src
                       /\ socks'[i].sent = socks[i].sent
    BY <2>1 DEF TypeOK, Socket
  <2> QED
    BY <1>2, <1>4, <2>2 DEF GStep, kernel
<1>5. CASE RStep
  <2>1. UNCHANGED <<socks, robbed>>
    BY <1>5 DEF RStep
  <2>2. CASE UNCHANGED <<open, name, running>>
    BY <1>2, <2>1, <2>2
  <2>3. CASE ~running' /\ open' = {} /\ name' = [fd \in Fds |-> NoAddr]
    <3>1. DescriptorsAccounted' /\ NamesAreOpen'
      BY <2>3 DEF DescriptorsAccounted, NamesAreOpen
    <3>2. BoundToSource'
      BY <2>1, <2>3 DEF BoundToSource, TypeOK, Socket
    <3> QED
      BY <3>1, <3>2 DEF Descriptors
  <2> QED
    BY <1>5, <2>2, <2>3 DEF RStep, RBuild, RSelect, RWake, RVisit
<1>6. CASE Arrive
  BY <1>2, <1>6 DEF Arrive
<1>7. CASE SVisit
  BY <1>7, DescriptorsSVisit
<1>8. CASE UNCHANGED vars
  BY <1>2, <1>8 DEF vars, kernel
<1> QED
  BY <1>1, <1>3, <1>4, <1>5, <1>6, <1>7, <1>8 DEF Next

-----------------------------------------------------------------------------
(* The initial states and the theorems.                                    *)

LEMMA InitInv == Init => Inv
<1> SUFFICES ASSUME Init PROVE Inv
  OBVIOUS
<1>1. 0 \in Ids
  BY SocketsAssumption DEF Ids
<1>2. \A i \in Ids : socks[i] = [is_allocated |-> FALSE, is_terminated |-> FALSE,
                                pid |-> NoPid, sockfd |-> NoFd, is_bound |-> FALSE,
                                src |-> NoAddr, dst |-> NoAddr, sent |-> FALSE]
  BY DEF Init
<1>3. TypeOK
  <2>1. socks \in [Ids -> Socket]
    BY DEF Init, Socket
  <2>2. procs \in [Pids -> [at : Places, sock : Ids \cup {NoSock}, i : Ids]]
    BY <1>1 DEF Init, Places
  <2> QED
    BY <1>1, <2>1, <2>2 DEF Init, TypeOK
<1>4. \A p \in Pids : procs[p].at \notin Having
  BY DEF Init, Having
<1>5. Table
  BY <1>2, <1>4 DEF Table, HasSocket, FreeIsClear, OwnedByOne, UnboundYet,
                    PassedDiffer, Passed, Having, Binding
<1>6. Descriptors
  <2>1. DescriptorsAccounted
    BY <1>1, <1>2 DEF Init, DescriptorsAccounted
  <2>2. NamesAreOpen /\ BoundToSource
    BY <1>2 DEF Init, NamesAreOpen, BoundToSource
  <2> QED
    BY <2>1, <2>2 DEF Descriptors
<1>7. SentIsBound
  BY <1>2, <1>4 DEF SentIsBound, Having
<1> QED
  BY <1>3, <1>5, <1>6, <1>7 DEF Inv

LEMMA Invariance == Spec => []Inv
<1>1. Inv /\ [Next]_vars => Inv'
  <2> SUFFICES ASSUME Inv, [Next]_vars PROVE Inv'
    OBVIOUS
  <2>1. (TypeOK /\ HasSocket)'
    BY TypeStep DEF Inv, Table, Descriptors
  <2>2. Table'
    BY <2>1, TableStep DEF Inv, Descriptors
  <2>3. SentIsBound'
    BY SentStep DEF Inv
  <2>4. Descriptors'
    BY <2>1, DescriptorsStep DEF Inv
  <2> QED
    BY <2>1, <2>2, <2>3, <2>4 DEF Inv
<1> QED
  BY InitInv, <1>1, PTL DEF Spec

(* The table, the processes, the threads and the kernel's descriptors keep *)
(* their types; main always finds a descriptor that is free.               *)
THEOREM TypeCorrect == Spec => []TypeOK
<1>1. Inv => TypeOK
  BY DEF Inv
<1> QED
  BY <1>1, Invariance, PTL

(* k_bind, whose scan holds one semaphore at a time, never lets two        *)
(* sockets be bound with an address in common.                             *)
THEOREM BindingIsUnique == Spec => []UniqueBinding
<1>1. Inv => UniqueBinding
  BY DEF Inv, Table, PassedDiffer, Passed, UniqueBinding
<1> QED
  BY <1>1, Invariance, PTL

(* The socket a process got from k_socket is its own until it closes it.   *)
THEOREM SocketOwned == Spec => []OwnedByOne
<1>1. Inv => OwnedByOne
  BY DEF Inv, Table
<1> QED
  BY <1>1, Invariance, PTL

(* initsocket leaks no descriptor and shares none between sockets.         *)
THEOREM NoDescriptorLeaks == Spec => []DescriptorsAccounted
<1>1. Inv => DescriptorsAccounted
  BY DEF Inv, Descriptors
<1> QED
  BY <1>1, Invariance, PTL

(* A descriptor that has a name belongs to a bound socket, and its name is *)
(* the source of that socket, never one of an earlier attempt or owner, or *)
(* the kernel's choice at S's first sendto().                              *)
THEOREM DescriptorBoundToSource == Spec => []BoundToSource
<1>1. Inv => BoundToSource
  BY DEF Inv, Descriptors
<1> QED
  BY <1>1, Invariance, PTL

=============================================================================
