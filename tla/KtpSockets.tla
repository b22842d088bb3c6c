------------------------------ MODULE KtpSockets ------------------------------
(***************************************************************************)
(* The life of a KTP socket: the table of sockets in shared memory, the    *)
(* processes that call k_socket, k_bind and k_close on it (A4/ksocket.c),  *)
(* and the threads of initsocket that serve it (A4/initsocket.c): main,    *)
(* which opens, binds and clears sockets, S, which sends, G, which         *)
(* terminates the sockets of dead processes, and R, which waits for        *)
(* packets with select().                                                  *)
(*                                                                         *)
(* A step is what a thread does between taking and releasing one socket's  *)
(* semaphore; G takes none, and its three reads and writes of a socket are *)
(* three steps.  Where the transfer of messages is concerned, see          *)
(* KtpTransfer: here a packet is only the reason for which R reads.        *)
(***************************************************************************)
EXTENDS Integers, FiniteSets

CONSTANTS
    MaxSockets,    \* MAX_SOCKETS : entries of the socket table
    Pids,          \* the processes that use the library
    Foreign,       \* those that initsocket may not signal (another user's)
    Addrs          \* pairs of an IP address and a port, used with k_bind

ASSUME SocketsAssumption ==
    /\ MaxSockets \in Nat \ {0}
    /\ Foreign \subseteq Pids
    /\ Addrs # {}

Ids  == 0..(MaxSockets - 1)      \* ktp_sockid
Fds  == 1..MaxSockets            \* descriptors of initsocket's UDP sockets
NoFd == -1
NoSock == -1
NoPid  == "pid 0"                \* the values clear_socket leaves
NoAddr == "0.0.0.0:0"

(* External: any port the kernel picks itself; the applications bind no    *)
(* port of that range.                                                     *)
Ephemeral == "0.0.0.0:ephemeral"

ASSUME NullsAssumption ==
    NoPid \notin Pids /\ NoAddr \notin Addrs /\ Ephemeral \notin Addrs

VARIABLES
    socks,         \* the table: one ktp_socket_info for each id
    procs,         \* where each process is: [at, sock, i]
    main,          \* the socket main visits next
    g,             \* where G is: [at, i]
    r,             \* where R is: [at, i, fds]
    open,          \* kernel: the descriptors that are open
    name,          \* kernel: the address each descriptor is bound to
    ready,         \* kernel: the descriptors with a packet to read
    running,       \* initsocket has not exited
    robbed         \* history: a socket was cleared under a live owner

kernel == <<open, name, ready>>
vars == <<socks, procs, main, g, r, kernel, running, robbed>>

-----------------------------------------------------------------------------
Socket == [is_allocated : BOOLEAN, is_terminated : BOOLEAN,
           pid : Pids \cup {NoPid}, sockfd : Fds \cup {NoFd},
           is_bound : BOOLEAN,
           src : Addrs \cup {NoAddr},      \* s_ip, s_port
           dst : Addrs \cup {NoAddr},      \* ip, port
           sent : BOOLEAN]                 \* send_buf has held a message

(* A process is not started, inside one of the calls, or between calls.    *)
Places == {"start", "socket", "unbound", "scan", "dup", "nodup", "bound",
           "closed", "dead"}

(* MUTANT: the loop over the sockets does not end.                         *)
NextIdUnwrapped(i) == i + 1
NextId(i) == (i + 1) % MaxSockets

(* R may be stuck in recvfrom() while it holds the semaphore of socket i.  *)
Locked(i) == r.at = "blocked" /\ r.i = i

(* clear_socket: everything but is_bound, which main resets beside it.     *)
ClearSocket(k) ==
    [k EXCEPT !.is_allocated = FALSE, !.is_terminated = FALSE, !.pid = NoPid,
              !.sockfd = NoFd, !.src = NoAddr, !.dst = NoAddr, !.sent = FALSE]

Init ==
    /\ socks = [i \in Ids |->
                  [is_allocated |-> FALSE, is_terminated |-> FALSE,
                   pid |-> NoPid, sockfd |-> NoFd, is_bound |-> FALSE,
                   src |-> NoAddr, dst |-> NoAddr, sent |-> FALSE]]
    /\ procs = [p \in Pids |-> [at |-> "start", sock |-> NoSock, i |-> 0]]
    /\ main = 0
    /\ g = [at |-> "look", i |-> 0]
    /\ r = [at |-> "build", i |-> 0, fds |-> {}]
    /\ open = {}
    /\ name = [fd \in Fds |-> NoAddr]
    /\ ready = {}
    /\ running = TRUE
    /\ robbed = FALSE

-----------------------------------------------------------------------------
(* The library, called by process p.                                       *)

(* MUTANT: is_allocated is set and not looked at.                          *)
TakeAny(k) == TRUE
IsFree(k) == ~k.is_allocated

(* k_socket: takes the first free socket, looking at one after the other.  *)
KSocketTry(p) ==
    LET i == procs[p].i IN
    /\ procs[p].at \in {"start", "socket"}
    /\ ~Locked(i)
    /\ IF IsFree(socks[i])
       THEN /\ socks' = [socks EXCEPT ![i].is_allocated = TRUE, ![i].pid = p]
            /\ procs' = [procs EXCEPT ![p] = [at |-> "unbound", sock |-> i, i |-> 0]]
       ELSE /\ procs' = [procs EXCEPT ![p] =
                 IF i + 1 < MaxSockets
                 THEN [at |-> "socket", sock |-> NoSock, i |-> i + 1]
                 ELSE [at |-> "dead", sock |-> NoSock, i |-> 0]]     \* ENOSPACE
            /\ UNCHANGED socks
    /\ UNCHANGED <<main, g, r, kernel, running, robbed>>

(* k_bind, first part: the addresses are written into the socket.  The     *)
(* processes bind a socket again after EADDRINUSE, not once it is bound.   *)
KBindWrite(p, src, dst) ==
    LET i == procs[p].sock IN
    /\ procs[p].at = "unbound"
    /\ ~Locked(i)
    /\ socks[i].is_allocated
    /\ socks' = [socks EXCEPT ![i].dst = dst, ![i].src = src]
    /\ procs' = [procs EXCEPT ![p].at = "scan", ![p].i = 0]
    /\ UNCHANGED <<main, g, r, kernel, running, robbed>>

(* Does socket j use an address of socket i?  MUTANT: only the source is   *)
(* compared.                                                               *)
ClashesBySource(i, j) ==
    socks[j].is_allocated /\ j # i /\ socks[j].src = socks[i].src
Clashes(i, j) ==
    /\ socks[j].is_allocated /\ j # i
    /\ socks[j].src = socks[i].src \/ socks[j].dst = socks[i].dst

(* k_bind, second part: one socket after the other is compared with it.    *)
KBindScan(p) ==
    LET i == procs[p].sock
        j == procs[p].i
    IN
    /\ procs[p].at = "scan"
    /\ ~Locked(j)
    /\ procs' = [procs EXCEPT ![p] =
          CASE Clashes(i, j)      -> [@ EXCEPT !.at = "dup", !.i = 0]
            [] ~Clashes(i, j) /\ j + 1 < MaxSockets -> [@ EXCEPT !.i = j + 1]
            [] OTHER              -> [@ EXCEPT !.at = "nodup", !.i = 0]]
    /\ UNCHANGED <<socks, main, g, r, kernel, running, robbed>>

(* k_bind, last part: a clash takes the addresses back.  On success k_bind *)
(* returns a variable it never set; a process that reads it as a failure   *)
(* closes the socket or exits, as after any other call.                    *)
KBindEnd(p) ==
    LET i == procs[p].sock IN
    /\ ~Locked(i)
    /\ \/ /\ procs[p].at = "dup"
          /\ socks' = [socks EXCEPT ![i].dst = NoAddr, ![i].src = NoAddr]
          /\ procs' = [procs EXCEPT ![p].at = "unbound"]
       \/ /\ procs[p].at = "nodup"
          /\ socks' = [socks EXCEPT ![i].is_bound = TRUE]
          /\ procs' = [procs EXCEPT ![p].at = "bound"]
    /\ UNCHANGED <<main, g, r, kernel, running, robbed>>

(* k_sendto: a message is put into the send buffer, for thread S to send.  *)
(* It is not taken out of "sent" when it is acknowledged: no ACK comes to  *)
(* a descriptor without a name, and S changes nothing here once it has one.*)
KSendTo(p) ==
    LET i == procs[p].sock IN
    /\ procs[p].at = "bound"
    /\ ~Locked(i)
    /\ socks[i].is_allocated
    /\ socks' = [socks EXCEPT ![i].sent = TRUE]
    /\ UNCHANGED <<procs, main, g, r, kernel, running, robbed>>

(* k_close: the socket is marked, for main to clear.                       *)
KClose(p) ==
    LET i == procs[p].sock IN
    /\ procs[p].at \in {"unbound", "bound"}
    /\ ~Locked(i)
    /\ socks' = [socks EXCEPT ![i].is_terminated = TRUE]
    /\ procs' = [procs EXCEPT ![p] = [at |-> "closed", sock |-> NoSock, i |-> 0]]
    /\ UNCHANGED <<main, g, r, kernel, running, robbed>>

(* The process ends, after k_close or without it, between two steps.       *)
Exit(p) ==
    /\ procs[p].at \notin {"start", "dead"}
    /\ procs' = [procs EXCEPT ![p] = [at |-> "dead", sock |-> NoSock, i |-> 0]]
    /\ UNCHANGED <<socks, main, g, r, kernel, running, robbed>>

App(p) ==
    \/ KSocketTry(p)
    \/ \E src, dst \in Addrs : KBindWrite(p, src, dst)
    \/ KBindScan(p)
    \/ KBindEnd(p)
    \/ KSendTo(p)
    \/ KClose(p)
    \/ Exit(p)

-----------------------------------------------------------------------------
(* Thread main: visits the sockets in turn.                                *)

(* The owner has neither closed the socket nor died.                       *)
OwnerLives(k) == k.pid \in Pids /\ procs[k.pid].at \notin {"closed", "dead"}

(* MUTANT: the descriptor is not closed.                                   *)
MainClearLeaks(i) ==
    /\ socks[i].is_allocated
    /\ socks[i].is_terminated
    /\ socks' = [socks EXCEPT ![i] = [ClearSocket(@) EXCEPT !.is_bound = FALSE]]
    /\ robbed' = (robbed \/ OwnerLives(socks[i]))
    /\ UNCHANGED kernel

MainClear(i) ==
    LET fd == socks[i].sockfd IN
    /\ socks[i].is_allocated
    /\ socks[i].is_terminated
    /\ socks' = [socks EXCEPT ![i] = [ClearSocket(@) EXCEPT !.is_bound = FALSE]]
    /\ open' = open \ {fd}
    /\ name' = [f \in Fds |-> IF f = fd THEN NoAddr ELSE name[f]]
    /\ ready' = ready \ {fd}
    /\ robbed' = (robbed \/ OwnerLives(socks[i]))

(* External: socket() returns the lowest descriptor that is not open.      *)
LowestFree == CHOOSE fd \in Fds \ open : \A f \in Fds \ open : fd <= f

(* External: bind() fails on an address in use, and on a descriptor that   *)
(* has one.                                                                *)
Named(fd, src) ==
    IF name[fd] = NoAddr /\ \A f \in open : name[f] # src
    THEN [name EXCEPT ![fd] = src]
    ELSE name

(* MUTANT: main does not wait for the end of k_bind.                       *)
HasSource(k) == k.src # NoAddr
ToBind(k) == k.is_bound

MainServe(i) ==
    LET fd == IF socks[i].sockfd = NoFd THEN LowestFree ELSE socks[i].sockfd IN
    /\ socks[i].is_allocated
    /\ ~socks[i].is_terminated
    /\ socks' = [socks EXCEPT ![i].sockfd = fd]
    /\ open' = open \cup {fd}
    /\ name' = IF ToBind(socks[i]) THEN Named(fd, socks[i].src) ELSE name
    /\ UNCHANGED <<ready, robbed>>

MainVisit ==
    /\ running
    /\ ~Locked(main)
    /\ \/ ~socks[main].is_allocated /\ UNCHANGED <<socks, kernel, robbed>>
       \/ MainClear(main)
       \/ MainServe(main)
    /\ main' = NextId(main)
    /\ UNCHANGED <<procs, g, r, running>>

-----------------------------------------------------------------------------
(* Thread S: it sends what is in the send buffer whether or not main has   *)
(* bound the descriptor.  External: sendto() on a descriptor without a     *)
(* name gives it a port of the kernel's.  S's other visits change nothing  *)
(* here.                                                                   *)
SVisit ==
    /\ running
    /\ \E i \in Ids :
        /\ ~Locked(i)
        /\ socks[i].is_allocated /\ socks[i].sent
        /\ socks[i].sockfd # NoFd
        /\ name[socks[i].sockfd] = NoAddr
        /\ name' = [name EXCEPT ![socks[i].sockfd] = Ephemeral]
    /\ UNCHANGED <<socks, procs, main, g, r, open, ready, running, robbed>>

-----------------------------------------------------------------------------
(* Thread G: reads is_allocated, asks kill() about pid, and sets           *)
(* is_terminated, each without the semaphore.                              *)

(* External: kill() fails when there is no such process, or when it is one *)
(* that initsocket may not signal.  MUTANT: it never fails.                *)
KillSucceeds(pid) == FALSE
KillFails(pid) == pid \in Pids /\ (procs[pid].at = "dead" \/ pid \in Foreign)

GStep ==
    LET i    == g.i
        skip == [at |-> "look", i |-> NextId(i)]
    IN
    /\ running
    /\ \/ /\ g.at = "look"
          /\ g' = IF socks[i].is_allocated THEN [g EXCEPT !.at = "kill"] ELSE skip
          /\ UNCHANGED socks
       \/ /\ g.at = "kill"
          /\ g' = IF KillFails(socks[i].pid) THEN [g EXCEPT !.at = "mark"] ELSE skip
          /\ UNCHANGED socks
       \/ /\ g.at = "mark"
          /\ socks' = [socks EXCEPT ![i].is_terminated = TRUE]
          /\ g' = skip
    /\ UNCHANGED <<procs, main, r, kernel, running, robbed>>

-----------------------------------------------------------------------------
(* Thread R.                                                               *)

(* One socket is added to the descriptors to wait for.  FD_SET(-1) sets a  *)
(* bit beyond nfds, which select() clears.                                 *)
RBuild ==
    LET i == r.i IN
    /\ r.at = "build"
    /\ ~Locked(i)
    /\ r' = [at  |-> IF i + 1 < MaxSockets THEN "build" ELSE "select",
             i   |-> NextId(i),
             fds |-> IF socks[i].is_allocated
                     THEN r.fds \cup ({socks[i].sockfd} \ {NoFd})
                     ELSE r.fds]
    /\ UNCHANGED <<ready, running, open, name>>

(* select() fails on a descriptor that main closed meanwhile, and R then   *)
(* ends initsocket.                                                        *)
RSelect ==
    /\ r.at = "select"
    /\ IF r.fds \subseteq open
       THEN r' = [r EXCEPT !.at = "wait"] /\ UNCHANGED <<ready, running, open, name>>
       ELSE /\ running' = FALSE
            /\ open' = {} /\ ready' = {} /\ name' = [fd \in Fds |-> NoAddr]
            /\ UNCHANGED r

(* select() returns the descriptors that have a packet, none at the end of *)
(* RECIEVE_TIMEOUT.                                                        *)
RWake ==
    /\ r.at = "wait"
    /\ r' = [at |-> "visit", i |-> 0, fds |-> r.fds \cap ready]
    /\ UNCHANGED <<ready, running, open, name>>

(* Socket i of R's round is done.                                          *)
RNext == IF r.i + 1 < MaxSockets
         THEN [r EXCEPT !.at = "visit", !.i = @ + 1]
         ELSE [at |-> "build", i |-> 0, fds |-> {}]

(* Did select() name the descriptor that socket i has now?                 *)
IsSet(i) == socks[i].is_allocated /\ socks[i].sockfd \in r.fds

(* The visit to a socket: a packet is read if its descriptor is in the     *)
(* set.  If there is none after all, R waits for one in recvfrom(), and    *)
(* holds the semaphore meanwhile.                                          *)
RVisit ==
    /\ \/ /\ r.at = "visit"
          /\ ~IsSet(r.i)
          /\ r' = RNext
          /\ UNCHANGED ready
       \/ /\ r.at = "visit"
          /\ IsSet(r.i) /\ socks[r.i].sockfd \notin ready
          /\ r' = [r EXCEPT !.at = "blocked"]
          /\ UNCHANGED ready
       \/ /\ r.at \in {"visit", "blocked"}
          /\ IsSet(r.i) /\ socks[r.i].sockfd \in ready
          /\ r' = RNext
          /\ ready' = ready \ {socks[r.i].sockfd}
    /\ UNCHANGED <<running, open, name>>

RStep ==
    /\ running
    /\ RBuild \/ RSelect \/ RWake \/ RVisit
    /\ UNCHANGED <<socks, procs, main, g, robbed>>

(* External: a packet arrives at a descriptor that has an address.         *)
Arrive ==
    /\ \E fd \in open \ ready : name[fd] # NoAddr /\ ready' = ready \cup {fd}
    /\ UNCHANGED <<socks, procs, main, g, r, open, name, running, robbed>>

Next ==
    \/ \E p \in Pids : App(p)
    \/ MainVisit
    \/ SVisit
    \/ GStep
    \/ RStep
    \/ Arrive

Spec == Init /\ [][Next]_vars

(* The threads of initsocket are scheduled again and again.                *)
FairSpec == Spec /\ WF_vars(MainVisit) /\ WF_vars(GStep) /\ WF_vars(RStep)

-----------------------------------------------------------------------------
TypeOK ==
    /\ socks \in [Ids -> Socket]
    /\ procs \in [Pids -> [at : Places, sock : Ids \cup {NoSock}, i : Ids]]
    /\ main \in Ids
    /\ g \in [at : {"look", "kill", "mark"}, i : Ids]
    /\ r \in [at : {"build", "select", "wait", "visit", "blocked"}, i : Ids,
              fds : SUBSET Fds]
    /\ open \subseteq Fds /\ ready \subseteq open
    /\ name \in [Fds -> Addrs \cup {NoAddr, Ephemeral}]
    /\ running \in BOOLEAN /\ robbed \in BOOLEAN

(* However many processes bind at the same time, no two bound sockets have *)
(* the same source or the same destination (k_bind's scan, which holds the *)
(* semaphore of one socket at a time).                                     *)
UniqueBinding ==
    ~robbed => \A i, j \in Ids :
        /\ i # j
        /\ socks[i].is_allocated /\ socks[i].is_bound
        /\ socks[j].is_allocated /\ socks[j].is_bound
        => socks[i].src # socks[j].src /\ socks[i].dst # socks[j].dst

(* A process that got a socket from k_socket and has not closed it is the  *)
(* one the table names, so no other process has the same socket.           *)
OwnedByOne ==
    ~robbed => \A p \in Pids :
        procs[p].at \in {"unbound", "scan", "dup", "nodup", "bound"} =>
            /\ socks[procs[p].sock].is_allocated
            /\ socks[procs[p].sock].pid = p

(* initsocket's open descriptors are those of the table, one for each      *)
(* socket that has one: none is leaked, shared or used after close().      *)
DescriptorsAccounted ==
    running =>
        /\ open = {socks[i].sockfd : i \in Ids} \ {NoFd}
        /\ \A i, j \in Ids :
              i # j /\ socks[i].sockfd # NoFd => socks[i].sockfd # socks[j].sockfd

(* Is descriptor fd bound to k's source, or, because S was quicker than    *)
(* main, to a port of the kernel's?                                        *)
NamedFor(k, fd) == name[fd] = k.src \/ (name[fd] = Ephemeral /\ k.sent)

(* A descriptor that has a name belongs to a socket for which k_bind has   *)
(* succeeded, and has the socket's source of now, not that of an earlier   *)
(* attempt or an earlier owner; or else the name it got when S sent the    *)
(* socket's first message before main's bind().                            *)
BoundToSource ==
    ~robbed => \A i \in Ids :
        socks[i].sockfd # NoFd /\ name[socks[i].sockfd] # NoAddr =>
            socks[i].is_bound /\ NamedFor(socks[i], socks[i].sockfd)

Stuck == ~running \/ r.at = "blocked"
Holds(p) == \E i \in Ids : socks[i].is_allocated /\ socks[i].pid = p

(* The socket of a process that ended, closed or not, is made free again.  *)
DeadSocketsFreed ==
    \A p \in Pids : procs[p].at = "dead" /\ Holds(p) ~> ~Holds(p) \/ Stuck

-----------------------------------------------------------------------------
(* What the documentation says and the code does not keep.                 *)

(* documentation.txt: is_terminated is "Whether the port has been closed   *)
(* from the application end"; G is to set it for dead processes only.      *)
TerminatedIsClosed ==
    \A i \in Ids : socks[i].is_allocated /\ socks[i].is_terminated =>
        ~OwnerLives(socks[i])

(* documentation.txt: thread R "Should not return".                        *)
RDoesNotReturn == running

(* documentation.txt: k_sendto and k_recvfrom are "NON-BLOCKING".  They    *)
(* take the semaphore of a bound socket, so R may not keep it while it     *)
(* waits for the network.                                                  *)
CallsDoNotBlock ==
    \A p \in Pids : procs[p].at = "bound" => ~Locked(procs[p].sock)
=============================================================================
