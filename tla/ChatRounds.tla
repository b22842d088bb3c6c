------------------------------ MODULE ChatRounds ------------------------------
(***************************************************************************)
(* The game of LT1: chatserver.c, one process that loops around select(),  *)
(* collects one number of every client and sends everybody the largest,    *)
(* and its clients (chatclient.c).                                         *)
(*                                                                         *)
(* Clients are named by their place in clientsockfd, in the order in which *)
(* they connect.  Numbers are counted from INT_MIN, which stands for every *)
(* number that is not above the server's -1e9.  The model is for at most   *)
(* 250 clients: the server's memset(..., MAXSIZE) clears MAXSIZE bytes of  *)
(* its arrays of ints, and what is behind them is never initialised.       *)
(***************************************************************************)
EXTENDS Integers, Sequences, FiniteSetsExt

CONSTANTS
    MaxClients,      \* bound: clients that ever connect
    MaxNumber,       \* the largest number
    MaxPending,      \* bound: numbers of one client under way
    Aborters         \* bound: the clients that may leave with data unread

ASSUME ChatAssumption ==
    /\ MaxClients \in 2..250
    /\ MaxNumber \in Nat /\ MaxPending \in Nat \ {0}
    /\ Aborters \subseteq 1..MaxClients

Clients == 1..MaxClients
INT_MIN == 0
Numbers == INT_MIN..MaxNumber
NoNumber == -1
NoClient == 0

VARIABLES
    pc,              \* server: "select", "serve", "sleep", "exit" or "killed"
    pos,             \* server: the client whose turn it is
    ready,           \* server: what select() left in readfds
    numclient, entries, blacklist, entrycnt, maxclentry, maxclentryfd,
    cliaddr,         \* server: the client whose address it learned last
    conn,            \* clients: "none", "open" or "closed"
    inbox,           \* connections: numbers sent and not yet read
    reset,           \* connections: what a reset has done to each (see below)
    asked,           \* clients: told to send a number, and have not
    took,            \* history: the numbers taken in this round
    result,          \* history: number and winner sent last
    ignored,         \* history: clients whose number was dropped unanswered
    leavers          \* history: those found gone in the last pass

loopState == <<pc, pos, ready>>
roundState == <<entries, entrycnt, maxclentry, maxclentryfd>>
clientState == <<conn, inbox, asked>>
vars == <<loopState, numclient, cliaddr, roundState, blacklist, clientState,
          reset, took, result, ignored, leavers>>

(* "coming": the client has closed the connection and was sent something   *)
(* since, so a reset is on its way.  "error": it was closed with data the  *)
(* client had not read, by a reset; the next call on it reports that.      *)
(* "dead": closed by a reset, and nothing left to report.                  *)
Resets == {"no", "coming", "error", "dead"}
Nothing == [c \in Clients |-> FALSE]
NoneTaken == [c \in Clients |-> NoNumber]
NoResult == [number |-> NoNumber, winner |-> NoClient]

Init ==
    /\ pc = "select" /\ pos = 1 /\ ready = {}
    /\ numclient = 0 /\ entries = Nothing /\ blacklist = Nothing
    /\ entrycnt = 0 /\ maxclentry = INT_MIN /\ maxclentryfd = NoClient
    /\ cliaddr = NoClient
    /\ conn = [c \in Clients |-> "none"] /\ inbox = [c \in Clients |-> <<>>]
    /\ reset = [c \in Clients |-> "no"] /\ asked = Nothing
    /\ took = NoneTaken /\ result = NoResult
    /\ ignored = {} /\ leavers = {}

Players == 1..numclient
Up == pc \in {"select", "serve", "sleep"}

-----------------------------------------------------------------------------
(* The clients.                                                            *)
Connect(c) ==
    /\ Up /\ conn[c] = "none" /\ \A d \in 1..(c - 1) : conn[d] # "none"
    /\ conn' = [conn EXCEPT ![c] = "open"]
    /\ UNCHANGED <<loopState, numclient, cliaddr, roundState, blacklist, inbox,
                   reset, asked, took, result, ignored, leavers>>

(* A user types a number, asked or not.                                    *)
Send(c, n) ==
    /\ Up /\ conn[c] = "open" /\ Len(inbox[c]) < MaxPending
    /\ inbox' = [inbox EXCEPT ![c] = Append(@, n)]
    /\ asked' = [asked EXCEPT ![c] = FALSE]
    /\ ignored' = ignored \ {c}
    /\ UNCHANGED <<loopState, numclient, cliaddr, roundState, blacklist, conn,
                   reset, took, result, leavers>>

(* It leaves; what the server has sent it is read by then, or not.         *)
Leave(c) ==
    /\ Up /\ conn[c] = "open"
    /\ conn' = [conn EXCEPT ![c] = "closed"]
    /\ \/ reset' = reset
       \/ c \in Players \cap Aborters /\ reset' = [reset EXCEPT ![c] = "error"]
    /\ asked' = [asked EXCEPT ![c] = FALSE] /\ ignored' = ignored \ {c}
    /\ UNCHANGED <<loopState, numclient, cliaddr, roundState, blacklist, inbox,
                   took, result, leavers>>

ResetArrives(c) ==
    /\ Up /\ reset[c] = "coming"
    /\ reset' = [reset EXCEPT ![c] = "dead"]
    /\ UNCHANGED <<loopState, numclient, cliaddr, roundState, blacklist,
                   clientState, took, result, ignored, leavers>>

-----------------------------------------------------------------------------
(* The server.                                                             *)
Readable == {c \in Players : ~blacklist[c]
                                 /\ (inbox[c] # <<>> \/ conn[c] = "closed")}
Backlog == {c \in Clients \ Players : conn[c] # "none"}

(* The next client the loop does anything for, or one behind the last.     *)
Turn(from, n, fds) ==
    Min({c \in from..n : blacklist[c] \/ c \in fds} \cup {n + 1})

(* send() to the clients S: it asks a client that is gone for a reset,     *)
(* reports a reset, and after that raises SIGPIPE.                         *)
Survives(S) == \A c \in S : reset[c] # "dead"
ResetBy(S) ==
    [c \in Clients |->
        CASE c \in S /\ reset[c] = "no" /\ conn[c] = "closed" -> "coming"
          [] c \in S /\ reset[c] = "error" -> "dead"
          [] OTHER -> reset[c]]

(* A connection closed by a reset has no peer: getpeername fails.          *)
NoPeer(c) == reset[c] \in {"error", "dead"}

(* select(), and accept() if somebody connected.                           *)
Select ==
    /\ pc = "select" /\ Readable \cup Backlog # {}
    /\ ready' = Readable
    /\ IF Backlog # {}
       THEN LET c == numclient + 1
            IN  /\ numclient' = c /\ cliaddr' = c
                /\ asked' = [asked EXCEPT ![c] = conn[c] = "open"]
                /\ reset' = ResetBy({c})
       ELSE UNCHANGED <<numclient, cliaddr, asked, reset>>
    /\ leavers' = {}
    /\ pc' = "serve" /\ pos' = Turn(1, numclient', ready')
    /\ UNCHANGED <<roundState, blacklist, conn, inbox, took, result, ignored>>

(* MUTANT: a client that is gone is counted again in every pass.           *)
CountGoneAgain(c) ==
    /\ blacklist[c]
    /\ entries' = [entries EXCEPT ![c] = TRUE] /\ entrycnt' = entrycnt + 1
    /\ UNCHANGED <<pc, cliaddr, maxclentry, maxclentryfd, blacklist, inbox,
                   reset, took, ignored, leavers>>

(* A client found gone earlier counts as one that sent a number.           *)
CountGone(c) ==
    /\ blacklist[c]
    /\ entries' = [entries EXCEPT ![c] = TRUE]
    /\ entrycnt' = IF entries[c] THEN entrycnt ELSE entrycnt + 1
    /\ UNCHANGED <<pc, cliaddr, maxclentry, maxclentryfd, blacklist, inbox,
                   reset, took, ignored, leavers>>

(* MUTANT: a client found gone is counted at once, and again later.        *)
FindGoneCounts(c) ==
    /\ ~blacklist[c] /\ c \in ready /\ inbox[c] = <<>> /\ reset[c] # "error"
    /\ blacklist' = [blacklist EXCEPT ![c] = TRUE]
    /\ entrycnt' = entrycnt + 1
    /\ leavers' = leavers \cup {c}
    /\ UNCHANGED <<pc, cliaddr, entries, maxclentry, maxclentryfd, inbox, reset,
                   took, ignored>>

(* recv returns 0: the client is left out from now on.                     *)
FindGone(c) ==
    /\ ~blacklist[c] /\ c \in ready /\ inbox[c] = <<>> /\ reset[c] # "error"
    /\ blacklist' = [blacklist EXCEPT ![c] = TRUE]
    /\ leavers' = leavers \cup {c}
    /\ UNCHANGED <<pc, cliaddr, roundState, inbox, reset, took, ignored>>

(* recv takes what is there, or reports the reset; getpeername fails, and  *)
(* the loop goes on.                                                       *)
Unnamed(c) ==
    /\ ~blacklist[c] /\ c \in ready /\ NoPeer(c)
    /\ \/ inbox[c] # <<>> /\ reset' = reset
       \/ inbox[c] = <<>> /\ reset[c] = "error"
              /\ reset' = [reset EXCEPT ![c] = "dead"]
    /\ inbox' = [inbox EXCEPT ![c] = <<>>]
    /\ UNCHANGED <<pc, cliaddr, roundState, blacklist, took, ignored, leavers>>

(* recv takes all that is there; what follows the first number is unseen.  *)
Receive(c) ==
    LET n == Head(inbox[c])
    IN  /\ ~blacklist[c] /\ c \in ready /\ inbox[c] # <<>> /\ ~NoPeer(c)
        /\ inbox' = [inbox EXCEPT ![c] = <<>>] /\ cliaddr' = c
        /\ \/ /\ numclient < 2
              /\ ignored' = ignored \cup {c}
              /\ UNCHANGED <<pc, roundState, reset, took>>
           \/ /\ numclient >= 2 /\ entries[c]
              /\ reset' = ResetBy({c})
              /\ UNCHANGED <<pc, roundState, took, ignored>>
           \/ /\ numclient >= 2 /\ ~entries[c]
              /\ entries' = [entries EXCEPT ![c] = TRUE]
              /\ entrycnt' = entrycnt + 1
              /\ took' = [took EXCEPT ![c] = n]
              /\ IF n > maxclentry
                 THEN maxclentry' = n /\ maxclentryfd' = c
                 ELSE UNCHANGED <<maxclentry, maxclentryfd>>
              /\ UNCHANGED <<pc, reset, ignored>>
        /\ UNCHANGED <<blacklist, leavers>>

Serve ==
    /\ pc = "serve" /\ pos \in Players
    /\ CountGone(pos) \/ FindGone(pos) \/ Unnamed(pos) \/ Receive(pos)
    /\ pos' = Turn(pos + 1, numclient, ready)
    /\ UNCHANGED <<ready, numclient, conn, asked, result>>

(* MUTANT: the entries of the last round are kept.                         *)
ClearNone == entries

Cleared == Nothing
Here == {c \in Players : ~blacklist[c]}

(* The end of a pass, and of the round if every entry has been counted.    *)
EndPass ==
    /\ pc = "serve" /\ pos = numclient + 1
    /\ entrycnt # numclient \/ numclient < 2
    /\ pc' = "select" /\ pos' = 1 /\ ready' = {}
    /\ UNCHANGED <<numclient, cliaddr, roundState, blacklist, clientState, reset,
                   took, result, ignored, leavers>>

GiveUp ==
    /\ pc = "serve" /\ pos = numclient + 1
    /\ entrycnt = numclient /\ numclient >= 2 /\ maxclentryfd = NoClient
    /\ pc' = "exit"
    /\ UNCHANGED <<pos, ready, numclient, cliaddr, roundState, blacklist,
                   clientState, reset, took, result, ignored, leavers>>

(* The result names the client whose address the server learned last,      *)
(* which is the winner's if that still has a peer.                         *)
EndRound ==
    /\ pc = "serve" /\ pos = numclient + 1
    /\ entrycnt = numclient /\ numclient >= 2 /\ maxclentryfd # NoClient
    /\ IF Survives(Here) THEN pc' = "sleep" /\ reset' = ResetBy(Here)
       ELSE pc' = "killed" /\ reset' = reset
    /\ cliaddr' = IF NoPeer(maxclentryfd) THEN cliaddr ELSE maxclentryfd
    /\ result' = [number |-> maxclentry, winner |-> cliaddr']
    /\ entrycnt' = 0 /\ entries' = Cleared
    /\ maxclentry' = INT_MIN /\ maxclentryfd' = NoClient
    /\ UNCHANGED <<pos, ready, numclient, blacklist, clientState, took, ignored,
                   leavers>>

(* After a second's sleep: everybody is asked for the next number.         *)
Prompt ==
    /\ pc = "sleep"
    /\ IF Survives(Here) THEN pc' = "select" /\ reset' = ResetBy(Here)
       ELSE pc' = "killed" /\ reset' = reset
    /\ asked' = [c \in Clients |-> asked[c] \/ (c \in Here /\ conn[c] = "open")]
    /\ took' = NoneTaken /\ result' = NoResult
    /\ pos' = 1 /\ ready' = {}
    /\ UNCHANGED <<numclient, cliaddr, roundState, blacklist, conn, inbox, ignored,
                   leavers>>

Server == Select \/ Serve \/ EndPass \/ GiveUp \/ EndRound \/ Prompt

Next ==
    \/ Server
    \/ \E c \in Clients :
           \/ Connect(c) \/ Leave(c) \/ ResetArrives(c)
           \/ \E n \in Numbers : Send(c, n)

Spec == Init /\ [][Next]_vars

(* The server runs; a user who is asked for a number sends one, unless he  *)
(* leaves.                                                                 *)
Fairness ==
    /\ WF_vars(Server)
    /\ \A c \in Clients : WF_vars(asked[c] /\ \E n \in Numbers : Send(c, n))

FairSpec == Spec /\ Fairness

-----------------------------------------------------------------------------
(* Types; in particular no more entries are counted than there are players.*)
TypeOK ==
    /\ pc \in {"select", "serve", "sleep", "exit", "killed"}
    /\ numclient \in 0..MaxClients
    /\ pos \in 1..(MaxClients + 1) /\ ready \subseteq Players
    /\ entries \in [Clients -> BOOLEAN] /\ blacklist \in [Clients -> BOOLEAN]
    /\ entrycnt \in 0..numclient
    /\ maxclentry \in Numbers /\ maxclentryfd \in Players \cup {NoClient}
    /\ conn \in [Clients -> {"none", "open", "closed"}]
    /\ inbox \in [Clients -> Seq(Numbers)]
    /\ cliaddr \in Players \cup {NoClient}
    /\ reset \in [Clients -> Resets] /\ asked \in [Clients -> BOOLEAN]
    /\ took \in [Clients -> Numbers \cup {NoNumber}]
    /\ result \in [number : Numbers \cup {NoNumber},
                   winner : Players \cup {NoClient}]
    /\ ignored \subseteq Players /\ leavers \subseteq Players

(* A round ends only when every player who has not been found gone has had *)
(* a number taken in it, and the result is the largest of all the numbers  *)
(* taken, with the client that sent it; or another's address, if that      *)
(* one's connection has been reset.  The server gives up only when nobody  *)
(* sent a number it can tell from none.                                    *)
RoundIsFair ==
    /\ pc = "sleep" =>
           /\ \A c \in Players : ~blacklist[c] => took[c] # NoNumber
           /\ \A c \in Players : took[c] <= result.number
           /\ \/ took[result.winner] = result.number
              \/ \E c \in Players : took[c] = result.number /\ NoPeer(c)
    /\ pc = "exit" =>
           \A c \in Players : took[c] = INT_MIN \/ (blacklist[c] /\ took[c] = NoNumber)

(* In the pass before, the last one, the server found a client gone, whom  *)
(* it counts in the next pass only; or a client does not know that its     *)
(* number was dropped when it was alone.                                   *)
Stalled == leavers # {} \/ ignored # {}

(* As long as there are two players or more, and one is left to send       *)
(* numbers, round follows round; unless the server has died or stalls.     *)
RoundsGoOn ==
    \/ []<>(pc = "sleep")
    \/ <>[](~Up \/ numclient < 2 \/ Stalled
                \/ \A c \in Players : conn[c] = "closed")
=============================================================================
