------------------------------- MODULE TaskQueue -------------------------------
(***************************************************************************)
(* The task queue of A5: the server's main, which forks a handler for each *)
(* connection, the handlers (server.c), the queue they share under one     *)
(* semaphore, and the clients (client.c).                                  *)
(*                                                                         *)
(* A step of a handler ends where another process can see what it did: at  *)
(* each operation on the semaphore, and at each access to the shared queue.*)
(* Nothing is abstracted in the order of these accesses; a strcpy into the *)
(* queue is two steps, between which a reader finds part of each string.   *)
(***************************************************************************)
EXTENDS Integers, Sequences, FiniteSets

CONSTANTS
    Clients,       \* the clients; each connects once
    Scripted,      \* those that run client.c; the others send any command
    Slots,         \* MAX_TASKS : places of the ring
    TaskList,      \* the lines of config.txt
    NoTask,        \* the null pointer
    Garbled,       \* a string that is no task: that of an unused place, or
                   \* one of which only part has been written
    MaxCommands,   \* bound: commands a client that is not Scripted may send
    Signals        \* whether somebody sends a SIGTERM, SIGINT or SIGQUIT

Tasks == {TaskList[i] : i \in DOMAIN TaskList}

(* read_tasks fills at most Slots places and then sets back to their       *)
(* number; with all of them filled, back = Slots is no place of the ring,  *)
(* front never meets it, and the queue never looks empty.                  *)
ASSUME QueueAssumption ==
    /\ Scripted \subseteq Clients
    /\ Slots \in Nat \ {0}
    /\ TaskList \in Seq(Tasks) /\ Len(TaskList) < Slots
    /\ \A i, j \in DOMAIN TaskList : TaskList[i] = TaskList[j] => i = j
    /\ {NoTask, Garbled} \cap Tasks = {} /\ NoTask # Garbled
    /\ MaxCommands \in Nat /\ Signals \in BOOLEAN
    /\ {"free", "gone"} \cap Clients = {}

Places == 0..(Slots - 1)
NoSlot == -1
Texts  == Tasks \cup {NoTask, Garbled}
Commands == [cmd : {"GET_TASK", "RESULT", "CLOSE", "invalid"}, of : Texts]

VARIABLES
    front, q,      \* shared memory; back never changes once it is set
    sem,           \* the semaphore: "free", its holder, or "gone"
    serving,       \* main is in its accept loop
    pc,            \* where each client's handler is
    slot,          \* handler: the place get_task or push_front works on
    task,          \* handler: its current task
    expired,       \* handler: last_opt_time is MAX_WAIT_TIME in the past
    cli,           \* where each client is
    got,           \* client: the task it was sent last
    sent,          \* client: how many commands it sent (the others only)
    inbox,         \* the commands on their way to each handler
    replies,       \* the replies on their way to each client
    finished,      \* history: the tasks a result was accepted for
    harm           \* history: what has happened that the queue cannot survive

shared  == <<front, q, sem>>
handler == <<pc, slot, task, expired>>
client  == <<cli, got, sent>>
network == <<inbox, replies>>
history == <<finished, harm>>
vars == <<shared, serving, handler, client, network, history>>

-----------------------------------------------------------------------------
Inside  == {"load", "advance", "unlock", "retreat", "write", "written",
            "release"}              \* between P and V
Waiting == {"get", "push"}          \* at P
Alive   == Inside \cup Waiting \cup {"recv", "copy", "reply"}

(* read_tasks *)
ReadTasks == [i \in Places |-> IF i < Len(TaskList) THEN TaskList[i + 1]
                                                   ELSE Garbled]
Back == Len(TaskList)

Init ==
    /\ front = 0 /\ q = ReadTasks /\ sem = "free"
    /\ serving = TRUE
    /\ pc = [c \in Clients |-> "none"]
    /\ slot = [c \in Clients |-> NoSlot]
    /\ task = [c \in Clients |-> NoTask]
    /\ expired = [c \in Clients |-> FALSE]
    /\ cli = [c \in Clients |-> "new"]
    /\ got = [c \in Clients |-> NoTask]
    /\ sent = [c \in Clients |-> 0]
    /\ inbox = [c \in Clients |-> <<>>]
    /\ replies = [c \in Clients |-> <<>>]
    /\ finished = {} /\ harm = {}

Goto(c, from, to) == pc[c] = from /\ pc' = [pc EXCEPT ![c] = to]

-----------------------------------------------------------------------------
(* The semaphore and the queue.                                            *)

(* MUTANT: an interrupted semop is taken for a success.                    *)
PUnchecked(c) == sem' = IF sem = "gone" THEN "gone" ELSE c

(* Once the semaphore has been removed semop fails, which nobody checks.   *)
P(c) == sem \in {"free", "gone"} /\ sem' = IF sem = "gone" THEN "gone" ELSE c
V(c) == sem' = IF sem = "gone" THEN "gone" ELSE "free"

GetLock(c) ==
    /\ Goto(c, "get", "load")
    /\ P(c)
    /\ UNCHANGED <<front, q, serving, slot, task, expired, client, network,
                   history>>

(* The test for empty, and the pointer to the first place.                 *)
GetLoad(c) ==
    /\ pc[c] = "load"
    /\ IF front = Back
       THEN /\ pc' = [pc EXCEPT ![c] = "unlock"]
            /\ slot' = [slot EXCEPT ![c] = NoSlot]
       ELSE /\ pc' = [pc EXCEPT ![c] = "advance"]
            /\ slot' = [slot EXCEPT ![c] = front]
    /\ UNCHANGED <<shared, serving, task, expired, client, network, history>>

GetAdvance(c) ==
    /\ Goto(c, "advance", "unlock")
    /\ front' = (front + 1) % Slots
    /\ UNCHANGED <<q, sem, serving, slot, task, expired, client, network,
                   history>>

(* MUTANT: the early return for an empty queue forgets V.                  *)
GetUnlockForgets(c) ==
    /\ Goto(c, "unlock", IF slot[c] = NoSlot THEN "reply" ELSE "copy")
    /\ IF slot[c] = NoSlot THEN UNCHANGED sem ELSE V(c)
    /\ UNCHANGED <<front, q, serving, slot, task, expired, client, network,
                   history>>

GetUnlock(c) ==
    /\ Goto(c, "unlock", IF slot[c] = NoSlot THEN "reply" ELSE "copy")
    /\ V(c)
    /\ UNCHANGED <<front, q, serving, slot, task, expired, client, network,
                   history>>

(* strcpy(buf, task), after V.                                             *)
GetCopy(c) ==
    /\ Goto(c, "copy", "reply")
    /\ task' = [task EXCEPT ![c] = q[slot[c]]]
    /\ slot' = [slot EXCEPT ![c] = NoSlot]
    /\ UNCHANGED <<shared, serving, expired, client, network, history>>

PushLock(c) ==
    /\ Goto(c, "push", "retreat")
    /\ P(c)
    /\ UNCHANGED <<front, q, serving, slot, task, expired, client, network,
                   history>>

(* MUTANT: front - 1 without + MAX_TASKS, with C's remainder.              *)
PushRetreatNegative(c) ==
    /\ Goto(c, "retreat", "write")
    /\ front' = front - 1
    /\ slot' = [slot EXCEPT ![c] = (front - 1) % Slots]
    /\ UNCHANGED <<q, sem, serving, task, expired, client, network, history>>

(* The argument is the null pointer when a NO_TASK could not be sent.  A    *)
(* place is made for it all the same, even if there is none left and front *)
(* meets back.                                                             *)
PushRetreat(c) ==
    /\ Goto(c, "retreat", "write")
    /\ front' = (front - 1) % Slots
    /\ slot' = [slot EXCEPT ![c] = (front - 1) % Slots]
    /\ harm' = IF task[c] = NoTask THEN harm \cup {"null pushed"} ELSE harm
    /\ UNCHANGED <<q, sem, serving, task, expired, client, network, finished>>

(* The places that get_task has given away but not yet copied.             *)
Uncopied == {slot[d] : d \in {e \in Clients : pc[e] = "copy"}}

(* strcpy begins.  With the null pointer the handler crashes here, and     *)
(* keeps the semaphore.                                                    *)
PushWrite(c) ==
    /\ pc[c] = "write"
    /\ IF task[c] = NoTask
       THEN /\ pc' = [pc EXCEPT ![c] = "exited"]
            /\ UNCHANGED <<q, harm>>
       ELSE /\ pc' = [pc EXCEPT ![c] = "written"]
            /\ q' = [q EXCEPT ![slot[c]] = Garbled]
            /\ harm' = harm \cup (IF slot[c] \in Uncopied THEN {"overwritten"}
                                                          ELSE {})
    /\ UNCHANGED <<front, sem, serving, slot, task, expired, client, network,
                   finished>>

PushWritten(c) ==
    /\ Goto(c, "written", "release")
    /\ q' = [q EXCEPT ![slot[c]] = task[c]]
    /\ UNCHANGED <<front, sem, serving, slot, task, expired, client, network,
                   history>>

(* MUTANT: after a timeout the handler goes on.                            *)
PushUnlockReturns(c) ==
    /\ Goto(c, "release", "recv")
    /\ V(c)
    /\ task' = [task EXCEPT ![c] = NoTask]
    /\ slot' = [slot EXCEPT ![c] = NoSlot]
    /\ UNCHANGED <<front, q, serving, expired, client, network, history>>

(* V; every caller of push_front frees the task and exits.                 *)
PushUnlock(c) ==
    /\ Goto(c, "release", "exited")
    /\ V(c)
    /\ task' = [task EXCEPT ![c] = NoTask]
    /\ slot' = [slot EXCEPT ![c] = NoSlot]
    /\ UNCHANGED <<front, q, serving, expired, client, network, history>>

-----------------------------------------------------------------------------
(* The handler's loop.                                                     *)

(* MUTANT: the task of a client that leaves is forgotten.                  *)
LeavesForGood(c) == "exited"

(* How it leaves: it gives its task back, if it has one.                   *)
LeavesFor(c) == IF task[c] = NoTask THEN "exited" ELSE "push"

(* MUTANT: no time limit.                                                  *)
GiveUpPatient(c) ==
    /\ inbox[c] = <<>> /\ cli[c] = "gone"
    /\ Goto(c, "recv", LeavesFor(c))
    /\ UNCHANGED <<shared, serving, slot, task, expired, client, network,
                   history>>

(* No command for too long, or, with all commands read, the end of the     *)
(* connection (n = 0) or an error: the three branches do the same.         *)
GiveUp(c) ==
    /\ inbox[c] = <<>> /\ (expired[c] \/ cli[c] = "gone")
    /\ Goto(c, "recv", LeavesFor(c))
    /\ UNCHANGED <<shared, serving, slot, task, expired, client, network,
                   history>>

(* Receive one of the commands.                                            *)
Receive(c, cmd) ==
    /\ pc[c] = "recv" /\ inbox[c] # <<>> /\ Head(inbox[c]).cmd = cmd
    /\ inbox' = [inbox EXCEPT ![c] = Tail(@)]
    /\ UNCHANGED <<shared, serving, slot, client, replies, harm>>

(* MUTANT: a client that has a task is given another one.                  *)
HandleGetAgain(c) ==
    /\ Receive(c, "GET_TASK")
    /\ pc' = [pc EXCEPT ![c] = "get"]
    /\ UNCHANGED <<task, expired, finished>>

(* GET_TASK; a client that has a task is not answered, and does not gain   *)
(* time.                                                                   *)
HandleGet(c) ==
    /\ Receive(c, "GET_TASK")
    /\ IF task[c] = NoTask THEN pc' = [pc EXCEPT ![c] = "get"]
                           ELSE UNCHANGED pc
    /\ UNCHANGED <<task, expired, finished>>

HandleResult(c) ==
    /\ Receive(c, "RESULT")
    /\ IF task[c] = NoTask
       THEN UNCHANGED <<task, expired, finished>>
       ELSE /\ finished' = finished \cup {task[c]}
            /\ task' = [task EXCEPT ![c] = NoTask]
            /\ expired' = [expired EXCEPT ![c] = FALSE]
    /\ UNCHANGED pc

HandleClose(c) ==
    /\ Receive(c, "CLOSE")
    /\ pc' = [pc EXCEPT ![c] = LeavesFor(c)]
    /\ UNCHANGED <<task, expired, finished>>

HandleInvalid(c) ==
    /\ Receive(c, "invalid")
    /\ expired' = [expired EXCEPT ![c] = FALSE]
    /\ UNCHANGED <<pc, task, finished>>

(* The answer to GET_TASK: the task, or NO_TASK.                           *)
Reply(c) ==
    /\ Goto(c, "reply", "recv")
    /\ replies' = [replies EXCEPT ![c] = Append(@, task[c])]
    /\ expired' = [expired EXCEPT ![c] = FALSE]
    /\ UNCHANGED <<shared, serving, slot, task, client, inbox, history>>

(* A send can fail once the client's host has reset the connection, which  *)
(* it does when data comes that nobody will read.                          *)
Reset(c) == cli[c] = "gone" /\ replies[c] # <<>>

(* send returns an error: the task goes back, even if it is null ...       *)
ReplyError(c) ==
    /\ Reset(c)
    /\ Goto(c, "reply", "push")
    /\ UNCHANGED <<shared, serving, slot, task, expired, client, network,
                   history>>

(* ... or the error is EPIPE, and the SIGPIPE that comes with it kills the *)
(* handler with the task.                                                  *)
ReplyKilled(c) ==
    /\ Reset(c)
    /\ Goto(c, "reply", "exited")
    /\ harm' = IF task[c] = NoTask THEN harm ELSE harm \cup {"killed"}
    /\ UNCHANGED <<shared, serving, slot, task, expired, client, network,
                   finished>>

(* Time passes while the handler waits for a command.                      *)
Expire(c) ==
    /\ pc[c] = "recv" /\ ~expired[c]
    /\ expired' = [expired EXCEPT ![c] = TRUE]
    /\ UNCHANGED <<shared, serving, pc, slot, task, client, network, history>>

-----------------------------------------------------------------------------
(* main, and the signals.                                                  *)

(* accept and fork; if fork fails main only closes the connection.         *)
Accept(c) ==
    /\ serving /\ pc[c] = "none" /\ cli[c] # "new"
    /\ \E to \in {"recv", "exited"} : pc' = [pc EXCEPT ![c] = to]
    /\ UNCHANGED <<shared, serving, slot, task, expired, client, network,
                   history>>

(* handle_sigterm, in a handler: it removes the semaphore for everybody.   *)
HandlerSigterm(c) ==
    /\ Signals /\ pc[c] \in Alive
    /\ pc' = [pc EXCEPT ![c] = "exited"]
    /\ sem' = "gone" /\ harm' = harm \cup {"removed"}
    /\ UNCHANGED <<front, q, serving, slot, task, expired, client, network,
                   finished>>

(* ... and in main.  (An accept that fails ends main in the same way.)  The *)
(* handlers live on; connections that wait for accept are reset.           *)
MainEnds ==
    /\ Signals /\ serving /\ serving' = FALSE
    /\ sem' = "gone" /\ harm' = harm \cup {"removed"}
    /\ pc' = [c \in Clients |-> IF pc[c] = "none" THEN "exited" ELSE pc[c]]
    /\ UNCHANGED <<front, q, slot, task, expired, client, network, finished>>

-----------------------------------------------------------------------------
(* The clients.                                                            *)
Step(c, from, to) == cli[c] = from /\ cli' = [cli EXCEPT ![c] = to]

(* A message to a handler that has closed its socket is lost.              *)
Deliver(c, m) ==
    inbox' = IF pc[c] = "exited" THEN inbox
                                 ELSE [inbox EXCEPT ![c] = Append(@, m)]

Connect(c) ==
    /\ Step(c, "new", IF ~serving THEN "gone"
                      ELSE IF c \in Scripted THEN "send" ELSE "any")
    /\ UNCHANGED <<shared, serving, handler, got, sent, network, history>>

SendGet(c) ==
    /\ Step(c, "send", "wait")
    /\ Deliver(c, [cmd |-> "GET_TASK", of |-> NoTask])
    /\ UNCHANGED <<shared, serving, handler, got, sent, replies, history>>

(* A task is computed; after NO_TASK the client ends.                      *)
ReceiveTask(c) ==
    /\ replies[c] # <<>>
    /\ Step(c, "wait", IF Head(replies[c]) = NoTask THEN "gone" ELSE "work")
    /\ got' = [got EXCEPT ![c] = Head(replies[c])]
    /\ replies' = [replies EXCEPT ![c] = Tail(@)]
    /\ UNCHANGED <<shared, serving, handler, sent, inbox, history>>

(* The server has closed the connection.                                   *)
ReceiveEnd(c) ==
    /\ replies[c] = <<>> /\ pc[c] = "exited"
    /\ Step(c, "wait", "gone")
    /\ UNCHANGED <<shared, serving, handler, got, sent, network, history>>

SendResult(c) ==
    /\ Step(c, "work", "send")
    /\ Deliver(c, [cmd |-> "RESULT", of |-> got[c]])
    /\ UNCHANGED <<shared, serving, handler, got, sent, replies, history>>

(* A client that is not client.c may send anything, without waiting.       *)
SendAny(c) ==
    /\ cli[c] = "any" /\ sent[c] < MaxCommands
    /\ \E cmd \in {"GET_TASK", "RESULT", "CLOSE", "invalid"} :
           Deliver(c, [cmd |-> cmd, of |-> NoTask])
    /\ sent' = [sent EXCEPT ![c] = @ + 1]
    /\ UNCHANGED <<shared, serving, handler, cli, got, replies, history>>

(* Any client may end, or be killed, at any time.                          *)
ClientEnds(c) ==
    /\ cli[c] \notin {"new", "gone"}
    /\ cli' = [cli EXCEPT ![c] = "gone"]
    /\ UNCHANGED <<shared, serving, handler, got, sent, network, history>>

-----------------------------------------------------------------------------
Handler(c) ==
    \/ GetLock(c) \/ GetLoad(c) \/ GetAdvance(c) \/ GetUnlock(c) \/ GetCopy(c)
    \/ PushLock(c) \/ PushRetreat(c) \/ PushWrite(c) \/ PushWritten(c)
    \/ PushUnlock(c)
    \/ GiveUp(c) \/ HandleGet(c) \/ HandleResult(c) \/ HandleClose(c)
    \/ HandleInvalid(c)
    \/ Reply(c) \/ ReplyError(c) \/ ReplyKilled(c)

ScriptedClient(c) == SendGet(c) \/ ReceiveTask(c) \/ ReceiveEnd(c)

Next ==
    \/ \E c \in Clients :
          \/ Handler(c) \/ Expire(c) \/ Accept(c) \/ HandlerSigterm(c)
          \/ Connect(c) \/ ScriptedClient(c) \/ SendResult(c) \/ SendAny(c)
          \/ ClientEnds(c)
    \/ MainEnds

Spec == Init /\ [][Next]_vars

(* The scheduler runs every process; time passes; accept is polled.  A     *)
(* client may compute for ever, and nobody is obliged to connect or end.   *)
FairSpec ==
    /\ Spec
    /\ \A c \in Clients :
          /\ WF_vars(Handler(c)) /\ WF_vars(Expire(c)) /\ WF_vars(Accept(c))
          /\ WF_vars(ScriptedClient(c))
-----------------------------------------------------------------------------
(* Properties.                                                             *)

(* Types, and where the program can be.                                    *)
TypeOK ==
    /\ front \in Places /\ q \in [Places -> Texts]
    /\ sem \in Clients \cup {"free", "gone"}
    /\ serving \in BOOLEAN
    /\ pc \in [Clients -> Alive \cup {"none", "exited"}]
    /\ slot \in [Clients -> Places \cup {NoSlot}]
    /\ \A c \in Clients : pc[c] \in {"advance", "copy", "write", "written"}
                              => slot[c] # NoSlot
    /\ task \in [Clients -> Texts] /\ expired \in [Clients -> BOOLEAN]
    /\ cli \in [Clients -> {"new", "send", "wait", "work", "any", "gone"}]
    /\ got \in [Clients -> Texts] /\ sent \in [Clients -> 0..MaxCommands]
    /\ inbox \in [Clients -> Seq(Commands)]
    /\ replies \in [Clients -> Seq(Texts)]
    /\ finished \subseteq Tasks \cup {Garbled}
    /\ harm \subseteq {"overwritten", "null pushed", "killed", "removed"}

(* Between P and V there is one handler, the semaphore's holder, as long   *)
(* as the semaphore exists.                                                *)
MutualExclusion ==
    sem # "gone" => \A c \in Clients : pc[c] \in Inside => sem = c

(* The tasks in the queue: from front up to back, without the place that   *)
(* push_front has taken but not yet filled.                                *)
Pooled ==
    LET n    == (Back - front) % Slots
        skip == IF \E c \in Clients : pc[c] \in {"write", "written"}
                THEN 1 ELSE 0
    IN  [i \in 1..(n - skip) |-> q[(front + skip + i - 1) % Slots]]

(* The task a handler has: get_task's before it is copied, and push_front's*)
(* until it is in the queue.  A handler that has exited has none.            *)
Held(c) ==
    IF pc[c] \in {"release", "exited"} THEN NoTask
    ELSE IF pc[c] \in {"unlock", "copy"} /\ slot[c] # NoSlot THEN q[slot[c]]
    ELSE task[c]

(* No task is lost or handed out twice at a time, and none comes back once *)
(* its result was accepted, whatever clients do, crash or leave, unless    *)
(* one of four things happens: push_front reuses the place of a task that  *)
(* get_task has not copied yet, a handler is killed by SIGPIPE with a task,*)
(* push_front gets the null pointer, or a signal removes the semaphore.    *)
TaskConservation ==
    harm = {} =>
        \A t \in Tasks :
            Cardinality({i \in DOMAIN Pooled : Pooled[i] = t})
            + Cardinality({c \in Clients : Held(c) = t})
            + (IF t \in finished THEN 1 ELSE 0) = 1

(* A result is booked for the task it was computed for: while a client     *)
(* that runs client.c computes, and while its RESULT is under way, its     *)
(* handler has that task or has given up on the connection.                *)
ResultsMatch ==
    \A c \in Scripted :
        pc[c] = "recv" =>
            /\ cli[c] = "work" => task[c] = got[c] /\ task[c] # NoTask
            /\ inbox[c] # <<>> /\ Head(inbox[c]).cmd = "RESULT" =>
                   task[c] = Head(inbox[c]).of

(* Every step of the program is a step of the abstract pool, or none: a    *)
(* task is taken when front moves over it and is back when its string is   *)
(* written; first taken, first again.                                      *)
Pool == INSTANCE TaskPool WITH pool <- Pooled, Nobody <- NoTask,
                               held <- [c \in Clients |-> Held(c)]

ImplementsPool ==
    [][harm' = {} => Pool!Next]_<<Pooled, [c \in Clients |-> Held(c)],
                                  finished>>

(* A task does not stay with one client for ever: its result is accepted,  *)
(* or it goes back, also if the client neither answers nor disconnects.    *)
(* (The others stop sending after MaxCommands; a client that sends invalid *)
(* commands for ever keeps its handler, and its task, for ever.)           *)
TaskComesBack ==
    [](harm = {}) =>
        \A c \in Clients : (Held(c) # NoTask) ~> (Held(c) = NoTask)

(* A client that asks for a task is answered or disconnected, unless some  *)
(* handler called push_front(NULL).                                        *)
ClientAnswered ==
    []("null pushed" \notin harm) =>
        \A c \in Scripted : (cli[c] = "wait") ~> (cli[c] # "wait")
=============================================================================
