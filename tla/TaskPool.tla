------------------------------- MODULE TaskPool -------------------------------
(***************************************************************************)
(* What the task server of A5 promises: a pool of tasks from which clients *)
(* take one at a time, the first one first; a task is finished once, or    *)
(* goes back to the front of the pool to be taken again.                   *)
(***************************************************************************)
EXTENDS Sequences

CONSTANTS
    Clients,       \* who takes tasks
    Nobody,        \* the "task" of a client that has none
    TaskList       \* the tasks, in their order

VARIABLES
    pool,          \* the tasks to be taken
    held,          \* the task each client has, or Nobody
    finished       \* the tasks with a result

vars == <<pool, held, finished>>

Init ==
    /\ pool = TaskList
    /\ held = [c \in Clients |-> Nobody]
    /\ finished = {}

Take(c) ==
    /\ held[c] = Nobody /\ pool # <<>>
    /\ held' = [held EXCEPT ![c] = Head(pool)]
    /\ pool' = Tail(pool)
    /\ UNCHANGED finished

GiveBack(c) ==
    /\ held[c] # Nobody
    /\ pool' = <<held[c]>> \o pool
    /\ held' = [held EXCEPT ![c] = Nobody]
    /\ UNCHANGED finished

Finish(c) ==
    /\ held[c] # Nobody
    /\ finished' = finished \cup {held[c]}
    /\ held' = [held EXCEPT ![c] = Nobody]
    /\ UNCHANGED pool

Next == \E c \in Clients : Take(c) \/ GiveBack(c) \/ Finish(c)

Spec == Init /\ [][Next]_vars
=============================================================================
