----------------------------- MODULE MCTaskQueue -----------------------------
(* TaskQueue for TLC: a list of two tasks.                                 *)
EXTENDS TaskQueue

CONSTANTS t1, t2

MCTaskList == <<t1, t2>>
=============================================================================
