--------------------------- MODULE TaskQueueProofs ---------------------------
(***************************************************************************)
(* Proofs about TaskQueue, for any number of clients, tasks and places:    *)
(* types, that the semaphore excludes, until a signal removes it, and that *)
(* a result is booked for the task it was computed for.                    *)
(***************************************************************************)
EXTENDS TaskQueue, SequenceTheorems, TLAPS

(* The ring's arithmetic stays in the ring.                                *)
LEMMA PlacesClosed ==
    ASSUME NEW n \in Int
    PROVE  n % Slots \in Places
  BY QueueAssumption DEF Places

LEMMA PlacesAreNat == \A n \in Places : n \in Int /\ n # NoSlot
  BY QueueAssumption DEF Places, NoSlot

(* What the steps of a handler between P and V disturb.                    *)
Inv == TypeOK /\ MutualExclusion

LEMMA InitInv == Init => Inv
<1> SUFFICES ASSUME Init PROVE Inv
  OBVIOUS
<1>1. 0 \in Places
  BY QueueAssumption DEF Places
<1>2. ReadTasks \in [Places -> Texts]
  <2> SUFFICES ASSUME NEW i \in Places, i < Len(TaskList)
               PROVE  TaskList[i + 1] \in Texts
    BY DEF ReadTasks, Texts
  <2>1. i + 1 \in DOMAIN TaskList
    BY QueueAssumption DEF Places
  <2> QED
    BY <2>1 DEF Tasks, Texts
<1>3. TypeOK
  BY <1>1, <1>2, QueueAssumption DEF Init, TypeOK, Texts, NoSlot
<1>4. MutualExclusion
  BY DEF Init, MutualExclusion, Inside
<1> QED
  BY <1>3, <1>4 DEF Inv

-----------------------------------------------------------------------------
(* The steps at the semaphore.                                             *)
LEMMA LockInv ==
    ASSUME Inv, NEW c \in Clients, GetLock(c) \/ PushLock(c)
    PROVE  Inv'
<1> USE DEF Inv, Alive, Inside, Waiting, Goto, P, client, network, history
<1>1. TypeOK'
  BY DEF GetLock, PushLock, TypeOK
<1>2. MutualExclusion'
  BY QueueAssumption DEF GetLock, PushLock, TypeOK, MutualExclusion
<1> QED
  BY <1>1, <1>2

LEMMA UnlockInv ==
    ASSUME Inv, NEW c \in Clients, GetUnlock(c) \/ PushUnlock(c)
    PROVE  Inv'
<1> USE DEF Inv, Alive, Inside, Waiting, Goto, V, client, network, history
<1>1. TypeOK'
  BY ZenonT(60) DEF GetUnlock, PushUnlock, TypeOK, Texts
<1>2. MutualExclusion'
  BY QueueAssumption, ZenonT(60) DEF GetUnlock, PushUnlock, TypeOK, MutualExclusion
<1> QED
  BY <1>1, <1>2

(* The accesses to the queue between P and V, and the copy after V.        *)
LEMMA QueueInv ==
    ASSUME Inv, NEW c \in Clients,
           GetLoad(c) \/ GetAdvance(c) \/ GetCopy(c) \/ PushRetreat(c)
               \/ PushWrite(c) \/ PushWritten(c)
    PROVE  Inv'
<1> USE DEF Inv, Alive, Inside, Waiting, Goto, shared, client, network, history
<1>0. front \in Places /\ front \in Int /\ front # NoSlot
  <2>1. front \in Places
    BY DEF TypeOK
  <2> QED
    BY <2>1, PlacesAreNat
<1>1. CASE GetLoad(c)
  <2>1. slot' \in [Clients -> Places \cup {NoSlot}]
    BY <1>0, <1>1, ZenonT(60) DEF GetLoad, TypeOK
  <2>2. TypeOK'
    BY <1>0, <1>1, <2>1, ZenonT(60) DEF GetLoad, TypeOK
  <2> QED
    BY <1>1, <2>2, ZenonT(60) DEF GetLoad, MutualExclusion, TypeOK
<1>2. CASE GetAdvance(c)
  <2>1. front' \in Places
    <3>1. front + 1 \in Int
      BY <1>0
    <3> QED
      BY <1>2, <3>1, PlacesClosed DEF GetAdvance
  <2>2. TypeOK'
    BY <1>2, <2>1 DEF GetAdvance, TypeOK
  <2> QED
    BY <1>2, <2>2 DEF GetAdvance, MutualExclusion, TypeOK
<1>3. CASE GetCopy(c)
  <2>1. q[slot[c]] \in Texts
    BY <1>3 DEF GetCopy, TypeOK
  <2>2. TypeOK'
    BY <1>3, <2>1 DEF GetCopy, TypeOK
  <2> QED
    BY <1>3, <2>2 DEF GetCopy, MutualExclusion, TypeOK
<1>4. CASE PushRetreat(c)
  <2>1. (front - 1) % Slots \in Places
    <3>1. front - 1 \in Int
      BY <1>0
    <3> QED
      BY <3>1, PlacesClosed
  <2>2. (front - 1) % Slots # NoSlot
    BY <2>1, QueueAssumption DEF Places, NoSlot
  <2>3. TypeOK'
    BY <1>4, <2>1, <2>2 DEF PushRetreat, TypeOK
  <2> QED
    BY <1>4, <2>3 DEF PushRetreat, MutualExclusion, TypeOK
<1>5. CASE PushWrite(c)
  <2>1. TypeOK'
    BY <1>5, ZenonT(60) DEF PushWrite, TypeOK, Texts
  <2> QED
    BY <1>5, <2>1, ZenonT(60) DEF PushWrite, MutualExclusion, TypeOK
<1>6. CASE PushWritten(c)
  <2>1. TypeOK'
    BY <1>6 DEF PushWritten, TypeOK
  <2> QED
    BY <1>6, <2>1 DEF PushWritten, MutualExclusion, TypeOK
<1> QED
  BY <1>1, <1>2, <1>3, <1>4, <1>5, <1>6

(* The handler's loop, which is outside of P and V.                        *)
LEMMA LoopInv ==
    ASSUME Inv, NEW c \in Clients,
           GiveUp(c) \/ HandleGet(c) \/ HandleResult(c) \/ HandleClose(c)
               \/ HandleInvalid(c) \/ Reply(c) \/ ReplyError(c)
               \/ ReplyKilled(c) \/ Expire(c) \/ Accept(c)
    PROVE  Inv'
<1> USE DEF Inv, Alive, Inside, Waiting, Goto, shared, client, network, history
<1>1. CASE GiveUp(c) \/ Expire(c) \/ Accept(c)
  <2>1. TypeOK'
    BY <1>1, ZenonT(60) DEF GiveUp, Expire, Accept, LeavesFor, TypeOK
  <2> QED
    BY <1>1, <2>1, ZenonT(60) DEF GiveUp, Expire, Accept, LeavesFor, MutualExclusion, TypeOK
<1>2. CASE HandleGet(c) \/ HandleResult(c) \/ HandleClose(c) \/ HandleInvalid(c)
  <2>1. Tail(inbox[c]) \in Seq(Commands)
    <3>1. inbox[c] \in Seq(Commands)
      BY DEF TypeOK
    <3>2. inbox[c] # <<>>
      BY <1>2 DEF HandleGet, HandleResult, HandleClose, HandleInvalid, Receive
    <3> QED
      BY <3>1, <3>2
  <2>2. inbox' \in [Clients -> Seq(Commands)]
    <3>1. inbox' = [inbox EXCEPT ![c] = Tail(inbox[c])]
      BY <1>2 DEF HandleGet, HandleResult, HandleClose, HandleInvalid, Receive
    <3> QED
      BY <2>1, <3>1 DEF TypeOK
  <2>3. CASE HandleGet(c) \/ HandleClose(c) \/ HandleInvalid(c)
    <3>1. TypeOK'
      BY <2>2, <2>3, ZenonT(60) DEF HandleGet, HandleClose, HandleInvalid, Receive, LeavesFor,
                        TypeOK
    <3>2. \A d \in Clients : pc'[d] \in Inside => pc[d] \in Inside
      BY <2>3, ZenonT(60) DEF HandleGet, HandleClose, HandleInvalid, Receive, LeavesFor,
                  TypeOK
    <3>3. sem' = sem
      BY <2>3 DEF HandleGet, HandleClose, HandleInvalid, Receive
    <3> QED
      BY <3>1, <3>2, <3>3 DEF MutualExclusion
  <2>4. CASE HandleResult(c)
    <3>1. finished' \subseteq Tasks \cup {Garbled}
      <4>1. task[c] \in Texts /\ finished \subseteq Tasks \cup {Garbled}
        BY DEF TypeOK
      <4>2. finished' = finished \/ (finished' = finished \cup {task[c]}
                                         /\ task[c] # NoTask)
        BY <2>4 DEF HandleResult
      <4> QED
        BY <4>1, <4>2 DEF Texts
    <3>2. TypeOK'
      BY <2>2, <2>4, <3>1 DEF HandleResult, Receive, TypeOK, Texts
    <3> QED
      BY <2>4, <3>2 DEF HandleResult, Receive, MutualExclusion, TypeOK
  <2> QED
    BY <1>2, <2>3, <2>4
<1>3. CASE Reply(c)
  <2>1. Append(replies[c], task[c]) \in Seq(Texts)
    <3>1. replies[c] \in Seq(Texts) /\ task[c] \in Texts
      BY DEF TypeOK
    <3> QED
      BY <3>1
  <2>2. TypeOK'
    BY <1>3, <2>1 DEF Reply, TypeOK
  <2> QED
    BY <1>3, <2>2 DEF Reply, MutualExclusion, TypeOK
<1>4. CASE ReplyError(c) \/ ReplyKilled(c)
  <2>1. TypeOK'
    BY <1>4 DEF ReplyError, ReplyKilled, TypeOK
  <2> QED
    BY <1>4, <2>1, ZenonT(60) DEF ReplyError, ReplyKilled, MutualExclusion, TypeOK
<1> QED
  BY <1>1, <1>2, <1>3, <1>4

(* The signals, which end the promise.                                     *)
LEMMA SignalInv ==
    ASSUME Inv, MainEnds \/ \E c \in Clients : HandlerSigterm(c)
    PROVE  Inv'
<1> USE DEF Inv, Alive, Inside, Waiting, shared, client, network, history
<1>1. TypeOK'
  BY ZenonT(60) DEF MainEnds, HandlerSigterm, TypeOK
<1>2. sem' = "gone"
  BY DEF MainEnds, HandlerSigterm
<1> QED
  BY <1>1, <1>2 DEF MutualExclusion

(* The clients, which change nothing of the server's.                      *)
LEMMA ClientInv ==
    ASSUME Inv, NEW c \in Clients,
           Connect(c) \/ SendGet(c) \/ ReceiveTask(c) \/ ReceiveEnd(c)
               \/ SendResult(c) \/ SendAny(c) \/ ClientEnds(c)
    PROVE  Inv'
<1> USE DEF Inv, shared, handler, network, history
<1>1. MutualExclusion'
  BY DEF Connect, SendGet, ReceiveTask, ReceiveEnd, SendResult, SendAny,
         ClientEnds, MutualExclusion
<1>2. CASE Connect(c) \/ ReceiveEnd(c) \/ ClientEnds(c)
  BY <1>1, <1>2 DEF Connect, ReceiveEnd, ClientEnds, Step, TypeOK
<1>3. ASSUME NEW m \in Commands, Deliver(c, m)
      PROVE  inbox' \in [Clients -> Seq(Commands)]
  <2>1. Append(inbox[c], m) \in Seq(Commands)
    <3>1. inbox[c] \in Seq(Commands)
      BY DEF TypeOK
    <3> QED
      BY <3>1
  <2> QED
    BY <1>3, <2>1 DEF Deliver, TypeOK
<1>4. CASE SendGet(c)
  <2>1. inbox' \in [Clients -> Seq(Commands)]
    BY <1>3, <1>4 DEF SendGet, Commands, Texts
  <2> QED
    BY <1>1, <1>4, <2>1 DEF SendGet, Step, TypeOK
<1>5. CASE SendResult(c)
  <2>1. inbox' \in [Clients -> Seq(Commands)]
    BY <1>3, <1>5 DEF SendResult, Commands, TypeOK
  <2> QED
    BY <1>1, <1>5, <2>1 DEF SendResult, Step, TypeOK
<1>6. CASE SendAny(c)
  <2>1. inbox' \in [Clients -> Seq(Commands)]
    BY <1>3, <1>6 DEF SendAny, Commands, Texts
  <2>2. sent[c] + 1 \in 0..MaxCommands
    <3>1. sent[c] \in 0..MaxCommands /\ sent[c] < MaxCommands
      BY <1>6 DEF SendAny, TypeOK
    <3> QED
      BY <3>1, QueueAssumption
  <2> QED
    BY <1>1, <1>6, <2>1, <2>2 DEF SendAny, TypeOK
<1>7. CASE ReceiveTask(c)
  <2>1. Head(replies[c]) \in Texts /\ Tail(replies[c]) \in Seq(Texts)
    <3>1. replies[c] \in Seq(Texts) /\ replies[c] # <<>>
      BY <1>7 DEF ReceiveTask, TypeOK
    <3> QED
      BY <3>1
  <2> QED
    BY <1>1, <1>7, <2>1 DEF ReceiveTask, Step, TypeOK
<1> QED
  BY <1>2, <1>4, <1>5, <1>6, <1>7

LEMMA NextInv == Inv /\ [Next]_vars => Inv'
<1> SUFFICES ASSUME Inv, [Next]_vars PROVE Inv'
  OBVIOUS
<1>1. CASE UNCHANGED vars
  BY <1>1 DEF Inv, vars, shared, handler, client, network, history, TypeOK,
              MutualExclusion
<1>2. ASSUME NEW c \in Clients, Handler(c) PROVE Inv'
  BY <1>2, LockInv, UnlockInv, QueueInv, LoopInv DEF Handler
<1>3. CASE Next
  BY <1>2, <1>3, LoopInv, SignalInv, ClientInv DEF Next, ScriptedClient
<1> QED
  BY <1>1, <1>3

-----------------------------------------------------------------------------
(* The shared memory, the handlers and the connections always hold what    *)
(* the code expects in them: no index leaves the ring, and get_task never  *)
(* copies from, nor push_front writes to, a place it was not given.        *)
THEOREM TypeCorrect == Spec => []TypeOK
<1>1. Inv => TypeOK
  BY DEF Inv
<1> QED
  BY <1>1, InitInv, NextInv, PTL DEF Spec

(* However many handlers run, one at a time is between P and V of server.c,*)
(* until somebody removes the semaphore.                                   *)
THEOREM Exclusion == Spec => []MutualExclusion
<1>1. Inv => MutualExclusion
  BY DEF Inv
<1> QED
  BY <1>1, InitInv, NextInv, PTL DEF Spec

-----------------------------------------------------------------------------
(* The conversation of client.c with its handler.  Nothing numbers the     *)
(* messages: what a RESULT is the result of follows from the order alone.  *)

GetTask   == [cmd |-> "GET_TASK", of |-> NoTask]
Result(t) == [cmd |-> "RESULT", of |-> t]

Asking  == {"get", "load", "advance", "unlock", "copy", "reply"}
Leaving == {"push", "retreat", "write", "written", "release", "exited"}

(* No command is under way: the client has yet to ask, waits for the reply *)
(* to the one command it sent, or computes what its handler has.           *)
Quiet(c) ==
    /\ inbox[c] = <<>>
    /\ cli[c] \in {"new", "send"} =>
           pc[c] \in {"none", "recv"} /\ replies[c] = <<>> /\ task[c] = NoTask
    /\ cli[c] = "wait" =>
           \/ pc[c] \in Asking /\ replies[c] = <<>>
           \/ pc[c] = "recv" /\ replies[c] = <<task[c]>>
    /\ cli[c] = "work" =>
           /\ pc[c] = "recv" /\ replies[c] = <<>>
           /\ task[c] = got[c] /\ task[c] # NoTask

AskSent(c) ==
    /\ inbox[c] = <<GetTask>> /\ cli[c] \in {"wait", "gone"}
    /\ pc[c] \in {"none", "recv"} /\ replies[c] = <<>> /\ task[c] = NoTask

(* The next GET_TASK may follow a RESULT at once.                          *)
ResultSent(c) ==
    /\ \/ inbox[c] = <<Result(task[c])>> /\ cli[c] \in {"send", "gone"}
       \/ inbox[c] = <<Result(task[c]), GetTask>> /\ cli[c] \in {"wait", "gone"}
    /\ pc[c] = "recv" /\ replies[c] = <<>> /\ task[c] # NoTask

(* A handler that is leaving reads no further command, so what its client  *)
(* still sends it does not matter.                                         *)
Follows(c) == pc[c] \notin Leaving => Quiet(c) \/ AskSent(c) \/ ResultSent(c)
InScript   == \A c \in Scripted : cli[c] # "any" /\ Follows(c)

(* Where nothing of a client and its handler changes.                      *)
Untouched(c) ==
    /\ cli'[c] = cli[c] /\ got'[c] = got[c]
    /\ pc'[c] = pc[c] /\ slot'[c] = slot[c] /\ task'[c] = task[c]
    /\ inbox'[c] = inbox[c] /\ replies'[c] = replies[c]

LEMMA FollowsUntouched ==
    ASSUME NEW c, Follows(c), Untouched(c)
    PROVE  Follows(c)'
  BY DEF Follows, Quiet, AskSent, ResultSent, Untouched

(* A step between asking and replying: no command is read, none is         *)
(* answered.                                                               *)
LEMMA FollowsAsking ==
    ASSUME NEW c, Follows(c), pc[c] \in Asking, pc'[c] \in Asking,
           cli'[c] = cli[c], inbox'[c] = inbox[c], replies'[c] = replies[c]
    PROVE  Follows(c)'
<1>1. Quiet(c) /\ cli[c] \notin {"new", "send", "work"}
  BY DEF Follows, Quiet, AskSent, ResultSent, Asking, Leaving
<1>2. cli[c] = "wait" => replies[c] = <<>>
  BY <1>1 DEF Quiet, Asking
<1>3. Quiet(c)'
  BY <1>1, <1>2 DEF Quiet
<1> QED
  BY <1>3 DEF Follows

(* The handler's steps from asking to replying, at the semaphore and in    *)
(* the queue.                                                              *)
LEMMA FollowsGet ==
    ASSUME TypeOK, NEW c \in Clients, Follows(c),
           GetLock(c) \/ GetLoad(c) \/ GetAdvance(c) \/ GetUnlock(c) \/ GetCopy(c)
    PROVE  Follows(c)'
<1>1. /\ pc[c] \in Asking /\ pc'[c] \in Asking
      /\ cli'[c] = cli[c] /\ inbox'[c] = inbox[c] /\ replies'[c] = replies[c]
  BY DEF GetLock, GetLoad, GetAdvance, GetUnlock, GetCopy, Goto, TypeOK, Asking,
         client, network
<1> QED
  BY <1>1, FollowsAsking

(* push_front and the ways into it.                                        *)
LEMMA FollowsLeaving ==
    ASSUME TypeOK, NEW c \in Clients,
           \/ PushLock(c) \/ PushRetreat(c) \/ PushWrite(c) \/ PushWritten(c)
           \/ PushUnlock(c) \/ GiveUp(c) \/ HandleClose(c)
           \/ ReplyError(c) \/ ReplyKilled(c) \/ HandlerSigterm(c)
    PROVE  Follows(c)'
<1>1. pc'[c] \in Leaving
  BY DEF PushLock, PushRetreat, PushWrite, PushWritten, PushUnlock, GiveUp,
         HandleClose, ReplyError, ReplyKilled, HandlerSigterm, LeavesFor, Goto,
         TypeOK, Leaving
<1> QED
  BY <1>1 DEF Follows

(* A GET_TASK is read.                                                     *)
LEMMA FollowsHandleGet ==
    ASSUME TypeOK, NEW c \in Clients, Follows(c), HandleGet(c)
    PROVE  Follows(c)'
<1>1. /\ pc[c] = "recv" /\ inbox[c] # <<>> /\ Head(inbox[c]).cmd = "GET_TASK"
      /\ inbox'[c] = Tail(inbox[c])
      /\ cli'[c] = cli[c] /\ replies'[c] = replies[c]
      /\ task[c] = NoTask => pc'[c] = "get"
  BY DEF HandleGet, Receive, TypeOK, client
<1>2. AskSent(c)
  BY <1>1 DEF Follows, Quiet, ResultSent, Result, Leaving
<1>3. Quiet(c)'
  BY <1>1, <1>2 DEF Quiet, AskSent, Asking
<1> QED
  BY <1>3 DEF Follows

(* A RESULT is read: the handler has the task it is of.                    *)
LEMMA FollowsHandleResult ==
    ASSUME TypeOK, NEW c \in Clients, Follows(c), HandleResult(c)
    PROVE  Follows(c)'
<1>1. /\ pc[c] = "recv" /\ inbox[c] # <<>> /\ Head(inbox[c]).cmd = "RESULT"
      /\ inbox'[c] = Tail(inbox[c]) /\ pc'[c] = pc[c]
      /\ cli'[c] = cli[c] /\ replies'[c] = replies[c]
      /\ task'[c] = NoTask
  BY DEF HandleResult, Receive, TypeOK, client
<1>2. ResultSent(c)
  BY <1>1 DEF Follows, Quiet, AskSent, GetTask, Leaving
<1>3. CASE inbox[c] = <<Result(task[c])>> /\ cli[c] \in {"send", "gone"}
  <2>1. inbox'[c] = <<>>
    BY <1>1, <1>3
  <2>2. Quiet(c)'
    BY <1>1, <1>2, <1>3, <2>1 DEF Quiet, ResultSent
  <2> QED
    BY <2>2 DEF Follows
<1>4. CASE inbox[c] = <<Result(task[c]), GetTask>> /\ cli[c] \in {"wait", "gone"}
  <2>1. inbox'[c] = <<GetTask>>
    BY <1>1, <1>4
  <2>2. AskSent(c)'
    BY <1>1, <1>2, <1>4, <2>1 DEF AskSent, ResultSent
  <2> QED
    BY <2>2 DEF Follows
<1> QED
  BY <1>2, <1>3, <1>4 DEF ResultSent

(* client.c sends no invalid command.                                      *)
LEMMA FollowsHandleInvalid ==
    ASSUME TypeOK, NEW c \in Clients, Follows(c), HandleInvalid(c)
    PROVE  FALSE
<1>1. /\ pc[c] = "recv" /\ inbox[c] # <<>> /\ Head(inbox[c]).cmd = "invalid"
  BY DEF HandleInvalid, Receive
<1> QED
  BY <1>1 DEF Follows, Quiet, AskSent, ResultSent, GetTask, Result, Leaving

(* The answer to GET_TASK.                                                 *)
LEMMA FollowsReply ==
    ASSUME TypeOK, NEW c \in Clients, Follows(c), Reply(c)
    PROVE  Follows(c)'
<1>1. /\ pc[c] = "reply" /\ pc'[c] = "recv"
      /\ replies'[c] = Append(replies[c], task[c])
      /\ cli'[c] = cli[c] /\ inbox'[c] = inbox[c] /\ task'[c] = task[c]
  BY DEF Reply, Goto, TypeOK, client
<1>2. Quiet(c) /\ cli[c] \notin {"new", "send", "work"}
  BY <1>1 DEF Follows, Quiet, AskSent, ResultSent, Leaving
<1>3. cli[c] = "wait" => replies'[c] = <<task[c]>>
  <2>1. cli[c] = "wait" => replies[c] = <<>>
    BY <1>1, <1>2 DEF Quiet
  <2>2. Append(<<>>, task[c]) = <<task[c]>>
    OBVIOUS
  <2> QED
    BY <1>1, <2>1, <2>2
<1>4. Quiet(c)'
  BY <1>1, <1>2, <1>3 DEF Quiet
<1> QED
  BY <1>4 DEF Follows

(* A handler is forked, or not.                                            *)
LEMMA FollowsAccept ==
    ASSUME TypeOK, NEW c \in Clients, Follows(c), Accept(c)
    PROVE  Follows(c)'
<1>1. /\ pc[c] = "none" /\ cli[c] # "new" /\ pc'[c] \in {"recv", "exited"}
      /\ cli'[c] = cli[c] /\ inbox'[c] = inbox[c] /\ replies'[c] = replies[c]
      /\ task'[c] = task[c] /\ got'[c] = got[c]
  BY DEF Accept, TypeOK, client, network
<1>2. CASE pc'[c] = "exited"
  BY <1>2 DEF Follows, Leaving
<1>3. CASE pc'[c] = "recv" /\ Quiet(c)
  BY <1>1, <1>3 DEF Follows, Quiet, Asking
<1>4. CASE pc'[c] = "recv" /\ AskSent(c)
  BY <1>1, <1>4 DEF Follows, AskSent
<1> QED
  BY <1>1, <1>2, <1>3, <1>4 DEF Follows, ResultSent, Leaving

(* What is appended to one message is the second.                         *)
LEMMA AppendToOne ==
    ASSUME NEW a, NEW b
    PROVE  Append(<<a>>, b) = <<a, b>>
<1> DEFINE S == {a, b}
           s == Append(<<a>>, b)
           t == <<a, b>>
<1>1. <<a>> \in Seq(S) /\ Len(<<a>>) = 1 /\ b \in S
  OBVIOUS
<1>2. t \in Seq(S) /\ Len(t) = 2 /\ t[1] = a /\ t[2] = b
  OBVIOUS
<1>3. /\ s \in Seq(S) /\ Len(s) = 2
      /\ s[1] = a /\ s[2] = b
  <2> HIDE DEF S
  <2> QED BY <1>1, AppendProperties
<1> HIDE DEF S, s, t
<1>4. \A i \in 1..Len(s) : s[i] = t[i]
  BY <1>2, <1>3
<1>5. s = t
  BY <1>2, <1>3, <1>4, SeqEqual, Zenon
<1> QED
  BY <1>5 DEF s, t

(* The client's steps.                                                     *)
LEMMA FollowsClient ==
    ASSUME TypeOK, NEW c \in Scripted, cli[c] # "any", Follows(c),
           \/ Connect(c) \/ SendGet(c) \/ ReceiveTask(c) \/ ReceiveEnd(c)
           \/ SendResult(c) \/ SendAny(c) \/ ClientEnds(c)
    PROVE  (cli[c] # "any" /\ Follows(c))'
<1>0. c \in Clients
  BY QueueAssumption
<1>1. pc'[c] = pc[c] /\ task'[c] = task[c]
  BY DEF Connect, SendGet, ReceiveTask, ReceiveEnd, SendResult, SendAny,
         ClientEnds, handler
<1>2. CASE pc[c] \in Leaving
  BY <1>0, <1>1, <1>2 DEF Connect, SendGet, ReceiveTask, ReceiveEnd, SendResult,
         SendAny, ClientEnds, Step, TypeOK, Follows
<1>3. CASE pc[c] \notin Leaving /\ Connect(c)
  <2>1. /\ cli[c] = "new" /\ cli'[c] \in {"gone", "send"}
        /\ inbox'[c] = inbox[c] /\ replies'[c] = replies[c]
    BY <1>0, <1>3 DEF Connect, Step, TypeOK, network
  <2>2. Quiet(c)'
    BY <1>1, <1>3, <2>1 DEF Follows, Quiet, AskSent, ResultSent
  <2> QED
    BY <2>1, <2>2 DEF Follows
<1>4. CASE pc[c] \notin Leaving /\ SendGet(c)
  <2>1. /\ cli[c] = "send" /\ cli'[c] = "wait" /\ replies'[c] = replies[c]
        /\ inbox'[c] = Append(inbox[c], GetTask)
    BY <1>0, <1>4 DEF SendGet, Step, Deliver, TypeOK, GetTask, Leaving
  <2>2. CASE Quiet(c)
    <3>1. inbox'[c] = <<GetTask>>
      <4>1. Append(<<>>, GetTask) = <<GetTask>>
        OBVIOUS
      <4> QED
        BY <2>1, <2>2, <4>1 DEF Quiet
    <3>2. AskSent(c)'
      BY <1>1, <2>1, <2>2, <3>1 DEF AskSent, Quiet
    <3> QED
      BY <2>1, <3>2 DEF Follows
  <2>3. CASE ResultSent(c)
    <3>1. inbox'[c] = <<Result(task[c]), GetTask>>
      <4>1. Append(<<Result(task[c])>>, GetTask) = <<Result(task[c]), GetTask>>
        BY AppendToOne
      <4> QED
        BY <2>1, <2>3, <4>1 DEF ResultSent
    <3>2. ResultSent(c)'
      BY <1>1, <2>1, <2>3, <3>1 DEF ResultSent
    <3> QED
      BY <2>1, <3>2 DEF Follows
  <2> QED
    BY <1>4, <2>1, <2>2, <2>3 DEF Follows, AskSent
<1>5. CASE pc[c] \notin Leaving /\ ReceiveTask(c)
  <2>1. /\ replies[c] # <<>> /\ cli[c] = "wait"
        /\ cli'[c] = IF Head(replies[c]) = NoTask THEN "gone" ELSE "work"
        /\ got'[c] = Head(replies[c]) /\ replies'[c] = Tail(replies[c])
        /\ inbox'[c] = inbox[c]
    BY <1>0, <1>5 DEF ReceiveTask, Step, TypeOK
  <2>2. Quiet(c) /\ pc[c] = "recv" /\ replies[c] = <<task[c]>>
    BY <1>5, <2>1 DEF Follows, Quiet, AskSent, ResultSent
  <2>3. got'[c] = task[c] /\ replies'[c] = <<>>
    BY <2>1, <2>2
  <2>4. Quiet(c)'
    BY <1>1, <2>1, <2>2, <2>3 DEF Quiet
  <2> QED
    BY <2>1, <2>4 DEF Follows
<1>6. CASE pc[c] \notin Leaving /\ SendResult(c)
  <2>1. /\ cli[c] = "work" /\ cli'[c] = "send" /\ replies'[c] = replies[c]
        /\ inbox'[c] = Append(inbox[c], Result(got[c]))
    BY <1>0, <1>6 DEF SendResult, Step, Deliver, TypeOK, Result, Leaving
  <2>2. /\ inbox[c] = <<>> /\ pc[c] = "recv" /\ replies[c] = <<>>
        /\ task[c] = got[c] /\ task[c] # NoTask
    BY <1>6, <2>1 DEF Follows, Quiet, AskSent, ResultSent
  <2>3. Append(<<>>, Result(task[c])) = <<Result(task[c])>>
    OBVIOUS
  <2>4. ResultSent(c)'
    BY <1>1, <2>1, <2>2, <2>3 DEF ResultSent
  <2> QED
    BY <2>1, <2>4 DEF Follows
<1>7. CASE pc[c] \notin Leaving /\ (ReceiveEnd(c) \/ SendAny(c))
  BY <1>7 DEF ReceiveEnd, SendAny, Leaving
<1>8. CASE pc[c] \notin Leaving /\ ClientEnds(c)
  <2>1. /\ cli[c] # "new" /\ cli'[c] = "gone" /\ got'[c] = got[c]
        /\ inbox'[c] = inbox[c] /\ replies'[c] = replies[c]
    BY <1>0, <1>8 DEF ClientEnds, TypeOK, network
  <2>2. Quiet(c) => Quiet(c)'
    BY <2>1 DEF Quiet
  <2>3. AskSent(c) => AskSent(c)'
    BY <1>1, <2>1 DEF AskSent
  <2>4. ResultSent(c) => ResultSent(c)'
    BY <1>1, <2>1 DEF ResultSent
  <2> QED
    BY <1>8, <2>1, <2>2, <2>3, <2>4 DEF Follows
<1> QED
  BY <1>2, <1>3, <1>4, <1>5, <1>6, <1>7, <1>8

(* A step of one client or handler touches no other.                       *)
LEMMA OneAtATime ==
    ASSUME TypeOK, NEW c \in Clients, NEW d \in Clients \ {c},
           \/ Handler(c) \/ Expire(c) \/ Accept(c) \/ HandlerSigterm(c)
           \/ Connect(c) \/ ScriptedClient(c) \/ SendResult(c) \/ SendAny(c)
           \/ ClientEnds(c)
    PROVE  Untouched(d)
<1> USE DEF TypeOK, Untouched, Goto, handler, client, network
<1>1. CASE \/ GetLock(c) \/ GetLoad(c) \/ GetAdvance(c) \/ GetUnlock(c)
           \/ GetCopy(c)
  BY <1>1 DEF GetLock, GetLoad, GetAdvance, GetUnlock, GetCopy
<1>2. CASE \/ PushLock(c) \/ PushRetreat(c) \/ PushWrite(c) \/ PushWritten(c)
           \/ PushUnlock(c)
  BY <1>2 DEF PushLock, PushRetreat, PushWrite, PushWritten, PushUnlock
<1>3. CASE \/ GiveUp(c) \/ HandleGet(c) \/ HandleResult(c) \/ HandleClose(c)
           \/ HandleInvalid(c)
  BY <1>3 DEF GiveUp, HandleGet, HandleResult, HandleClose, HandleInvalid, Receive
<1>4. CASE Reply(c) \/ ReplyError(c) \/ ReplyKilled(c)
  BY <1>4 DEF Reply, ReplyError, ReplyKilled
<1>5. CASE Expire(c) \/ Accept(c) \/ HandlerSigterm(c)
  BY <1>5 DEF Expire, Accept, HandlerSigterm
<1>6. CASE \/ Connect(c) \/ ScriptedClient(c) \/ SendResult(c) \/ SendAny(c)
           \/ ClientEnds(c)
  BY <1>6, ZenonT(60) DEF Connect, ScriptedClient, SendGet, ReceiveTask, ReceiveEnd,
              SendResult, SendAny, ClientEnds, Step, Deliver
<1> QED
  BY <1>1, <1>2, <1>3, <1>4, <1>5, <1>6 DEF Handler

LEMMA ScriptNext ==
    ASSUME TypeOK, InScript, [Next]_vars
    PROVE  InScript'
<1> SUFFICES ASSUME NEW c \in Scripted
             PROVE  (cli[c] # "any" /\ Follows(c))'
  BY DEF InScript
<1>1. c \in Clients /\ cli[c] # "any" /\ Follows(c)
  BY QueueAssumption DEF InScript
<1>2. Untouched(c) => (cli[c] # "any" /\ Follows(c))'
  BY <1>1, FollowsUntouched DEF Untouched
<1>3. ASSUME Handler(c) \/ Expire(c) \/ Accept(c) \/ HandlerSigterm(c)
      PROVE  (cli[c] # "any" /\ Follows(c))'
  <2>1. cli'[c] = cli[c]
    BY <1>3 DEF Handler, GetLock, GetLoad, GetAdvance, GetUnlock, GetCopy,
           PushLock, PushRetreat, PushWrite, PushWritten, PushUnlock, GiveUp,
           HandleGet, HandleResult, HandleClose, HandleInvalid, Receive, Reply,
           ReplyError, ReplyKilled, Expire, Accept, HandlerSigterm, client
  <2>2. Follows(c)'
    <3>1. CASE Expire(c)
      BY <1>1, <3>1, FollowsUntouched DEF Untouched, Expire, client, network
    <3> QED
      BY <1>1, <1>3, <3>1, FollowsGet, FollowsLeaving, FollowsHandleGet,
         FollowsHandleResult, FollowsHandleInvalid, FollowsReply, FollowsAccept
         DEF Handler
  <2> QED
    BY <1>1, <2>1, <2>2
<1>4. ASSUME NEW d \in Clients,
             \/ Handler(d) \/ Expire(d) \/ Accept(d) \/ HandlerSigterm(d)
             \/ Connect(d) \/ ScriptedClient(d) \/ SendResult(d) \/ SendAny(d)
             \/ ClientEnds(d)
      PROVE  (cli[c] # "any" /\ Follows(c))'
  <2>1. CASE c # d
    BY <1>1, <1>2, <1>4, <2>1, OneAtATime
  <2>2. CASE c = d
    BY <1>1, <1>3, <1>4, <2>2, FollowsClient DEF ScriptedClient
  <2> QED
    BY <2>1, <2>2
<1>5. CASE MainEnds
  <2>1. /\ cli'[c] = cli[c] /\ got'[c] = got[c]
        /\ slot'[c] = slot[c] /\ task'[c] = task[c]
        /\ inbox'[c] = inbox[c] /\ replies'[c] = replies[c]
        /\ pc'[c] = pc[c] \/ pc'[c] = "exited"
    BY <1>1, <1>5 DEF MainEnds, TypeOK, client, network
  <2>2. CASE pc'[c] = "exited"
    BY <1>1, <2>1, <2>2 DEF Follows, Leaving
  <2>3. CASE pc'[c] = pc[c]
    BY <1>2, <2>1, <2>3 DEF Untouched
  <2> QED
    BY <2>1, <2>2, <2>3
<1>6. CASE UNCHANGED vars
  BY <1>2, <1>6 DEF Untouched, vars, handler, client, network
<1> QED
  BY <1>4, <1>5, <1>6 DEF Next

(* A result is booked for the task it was computed for, though a RESULT    *)
(* names none: handle_client and client.c never disagree about which task  *)
(* the client has, not even when it is taken back after MAX_WAIT_TIME.     *)
THEOREM ResultsAreMatched == Spec => []ResultsMatch
<1>1. Init => InScript
  BY QueueAssumption DEF Init, InScript, Follows, Quiet
<1>2. InScript => ResultsMatch
  <2> SUFFICES ASSUME InScript, NEW c \in Scripted, pc[c] = "recv"
               PROVE  /\ cli[c] = "work" => task[c] = got[c] /\ task[c] # NoTask
                      /\ inbox[c] # <<>> /\ Head(inbox[c]).cmd = "RESULT" =>
                             task[c] = Head(inbox[c]).of
    BY DEF ResultsMatch
  <2>1. Quiet(c) \/ AskSent(c) \/ ResultSent(c)
    BY DEF InScript, Follows, Leaving
  <2> QED
    BY <2>1 DEF Quiet, AskSent, ResultSent, GetTask, Result
<1>3. Inv => TypeOK
  BY DEF Inv
<1>4. Inv /\ InScript /\ [Next]_vars => InScript'
  BY <1>3, ScriptNext
<1> QED
  BY <1>1, <1>2, <1>4, InitInv, NextInv, PTL DEF Spec

=============================================================================
