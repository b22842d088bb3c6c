# Network-lab programs: specifications, model checking and proofs

The repository holds the programs of a computer-networks laboratory: seven
assignments (A1-A7) and two lab tests (LT1, LT2), each a small C program of its
own.  This directory specifies what they do in TLA+, model-checks it with TLC
and proves the results that matter most with TLAPS.  It covers the five programs
with state that is shared or outlives a request: the KTP transport protocol of
A4, the task queue of A5, the mail server of A6, discovery in A7 and the game of
LT1.

Paths below are relative to `src/`.

## 1. Inventory

### A4: KTP, a reliable message transport over UDP

Processes of applications call a library (`A4/ksocket.c`); one daemon,
`initsocket` (`A4/initsocket.c`), serves all of them.  They share one segment of
memory with a table of `MAX_SOCKETS` = 10 sockets (`A4/ksocket.h:79-100`), and
one POSIX semaphore for each socket.

| part | state | operations | talks to |
|---|---|---|---|
| library: table | `is_allocated`, `is_terminated`, `pid`, `sockfd`, `is_bound`, addresses | `k_socket`, `k_bind`, `k_close`, `clear_socket` | main, G through the table |
| library: transfer | `send_buf`, `recv_buf` (10 slots each), `rwnd` | `k_sendto`, `k_recvfrom`, `k_isempty` | S and R through the buffers |
| thread main | none of its own | opens, binds, closes descriptors; clears terminated sockets | table, kernel |
| thread S | two timers `lst_time` for each socket | sends the window, extends it, repeats it on a timeout | `swnd`, `send_buf`, network |
| thread R | descriptor set, time of the last repeated ACK | receives data and ACKs, sends ACKs, remembers NOSPACE | both buffers and windows, network |
| thread G | none | marks the sockets of dead processes | table, `kill()` |
| packet format | - | `create_packet`, `decode_packet` | S, R |
| `handleclose`, start of main | the segment itself | create, remove | everything |
| `user1.c`, `user2.c` | a file | send a file, receive a file | library |

What is hard: S, R, main, G and any number of applications interleave, each
visit to a socket under that socket's semaphore, G under none; packets are lost,
duplicated and reordered; sequence numbers wrap at 120 and travel in a signed
byte; two timers per socket are shifted, merged and restarted; a full receiver
must announce room again although that ACK may be lost; `k_bind` scans the table
one semaphore at a time; a descriptor number may be closed and reused between
`select()` and `recvfrom()`; an entry may change hands between G's check and its
write; nothing but `clear_socket` separates two owners of an entry.

What makes it correct: every message is delivered once and in order; the sender
never overruns the receiver; what is acknowledged is received, what is not is
kept and will be sent again; the transfer never stops for ever; addresses and
sockets have one owner; descriptors are neither leaked nor shared; a dead
process's socket becomes free.

### A5: a task queue

`A5/server.c` forks one handler process for each connection.  The handlers share
a ring of `MAX_TASKS` = 50 strings, filled from `config.txt` by `read_tasks`, under
one System V semaphore.  Clients (`A5/client.c`) send GET_TASK and RESULT;
handlers answer with a task or NO_TASK, and put a task back in front when its
client closes, disconnects, fails or stays silent for `MAX_WAIT_TIME`.

Hard: `get_task` copies the string after V; a handler can die by SIGPIPE, crash
inside `push_front`, or be told to end, and then removes the semaphore under the
others; a RESULT names no task; four paths give a task back.  Correct: every
task is in the queue, with one client, or finished, once; no client waits for
ever.

### A6: My-SMTP

`A6/mysmtp_server.c` runs one thread for each connection; a mailbox is a text
file, to which threads append and which they scan without a lock.
`A6/mysmtp_client.c` sends one command and waits for its answer, except in the
body of a mail.  A message ends in a NUL.

Hard: TCP has no message boundaries, and both sides throw away what `recv`
returned behind the NUL; the ID of a mail is scanned before it is appended; a
body may contain lines that look like a header's or a dot; clients and server
die at any time, the files stay.  Correct: a mail that was acknowledged is in the
file, whole and once, and can be fetched by its ID; client and thread agree on
what a line is; nobody waits for ever.

### A7: CLDP, discovery over raw IP

`A7/cldp_server.c` broadcasts HELLO every 10 s and answers QUERY.
`A7/cldp_client.c` keeps a list of 32 servers under `server_mutex`: its `select`
loop handles HELLO and RESPONSE and, in a second without packets, drops servers
not heard for more than 30 s; a thread sends QUERY to all in the list.

Hard: packets are lost, delayed and reordered; time is in whole seconds, and three
periods of 10 s fit the 30 s exactly; entries are dropped and taken by others;
a full list; both sides restart.  Correct: no server has two entries, the
response recorded for one is its own, only a silent one is dropped, and a dead
one leaves.

### LT1: a game in rounds

`LT1/chatserver.c`, one process around `select()`, takes one number of every
client, sends all of them the largest and its sender, sleeps a second and asks
for the next.  Hard: clients that connect, leave and send unasked in mid-round;
`send` to one that left.  Correct: a round's result is the maximum of everybody's
number, and rounds go on.

### The others

| program | what it does | hard behaviour |
|---|---|---|
| A3 encryption server and client | a forked handler takes key and file, returns the encrypted file | reads that return key and end of file together |
| A2 word server and client | one word for each request, over UDP | a lost datagram stops it |
| LT2 echo | a forked handler echoes | none: nothing is shared |
| A1 | PDF files only | |

Each of these is a component in `PROJECT.json`, with its status; the hazards
listed there name the line where each one bites.

## 2. Modules

| module | what it is |
|---|---|
| `KtpPacket` | the header bytes: `create_packet`, `decode_packet` with the width and sign of each byte |
| `KtpWindow` | window arithmetic: `in_window`, `increase_window`, `decrease_window`, `get_window_size`, numbers modulo `MAX_SEQ_NUMBER` and slots modulo `MAX_MESSAGES` |
| `KtpTransfer` | one direction of a connection: both applications, S and R on both sockets, the network |
| `KtpClose` | the end of a transfer: `KtpTransfer` with a receiver that closes after the last message |
| `ReliableChannel` | the abstract specification: a bounded first-in first-out channel |
| `KtpTransferInv` | the inductive invariant of `KtpTransfer` |
| `MCKtpTransfer` | the root module of its runs |
| `KtpWindowProofs` | proved lemmas about `KtpWindow` and `KtpPacket` |
| `KtpTransferProofs` | the theorems about `KtpTransfer` |
| `KtpSockets` | the socket table: processes, main, G, S's first `sendto`, R's `select()` loop and the kernel's descriptors |
| `MCKtpSockets` | the root module of its runs, with the symmetry of processes and addresses |
| `KtpSocketsProofs` | the theorems about `KtpSockets` |
| `TaskQueue` | A5: main, handlers, the shared ring, the semaphore, signals, clients |
| `TaskPool` | the abstract specification: a pool from which clients take tasks |
| `MCTaskQueue` | the root module of its runs |
| `TaskQueueProofs` | the theorems about `TaskQueue` by itself |
| `TaskPoolProofs` | the theorems about `TaskQueue` as an implementation of `TaskPool` |
| `Smtp` | A6: threads, clients, the two byte streams of each connection, mailbox files |
| `SmtpProofs` | the theorems about `Smtp` |
| `Cldp` | A7: the client's list and its threads, servers, network and time |
| `Membership` | the abstract specification: a bounded set of hosts with a limit of silence |
| `CldpProofs` | the theorems about `Cldp` |
| `ChatRounds` | LT1: the server's loop and its clients |
| `ChatRoundsProofs` | the theorems about `ChatRounds` |

### KtpTransfer and the code

A visit of S or R to a socket, and a call of `k_sendto` or `k_recvfrom`, holds
the socket's semaphore from its first to its last access, so each is one action.
The sending and the receiving socket have different semaphores (and may be on
two machines): they meet only in the packets under way.

| action | code |
|---|---|
| `KSendTo` | `k_sendto`, `ksocket.c:253-322`; while it returns ENOSPACE the application retries (`user1.c:82-92`) |
| `KRecvFrom` | `k_recvfrom`, `ksocket.c:325-391`; while it returns ENOMESSAGE the application retries |
| `SVisit(expired, k)` | S's loop body, `initsocket.c:433-562`: check of the first timer, extension of the window by `k`, choice of the timer, the packets sent |
| `RVisitSender(a)` | R reads an ACK, `initsocket.c:280-321`: `DuplicateAck`, `NewAck` (frees `k` slots), `StrayAck` |
| `RVisitReceiver(due, d)` | R repeats its ACK if NOSPACE is set (`219-235`), then reads data (`322-403`): `DataAgain`, `DataAhead`, `DataInOrder` (moves the front over `k` messages and acknowledges), `DataOutside` with `RepeatedAcks` |
| `RVisitIdle` | R's visit without a packet, when it repeats the ACK |
| `LoseData`, `LoseAck` | loss in the network, and `dropmessage()` |

Loops of the code appear as a number of rounds `k` for which the loop condition
holds `k` times and then fails.  The payload is the number of the message, which
no step reads; `sent` and `rcvd` are histories, and `upto` in an ACK is one.
The value of a clock is abstracted to what is asked of it: whether a timer is
set, and, as a choice of the step, whether it has expired.

The network is external.  Packets may be lost, duplicated (`Duplicates`) and
reordered, within one bound: when message n is first sent, no packet about a
message below n - `Lifetime` is left.  Sequence numbers wrap, so a protocol of
this kind is only correct under some such bound.  The assumption is
`Lifetime + MaxMessages <= MaxSeq` - with the code's constants, a packet may be
overtaken by as many as 110 messages - and on a path that keeps the order of
packets, such as loopback, `Lifetime = 2 * MaxMessages` is enough.

### KtpClose and the code

`user2.c` calls `k_close` as soon as it has read the message that ends the file
(`user2.c:109-126`); `user1.c` closes only when `k_isempty` says that its send
buffer is empty (`user1.c:134-143`).  `KCloseReceiver` is that close: it sets
`is_terminated`, and R goes on serving the socket until main clears it
(`MainClearReceiver`, `initsocket.c:653-662`).  After that R's visits (`Served`)
are over, and packets for the socket can only be lost; the sending side and the
network (`Sending`) do what they did.

### KtpSockets and the code

A step is what a thread does between taking and releasing one semaphore.  G takes
none, so its three accesses to an entry are three steps; `k_bind` is a write
(`ksocket.c:185-205`), one step for each socket it compares with (`207-226`) and
an end (`228-249`); R is one step for each socket it adds to the set (`157-173`),
the call and the return of `select()`, and one step for each socket it visits.

| action | code |
|---|---|
| `KSocketTry`, `KBindWrite`, `KBindScan`, `KBindEnd`, `KSendTo`, `KClose` | the library, `ksocket.c:140-322` and `416-434` |
| `Exit` | a process ends, with or without `k_close` |
| `MainVisit` (`MainClear`, `MainServe`) | main's loop, `initsocket.c:639-721` |
| `SVisit` | S's `sendto` on a descriptor without a name, `initsocket.c:433-562` |
| `GStep` | `initsocket.c:568-592` |
| `RBuild`, `RSelect`, `RWake`, `RVisit` | R's rounds, `initsocket.c:157-262` |
| `Arrive` | external: a datagram arrives at a bound descriptor |

`open`, `name` and `ready` are the kernel's: descriptors, their addresses, their
queues.  `socket()` returns the lowest free number, as POSIX requires; `bind()`
fails for an address in use and for a descriptor that has one; `sendto()` on a
descriptor without a name gives it a port of the kernel's choice (`Ephemeral`).
That happens when main has opened a socket's descriptor, the owner's `k_bind` and
`k_sendto` follow, and S comes before main: from then on main's `bind()` fails at
every visit, and the packets come from an address the other end drops.
Of the send buffer the model keeps whether it has held a message (`sent`): as long
as the descriptor has no name, no ACK can have emptied it.  `robbed` is a
history: whether main has cleared a socket whose owner was alive, which G's
unprotected write makes possible (finding 1).  The properties about owners are
stated as long as that has not happened.  What R does with a packet is
`KtpTransfer`'s subject; here it only takes the packet.

`kill()` fails for a dead process, and with EPERM for one of another user
(`Foreign`), whose sockets G terminates while it lives.  TLC has `Foreign` empty; the
theorems hold for any.

Assumed of the applications, as in `user1.c` and `user2.c`: one socket for each
process, bound again only after a failure.  Processes die between two steps,
never inside a semaphore.  The step in which `k_socket` finds the table full
needs a third process and is therefore not reached with two.

### TaskQueue and the code

A handler's step ends where another process can see it: at P, at V, and at each
access to the ring.

| action | code (`A5/server.c`) |
|---|---|
| `GetLock`, `GetLoad`, `GetAdvance`, `GetUnlock`, `GetCopy` | `get_task`, `102-120`; the copy is behind V |
| `PushLock`, `PushRetreat`, `PushWrite`, `PushWritten`, `PushUnlock` | `push_front`, `122-130`; while `strcpy` writes, the string is `Garbled` |
| `GiveUp`, `Expire` | timeout, end of connection and error, `203-244` |
| `HandleGet`, `HandleResult`, `HandleClose`, `HandleInvalid` | the loop of `handle_client`, `246-318` |
| `Reply`, `ReplyError`, `ReplyKilled` | the `send` of a task, `260-284`: it succeeds, fails, or raises SIGPIPE |
| `Accept`, `HandlerSigterm`, `MainEnds` | `main` and `handle_sigterm`, `324-426` |
| `Connect`, `SendGet`, `ReceiveTask`, `ReceiveEnd`, `SendResult` | `client.c` |
| `SendAny`, `ClientEnds` | external: other clients, and clients that die |

`slot` is the pointer into the ring that `get_task` and `push_front` hold.  A
message (at most 100 bytes) arrives whole.  The list of tasks is shorter than
`MAX_TASKS`: with 50 lines `back` would be 50 and `front`, which counts modulo 50,
would never meet it.

`harm` is a history of the accidents after which the code loses or repeats a
task, and the properties name it: `overwritten`, when `push_front` reuses the
place of a task that `get_task` has not copied yet; `null pushed`, when a
NO_TASK could not be sent and `push_front` gets the null pointer; `killed`, when
SIGPIPE ends a handler that has a task; `removed`, when a signal removed the
semaphore.  In the second case `push_front` has already moved `front` back
(`server.c:126`) when it crashes in `strcpy` with the semaphore taken (`127`); it
does so even when all tasks are in the queue and the ring is full, and then `front`
meets `back` and the queue looks empty.  The accidents are what the code does, so
a later correction shows as an accident that can be struck off.  The properties
exclude what follows an accident; they do not show that it cannot happen.

### Smtp and the code

| action | code |
|---|---|
| `Connect`, `Command`, `BodyLine`, `BodyEnd`, `BodyEof`, `ReadResponse`, `SeesClose` | `A6/mysmtp_client.c` |
| `ReadMessage` with `Helo`, `NoHelo`, `Envelope`, `BeginData`, `Look`, `Quit`, `Invalid`, `DataMessage` | one round of `handle_client`, `A6/mysmtp_server.c:268-406`, after `read_message` |
| `Remaining`, `Fragments` | `read_message`, `46-68`: what is left of the stream when the bytes behind the NUL are dropped |
| `EndData` with `NextId`, and `Store` | the two halves of `store_email`, between which another thread may run |
| `List`, `Get` | `list_emails`, `get_email` |
| `EndSession`, `Leave`, `Crash` | end of a connection, of a client, of the server (which is started again) |

A line is its kind and a number.  Each of the two streams of a connection is a
sequence of messages; a reader takes the first and may lose any number of those
behind it, and the beginning of one more.  `lost` and `raced` are histories of
the two accidents that the properties name: bytes thrown away on a connection,
and a mail whose ID another thread used between scan and append.

On a connection that lost nothing, client and thread wait for each other for ever
in two cases: the answer to the client's own GET_MAIL stops at a body line that
looks like an ID's, without the NUL (`CutAnswer`, `mysmtp_server.c:236`), or the
user's input ends in the body of a mail, after which the client waits for an
answer and the thread for the dot (`EofInBody`, `mysmtp_client.c:79-82`).  TLC
reaches both; `NobodyWaitsForEver` says that there is no third.

### Cldp and the code

| action | code |
|---|---|
| `HandleHello`, `HandleResponse`, `HandleOther` | `A7/cldp_client.c`, `handle_hello`, `handle_response` and the `select` loop |
| `CheckTimeouts` | `check_timeouts`, in a second without packets |
| `QuerySender`, `ClientRestart` | `query_sender`; `signal_handler` and a new start |
| `HelloBroadcaster`, `HandleClientQuery`, `Crash`, `Restart` | `A7/cldp_server.c` |
| `Tick`, `Lose` | time and the network |

Whatever the client does with its list it does under `server_mutex`, in one step.
`Tick` begins a new second and cannot pass a thread that is to wake up.  A sleep
of `HELLO_INTERVAL` takes as many ticks or one more, since each round of the loop
takes some time itself; so does the client's clock read whole seconds.
`last_seen` is counted up to the limit and one more, all that the code asks.
`Others` are hosts that send any packet at any time, and fill the list.

### ChatRounds and the code

| action | code (`LT1/chatserver.c`) |
|---|---|
| `Select` | `select()` and `accept`, with the prompt to a new client |
| `Serve` with `CountGone`, `FindGone`, `Unnamed`, `Receive` | the loop over the clients, one client a step |
| `EndPass`, `GiveUp`, `EndRound`, `Prompt` | the end of a pass; of the game; of a round; the prompt after `sleep(1)` |
| `Connect`, `Send`, `Leave` | the clients (`LT1/chatclient.c`), between any two steps |
| `ResetArrives` | external: the reset that answers a `send` to a client that left |

A `send` to a client that left is answered by a reset, and a client that leaves
with data unread resets its connection itself (`reset`).  On such a connection
`recv` may report the reset, `getpeername` fails, so that the loop passes over the
client once without finding it gone (`Unnamed`, `chatserver.c:101-114`), and the
next `send` raises SIGPIPE, which ends the server (`killed`).  The address in the
result is the one the server learned last (`cliaddr`, `155-158`): another client's
than the winner's if the winner's connection was reset meanwhile.  `took`, `result`,
`ignored` and `leavers` are histories.  The model is for up to 250 clients: the server clears
1000 bytes of its arrays, not 1000 ints.

## 3. Runs

| run | instance | what it shows |
|---|---|---|
| `transfer_safety` | 4 sequence numbers, 2 slots, 5 messages, lifetime 2, duplicates | delivery in order, flow control, no loss, intact packets, timers, NOSPACE, counters, monotone windows, the channel refinement, and the inductive invariant, of which `TypeOK` is a part; 154,291 states |
| `transfer_liveness` | `KtpClose`: the same with 4 messages, no duplicates | everything is delivered, and the sender drains or is left by a receiver that was cleared; 64,000 states |
| `sockets_safety` | 2 sockets, 2 processes, 2 addresses | unique binding, ownership, descriptors, bound addresses; 2.1 million states up to symmetry |
| `sockets_liveness` | 2 sockets, 2 processes, 1 address | dead sockets are freed; 666,000 states |
| `sockets_terminated`, `sockets_select`, `sockets_blocking` | as `sockets_safety` | the three findings below, each a violation |
| `taskqueue_safety` | one client that runs `client.c`, one that sends any two commands, a ring of 3, 2 tasks, signals | mutual exclusion, no task lost or handed out twice, results booked for the right task, the pool refinement; 2.7 million states |
| `taskqueue_liveness` | the same without signals | a task comes back, a client is answered; 157,000 states |
| `smtp` | a mailer and a client that sends anything, one mailbox and one that cannot be opened, 2 mails of up to one line, one forged ID | acknowledged mails are stored, client and thread stay in step, mails are retrievable, nobody waits for ever but in the two cases above; 2.2 million states |
| `cldp` | one server, two other hosts, a list of 2, intervals of 1 second and a timeout of 3 | responses are their server's, silence before a drop, dead servers leave, the refinement of `Membership`; 342,000 states |
| `chat` | 3 clients, numbers that lose, tie and win, one number of each under way | fair rounds, and that rounds go on; 1.5 million states |

Why the bounds are enough.  With 4 sequence numbers and 5 messages the numbers
wrap and a number is used twice, the slots are used three times, and the lifetime
bound is tight (2 + 2 = 4): a packet that is one message too old would be taken
for a new one.  Two slots are the fewest with which a window can be partly full,
an ACK can free one or more messages, data can arrive ahead of the next one, and
the two timers can both be set.  (6 sequence numbers, 3 slots and lifetime 3 were
also checked: 1.6 million states, no error.)  Two processes and two sockets are
enough for every race between two binders, for an entry that changes hands and
for a descriptor number that does; the clash of addresses needs two addresses to
differ in the source and agree in the destination.

A5: two handlers are the fewest that compete for the ring and the semaphore, and
two tasks the fewest for an order; a ring of 3 wraps both ways.  With two
commands the free client can take a task and answer, close, repeat itself or
leave with it, each while the other is at any point of its own loop.  A6: the
mailer sends both mails while the other client looks, or each sends one, so that
two threads race in one file; a body of one line and the dot is the shortest that
can lose a line and keep the dot, or lose the dot.  The free client uses the
file that does not open only in LIST; the mailer's mails go to either.  A7: the
list of 2 is full with two of the three hosts, so that the server is turned away,
dropped, and takes the entry of another; the timeout of 3 tolerates one lost
HELLO at intervals of 1 to 2, as the code's 30 tolerates two at 10 to 11.  LT1: with
three clients one can leave while two play on; numbers equal to the server's
"none", and one above it, tie and win.  Any of them may leave, and be sent something
afterwards; only the first (`Aborters`) may leave with data unread, which every
client may in the theorems.  It is the one whose fate has all the others served after
it in the pass, and it can be the winner.

No property is silent because its case does not happen: for each of the named
accidents (`harm`, `lost`, `raced`, `ignored`, `leavers`), for a client whose answer is
cut, one whose input ends in a body, a winner whose connection is reset, a dropped
server, a full list and two acknowledged mails, a run of the same instance with the negation
as an invariant finds it.

`CHECK_DEADLOCK` is off where the system may really stop: when all messages are
delivered, when all processes ended after initsocket did, when every client of
the task queue has had its one connection, when the chat server has ended.  (In
`Cldp` a step is always possible; the setting makes no difference there.)

Each property of a passing run has a mutant, a plausible bug in one definition
(marked MUTANT in the modules), with which TLC finds it violated.

### Fairness

`FairSpecClose` of `KtpClose`: the applications keep calling (`user1.c:82-92`,
`user2.c:82-102`); S and R visit every socket again and again, being endless loops
over the table, R the receiving one while there is one; a timer that is not reset
expires; and the network is not down for ever - if packets with message n are
there again and again, one is delivered, and the same for ACKs.  Nothing is assumed
of `k_close` and main: how soon the receiver is closed and cleared is open.
Liveness is checked without duplication.  With a network that may repeat a stale
ACK for ever, R would set `max_size` to the old value again and again, and S could
be kept from sending: no protocol property, but a reason to say that endless
duplication is excluded.

`FairSpec` of `KtpSockets`: main, G and R take steps again and again.  The
applications need not, nor S, whose `sendto` on a descriptor without a name is
something that may go wrong and nothing that must happen.  `DeadSocketsFreed`
excuses the states in which initsocket is gone or R holds a semaphore inside
`recvfrom()` (findings 2, 3).

`FairSpec` of `TaskQueue`: the scheduler runs every handler, time passes
(`Expire`: the sockets are non-blocking and the handler polls the clock,
`server.c:200-215`), `main` accepts, and a client that runs `client.c` sends and
reads.  Nobody need connect, end, or finish computing.  Weak fairness is enough:
what is in a handler's way is either the semaphore, for which the two handlers
alternate, or permanent.

`Cldp` states no fairness: `DeadServersLeave` names its own assumption, that
`check_timeouts` runs again and again, because the code does not guarantee it - it
runs only in a second without packets.

`Fairness` of `ChatRounds`: the server runs, and a user who is asked for a number
sends one or leaves.  `RoundsGoOn` excuses what the code does to itself: SIGPIPE,
`exit` when no number is above -1e9, a client found gone in the last pass (counted
only in the next one, which nothing starts), and a client whose number was
dropped because it was alone.

### Findings

1. `sockets_terminated`: G may terminate a live process's socket
   (`initsocket.c:581-587`), and main then closes it.  Nine states are enough.
2. `sockets_select`: main's `close()` between R's building of its set and its
   `select()` ends initsocket with EBADF (`initsocket.c:203`), although R "Should
   not return" (`documentation.txt:228`).
3. `sockets_blocking`: a descriptor number that is reused between `select()` and
   `recvfrom()` makes R wait, holding the semaphore of a socket whose calls are
   documented as non-blocking (`documentation.txt:114,125`).

Two more disagreements are named in properties that pass.

- A socket for which `k_isempty` holds is "safe to close" (`ksocket.c:392-393`,
  `documentation.txt:136`).  A receiver that has read the last message has empty
  buffers, and `user2.c` closes it; if main clears it and its last ACKs are lost,
  nobody answers the sender again and `user1.c:134` waits for ever.  This is the
  second case of `DrainsOrDeserted`, and TLC finds it when the case is struck out.
- `k_bind` is to "bind the socket to the given source" (`ksocket.c:171`), but only
  main binds the descriptor, later (`initsocket.c:671-683`); S's `sendto` may come
  first (`initsocket.c:529,552`), and the descriptor then keeps the port the kernel
  gave it.  This is the second case of `NamedFor`, likewise reached.

## 4. Proofs

`KtpTransferProofs` proves for every `MaxSeq`, `MaxMessages`, `Lifetime`, `NMsgs`
and `Duplicates` that satisfy the two assumptions what `transfer_safety` checks
for one instance.

Assumptions.  `WindowAssumption` (`KtpWindow`): positive sizes, the number of
sequence numbers is a multiple of the number of slots and larger (120 and 10 in
`ksocket.h`).  `LifetimeAssumption` (`KtpTransfer`): the lifetime bound above, at
least `MaxMessages`; and `MaxSeq < 128`, so that a sequence number plus one
survives `decode_packet`'s signed char.

| theorem | statement |
|---|---|
| `InductiveInvariant` | `Spec => []IInv` |
| `TypeCorrect` | `Spec => []TypeOK` |
| `Delivery` | `Spec => []InOrderDelivery` |
| `NoOverrun` | `Spec => []FlowControl` |
| `AcknowledgedArrived` | `Spec => []AckedIsReceived` |
| `NothingForgotten` | `Spec => []UnackedIsKept` |
| `NothingInvented` | `Spec => []PacketsIntact` |
| `TimersCover` | `Spec => []TimersCoverWindow` |
| `SizesAreCounts` | `Spec => []SizesCount` |
| `RoomIsAnnounced` | `Spec => []FullIsRemembered` |
| `NoRegression` | `Spec => WindowsOnlyAdvance` |
| `Refinement` | `Spec => ImplementsChannel` |
| `HeaderRoundTrip` (`KtpWindowProofs`) | what `decode_packet` returns is what `create_packet` was given |

The argument.  None of the properties is inductive by itself: that a packet is
not mistaken for another needs to know which packets can still be under way, that
the receiver is not overrun needs to know what every ACK under way may promise.
`IInv` adds that.  It places the four window edges in the sequence of all
messages, `SndFront <= RcvFront <= SndBack <= RcvBack`, and says that each wrapped
edge is its message's number modulo `MaxSeq` (`Stores`); which message each slot
of either buffer holds (`SenderInv`, `ReceiverInv`); that a data packet carries
its message under its number and is not older than the lifetime (`DataInv`); that
an ACK is for messages the receiver has and promises no more room than there
still is, and that one promising none is backed by NOSPACE (`AcksInv`); and that
the timers end where the window ends (`TimersInv`).  The step from numbers modulo
`MaxSeq` back to messages is made by the lemmas of `KtpWindowProofs`: within
`MaxSeq` messages a number determines its message (`SeqOfInjective`),
`get_window_size` is the distance of the edges (`WindowSizeIsLength`), and
`in_window` is membership between them (`InWindowIsMembership`).  Each action has
a lemma of its own (`KSendToStep`, ..., `DataInOrderStep`), and `NextStep`
combines them.  `SizesCount` needs a cardinality.  On the sender's side `IInv` says
which slots are taken, and counting them off is a bijection (`SlotOfOnto`); on the
receiver's side messages ahead of the window's front lie in slots of their own, so
the count is an invariant by itself, kept by each slot that is filled or emptied.

`KtpSocketsProofs`, for any number of sockets, processes and addresses:

| theorem | statement |
|---|---|
| `TypeCorrect` | `Spec => []TypeOK` |
| `BindingIsUnique` | `Spec => []UniqueBinding` |
| `SocketOwned` | `Spec => []OwnedByOne` |
| `NoDescriptorLeaks` | `Spec => []DescriptorsAccounted` |
| `DescriptorBoundToSource` | `Spec => []BoundToSource` |

`k_bind` writes its addresses first and then compares with one entry at a time,
so at no moment does it see the whole table.  The invariant that makes this right
is `PassedDiffer`: if each of two binders is past the other's entry, their
addresses differ, because the one that passed second compared with addresses
that the first had written before its own scan began.  Two bound sockets are the
case in which both scans are over.  It needs that a socket is not yet bound
while its owner may write to it (`UnboundYet`), that the entry is the owner's
(`OwnedByOne`), and that an entry is clear when it is given out (`FreeIsClear`).
About main and S: a descriptor that is named is the one of a bound socket, and its
name is that socket's source of now or the kernel's (`BoundToSource`); the second
needs that only a socket that was bound is sent from (`SentIsBound`).  No closed
descriptor has a name (`NamesAreOpen`), and `socket()` finds
a free number because the entries that have one are fewer than the numbers
(`DescriptorLeft`, an injection).  After main has cleared the socket of a live
process (finding 1) only `TypeOK` and `DescriptorsAccounted` are claimed.

`TaskQueueProofs` and `TaskPoolProofs`, for any number of clients and places and
any list of tasks that `QueueAssumption` allows:

| theorem | statement |
|---|---|
| `TypeCorrect` | `Spec => []TypeOK`, by which no handler uses a place it was not given |
| `Exclusion` | `Spec => []MutualExclusion` |
| `ResultsAreMatched` | `Spec => []ResultsMatch` |
| `TasksAreConserved` | `Spec => []TaskConservation` |
| `QueueImplementsPool` | `Spec => ImplementsPool` |

The invariant of the first two is their conjunction and needs nothing more: P
succeeds when the semaphore is free, so that, by the invariant, nobody is inside,
or when it is gone, and then nothing is promised.  The lemmas follow the code: the
steps at the semaphore, at the ring, in the loop, the signals, the clients.
`ResultsMatch` follows from the conversation of `client.c` and its handler
(`InScript`): they are quiet, or a GET_TASK is under way and the handler has no
task, or a RESULT is, and the handler has the task the client computed.

The last two are one argument.  `Sound` says, for a queue without accidents, where
each handler is between asking for a task and holding it (`Steps`), and that the
ring, the handlers and the results conserve every task in one place
(`Conserved`).  Each step of the program is then no step, or one of the three
steps, of the pool (`Idle`, `Took`, `GaveBack`, `Finished`), and each of these
conserves the tasks.  In turn conservation is what the ring needs: a task that
comes back was in no place of the ring, so by counting there is a place for it in
front (`Room`).

This proof found a case that no instance small enough for TLC contains: the full
ring and the null pointer described above, which takes a ring with exactly one
place more than tasks, all of them in the queue, and a second client to look at
it.  The model had `harm` too late there.

`CldpProofs`, for any number of hosts and entries and any intervals:

| theorem | statement |
|---|---|
| `TypeCorrect` | `Spec => []TypeOK` |
| `Unique` | `Spec => []OneEntry`: no host has two active entries |
| `Responses` | `Spec => []RespondedWasAsked` |
| `Implementation` | `Spec => ImplementsMembership` |
| `DropsOnlySilent` | `Spec => DroppedWasSilent` |

`RespondedWasAsked` needs to know that queries and responses under way belong to
servers that were asked (`NetWasAsked`), and everything rests on `OneEntry`: the
code changes the first entry that it finds for a host, which is the entry of the
host only because there is no other.  The refinement is by `SilenceOf`, a function
of the list alone, so that one set of lemmas serves for the list before and after
a step: the value at a host is the one of its entry (`SilenceAt`), and while an
entry is unused there is room for a member (`Room`, an injection of the members
into the other entries).  `DroppedWasSilent` is a matter of two clocks: as long as
a server has run since it was last heard and fewer HELLOs in a row were lost than
the timeout tolerates, the silence of its entry and the time to its next HELLO are
together at most that many periods and one more (`OnTime`), which is below the
limit when `CheckTimeouts` compares.

`ChatRoundsProofs`, for any number of clients (up to 250), any numbers, any backlog
and any `Aborters`:

| theorem | statement |
|---|---|
| `TypeCorrect` | `Spec => []TypeOK`, by which `entrycnt` never passes the number of players |
| `Fair` | `Spec => []RoundIsFair` |

The round ends by a count that the server keeps apart from the array it counts.
The invariant says that the two agree (`EntriesCounted`), that an entry stands for
a number or for a client that is gone (`EntriesAreReal`), and that the maximum is
the number of an entry and not below any number taken (`MaximumIsHeld`).  The
result names that entry's client unless its connection has been reset.  When the
count reaches the number of players, everybody has an entry (`AllEntered`), and
the three facts give the round's result.

`SmtpProofs`, for any number of clients (finitely many), mailboxes, mails and lines
of a mail:

| theorem | statement |
|---|---|
| `TypeCorrect` | `Spec => []TypeOK` |
| `AckedMailIsStored` | `Spec => []AckedIsStored` |
| `ConversationsInStep` | `Spec => []InStep` |
| `MailRetrievable` | `Spec => []Retrievable` |
| `NoMutualWait` | `Spec => []NobodyWaitsForEver` |

Assumptions: `SmtpAssumption`, with a finite set of clients, because the bound on
mails counts those that wait for DATA's answer, and `NoBoxAssumption`.  The
invariant `Inv` has these parts:

- `Typing`, `Bounded`: the types, and that a mail which is begun has a number.
- `Sessions`: what a thread's variables are where it is; a body has a dot only when
  it is complete.
- `Files`: every ID line in a file begins a mail and every dot ends one, since
  `store_email` appends in one piece; the ID of a mail that did not race is above
  all before it; behind every body line that looks like an ID's comes the dot of
  its own mail, so that what stops at such a line is an answer to GET_MAIL only.
- `Phases`: what client and thread do at the same time on a connection that lost
  nothing, for instance that a client that waits has a command under way or
  exactly one answer, and that in a mail only its last message is a dot.
- `Numbers`, `DotNumbers`: two connections never have lines of the same mail, and
  no line of a mail that is acknowledged is still under way, so that what others
  append does not touch it.
- `Stores`: the lines typed so far are those in the thread's body followed by those
  under way (`Delivered`); the thread's recipient is the one the client read to be
  accepted; an answered mail is in its recipient's file at one place (`StoredOnce`).

`InStep` follows from `Phases`, `AckedIsStored` from `Stores`.  `NobodyWaitsForEver`
follows from `Phases` and `Files`: an answer ends with its NUL (`AnswersEnd`), or is
what GET_MAIL returned up to a line like an ID's (`GetEnds`), and stays a beginning
of that kind when other threads append to the file (`StopsStay`).  `Retrievable` follows from `Files`: the first line with the mail's ID is
its own because the ID was new, and the next dot is its own (`GetReturns`); LIST
skips two lines behind each ID line, and these are never ID lines (`Apart`), so it
passes over none (`AllListed`).  `list_emails` is a recursive function in the
model; that it exists, and what it returns, is proved from the least line for which
it would fail (`ListingExists`, `AllListed`), since the induction theorems of the
library cannot be used.

Only model-checked: the liveness properties (the prover does not handle fairness),
and that the code, where a finding says so, does otherwise.

## 5. Plan

In this order, the most important first:

1. `KtpReuse`: two owners of one table entry with the buffers' `occ` arrays,
   `clear_socket` as it is (`ksocket.c:77,85` clears 10 bytes, not 10 ints), and S's
   timers that survive the owner.  Composes the states of `KtpTransfer` and `KtpSockets` for
   one entry.
2. `EncFile` (A3): key, file and reply in one stream without boundaries.

## 6. Not modelled, and why

PDFs (no code).  A2: stop-and-wait without retransmission has no interesting
state.  LT2: handlers share nothing.  A3: handlers share nothing either; its one
hazard, a read that returns the key with the end of the file
(`doencfileserver.c:150`), is of the kind that `Smtp` models; see the plan.

A4: reuse of a table entry by a second owner (plan), `handleclose` and the creation
of the shared segment, failures of `socket()` and `shmget()`, a process killed
inside a semaphore, a second `k_bind` of a bound socket (no application does
that), empty datagrams, reading and writing of files, log output.
`getsockname` in main gets a length that is not set at first (`initsocket.c:669`); if
it fails for that, the address compared with is not a socket's, main calls `bind()`,
and the length is set from then on: the binding is the same.  `k_bind` returns a
variable it never set (`ksocket.c:177,249`): what it returns on success is modelled
as nothing a process acts on but by closing or ending, which it may do anyway.

A5: lists of 50 tasks or more (excluded by `QueueAssumption`), messages split by
the network, what a client computes.

A6: what is in addresses, names and dates, arguments that do not parse, and mails
longer than `stdio`'s buffer, which would reach the file in pieces.
`list_emails` clears more bytes of `from` and `date` than they have
(`mysmtp_server.c:171-172`); in the build of the makefile these bytes belong to
arrays that are written before they are read again, and nothing changes.

A7: payloads, checksums, parsing of packets, and transaction ids, which neither
side compares.

LT1: input that is no number, the wording of messages, and more than 250 clients.
