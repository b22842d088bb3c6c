--------------------------------- MODULE Smtp ---------------------------------
(***************************************************************************)
(* The mail server of A6 (mysmtp_server.c: one thread per connection, one  *)
(* text file per mailbox, no lock) and its clients (mysmtp_client.c).      *)
(*                                                                         *)
(* A client sends one command and waits for the answer, except in the body *)
(* of a mail, whose lines it sends without waiting.  Messages end in a NUL *)
(* and TCP keeps no boundaries: read_message takes a message and throws    *)
(* away whatever arrived with it behind the NUL.                           *)
(*                                                                         *)
(* A line of a mailbox or a message is a record of its kind and a number;  *)
(* the number of a text line or of the final dot is the mail it was typed  *)
(* in.  Addresses of senders, client names and dates are left out.  A mail *)
(* is shorter than stdio's buffer, so that fclose writes it at once.       *)
(***************************************************************************)
EXTENDS Integers, Sequences, FiniteSets, SequencesExt,
        FiniteSetsExt, TLC

CONSTANTS
    Clients,     \* users, each with at most one connection
    Mailers,     \* those that send one mail after the other and nothing else
    Boxes,       \* recipients
    MaxMails,    \* bound: mails begun
    MaxLines,    \* bound: lines of a mail before the dot
    Unopenable,  \* those whose file cannot be opened, by their name or rights
    BodyIds      \* numbers n of lines "ID: n" a user types in a body

ASSUME SmtpAssumption ==
    /\ MaxMails \in Nat \ {0} /\ MaxLines \in Nat
    /\ BodyIds \subseteq Nat \ {0} /\ Mailers \subseteq Clients
    /\ Unopenable \subseteq Boxes /\ IsFiniteSet(Clients)

NoBox == "none"
ASSUME NoBoxAssumption == NoBox \notin Boxes

VARIABLES
    cli,         \* clients: what each is doing
    asked,       \* clients: the command it waits for, or in whose body it is
    up, down,    \* connections: messages to the server, answers to the client
    pc,          \* threads: "none", "read" or "append"
    sess,        \* threads: the local variables of handle_client
    mailbox,     \* the files
    to,          \* history: the recipient the server last accepted
    sent,        \* history: mails typed
    acked,       \* history: mails whose sender read "stored successfully"
    lost,        \* history: a reader threw bytes of this connection away
    raced        \* history: mails stored under an ID scanned too early

clientState == <<cli, asked>>
serverState == <<pc, sess, mailbox>>
history == <<to, sent, acked, lost, raced>>
vars == <<clientState, up, down, serverState, history>>

Mails == 1..MaxMails
Line(k, n) == [kind |-> k, num |-> n]
Text(m) == Line("Text", m)
Dot(m) == Line("Dot", m)
Blank == Line("Blank", 0)
BodyId(n) == Line("BodyId", n)
FileLine == [kind : {"ID", "From", "Date", "Text", "Dot", "BodyId", "Blank"},
             num : Nat]

Cmd(k, b, n) == [kind |-> k, num |-> n, box |-> b]
Commands ==
    {Cmd(k, NoBox, 0) : k \in {"HELO", "MAIL FROM", "DATA", "QUIT", "Text"}}
        \cup {Cmd("RCPT TO", b, 0) : b \in Boxes} \cup {Cmd("LIST", b, 0) : b \in Boxes}
        \cup {Cmd("GET_MAIL", b, n) : b \in Boxes, n \in Mails}
(* A body line on its way. *)
Typed(l) == Cmd(l.kind, NoBox, l.num)
(* The line that a message read in DATA mode adds to the body. *)
AsLine(msg) ==
    CASE msg.kind \in {"Text", "Dot", "BodyId", "Blank"} -> Line(msg.kind, msg.num)
      [] OTHER -> Text(0)

Answer(code, lines, end) == [code |-> code, lines |-> lines, end |-> end]

NewSession == [helo |-> FALSE, sender |-> FALSE, rcpt |-> NoBox,
               data |-> FALSE, body |-> <<>>, id |-> 0]
NoCmd == Cmd("none", NoBox, 0)

Init ==
    /\ cli = [c \in Clients |-> "gone"] /\ asked = [c \in Clients |-> NoCmd]
    /\ up = [c \in Clients |-> <<>>] /\ down = [c \in Clients |-> <<>>]
    /\ pc = [c \in Clients |-> "none"]
    /\ sess = [c \in Clients |-> NewSession]
    /\ mailbox = [b \in Boxes |-> <<>>]
    /\ to = [c \in Clients |-> NoBox] /\ sent = <<>> /\ acked = {}
    /\ lost = [c \in Clients |-> FALSE] /\ raced = {}

-----------------------------------------------------------------------------
(* Mailbox files.                                                          *)
IsId(l) == l.kind \in {"ID", "BodyId"}
IdsIn(file) == {file[i].num : i \in {j \in DOMAIN file : IsId(file[j])}}

(* MUTANT: id starts at 0.                                                 *)
NextIdFromZero(file) == 1 + Max({-1} \cup IdsIn(file))

(* MUTANT: only IDs above the one at hand raise it.                        *)
NextIdNotPast(file) == Max({1} \cup IdsIn(file))

(* The scan of store_email: one more than the largest ID in the file, be   *)
(* it that of a mail or a line of a body that looks like one.              *)
NextId(file) == 1 + Max({0} \cup IdsIn(file))

(* What store_email appends.                                               *)
Entry(id, body) ==
    <<Line("ID", id), Line("From", 0), Line("Date", 0)>> \o body \o <<Blank>>

(* MUTANT: the end of the list is sent without its NUL.                    *)
ListUnended(file) == Answer(200, <<>>, FALSE)

(* list_emails: each ID line, and the two lines behind it are skipped.     *)
List(file) ==
    LET IdLines[i \in 1..(Len(file) + 3)] ==
            IF i > Len(file) THEN <<>>
            ELSE IF IsId(file[i]) THEN <<file[i]>> \o IdLines[i + 3]
            ELSE IdLines[i + 1]
    IN  Answer(200, IdLines[1], TRUE)

(* get_email: from the first line with the ID up to the final dot, which   *)
(* carries the NUL; a line with another ID in between ends it without one. *)
(* The header "200 OK Email found", sent before every line with the ID, is *)
(* the answer's code; that it may come again within it is left out.        *)
Get(file, id) ==
    LET Named == {i \in DOMAIN file : IsId(file[i]) /\ file[i].num = id}
        from  == Min(Named)
        Stops == {i \in from..Len(file) :
                      file[i].kind = "Dot" \/ (IsId(file[i]) /\ i \notin Named)}
        last  == Min(Stops)
    IN  IF Named = {} THEN Answer(401, <<>>, TRUE)
        ELSE IF Stops = {} THEN Answer(200, SubSeq(file, from, Len(file)), FALSE)
        ELSE IF file[last].kind = "Dot"
        THEN Answer(200, SubSeq(file, from, last), TRUE)
        ELSE Answer(200, SubSeq(file, from, last - 1), FALSE)

-----------------------------------------------------------------------------
(* Clients.                                                                *)
Connect(c) ==
    /\ cli[c] = "gone" /\ pc[c] = "none"
    /\ cli' = [cli EXCEPT ![c] = "prompt"]
    /\ up' = [up EXCEPT ![c] = <<>>] /\ down' = [down EXCEPT ![c] = <<>>]
    /\ \/ pc' = [pc EXCEPT ![c] = "read"]
       \/ pc' = pc                           \* pthread_create failed: closed
    /\ sess' = [sess EXCEPT ![c] = NewSession]
    /\ UNCHANGED <<asked, mailbox, history>>

(* A message of c, if anybody reads the connection.                        *)
Sends(c, msg) ==
    up' = IF pc[c] = "none" THEN up ELSE [up EXCEPT ![c] = Append(@, msg)]

(* Bound: what the user of a mailer types after what.                      *)
Script == [none |-> "HELO", HELO |-> "MAIL FROM"] @@ ("MAIL FROM" :> "RCPT TO")
              @@ ("RCPT TO" :> "DATA") @@ ("DATA" :> "DATA")
AtPrompt(c) == IF c \in Mailers THEN Cmd(asked[c].kind, NoBox, 0) ELSE NoCmd

Command(c, cmd) ==
    /\ cli[c] = "prompt"
    /\ IF c \in Mailers THEN cmd.kind = Script[asked[c].kind]
       ELSE cmd.box \in Unopenable => cmd.kind = "LIST"            \* bound
    /\ cmd.kind = "DATA" =>
           Len(sent) + Cardinality({d \in Clients : asked[d].kind = "DATA"
                                        /\ cli[d] = "wait"}) < MaxMails
    /\ cli' = [cli EXCEPT ![c] = "wait"] /\ asked' = [asked EXCEPT ![c] = cmd]
    /\ Sends(c, cmd)
    /\ UNCHANGED <<down, serverState, history>>

(* The mail c is typing. *)
MailOf(c) == asked[c].num

(* handle_data_command: a line of the body.                                *)
BodyLine(c, l) ==
    /\ cli[c] = "body" /\ Len(sent[MailOf(c)].lines) < MaxLines
    /\ Sends(c, Typed(l))
    /\ sent' = [sent EXCEPT ![MailOf(c)].lines = Append(@, l)]
    /\ UNCHANGED <<cli, asked, down, serverState, to, acked, lost, raced>>

BodyEnd(c) ==
    /\ cli[c] = "body"
    /\ Sends(c, Typed(Dot(MailOf(c))))
    /\ sent' = [sent EXCEPT ![MailOf(c)].lines = Append(@, Dot(MailOf(c)))]
    /\ cli' = [cli EXCEPT ![c] = "ended"]
    /\ UNCHANGED <<asked, down, serverState, to, acked, lost, raced>>

(* End of input: in a body, the client waits for an answer all the same;   *)
(* at the prompt it leaves.  Left(c): c's process is gone.                 *)
Left(c) ==
    /\ cli' = [cli EXCEPT ![c] = "gone"] /\ asked' = [asked EXCEPT ![c] = NoCmd]
    /\ down' = [down EXCEPT ![c] = <<>>]
    /\ to' = [to EXCEPT ![c] = NoBox] /\ lost' = [lost EXCEPT ![c] = FALSE]
    /\ sent' = IF cli[c] \in {"body", "ended", "stuck"}
               THEN [sent EXCEPT ![MailOf(c)] = [to |-> NoBox, lines |-> <<>>]]
               ELSE sent
    /\ UNCHANGED <<up, serverState, acked, raced>>

BodyEof(c) ==
    /\ cli[c] = "body" /\ cli' = [cli EXCEPT ![c] = "stuck"]
    /\ UNCHANGED <<asked, up, down, serverState, history>>

(* It is killed, reaches the end of its input, or writes to a connection   *)
(* the server has closed.                                                  *)
Leave(c) == cli[c] # "gone" /\ Left(c)

Waiting(c) == cli[c] \in {"wait", "ended", "stuck"}
Complete(c) == {i \in DOMAIN down[c] : down[c][i].end}

(* recv returns 0: the server closed the connection.                       *)
SeesClose(c) ==
    /\ Waiting(c) /\ pc[c] = "none" /\ Complete(c) = {} /\ Left(c)

(* receive_response and the loop on DATA's answer: everything up to the    *)
(* first NUL, and whatever has arrived behind it is thrown away.  A client *)
(* that said QUIT, or is at the end of its input, is done (Leave).         *)
ReadResponse(c) ==
    /\ Waiting(c) /\ Complete(c) # {}
    /\ \E k \in Min(Complete(c))..Len(down[c]) :
           /\ down' = [down EXCEPT ![c] = SubSeq(@, k + 1, Len(@))]
           /\ lost' = [lost EXCEPT ![c] = @ \/ k > Min(Complete(c))]
    /\ LET ok == down[c][1].code = 200
       IN  /\ IF cli[c] = "wait" /\ asked[c].kind = "DATA" /\ ok
              THEN /\ cli' = [cli EXCEPT ![c] = "body"]
                   /\ asked' = [asked EXCEPT ![c].num = Len(sent) + 1]
                   /\ sent' = Append(sent, [to |-> to[c], lines |-> <<>>])
              ELSE /\ cli' = [cli EXCEPT ![c] =
                                 IF cli[c] = "stuck" \/ asked[c].kind = "QUIT"
                                 THEN "done" ELSE "prompt"]
                   /\ asked' = [asked EXCEPT ![c] = AtPrompt(c)]
                   /\ sent' = sent
           /\ to' = IF cli[c] = "wait" /\ asked[c].kind = "RCPT TO" /\ ok
                    THEN [to EXCEPT ![c] = asked[c].box] ELSE to
           /\ acked' = IF cli[c] = "ended" /\ ok /\ ~lost'[c]
                       THEN acked \cup {MailOf(c)} ELSE acked
    /\ UNCHANGED <<up, serverState, raced>>

-----------------------------------------------------------------------------
(* The server.  send to a client that is gone comes to nothing, or kills   *)
(* the process by SIGPIPE (Crash).                                         *)
Reply(c, answer) ==
    down' = IF cli[c] = "gone" THEN down ELSE [down EXCEPT ![c] = Append(@, answer)]
Ok == Answer(200, <<>>, TRUE)
Refused == Answer(403, <<>>, TRUE)

(* MUTANT: data_mode is left set when the dot has been read.               *)
EndDataStays(s, id) == [s EXCEPT !.id = id]

(* The dot: data_mode ends, and store_email scans the file.                *)
EndData(s, id) == [s EXCEPT !.data = FALSE, !.id = id]

(* A message in DATA mode.                                                 *)
DataMessage(c, msg) ==
    LET s == [sess[c] EXCEPT !.body = Append(@, AsLine(msg))]
    IN  /\ sess[c].data
        /\ IF msg.kind = "Dot"
           THEN /\ sess' = [sess EXCEPT ![c] = EndData(s, NextId(mailbox[s.rcpt]))]
                /\ pc' = [pc EXCEPT ![c] = "append"]
           ELSE sess' = [sess EXCEPT ![c] = s] /\ pc' = pc
        /\ UNCHANGED <<down, mailbox>>

Helo(c, msg) ==
    /\ msg.kind = "HELO"
    /\ sess' = [sess EXCEPT ![c].helo = TRUE]
    /\ Reply(c, Ok)
    /\ UNCHANGED <<pc, mailbox>>

NeedsHelo == {"MAIL FROM", "RCPT TO", "DATA", "LIST", "GET_MAIL"}

NoHelo(c, msg) ==
    /\ msg.kind \in NeedsHelo /\ ~sess[c].helo
    /\ Reply(c, Refused)
    /\ UNCHANGED <<sess, pc, mailbox>>

Envelope(c, msg) ==
    /\ sess[c].helo
    /\ \/ msg.kind = "MAIL FROM" /\ sess' = [sess EXCEPT ![c].sender = TRUE]
       \/ msg.kind = "RCPT TO" /\ sess' = [sess EXCEPT ![c].rcpt = msg.box]
    /\ Reply(c, Ok)
    /\ UNCHANGED <<pc, mailbox>>

BeginData(c, msg) ==
    /\ msg.kind = "DATA" /\ sess[c].helo
    /\ IF sess[c].sender /\ sess[c].rcpt # NoBox
       THEN Reply(c, Ok) /\ sess' = [sess EXCEPT ![c].data = TRUE]
       ELSE Reply(c, Refused) /\ sess' = sess
    /\ UNCHANGED <<pc, mailbox>>

(* LIST and GET_MAIL; a file that does not open is to GET_MAIL an empty    *)
(* one, and to LIST one that does not exist (ENOENT, as for a name with a  *)
(* slash) or an error.                                                     *)
Look(c, msg) ==
    /\ sess[c].helo
    /\ \/ /\ msg.kind = "LIST"
          /\ \/ msg.box \notin Unopenable /\ Reply(c, List(mailbox[msg.box]))
             \/ /\ msg.box \in Unopenable
                /\ \E code \in {200, 500} : Reply(c, Answer(code, <<>>, TRUE))
       \/ /\ msg.kind = "GET_MAIL"
          /\ Reply(c, Get(mailbox[msg.box], msg.num))
    /\ UNCHANGED <<sess, pc, mailbox>>

Quit(c, msg) ==
    /\ msg.kind = "QUIT"
    /\ Reply(c, Ok)
    /\ pc' = [pc EXCEPT ![c] = "none"] /\ sess' = [sess EXCEPT ![c] = NewSession]
    /\ UNCHANGED mailbox

Invalid(c, msg) ==
    /\ msg.kind \notin NeedsHelo \cup {"HELO", "QUIT"}
    /\ Reply(c, Answer(400, <<>>, TRUE))
    /\ UNCHANGED <<sess, pc, mailbox>>

(* What may be left of a message whose beginning was thrown away.          *)
Fragments(msg) ==
    CASE msg.kind = "Dot" -> {Typed(Blank)}
      [] msg.kind = "Text" -> {msg, [msg EXCEPT !.kind = "Dot"]}
      [] OTHER -> {Typed(Text(0))}

(* read_message: what stays in the socket when the message at the head is  *)
(* taken together with those, whole or not, that arrived behind it.        *)
Remaining(msgs) ==
    UNION {LET rest == SubSeq(msgs, k + 1, Len(msgs))
           IN  {rest} \cup IF rest = <<>> THEN {}
                           ELSE {<<f>> \o Tail(rest) : f \in Fragments(rest[1])} :
           k \in DOMAIN msgs}

ReadMessage(c) ==
    /\ pc[c] = "read" /\ up[c] # <<>>
    /\ LET msg == Head(up[c])
       IN  \/ DataMessage(c, msg)
           \/ /\ ~sess[c].data
              /\ \/ Helo(c, msg) \/ NoHelo(c, msg) \/ Envelope(c, msg)
                 \/ BeginData(c, msg) \/ Look(c, msg) \/ Quit(c, msg)
                 \/ Invalid(c, msg)
    /\ \E rest \in Remaining(up[c]) :
           /\ up' = [up EXCEPT ![c] = IF pc'[c] = "none" THEN <<>> ELSE rest]
           /\ lost' = [lost EXCEPT ![c] =
                            @ \/ (cli[c] # "gone" /\ rest # Tail(up[c]))]
    /\ UNCHANGED <<clientState, to, sent, acked, raced>>

(* MUTANT: email_body is not cleared.                                      *)
StoredKeeps(s) == [s EXCEPT !.id = 0]

Stored(s) == [s EXCEPT !.body = <<>>, !.id = 0]

(* The rest of store_email, and the answer.  If the file does not open,    *)
(* store_email returns, and the answer is the same.                        *)
Store(c) ==
    LET s == sess[c]
        m == Last(s.body).num
    IN  /\ pc[c] = "append"
        /\ \/ /\ s.rcpt \notin Unopenable
              /\ mailbox' = [mailbox EXCEPT ![s.rcpt] = @ \o Entry(s.id, s.body)]
              /\ raced' = IF s.id = NextId(mailbox[s.rcpt]) THEN raced
                           ELSE raced \cup {m}
           \/ s.rcpt \in Unopenable /\ UNCHANGED <<mailbox, raced>>
        /\ sess' = [sess EXCEPT ![c] = Stored(s)]
        /\ pc' = [pc EXCEPT ![c] = "read"]
        /\ Reply(c, Ok)
        /\ UNCHANGED <<clientState, up, to, sent, acked, lost>>

(* recv returns 0 or an error.                                             *)
EndSession(c) ==
    /\ pc[c] = "read" /\ up[c] = <<>> /\ cli[c] = "gone"
    /\ pc' = [pc EXCEPT ![c] = "none"] /\ sess' = [sess EXCEPT ![c] = NewSession]
    /\ UNCHANGED <<clientState, up, down, mailbox, history>>

(* The process is killed, by its user or by SIGPIPE, and started again;    *)
(* the files stay.                                                         *)
Crash ==
    /\ pc' = [c \in Clients |-> "none"]
    /\ sess' = [c \in Clients |-> NewSession]
    /\ up' = [c \in Clients |-> <<>>]
    /\ UNCHANGED <<clientState, down, mailbox, history>>

ServerStep(c) == ReadMessage(c) \/ Store(c) \/ EndSession(c)

UserStep(c) ==
    \/ Connect(c) \/ BodyEnd(c) \/ BodyEof(c) \/ Leave(c)
    \/ \E cmd \in Commands : Command(c, cmd)
    \/ cli[c] = "body"
       /\ \E l \in {Text(MailOf(c))} \cup {BodyId(n) : n \in BodyIds} : BodyLine(c, l)

Next ==
    \/ \E c \in Clients :
           UserStep(c) \/ SeesClose(c) \/ ReadResponse(c) \/ ServerStep(c)
    \/ Crash

Spec == Init /\ [][Next]_vars

-----------------------------------------------------------------------------
(* The type invariant; in particular IDs start at 1.                       *)
TypeOK ==
    /\ cli \in [Clients -> {"gone", "prompt", "wait", "body", "ended", "stuck", "done"}]
    /\ pc \in [Clients -> {"none", "read", "append"}]
    /\ lost \in [Clients -> BOOLEAN]
    /\ acked \subseteq Mails
    /\ \A c \in Clients :
           /\ asked[c].num \in 0..MaxMails
           /\ \A i \in DOMAIN sess[c].body : sess[c].body[i] \in FileLine
           /\ sess[c].rcpt \in Boxes \cup {NoBox}
           /\ pc[c] = "append" => sess[c].rcpt # NoBox /\ sess[c].id > 0
    /\ \A b \in Boxes : \A i \in DOMAIN mailbox[b] :
           /\ mailbox[b][i] \in FileLine
           /\ mailbox[b][i].kind = "ID" => mailbox[b][i].num > 0

DotsOf(b, m) == {i \in DOMAIN mailbox[b] : mailbox[b][i] = Dot(m)}
EntryStart(file, i) == Max({j \in 1..i : file[j].kind = "ID"})

(* A mail whose sender was told "Message stored successfully" is in the    *)
(* file of its recipient, once, with the lines its sender typed, whatever  *)
(* other threads do and whoever dies; unless read_message threw part of it *)
(* away (acked).  If its file does not open it is nowhere, although the    *)
(* answer is the same.                                                     *)
AckedIsStored ==
    \A m \in acked : \A b \in Boxes :
        /\ Cardinality(DotsOf(b, m)) = IF b = sent[m].to /\ b \notin Unopenable THEN 1 ELSE 0
        /\ \A i \in DotsOf(b, m) :
               LET s == EntryStart(mailbox[b], i)
               IN  SubSeq(mailbox[b], s, i + 1)
                       = Entry(mailbox[b][s].num, sent[m].lines)

(* On a connection that lost nothing, client and thread agree on whether a *)
(* message is a command or a line of a mail, and no answer is ever left    *)
(* over to be taken for that of the next command.                          *)
InStep ==
    \A c \in Clients : ~lost[c] =>
        /\ sess[c].data => \/ cli[c] \in {"gone", "body", "ended", "stuck"}
                           \/ cli[c] = "wait" /\ asked[c].kind = "DATA"
        /\ cli[c] = "prompt" => /\ up[c] = <<>> /\ down[c] = <<>>
                                /\ ~sess[c].data /\ pc[c] # "append"
        /\ cli[c] = "body" => /\ down[c] = <<>>
                              /\ sess[c].data \/ pc[c] = "none"
        /\ Waiting(c) => Len(down[c]) <= 1

(* GET_MAIL of a stored mail's ID returns that mail, whole and ended, and  *)
(* LIST names it; unless another thread stored one in the same box between *)
(* its scan and its append, or a body has a line like an ID's.             *)
Retrievable ==
    \A b \in Boxes :
        LET file == mailbox[b]
        IN  (\A i \in DOMAIN file : file[i].kind # "BodyId") =>
                \A i \in DOMAIN file :
                    LET s == EntryStart(file, i)
                    IN  (file[i].kind = "Dot" /\ file[i].num \notin raced) =>
                            /\ Get(file, file[s].num)
                                   = Answer(200, SubSeq(file, s, i), TRUE)
                            /\ file[s] \in Range(List(file).lines)

(* c's GET_MAIL has stopped at a line of a body like an ID's: its answer   *)
(* is there, short of its NUL.                                             *)
CutAnswer(c) ==
    LET file == mailbox[asked[c].box]
    IN  /\ asked[c].kind = "GET_MAIL"
        /\ \E i \in DOMAIN file, j \in DOMAIN file :
               /\ i < j /\ file[j].kind = "BodyId"
               /\ down[c] = <<Answer(200, SubSeq(file, i, j - 1), FALSE)>>

(* c's input has ended in a body: it waits for an answer, its thread, in   *)
(* DATA mode, for the dot.                                                 *)
EofInBody(c) == cli[c] = "stuck" /\ sess[c].data

(* A client that waits has its answer on the way (its command, the thread  *)
(* at work, the whole answer) or the end of the connection.  It and its    *)
(* thread wait for each other for ever in three cases only: read_message   *)
(* or receive_response threw bytes of the connection away, its answer is   *)
(* cut, or its input has ended in a body.                                  *)
NobodyWaitsForEver ==
    \A c \in Clients :
        (Waiting(c) /\ ~lost[c]) =>
            \/ up[c] # <<>> \/ pc[c] # "read" \/ Complete(c) # {}
            \/ CutAnswer(c) \/ EofInBody(c)
=============================================================================
