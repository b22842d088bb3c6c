------------------------------ MODULE SmtpProofs ------------------------------
(***************************************************************************)
(* Proofs about Smtp, for any number of clients, mailboxes, mails and      *)
(* lines of a mail.                                                        *)
(***************************************************************************)
EXTENDS Smtp, FiniteSetTheorems, SequenceTheorems, WellFoundedInduction, TLAPS

-----------------------------------------------------------------------------
(* The data.                                                               *)

Kinds == {"HELO", "MAIL FROM", "RCPT TO", "DATA", "LIST", "GET_MAIL", "QUIT",
          "Text", "Dot", "BodyId", "Blank", "none"}
Message == [kind : Kinds, num : Nat, box : Boxes \cup {NoBox}]
MailLine == [kind : {"Text", "Dot", "BodyId", "Blank"}, num : Nat]
Session == [helo : BOOLEAN, sender : BOOLEAN, rcpt : Boxes \cup {NoBox},
            data : BOOLEAN, body : Seq(MailLine), id : Nat]
Mail == [to : Boxes \cup {NoBox}, lines : Seq(MailLine)]

(* A message whose box matters has one.                                    *)
Sound == {m \in Message : m.kind = "GET_MAIL" => m.box \in Boxes}

-----------------------------------------------------------------------------
(* Sequences.                                                              *)

(* The answer to a client that has none yet is its only one.               *)
LEMMA AppendToEmpty ==
    ASSUME NEW x
    PROVE  Append(<<>>, x) = <<x>>
  OBVIOUS

(* What concatenation of two sequences of lines is.                        *)
LEMMA Concatenated ==
    ASSUME NEW s \in Seq(FileLine), NEW t \in Seq(FileLine)
    PROVE  /\ s \o t \in Seq(FileLine)
           /\ Len(s) \in Nat /\ Len(t) \in Nat /\ Len(s \o t) = Len(s) + Len(t)
           /\ \A i \in 1..Len(s) : (s \o t)[i] = s[i]
           /\ \A i \in 1..Len(t) : (s \o t)[Len(s) + i] = t[i]
<1>1. /\ s \o t \in Seq(FileLine)
      /\ Len(s \o t) = Len(s) + Len(t)
      /\ \A i \in 1 .. Len(s) + Len(t) : (s \o t)[i] =
                     IF i <= Len(s) THEN s[i] ELSE t[i - Len(s)]
  BY ConcatProperties, Zenon
<1>2. Len(s) \in Nat /\ Len(t) \in Nat
  BY LenProperties, Zenon
<1> DEFINE u == s \o t
<1> HIDE DEF u
<1>3. \A i \in 1..Len(s) : u[i] = s[i]
  BY <1>1, <1>2 DEF u
<1>4. \A i \in 1..Len(t) : u[Len(s) + i] = t[i]
  <2> SUFFICES ASSUME NEW i \in 1..Len(t) PROVE u[Len(s) + i] = t[i]
    OBVIOUS
  <2>1. Len(s) + i \in 1..Len(s) + Len(t) /\ ~(Len(s) + i <= Len(s))
        /\ Len(s) + i - Len(s) = i
    BY <1>2
  <2>2. \A k \in 1..Len(s) + Len(t) : u[k] = IF k <= Len(s) THEN s[k] ELSE t[k - Len(s)]
    BY <1>1, Zenon DEF u
  <2>3. u[Len(s) + i] = t[Len(s) + i - Len(s)]
    BY <2>1, <2>2
  <2> QED
    BY <2>1, <2>3
<1> QED
  BY <1>1, <1>2, <1>3, <1>4, Zenon DEF u

(* A file is a sequence of lines.                                          *)
LEMMA FileLines ==
    ASSUME NEW file \in Seq(FileLine)
    PROVE  /\ Len(file) \in Nat /\ DOMAIN file = 1..Len(file)
           /\ \A i \in 1..Len(file) : file[i] \in FileLine /\ file[i].num \in Nat
<1>1. Len(file) \in Nat /\ DOMAIN file = 1..Len(file)
  BY LenProperties, Zenon
<1>2. \A i \in 1..Len(file) : file[i] \in FileLine
  BY ElementOfSeq, Zenon
<1>3. \A l \in FileLine : l.num \in Nat
  BY DEF FileLine
<1> QED
  BY <1>1, <1>2, <1>3, Zenon

(* The file behind store_email's fprintf calls, line by line.              *)
LEMMA EntryAppended ==
    ASSUME NEW file \in Seq(FileLine), NEW id \in Nat, NEW body \in Seq(MailLine)
    PROVE  LET f == file \o Entry(id, body)
               n == Len(file)
               k == Len(body)
           IN  /\ f \in Seq(FileLine) /\ n \in Nat /\ k \in Nat
               /\ Len(f) = n + k + 4
               /\ \A i \in 1..n : f[i] = file[i]
               /\ f[n + 1] = Line("ID", id)
               /\ f[n + 2] = Line("From", 0) /\ f[n + 3] = Line("Date", 0)
               /\ \A i \in 1..k : f[n + 3 + i] = body[i]
               /\ f[n + k + 4] = Blank
<1> DEFINE head == <<Line("ID", id), Line("From", 0), Line("Date", 0)>>
<1>1. head \in Seq(FileLine)
  BY DEF Line, FileLine
<1>2. /\ Len(head) = 3 /\ head[1] = Line("ID", id) /\ head[2] = Line("From", 0)
      /\ head[3] = Line("Date", 0)
  OBVIOUS
<1>3. body \in Seq(FileLine)
  <2>1. MailLine \subseteq FileLine
    BY DEF MailLine, FileLine
  <2> QED
    BY <2>1, SeqMonotonic, Zenon
<1>4. <<Blank>> \in Seq(FileLine) /\ Len(<<Blank>>) = 1 /\ <<Blank>>[1] = Blank
  BY DEF Blank, Line, FileLine
<1> DEFINE tail == body \o <<Blank>>
<1>5. /\ tail \in Seq(FileLine) /\ Len(tail) = Len(body) + 1
      /\ \A i \in 1..Len(body) : tail[i] = body[i]
      /\ tail[Len(body) + 1] = Blank
  <2> HIDE DEF Blank
  <2> QED
    BY <1>3, <1>4
<1> HIDE DEF head, tail
<1> DEFINE new == head \o tail
<1>6. /\ new \in Seq(FileLine) /\ Len(new) = 3 + Len(tail)
      /\ \A i \in 1..3 : new[i] = head[i]
      /\ \A i \in 1..Len(tail) : new[3 + i] = tail[i]
  <2>1. tail \in Seq(FileLine) /\ head \in Seq(FileLine) /\ Len(head) = 3
    BY <1>1, <1>2, <1>5
  <2>2. /\ new \in Seq(FileLine) /\ Len(new) = Len(head) + Len(tail)
        /\ \A i \in 1..Len(head) : new[i] = head[i]
        /\ \A i \in 1..Len(tail) : new[Len(head) + i] = tail[i]
    BY <2>1, Concatenated, Zenon
  <2> HIDE DEF new
  <2> QED
    BY <2>1, <2>2
<1>7. Entry(id, body) = new
  <2>1. Entry(id, body) = (head \o body) \o <<Blank>>
    BY Zenon DEF Entry, head
  <2>2. (head \o body) \o <<Blank>> = head \o (body \o <<Blank>>)
    BY <1>1, <1>3, <1>4, ConcatAssociative
  <2> QED
    BY <2>1, <2>2, Zenon DEF tail
<1> DEFINE f == file \o new
<1> HIDE DEF new
<1>8. /\ f \in Seq(FileLine) /\ Len(f) = Len(file) + Len(new)
      /\ \A i \in 1..Len(file) : f[i] = file[i]
      /\ \A i \in 1..Len(new) : f[Len(file) + i] = new[i]
  BY <1>6, Concatenated, Zenon
<1>9. Len(body) \in Nat /\ Len(file) \in Nat
  BY LenProperties, Zenon
<1> HIDE DEF f
<1>10. \A i \in 1..Len(body) : f[Len(file) + 3 + i] = body[i]
  <2> SUFFICES ASSUME NEW i \in 1..Len(body)
               PROVE  f[Len(file) + 3 + i] = body[i]
    OBVIOUS
  <2>1. f[Len(file) + (3 + i)] = new[3 + i] /\ new[3 + i] = tail[i]
    BY <1>5, <1>6, <1>8, <1>9, SMTT(60)
  <2> QED
    BY <1>5, <1>9, <2>1
<1>11. /\ f[Len(file) + 1] = head[1] /\ f[Len(file) + 2] = head[2]
       /\ f[Len(file) + 3] = head[3]
  BY <1>5, <1>6, <1>8, <1>9
<1>12. f[Len(file) + Len(body) + 4] = Blank
  <2>1. f[Len(file) + (3 + (Len(body) + 1))] = new[3 + (Len(body) + 1)]
        /\ new[3 + (Len(body) + 1)] = tail[Len(body) + 1]
    BY <1>5, <1>6, <1>8, <1>9, SMTT(60)
  <2> QED
    BY <1>5, <1>9, <2>1
<1>13. Len(f) = Len(file) + Len(body) + 4
  BY <1>5, <1>6, <1>8, <1>9
<1>14. file \o Entry(id, body) = f
  BY <1>7, Zenon DEF f
<1> QED
  BY <1>2, <1>8, <1>9, <1>10, <1>11, <1>12, <1>13, <1>14, Zenon

(* A file has a largest ID, or none: the maximum that store_email keeps    *)
(* while it scans.                                                         *)
LEMMA LargestId ==
    ASSUME NEW file \in Seq(FileLine)
    PROVE  \E m \in {0} \cup IdsIn(file) : \A x \in {0} \cup IdsIn(file) : m >= x
<1> DEFINE Ids(k) == {0} \cup {file[i].num : i \in {j \in 1..k : IsId(file[j])}}
           Has(k) == \E m \in Ids(k) : \A x \in Ids(k) : m >= x
           Bad == {k \in 0..Len(file) : ~Has(k)}
<1>1. Len(file) \in Nat /\ DOMAIN file = 1..Len(file)
      /\ \A i \in 1..Len(file) : file[i].num \in Nat
  BY FileLines, Zenon
<1>2. SUFFICES ASSUME Bad # {} PROVE FALSE
  <2>1. Len(file) \in 0..Len(file)
    BY <1>1
  <2>2. Has(Len(file))
    BY <1>2, <2>1
  <2>3. Ids(Len(file)) = {0} \cup IdsIn(file)
    BY <1>1 DEF IdsIn
  <2> QED
    BY <2>2, <2>3
<1>3. \A x, y \in Nat : x < y => <<x, y>> \in OpToRel(<, Nat)
  BY Zenon DEF OpToRel
<1>4. Bad \subseteq Nat
  BY <1>1
<1>5. PICK k \in Bad : \A b \in Bad : ~(<<b, k>> \in OpToRel(<, Nat))
  BY <1>2, <1>4, NatLessThanWellFounded, WFMin
<1>6. \A b \in Bad : ~(b < k)
  BY <1>3, <1>4, <1>5, Zenon
<1>7. k # 0
  <2>1. Ids(0) = {0}
    OBVIOUS
  <2>2. Has(0)
    BY <2>1
  <2> QED
    BY <2>2
<1>8. k - 1 \in 0..Len(file) /\ k \in 1..Len(file) /\ k - 1 < k
  BY <1>1, <1>7
<1>9. Has(k - 1)
  <2> HIDE DEF Has
  <2> QED
    BY <1>6, <1>8
<1>10. Has(k)
  <2>1. PICK m \in Ids(k - 1) : \A x \in Ids(k - 1) : m >= x
    BY <1>9
  <2>2. m \in Nat /\ file[k].num \in Nat /\ \A x \in Ids(k - 1) : x \in Nat
    BY <1>1, <1>8
  <2>3. 1..k = 1..(k - 1) \cup {k}
    BY <1>8
  <2>4. CASE ~IsId(file[k])
    <3>1. Ids(k) = Ids(k - 1)
      BY <2>3, <2>4
    <3> QED
      BY <1>9, <3>1
  <2>5. CASE IsId(file[k])
    <3>1. Ids(k) = Ids(k - 1) \cup {file[k].num}
      BY <2>3, <2>5
    <3> HIDE DEF Ids
    <3>2. CASE file[k].num > m
      BY <2>1, <2>2, <3>1, <3>2
    <3>3. CASE ~(file[k].num > m)
      BY <2>1, <2>2, <3>1, <3>3
    <3> QED
      BY <3>2, <3>3
  <2> QED
    BY <2>4, <2>5
<1> QED
  BY <1>10

(* The ID of a new mail is positive and above all IDs in the file.         *)
LEMMA NextIdIsNew ==
    ASSUME NEW file \in Seq(FileLine)
    PROVE  /\ NextId(file) \in Nat \ {0}
           /\ \A i \in 1..Len(file) : IsId(file[i]) => file[i].num < NextId(file)
<1> DEFINE S == {0} \cup IdsIn(file)
<1>1. Len(file) \in Nat /\ DOMAIN file = 1..Len(file)
      /\ \A i \in 1..Len(file) : file[i].num \in Nat
  BY FileLines, Zenon
<1>2. S \subseteq Nat
  BY <1>1 DEF IdsIn
<1>3. \E m \in S : \A x \in S : m >= x
  BY LargestId
<1>4. Max(S) \in S /\ \A x \in S : Max(S) >= x
  <2> HIDE DEF S
  <2> QED
    BY <1>3, Zenon DEF Max
<1>5. NextId(file) = 1 + Max(S)
  BY Zenon DEF NextId
<1>6. \A i \in 1..Len(file) : IsId(file[i]) => file[i].num \in S
  BY <1>1 DEF IdsIn
<1> HIDE DEF S
<1>7. Max(S) \in Nat
  BY <1>2, <1>4
<1>8. \A i \in 1..Len(file) : IsId(file[i]) => Max(S) >= file[i].num
  BY <1>4, <1>6, Zenon
<1> QED
  BY <1>1, <1>5, <1>7, <1>8

-----------------------------------------------------------------------------
(* Messages.                                                               *)

(* Numbers of mails travel in text lines and final dots.                   *)
Numbered(m) == m.kind \in {"Text", "Dot"}

(* A message in DATA mode becomes a line of the body, a dot only if it is  *)
(* one, and with no new number.                                            *)
LEMMA AsLineIsLine ==
    ASSUME NEW m \in Message
    PROVE  /\ AsLine(m) \in MailLine
           /\ AsLine(m).kind = "Dot" <=> m.kind = "Dot"
           /\ Numbered(AsLine(m)) =>
                  AsLine(m).num = 0 \/ (Numbered(m) /\ AsLine(m).num = m.num)
<1>1. m.kind \in Kinds /\ m.num \in Nat
  BY DEF Message
<1>2. CASE m.kind \in {"Text", "Dot", "BodyId", "Blank"}
  <2>1. AsLine(m) = [kind |-> m.kind, num |-> m.num]
    BY <1>2 DEF AsLine, Line
  <2> QED
    BY <1>1, <1>2, <2>1 DEF MailLine, Numbered
<1>3. CASE m.kind \notin {"Text", "Dot", "BodyId", "Blank"}
  <2>1. AsLine(m) = [kind |-> "Text", num |-> 0]
    BY <1>3 DEF AsLine, Line, Text
  <2> QED
    BY <1>1, <1>3, <2>1 DEF MailLine
<1> QED
  BY <1>2, <1>3

(* What is left of a message is a message, with no new number.             *)
LEMMA FragmentIsMessage ==
    ASSUME NEW m \in Sound, NEW f \in Fragments(m)
    PROVE  /\ f \in Sound
           /\ Numbered(f) => f.num = 0 \/ (Numbered(m) /\ f.num = m.num)
<1>1. m.kind \in Kinds /\ m.num \in Nat /\ m.box \in Boxes \cup {NoBox}
  BY DEF Message, Sound
<1>2. CASE m.kind = "Dot"
  <2>1. f = [kind |-> "Blank", num |-> 0, box |-> NoBox]
    BY <1>2 DEF Fragments, Typed, Blank, Line, Cmd
  <2> QED
    BY <2>1 DEF Sound, Message, Kinds, Numbered
<1>3. CASE m.kind = "Text"
  <2>1. f = m \/ f = [m EXCEPT !.kind = "Dot"]
    BY <1>3 DEF Fragments
  <2>2. m = [kind |-> m.kind, num |-> m.num, box |-> m.box]
    BY DEF Sound, Message
  <2>3. [m EXCEPT !.kind = "Dot"] = [kind |-> "Dot", num |-> m.num, box |-> m.box]
    BY <2>2
  <2> QED
    BY <1>1, <1>3, <2>1, <2>3 DEF Sound, Message, Kinds, Numbered
<1>4. CASE m.kind \notin {"Text", "Dot"}
  <2>1. f = [kind |-> "Text", num |-> 0, box |-> NoBox]
    BY <1>4 DEF Fragments, Typed, Text, Line, Cmd
  <2> QED
    BY <2>1 DEF Sound, Message, Kinds
<1> QED
  BY <1>2, <1>3, <1>4

(* A queue of messages without its first.                                  *)
LEMMA TailOfMessages ==
    ASSUME NEW S, NEW s \in Seq(S), s # <<>>
    PROVE  /\ Len(s) \in Nat \ {0} /\ DOMAIN s = 1..Len(s)
           /\ Head(s) = s[1] /\ Head(s) \in S
           /\ Tail(s) \in Seq(S) /\ Len(Tail(s)) = Len(s) - 1
           /\ DOMAIN Tail(s) = 1..(Len(s) - 1)
           /\ \A i \in 1..(Len(s) - 1) : Tail(s)[i] = s[i + 1]
  OBVIOUS

(* A queue of messages without its first k.                                *)
LEMMA SuffixOf ==
    ASSUME NEW S, NEW s \in Seq(S), NEW k \in 1..Len(s)
    PROVE  LET r == SubSeq(s, k + 1, Len(s))
           IN  /\ r \in Seq(S) /\ Len(r) = Len(s) - k
               /\ \A i \in 1..Len(r) : r[i] = s[k + i] /\ k + i \in 1..Len(s)
  OBVIOUS

(* What read_message leaves behind: fewer messages than there were, each   *)
(* of them one of those, or a fragment of one.                             *)
LEMMA RemainingRest ==
    ASSUME NEW s \in Seq(Sound), NEW rest \in Remaining(s)
    PROVE  /\ rest \in Seq(Sound)
           /\ \A i \in DOMAIN rest : \E j \in DOMAIN s :
                  rest[i] = s[j] \/ rest[i] \in Fragments(s[j])
<1>1. Len(s) \in Nat /\ DOMAIN s = 1..Len(s) /\ \A j \in 1..Len(s) : s[j] \in Sound
  BY LenProperties, ElementOfSeq, Zenon
<1>2. PICK k \in 1..Len(s) :
          LET r == SubSeq(s, k + 1, Len(s))
          IN  rest \in {r} \cup IF r = <<>> THEN {}
                                ELSE {<<f>> \o Tail(r) : f \in Fragments(r[1])}
  BY <1>1, Zenon DEF Remaining
<1> DEFINE r == SubSeq(s, k + 1, Len(s))
<1>3. /\ r \in Seq(Sound) /\ Len(r) = Len(s) - k
      /\ \A i \in 1..Len(r) : r[i] = s[k + i] /\ k + i \in 1..Len(s)
  BY SuffixOf, Zenon
<1>4. Len(r) \in Nat /\ DOMAIN r = 1..Len(r)
  BY <1>3, LenProperties, Zenon
<1>5. rest = r \/ (r # <<>> /\ \E f \in Fragments(r[1]) : rest = <<f>> \o Tail(r))
  BY <1>2, Zenon
<1> HIDE DEF r
<1>6. CASE rest = r
  BY <1>1, <1>3, <1>4, <1>6
<1>7. CASE r # <<>> /\ \E f \in Fragments(r[1]) : rest = <<f>> \o Tail(r)
  <2>1. PICK f \in Fragments(r[1]) : rest = <<f>> \o Tail(r)
    BY <1>7
  <2>2. /\ Len(r) \in Nat \ {0} /\ r[1] \in Sound
        /\ Tail(r) \in Seq(Sound) /\ Len(Tail(r)) = Len(r) - 1
        /\ \A i \in 1..(Len(r) - 1) : Tail(r)[i] = r[i + 1]
    BY <1>3, <1>7, TailOfMessages
  <2>3. f \in Sound
    BY <2>2, FragmentIsMessage
  <2> DEFINE t == Tail(r)
  <2> HIDE DEF t
  <2>4. /\ rest \in Seq(Sound) /\ DOMAIN rest = 1..Len(r) /\ rest[1] = f
        /\ \A i \in 2..Len(r) : rest[i] = t[i - 1]
    BY <2>1, <2>2, <2>3 DEF t
  <2>5. \A i \in 2..Len(r) : rest[i] = r[i] /\ i \in 1..Len(r)
    BY <2>2, <2>4 DEF t
  <2>6. \A i \in 2..Len(r) : rest[i] = s[k + i] /\ k + i \in DOMAIN s
    BY <1>1, <1>3, <2>5
  <2>7. rest[1] \in Fragments(s[k + 1]) /\ k + 1 \in DOMAIN s
    <3>1. 1 \in 1..Len(r)
      BY <2>2
    <3>2. r[1] = s[k + 1] /\ k + 1 \in 1..Len(s)
      BY <1>3, <3>1
    <3> QED
      BY <1>1, <2>4, <3>2, Zenon
  <2>8. \A i \in DOMAIN rest : i = 1 \/ i \in 2..Len(r)
    BY <1>4, <2>4
  <2> QED
    BY <2>4, <2>6, <2>7, <2>8, Zenon
<1> QED
  BY <1>5, <1>6, <1>7

-----------------------------------------------------------------------------
(* Types.                                                                  *)

CliStates == {"gone", "prompt", "wait", "body", "ended", "stuck", "done"}

ClientTypes ==
    /\ cli \in [Clients -> CliStates]
    /\ asked \in [Clients -> Message]
    /\ to \in [Clients -> Boxes \cup {NoBox}]
    /\ lost \in [Clients -> BOOLEAN]
ConnectionTypes == up \in [Clients -> Seq(Sound)] /\ DOMAIN down = Clients
ServerTypes ==
    /\ pc \in [Clients -> {"none", "read", "append"}]
    /\ sess \in [Clients -> Session]
    /\ mailbox \in [Boxes -> Seq(FileLine)]
Typing == ClientTypes /\ ConnectionTypes /\ ServerTypes /\ sent \in Seq(Mail)

(* Commands and typed lines are messages.                                  *)
LEMMA CmdType ==
    ASSUME NEW k \in Kinds, NEW b \in Boxes \cup {NoBox}, NEW n \in Nat,
           k = "GET_MAIL" => b \in Boxes
    PROVE  /\ Cmd(k, b, n) \in Sound /\ Cmd(k, b, n).kind = k
           /\ Cmd(k, b, n).num = n /\ Cmd(k, b, n).box = b
<1>1. Cmd(k, b, n) = [kind |-> k, num |-> n, box |-> b]
  BY DEF Cmd
<1>2. Cmd(k, b, n) \in Message /\ Cmd(k, b, n).kind = k
  BY <1>1 DEF Message
<1> QED
  BY <1>1, <1>2 DEF Sound

(* A command is a message; it has no number, unless it is GET_MAIL, whose  *)
(* number is that of a mail.                                               *)
LEMMA CommandFields ==
    \A m \in Commands : /\ m \in Sound /\ m.num \in 0..MaxMails
                        /\ m.num = 0 \/ m.kind = "GET_MAIL"
<1> DEFINE Plain == {Cmd(k, NoBox, 0) : k \in {"HELO", "MAIL FROM", "DATA", "QUIT", "Text"}}
           Rcpt == {Cmd("RCPT TO", b, 0) : b \in Boxes}
           Listing == {Cmd("LIST", b, 0) : b \in Boxes}
           Getting == {Cmd("GET_MAIL", b, n) : b \in Boxes, n \in Mails}
           Right(x) == /\ x \in Sound /\ x.num \in 0..MaxMails
                       /\ x.num = 0 \/ x.kind = "GET_MAIL"
<1>1. /\ Mails \subseteq Nat /\ 0 \in Nat /\ NoBox \in Boxes \cup {NoBox}
      /\ \A b \in Boxes : b \in Boxes \cup {NoBox}
      /\ "RCPT TO" \in Kinds /\ "LIST" \in Kinds /\ "GET_MAIL" \in Kinds
      /\ 0 \in 0..MaxMails /\ \A n \in Mails : n \in 0..MaxMails
  BY SmtpAssumption DEF Mails, Kinds
<1>2. ASSUME NEW x \in Plain PROVE Right(x)
  <2>1. PICK k \in {"HELO", "MAIL FROM", "DATA", "QUIT", "Text"} : x = Cmd(k, NoBox, 0)
    BY <1>2
  <2>2. k \in Kinds /\ k # "GET_MAIL"
    BY DEF Kinds
  <2> QED
    <3>1. x \in Sound
      BY <1>1, <2>1, <2>2, CmdType, Zenon
    <3> HIDE DEF Plain
    <3>2. x.num = 0
      BY <2>1 DEF Cmd
    <3> QED
      BY <1>1, <2>2, <3>1, <3>2, Zenon
<1>3. ASSUME NEW x \in Rcpt PROVE Right(x)
  <2>1. PICK b \in Boxes : x = Cmd("RCPT TO", b, 0)
    BY <1>3
  <2> QED
    <3>1. x \in Sound
      BY <1>1, <2>1, CmdType, Zenon
    <3> HIDE DEF Rcpt
    <3>2. x.num = 0
      BY <2>1 DEF Cmd
    <3> QED
      BY <1>1, <3>1, <3>2, Zenon
<1>4. ASSUME NEW x \in Listing PROVE Right(x)
  <2>1. PICK b \in Boxes : x = Cmd("LIST", b, 0)
    BY <1>4
  <2> QED
    <3>1. x \in Sound
      BY <1>1, <2>1, CmdType, Zenon
    <3> HIDE DEF Listing
    <3>2. x.num = 0
      BY <2>1 DEF Cmd
    <3> QED
      BY <1>1, <3>1, <3>2, Zenon
<1>5. ASSUME NEW x \in Getting PROVE Right(x)
  <2>1. PICK b \in Boxes, n \in Mails : x = Cmd("GET_MAIL", b, n)
    BY <1>5
  <2> HIDE DEF Getting
  <2>2. n \in Nat /\ n \in 0..MaxMails /\ b \in Boxes \cup {NoBox}
    BY <1>1
  <2> QED
    <3>1. x \in Sound
      BY <1>1, <2>1, <2>2, CmdType, Zenon
    <3> HIDE DEF Getting
    <3>2. x.num = n /\ x.kind = "GET_MAIL"
      BY <2>1 DEF Cmd
    <3> QED
      BY <1>1, <2>2, <3>1, <3>2, Zenon
<1>6. Commands = Plain \cup Rcpt \cup Listing \cup Getting
  BY DEF Commands
<1> HIDE DEF Plain, Rcpt, Listing, Getting
<1> HIDE DEF Right
<1>7. \A m \in Commands : Right(m)
  BY <1>2, <1>3, <1>4, <1>5, <1>6
<1> QED
  BY <1>7, Zenon DEF Right

(* A command is a message with a number within the bound.                  *)
LEMMA CommandTypes == \A m \in Commands : m \in Sound /\ m.num \in 0..MaxMails
  BY CommandFields, Zenon

(* A line of a body is the same line when it is read.                      *)
LEMMA TypedLine ==
    ASSUME NEW l \in MailLine
    PROVE  Typed(l) \in Sound /\ AsLine(Typed(l)) = l /\ Typed(l).kind = l.kind
           /\ Typed(l).num = l.num
<1>1. l.kind \in {"Text", "Dot", "BodyId", "Blank"} /\ l.num \in Nat
      /\ l = [kind |-> l.kind, num |-> l.num]
  BY DEF MailLine
<1>2. /\ Typed(l) \in Sound /\ Typed(l).kind = l.kind /\ Typed(l).num = l.num
  <2>1. /\ l.kind \in Kinds /\ l.kind # "GET_MAIL"
        /\ NoBox \in Boxes \cup {NoBox}
    BY <1>1 DEF Kinds
  <2> QED
    BY <1>1, <2>1, CmdType DEF Typed
<1>3. AsLine(Typed(l)) = [kind |-> l.kind, num |-> l.num]
  BY <1>1, <1>2 DEF AsLine, Line
<1> QED
  BY <1>1, <1>2, <1>3

(* The lines of a mail that is being typed.                                *)
LEMMA BodyLineType ==
    ASSUME NEW m \in Nat, NEW l \in {Text(m), Dot(m)} \cup {BodyId(n) : n \in BodyIds}
    PROVE  l \in MailLine
  BY SmtpAssumption DEF Text, Dot, BodyId, Line, MailLine

(* The variables of handle_client when it starts.                          *)
LEMMA NewSessionType == NewSession \in Session
  BY DEF NewSession, Session

(* The initial state is typed.                                             *)
LEMMA TypingInit == Init => Typing
<1> SUFFICES ASSUME Init PROVE Typing
  OBVIOUS
<1>1. ClientTypes
  BY DEF Init, ClientTypes, CliStates, NoCmd, Cmd, Message, Kinds
<1>2. ConnectionTypes
  <2>1. <<>> \in Seq(Sound)
    BY EmptySeq, Zenon
  <2> QED
    BY <2>1 DEF Init, ConnectionTypes
<1>3. ServerTypes
  <2>1. <<>> \in Seq(FileLine)
    BY EmptySeq, Zenon
  <2> QED
    BY <2>1, NewSessionType DEF Init, ServerTypes
<1>4. sent \in Seq(Mail)
  BY EmptySeq, Zenon DEF Init
<1> QED
  BY <1>1, <1>2, <1>3, <1>4 DEF Typing

(* What a session is after its fields changed.                             *)
LEMMA SessionFields ==
    ASSUME NEW s \in Session
    PROVE  /\ s.helo \in BOOLEAN /\ s.sender \in BOOLEAN /\ s.data \in BOOLEAN
           /\ s.rcpt \in Boxes \cup {NoBox} /\ s.body \in Seq(MailLine) /\ s.id \in Nat
           /\ [s EXCEPT !.helo = TRUE] \in Session
           /\ [s EXCEPT !.sender = TRUE] \in Session
           /\ [s EXCEPT !.data = TRUE] \in Session
           /\ \A b \in Boxes \cup {NoBox} : [s EXCEPT !.rcpt = b] \in Session
           /\ \A x \in Seq(MailLine) : [s EXCEPT !.body = x] \in Session
           /\ \A n \in Nat : EndData(s, n) \in Session
           /\ Stored(s) \in Session
  BY EmptySeq DEF Session, EndData, Stored

(* What read_message leaves is typed.                                      *)
LEMMA ReadTypes ==
    ASSUME Typing, NEW c \in Clients, ReadMessage(c)
    PROVE  Head(up[c]) \in Sound /\ up'[c] \in Seq(Sound)
           /\ up[c] \in Seq(Sound) /\ up[c] # <<>>
<1>1. up[c] \in Seq(Sound) /\ up[c] # <<>>
  BY DEF Typing, ConnectionTypes, ReadMessage
<1>2. Head(up[c]) \in Sound
  BY <1>1, TailOfMessages
<1>3. PICK rest \in Remaining(up[c]) :
          up' = [up EXCEPT ![c] = IF pc'[c] = "none" THEN <<>> ELSE rest]
  BY DEF ReadMessage
<1>4. rest \in Seq(Sound) /\ <<>> \in Seq(Sound)
  BY <1>1, RemainingRest, EmptySeq, Zenon
<1>5. up'[c] = IF pc'[c] = "none" THEN <<>> ELSE rest
  BY <1>3 DEF Typing, ConnectionTypes
<1> QED
  BY <1>1, <1>2, <1>4, <1>5, Zenon

(* What Append does to a sequence.                                         *)
LEMMA AppendType ==
    ASSUME NEW S, NEW s \in Seq(S), NEW e \in S
    PROVE  /\ Append(s, e) \in Seq(S) /\ Len(Append(s, e)) = Len(s) + 1
           /\ Append(s, e)[Len(s) + 1] = e /\ Len(s) \in Nat
           /\ \A i \in 1..Len(s) : Append(s, e)[i] = s[i]
  OBVIOUS

-----------------------------------------------------------------------------
(* The server's step on a message, field by field.                         *)

(* Nothing of another connection changes.                                  *)
Same(d) ==
    /\ cli'[d] = cli[d] /\ asked'[d] = asked[d] /\ up'[d] = up[d]
    /\ down'[d] = down[d] /\ pc'[d] = pc[d] /\ sess'[d] = sess[d]
    /\ to'[d] = to[d] /\ lost'[d] = lost[d]
OthersSame(c) == \A d \in Clients : d # c => Same(d)

Answered(c, a) ==
    down'[c] = IF cli[c] = "gone" THEN down[c] ELSE Append(down[c], a)

ReadLine(c, m) ==
    /\ sess[c].data /\ m.kind # "Dot" /\ pc'[c] = "read" /\ down'[c] = down[c]
    /\ sess'[c] = [sess[c] EXCEPT !.body = Append(sess[c].body, AsLine(m))]

ReadDot(c, m) ==
    /\ sess[c].data /\ m.kind = "Dot" /\ pc'[c] = "append" /\ down'[c] = down[c]
    /\ sess'[c] = EndData([sess[c] EXCEPT !.body = Append(sess[c].body, AsLine(m))],
                          NextId(mailbox[sess[c].rcpt]))

ReadQuit(c, m) ==
    /\ ~sess[c].data /\ m.kind = "QUIT" /\ pc'[c] = "none"
    /\ sess'[c] = NewSession /\ Answered(c, Ok)

(* Any other command, and its answer: only DATA begins a mail, only        *)
(* RCPT TO names a box, and only GET_MAIL's answer may have no end.        *)
ReadCommand(c, m, a) ==
    /\ ~sess[c].data /\ pc'[c] = "read" /\ Answered(c, a)
    /\ a.end \/ (m.kind = "GET_MAIL" /\ a = Get(mailbox[m.box], m.num))
    /\ sess'[c].body = sess[c].body
    /\ sess'[c].data <=> (m.kind = "DATA" /\ a.code = 200)
    /\ sess'[c].data => sess[c].rcpt # NoBox
    /\ sess'[c].rcpt = IF m.kind = "RCPT TO" /\ a.code = 200 THEN m.box
                       ELSE sess[c].rcpt
    /\ sess'[c] \in Session

(* What read_message leaves, and whether it lost something.                *)
Consumes(c) ==
    \E rest \in Remaining(up[c]) :
        /\ up'[c] = IF pc'[c] = "none" THEN <<>> ELSE rest
        /\ lost'[c] <=> (lost[c] \/ (cli[c] # "gone" /\ rest # Tail(up[c])))

ReadMessageFrame(c) ==
    /\ OthersSame(c) /\ Consumes(c)
    /\ cli'[c] = cli[c] /\ asked'[c] = asked[c] /\ to'[c] = to[c]
    /\ UNCHANGED <<mailbox, sent, acked, raced>>

(* ReadMessage changes its thread's variables and answers, and no others.  *)
LEMMA ReadChanges ==
    ASSUME NEW c \in Clients, ReadMessage(c)
    PROVE  /\ sess' = sess \/ \E x : sess' = [sess EXCEPT ![c] = x]
           /\ pc' = pc \/ \E x : pc' = [pc EXCEPT ![c] = x]
           /\ down' = down \/ \E x : down' = [down EXCEPT ![c] = x]
<1>1. sess' = sess \/ \E x : sess' = [sess EXCEPT ![c] = x]
  BY Zenon DEF ReadMessage, DataMessage, Helo, NoHelo, Envelope, BeginData, Look,
         Quit, Invalid
<1>2. pc' = pc \/ \E x : pc' = [pc EXCEPT ![c] = x]
  BY Zenon DEF ReadMessage, DataMessage, Helo, NoHelo, Envelope, BeginData, Look,
         Quit, Invalid
<1>3. \A m : DataMessage(c, m) => UNCHANGED down
  BY Zenon DEF DataMessage
<1>4. \A m : Helo(c, m) \/ NoHelo(c, m) \/ Envelope(c, m) \/ BeginData(c, m)
                \/ Look(c, m) \/ Quit(c, m) \/ Invalid(c, m) => \E a : Reply(c, a)
  BY ZenonT(60) DEF Helo, NoHelo, Envelope, BeginData, Look, Quit, Invalid
<1>5. UNCHANGED down \/ \E a : Reply(c, a)
  BY <1>3, <1>4, Zenon DEF ReadMessage
<1>6. down' = down \/ \E x : down' = [down EXCEPT ![c] = x]
  BY <1>5, Zenon DEF Reply
<1> QED
  BY <1>1, <1>2, <1>6

(* ReadMessage changes nothing of other connections, and nothing of its    *)
(* own client but what it loses.                                           *)
LEMMA ReadFrame ==
    ASSUME Typing, NEW c \in Clients, ReadMessage(c)
    PROVE  ReadMessageFrame(c)
<1> DEFINE m == Head(up[c])
<1>1. UNCHANGED mailbox
  <2>1. DataMessage(c, m) \/ Helo(c, m) \/ NoHelo(c, m) \/ Envelope(c, m)
            => UNCHANGED mailbox
    BY DEF DataMessage, Helo, NoHelo, Envelope
  <2>2. BeginData(c, m) \/ Look(c, m) \/ Quit(c, m) \/ Invalid(c, m) => UNCHANGED mailbox
    BY DEF BeginData, Look, Quit, Invalid
  <2> QED
    BY <2>1, <2>2, Zenon DEF ReadMessage
<1>2. UNCHANGED <<cli, asked, to, sent, acked, raced>>
  BY DEF ReadMessage, clientState
<1>3. PICK rest \in Remaining(up[c]) :
           /\ up' = [up EXCEPT ![c] = IF pc'[c] = "none" THEN <<>> ELSE rest]
           /\ lost' = [lost EXCEPT ![c] =
                            lost[c] \/ (cli[c] # "gone" /\ rest # Tail(up[c]))]
  BY DEF ReadMessage
<1>4. /\ up'[c] = IF pc'[c] = "none" THEN <<>> ELSE rest
      /\ \A d \in Clients : d # c => up'[d] = up[d] /\ lost'[d] = lost[d]
  BY <1>3 DEF Typing, ClientTypes, ConnectionTypes
<1>5. lost'[c] = (lost[c] \/ (cli[c] # "gone" /\ rest # Tail(up[c])))
  BY <1>3, Zenon DEF Typing, ClientTypes
<1>6. Consumes(c)
  BY <1>4, <1>5, Zenon DEF Consumes
<1>7. \A d \in Clients : d # c => pc'[d] = pc[d] /\ sess'[d] = sess[d] /\ down'[d] = down[d]
  <2>1. sess' = sess \/ \E x : sess' = [sess EXCEPT ![c] = x]
    BY ReadChanges
  <2>2. pc' = pc \/ \E x : pc' = [pc EXCEPT ![c] = x]
    BY ReadChanges
  <2>3. down' = down \/ \E x : down' = [down EXCEPT ![c] = x]
    BY ReadChanges
  <2>4. DOMAIN sess = Clients /\ DOMAIN pc = Clients /\ DOMAIN down = Clients
    BY DEF Typing, ServerTypes, ConnectionTypes
  <2> QED
    BY <2>1, <2>2, <2>3, <2>4
<1> QED
  BY <1>1, <1>2, <1>4, <1>6, <1>7 DEF ReadMessageFrame, OthersSame, Same

(* send puts the answer behind those that the client has not read, if      *)
(* there is a client.                                                      *)
LEMMA Replies ==
    ASSUME Typing, NEW c \in Clients, NEW a, Reply(c, a)
    PROVE  Answered(c, a)
<1> QED
  BY DEF Reply, Answered, Typing, ConnectionTypes

(* ReadMessage takes a line of a body, its final dot, QUIT, or another     *)
(* command, which it answers.                                              *)
LEMMA ReadCases ==
    ASSUME Typing, NEW c \in Clients, ReadMessage(c)
    PROVE  LET m == Head(up[c])
           IN  \/ ReadLine(c, m) \/ ReadDot(c, m) \/ ReadQuit(c, m)
               \/ \E a : ReadCommand(c, m, a)
<1> DEFINE m == Head(up[c])
<1>1. /\ pc[c] = "read" /\ c \in DOMAIN sess /\ c \in DOMAIN pc
      /\ sess[c] \in Session /\ m \in Sound
  BY ReadTypes DEF Typing, ServerTypes, ReadMessage
<1> HIDE DEF m
<1>2. \/ DataMessage(c, m)
      \/ ~sess[c].data /\ (\/ Helo(c, m) \/ NoHelo(c, m) \/ Envelope(c, m)
                           \/ BeginData(c, m) \/ Look(c, m) \/ Quit(c, m)
                           \/ Invalid(c, m))
  BY Zenon DEF ReadMessage, m
<1>3. CASE DataMessage(c, m)
  <2> DEFINE s == [sess[c] EXCEPT !.body = Append(sess[c].body, AsLine(m))]
  <2>1. /\ sess[c].data /\ down' = down
        /\ IF m.kind = "Dot"
           THEN /\ sess' = [sess EXCEPT ![c] = EndData(s, NextId(mailbox[s.rcpt]))]
                /\ pc' = [pc EXCEPT ![c] = "append"]
           ELSE sess' = [sess EXCEPT ![c] = s] /\ pc' = pc
    BY <1>3, Zenon DEF DataMessage
  <2>2. s.rcpt = sess[c].rcpt
    BY <1>1 DEF Session
  <2> HIDE DEF s
  <2>3. CASE m.kind = "Dot"
    <3>1. sess'[c] = EndData(s, NextId(mailbox[sess[c].rcpt])) /\ pc'[c] = "append"
          /\ down'[c] = down[c]
      BY <1>1, <2>1, <2>2, <2>3
    <3>2. ReadDot(c, m)
      BY <2>1, <2>3, <3>1, Zenon DEF ReadDot, s
    <3> QED
      BY <3>2, Zenon DEF m
  <2>4. CASE m.kind # "Dot"
    <3>1. sess'[c] = s /\ pc'[c] = "read" /\ down'[c] = down[c]
      BY <1>1, <2>1, <2>4
    <3>2. ReadLine(c, m)
      BY <2>1, <2>4, <3>1, Zenon DEF ReadLine, s
    <3> QED
      BY <3>2, Zenon DEF m
  <2> QED
    BY <2>3, <2>4, Zenon DEF m
<1>4. ASSUME ~sess[c].data, Quit(c, m)
      PROVE  ReadQuit(c, m)
  BY <1>1, <1>4, Replies DEF ReadQuit, Quit
<1> DEFINE s == sess[c]
           t == sess'[c]
           Kept == t.body = s.body /\ t.rcpt = s.rcpt /\ t \in Session /\ pc'[c] = "read"
<1>5. s = [helo |-> s.helo, sender |-> s.sender, rcpt |-> s.rcpt, data |-> s.data,
           body |-> s.body, id |-> s.id]
  BY <1>1 DEF Session
<1>6. ASSUME ~s.data, Helo(c, m) \/ NoHelo(c, m) \/ Look(c, m) \/ Invalid(c, m)
      PROVE  \E a : ReadCommand(c, m, a)
  <2>1. Kept /\ ~t.data
    <3>1. t = s \/ t = [s EXCEPT !.helo = TRUE]
      BY <1>1, <1>6 DEF Helo, NoHelo, Look, Invalid
    <3>2. t.body = s.body /\ t.rcpt = s.rcpt /\ t.data = s.data
      BY <1>5, <3>1
    <3>3. t \in Session
      BY <1>1, <3>1, SessionFields
    <3>4. pc'[c] = "read"
      BY <1>1, <1>6 DEF Helo, NoHelo, Look, Invalid
    <3> QED
      BY <1>6, <3>2, <3>3, <3>4
  <2> DEFINE Fits(a) == /\ a.end \/ (m.kind = "GET_MAIL" /\ a = Get(mailbox[m.box], m.num))
                        /\ ~(m.kind = "DATA" /\ a.code = 200)
                        /\ ~(m.kind = "RCPT TO" /\ a.code = 200)
  <2>2. \E a : Reply(c, a) /\ Fits(a)
    <3>1. CASE Helo(c, m)
      <4>1. Reply(c, Ok) /\ m.kind = "HELO"
        BY <3>1 DEF Helo
      <4>2. Fits(Ok)
        BY <4>1 DEF Ok, Answer
      <4> QED
        BY <4>1, <4>2, Zenon
    <3>2. CASE NoHelo(c, m)
      <4>1. Reply(c, Refused)
        BY <3>2 DEF NoHelo
      <4>2. Fits(Refused)
        BY DEF Refused, Answer
      <4> QED
        BY <4>1, <4>2, Zenon
    <3>3. CASE Invalid(c, m)
      <4>1. Reply(c, Answer(400, <<>>, TRUE))
        BY <3>3 DEF Invalid
      <4>2. Fits(Answer(400, <<>>, TRUE))
        BY DEF Answer
      <4> QED
        BY <4>1, <4>2, ZenonT(60)
    <3>4. CASE Look(c, m) /\ m.kind = "GET_MAIL"
      <4> DEFINE g == Get(mailbox[m.box], m.num)
      <4>1. Reply(c, g)
        BY <3>4 DEF Look
      <4> HIDE DEF g
      <4>2. Fits(g)
        BY <3>4 DEF g
      <4> QED
        BY <4>1, <4>2, Zenon
    <3>5. CASE Look(c, m) /\ m.kind = "LIST"
      <4>1. \/ Reply(c, List(mailbox[m.box]))
            \/ \E code \in {200, 500} : Reply(c, Answer(code, <<>>, TRUE))
        BY <3>5, Zenon DEF Look
      <4>2. PICK l : Reply(c, l) /\ (l = List(mailbox[m.box])
                                       \/ \E code : l = Answer(code, <<>>, TRUE))
        BY <4>1, ZenonT(60)
      <4>3. l.end
        <5>1. List(mailbox[m.box]).end
          BY DEF Answer, List
        <5>2. \A code : Answer(code, <<>>, TRUE).end
          BY DEF Answer
        <5> QED
          BY <4>2, <5>1, <5>2, Zenon
      <4>4. Fits(l)
        BY <3>5, <4>3
      <4> QED
        BY <4>2, <4>4, Zenon
    <3>6. Look(c, m) => m.kind \in {"GET_MAIL", "LIST"}
      BY DEF Look
    <3> QED
      BY <1>6, <3>1, <3>2, <3>3, <3>4, <3>5, <3>6, Zenon
  <2>3. PICK a : Reply(c, a) /\ Fits(a)
    BY <2>2, Zenon
  <2>4. ReadCommand(c, m, a)
    BY <1>6, <2>1, <2>3, Replies DEF ReadCommand
  <2> QED
    BY <2>4, Zenon
<1>7. ASSUME ~s.data, Envelope(c, m) \/ BeginData(c, m)
      PROVE  \E a : ReadCommand(c, m, a)
  <2>1. pc'[c] = "read"
    BY <1>1, <1>7 DEF Envelope, BeginData
  <2>2. CASE Envelope(c, m) /\ m.kind = "MAIL FROM"
    <3>1. Reply(c, Ok) /\ t = [s EXCEPT !.sender = TRUE]
      BY <1>1, <2>2 DEF Envelope
    <3>2. t.body = s.body /\ t.rcpt = s.rcpt /\ t.data = s.data /\ t \in Session
      BY <1>1, <1>5, <3>1, SessionFields
    <3>3. ReadCommand(c, m, Ok)
      BY <1>7, <2>1, <2>2, <3>1, <3>2, Replies DEF ReadCommand, Ok, Answer
    <3> QED
      BY <3>3, Zenon
  <2>3. CASE Envelope(c, m) /\ m.kind = "RCPT TO"
    <3>1. Reply(c, Ok) /\ t = [s EXCEPT !.rcpt = m.box]
      BY <1>1, <2>3 DEF Envelope
    <3>2. m.box \in Boxes \cup {NoBox}
      BY <1>1 DEF Sound, Message
    <3>3. t.body = s.body /\ t.rcpt = m.box /\ t.data = s.data /\ t \in Session
      <4>1. t \in Session
        BY <1>1, <3>1, <3>2, SessionFields, Zenon
      <4> QED
        BY <1>5, <3>1, <4>1
    <3>4. ReadCommand(c, m, Ok)
      BY <1>7, <2>1, <2>3, <3>1, <3>3, Replies DEF ReadCommand, Ok, Answer
    <3> QED
      BY <3>4, Zenon
  <2>4. CASE BeginData(c, m) /\ s.sender /\ s.rcpt # NoBox
    <3>1. Reply(c, Ok) /\ t = [s EXCEPT !.data = TRUE] /\ m.kind = "DATA"
      BY <1>1, <2>4 DEF BeginData
    <3>2. t.body = s.body /\ t.rcpt = s.rcpt /\ t.data /\ t \in Session
      BY <1>1, <1>5, <3>1, SessionFields
    <3>3. ReadCommand(c, m, Ok)
      BY <1>7, <2>1, <2>4, <3>1, <3>2, Replies DEF ReadCommand, Ok, Answer
    <3> QED
      BY <3>3, Zenon
  <2>5. CASE BeginData(c, m) /\ ~(s.sender /\ s.rcpt # NoBox)
    <3>1. Reply(c, Refused) /\ t = s /\ m.kind = "DATA"
      BY <1>1, <2>5 DEF BeginData
    <3>2. ReadCommand(c, m, Refused)
      BY <1>1, <1>7, <2>1, <2>5, <3>1, Replies DEF ReadCommand, Refused, Answer
    <3> QED
      BY <3>2, Zenon
  <2>6. Envelope(c, m) => m.kind \in {"MAIL FROM", "RCPT TO"}
    BY DEF Envelope
  <2> QED
    BY <1>7, <2>2, <2>3, <2>4, <2>5, <2>6, Zenon
<1> QED
  BY <1>2, <1>3, <1>4, <1>6, <1>7, Zenon DEF m

(* ReadMessage leaves its variables functions on the clients.              *)
LEMMA ReadFunctions ==
    ASSUME Typing, NEW c \in Clients, ReadMessage(c)
    PROVE  /\ sess' = [d \in Clients |-> sess'[d]]
           /\ pc' = [d \in Clients |-> pc'[d]]
           /\ up' = [d \in Clients |-> up'[d]]
           /\ lost' = [d \in Clients |-> lost'[d]]
           /\ DOMAIN down' = Clients
<1>1. up' = [d \in Clients |-> up'[d]]
  BY DEF ReadMessage, Typing, ConnectionTypes
<1>2. lost' = [d \in Clients |-> lost'[d]]
  BY DEF ReadMessage, Typing, ClientTypes
<1>3. sess' = sess \/ \E x : sess' = [sess EXCEPT ![c] = x]
  BY ReadChanges
<1>4. pc' = pc \/ \E x : pc' = [pc EXCEPT ![c] = x]
  BY ReadChanges
<1>5. down' = down \/ \E x : down' = [down EXCEPT ![c] = x]
  BY ReadChanges
<1>6. sess' = [d \in Clients |-> sess'[d]]
  BY <1>3 DEF Typing, ServerTypes
<1>7. pc' = [d \in Clients |-> pc'[d]]
  BY <1>4 DEF Typing, ServerTypes
<1>8. DOMAIN down' = Clients
  BY <1>5 DEF Typing, ConnectionTypes
<1> QED
  BY <1>1, <1>2, <1>6, <1>7, <1>8, Zenon

(* ReadMessage keeps the types.                                            *)
LEMMA ReadTyping ==
    ASSUME Typing, NEW c \in Clients, ReadMessage(c),
           sess[c].data => sess[c].rcpt # NoBox
    PROVE  Typing'
<1> DEFINE m == Head(up[c])
<1>1. /\ ReadMessageFrame(c)
      /\ \/ ReadLine(c, m) \/ ReadDot(c, m) \/ ReadQuit(c, m)
         \/ \E a : ReadCommand(c, m, a)
  BY ReadFrame, ReadCases, Zenon
<1>2. m \in Sound /\ up'[c] \in Seq(Sound)
  BY ReadTypes, Zenon
<1>3. sess[c] \in Session /\ pc[c] \in {"none", "read", "append"}
  BY DEF Typing, ServerTypes
<1> HIDE DEF m
<1>4. sess'[c] \in Session /\ pc'[c] \in {"none", "read", "append"}
  <2>1. Append(sess[c].body, AsLine(m)) \in Seq(MailLine)
    <3>1. AsLine(m) \in MailLine
      BY <1>2, AsLineIsLine DEF Sound
    <3>2. sess[c].body \in Seq(MailLine)
      BY <1>3, SessionFields
    <3> QED
      BY <3>1, <3>2, AppendType
  <2>2. CASE ReadLine(c, m)
    BY <1>3, <2>1, <2>2, SessionFields, ZenonT(60) DEF ReadLine
  <2>3. CASE ReadDot(c, m)
    <3>1. sess[c].rcpt \in Boxes
      BY <1>3, <2>3, SessionFields DEF ReadDot
    <3>2. NextId(mailbox[sess[c].rcpt]) \in Nat
      BY <3>1, NextIdIsNew DEF Typing, ServerTypes
    <3>3. [sess[c] EXCEPT !.body = Append(sess[c].body, AsLine(m))] \in Session
      BY <1>3, <2>1, SessionFields
    <3>4. EndData([sess[c] EXCEPT !.body = Append(sess[c].body, AsLine(m))],
                  NextId(mailbox[sess[c].rcpt])) \in Session
      BY <3>2, <3>3, SessionFields, ZenonT(60)
    <3>5. sess'[c] \in Session
      BY <2>3, <3>4, Zenon DEF ReadDot
    <3> QED
      BY <2>3, <3>5 DEF ReadDot
  <2>4. CASE ReadQuit(c, m)
    BY <2>4, NewSessionType DEF ReadQuit
  <2>5. CASE \E a : ReadCommand(c, m, a)
    BY <2>5 DEF ReadCommand
  <2> QED
    BY <1>1, <2>2, <2>3, <2>4, <2>5
<1>5. \A d \in Clients : /\ sess'[d] \in Session /\ up'[d] \in Seq(Sound)
                         /\ pc'[d] \in {"none", "read", "append"}
                         /\ lost'[d] \in BOOLEAN
  <2>1. lost'[c] \in BOOLEAN
    <3>1. \E x \in BOOLEAN : lost' = [lost EXCEPT ![c] = x]
      BY Zenon DEF ReadMessage
    <3> QED
      BY <3>1 DEF Typing, ClientTypes
  <2>2. ASSUME NEW d \in Clients, d # c
        PROVE  /\ sess'[d] = sess[d] /\ up'[d] = up[d]
               /\ pc'[d] = pc[d] /\ lost'[d] = lost[d]
    BY <1>1, <2>2, Zenon DEF ReadMessageFrame, OthersSame, Same
  <2> QED
    BY <1>2, <1>4, <2>1, <2>2 DEF Typing, ServerTypes, ClientTypes, ConnectionTypes
<1>6. ServerTypes'
  <2>1. sess' \in [Clients -> Session] /\ pc' \in [Clients -> {"none", "read", "append"}]
    BY <1>5, ReadFunctions
  <2> QED
    BY <1>1, <2>1 DEF ServerTypes, Typing, ReadMessageFrame
<1>7. ConnectionTypes'
  BY <1>5, ReadFunctions DEF ConnectionTypes
<1>8. ClientTypes'
  <2>1. lost' \in [Clients -> BOOLEAN]
    BY <1>5, ReadFunctions
  <2> QED
    BY <2>1 DEF ClientTypes, Typing, ReadMessage, clientState
<1>9. sent' \in Seq(Mail)
  BY <1>1 DEF Typing, ReadMessageFrame
<1> QED
  BY <1>6, <1>7, <1>8, <1>9 DEF Typing

-----------------------------------------------------------------------------
(* The other steps, field by field.                                        *)

LEMMA ConnectFacts ==
    ASSUME Typing, NEW c \in Clients, Connect(c)
    PROVE  /\ OthersSame(c) /\ UNCHANGED <<mailbox, sent, acked, raced>>
           /\ cli[c] = "gone" /\ pc[c] = "none"
           /\ cli'[c] = "prompt" /\ up'[c] = <<>> /\ down'[c] = <<>>
           /\ pc'[c] \in {"none", "read"} /\ sess'[c] = NewSession
           /\ asked'[c] = asked[c] /\ to'[c] = to[c] /\ lost'[c] = lost[c]
  BY DEF Connect, Typing, ClientTypes, ConnectionTypes, ServerTypes, OthersSame,
         Same, history

(* A command is sent from the prompt, behind nothing else.                 *)
LEMMA CommandFacts ==
    ASSUME Typing, NEW c \in Clients, NEW m \in Sound, Command(c, m)
    PROVE  /\ OthersSame(c) /\ UNCHANGED <<mailbox, sent, acked, raced>>
           /\ cli[c] = "prompt" /\ cli'[c] = "wait" /\ asked'[c] = m
           /\ up'[c] = IF pc[c] = "none" THEN up[c] ELSE Append(up[c], m)
           /\ down'[c] = down[c] /\ pc'[c] = pc[c] /\ sess'[c] = sess[c]
           /\ to'[c] = to[c] /\ lost'[c] = lost[c]
<1>1. /\ cli[c] = "prompt" /\ cli' = [cli EXCEPT ![c] = "wait"]
      /\ asked' = [asked EXCEPT ![c] = m]
      /\ up' = IF pc[c] = "none" THEN up ELSE [up EXCEPT ![c] = Append(up[c], m)]
      /\ UNCHANGED <<down, pc, sess, mailbox, to, sent, acked, lost, raced>>
  BY Zenon DEF Command, Sends, serverState, history
<1> QED
  BY <1>1 DEF Typing, ClientTypes, ConnectionTypes, OthersSame, Same

(* A line of a mail, the last one included.                                *)
Types(c, l) ==
    /\ cli[c] = "body" /\ Sends(c, Typed(l))
    /\ sent' = [sent EXCEPT ![MailOf(c)].lines = Append(@, l)]
    /\ cli' = [cli EXCEPT ![c] = cli'[c]]
    /\ UNCHANGED <<asked, down, serverState, to, acked, lost, raced>>

(* A typed line, or the dot, is sent if the connection is there.           *)
LEMMA TypesFacts ==
    ASSUME Typing, NEW c \in Clients, NEW l, Types(c, l)
    PROVE  /\ OthersSame(c) /\ UNCHANGED <<mailbox, acked, raced>>
           /\ cli[c] = "body" /\ asked'[c] = asked[c]
           /\ up'[c] = IF pc[c] = "none" THEN up[c] ELSE Append(up[c], Typed(l))
           /\ down'[c] = down[c] /\ pc'[c] = pc[c] /\ sess'[c] = sess[c]
           /\ to'[c] = to[c] /\ lost'[c] = lost[c]
<1>1. up' = IF pc[c] = "none" THEN up ELSE [up EXCEPT ![c] = Append(up[c], Typed(l))]
  BY Zenon DEF Types, Sends
<1> QED
  BY <1>1 DEF Types, Typing, ClientTypes, ConnectionTypes, OthersSame, Same, serverState

(* A line of the body is a typed one.                                      *)
LEMMA BodyLineFacts ==
    ASSUME Typing, NEW c \in Clients, NEW l, BodyLine(c, l)
    PROVE  Types(c, l) /\ cli'[c] = "body"
  BY DEF Typing, ClientTypes, BodyLine, Types

(* So is the final dot.                                                    *)
LEMMA BodyEndFacts ==
    ASSUME Typing, NEW c \in Clients, BodyEnd(c)
    PROVE  Types(c, Dot(MailOf(c))) /\ cli'[c] = "ended"
<1>1. cli'[c] = "ended" /\ cli' = [cli EXCEPT ![c] = cli'[c]]
  BY DEF Typing, ClientTypes, BodyEnd
<1> QED
  BY <1>1, Zenon DEF BodyEnd, Types

(* The end of the input in a body changes only where the client is.        *)
LEMMA BodyEofFacts ==
    ASSUME Typing, NEW c \in Clients, BodyEof(c)
    PROVE  /\ OthersSame(c) /\ UNCHANGED <<mailbox, sent, acked, raced>>
           /\ cli[c] = "body" /\ cli'[c] = "stuck" /\ asked'[c] = asked[c]
           /\ up'[c] = up[c] /\ down'[c] = down[c] /\ pc'[c] = pc[c]
           /\ sess'[c] = sess[c] /\ to'[c] = to[c] /\ lost'[c] = lost[c]
  BY DEF BodyEof, Typing, ClientTypes, OthersSame, Same, history, serverState

InMail(c) == cli[c] \in {"body", "ended", "stuck"}
NoMail == [to |-> NoBox, lines |-> <<>>]

(* A client that goes takes its unfinished mail along, and nothing of      *)
(* another.                                                                *)
LEMMA LeftFacts ==
    ASSUME Typing, NEW c \in Clients, Left(c)
    PROVE  /\ OthersSame(c) /\ UNCHANGED <<mailbox, acked, raced>>
           /\ sent' = IF InMail(c) THEN [sent EXCEPT ![MailOf(c)] = NoMail] ELSE sent
           /\ cli'[c] = "gone" /\ asked'[c] = NoCmd
           /\ up'[c] = up[c] /\ down'[c] = <<>> /\ pc'[c] = pc[c]
           /\ sess'[c] = sess[c] /\ to'[c] = NoBox /\ lost'[c] = FALSE
<1>1. sent' = IF InMail(c) THEN [sent EXCEPT ![MailOf(c)] = NoMail] ELSE sent
  BY Zenon DEF Left, InMail, NoMail
<1> QED
  BY <1>1 DEF Left, Typing, ClientTypes, ConnectionTypes, OthersSame, Same, serverState

(* store_email's second half: the thread is back at recv with an empty     *)
(* body, and has answered.                                                 *)
LEMMA StoreFacts ==
    ASSUME Typing, NEW c \in Clients, Store(c)
    PROVE  /\ OthersSame(c) /\ UNCHANGED <<sent, acked>>
           /\ pc[c] = "append" /\ pc'[c] = "read" /\ sess'[c] = Stored(sess[c])
           /\ cli'[c] = cli[c] /\ asked'[c] = asked[c] /\ up'[c] = up[c]
           /\ to'[c] = to[c] /\ lost'[c] = lost[c] /\ Answered(c, Ok)
<1>1. /\ pc[c] = "append" /\ pc' = [pc EXCEPT ![c] = "read"]
      /\ sess' = [sess EXCEPT ![c] = Stored(sess[c])]
      /\ Reply(c, Ok) /\ UNCHANGED <<cli, asked, up, to, sent, acked, lost>>
  BY Zenon DEF Store, clientState
<1>2. \A d \in Clients : d # c => down'[d] = down[d]
  BY <1>1 DEF Reply, Typing, ConnectionTypes
<1> QED
  BY <1>1, <1>2, Replies DEF Typing, ServerTypes, OthersSame, Same

(* A thread ends when its client is gone and nothing is left to read.      *)
LEMMA EndSessionFacts ==
    ASSUME Typing, NEW c \in Clients, EndSession(c)
    PROVE  /\ OthersSame(c) /\ UNCHANGED <<mailbox, sent, acked, raced>>
           /\ pc[c] = "read" /\ up[c] = <<>> /\ cli[c] = "gone"
           /\ pc'[c] = "none" /\ sess'[c] = NewSession
           /\ cli'[c] = cli[c] /\ asked'[c] = asked[c] /\ up'[c] = up[c]
           /\ down'[c] = down[c] /\ to'[c] = to[c] /\ lost'[c] = lost[c]
  BY DEF EndSession, Typing, ServerTypes, OthersSame, Same, clientState, history

AsksData(c) == cli[c] = "wait" /\ asked[c].kind = "DATA" /\ down[c][1].code = 200

(* receive_response: the client takes the first complete answer and may    *)
(* lose what came behind it; only DATA accepted begins a mail, only RCPT   *)
(* TO accepted changes the recipient, and only the answer to a dot         *)
(* acknowledges a mail.                                                    *)
LEMMA ResponseFacts ==
    ASSUME Typing, NEW c \in Clients, ReadResponse(c)
    PROVE  /\ OthersSame(c) /\ UNCHANGED <<mailbox, raced>>
           /\ Waiting(c) /\ Complete(c) # {}
           /\ up'[c] = up[c] /\ pc'[c] = pc[c] /\ sess'[c] = sess[c]
           /\ \E k \in Min(Complete(c))..Len(down[c]) :
                  /\ down'[c] = SubSeq(down[c], k + 1, Len(down[c]))
                  /\ lost'[c] <=> (lost[c] \/ k > Min(Complete(c)))
           /\ AsksData(c) =>
                  /\ cli'[c] = "body" /\ asked'[c] = [asked[c] EXCEPT !.num = Len(sent) + 1]
                  /\ sent' = Append(sent, [to |-> to[c], lines |-> <<>>])
           /\ ~AsksData(c) =>
                  /\ cli'[c] = IF cli[c] = "stuck" \/ asked[c].kind = "QUIT"
                               THEN "done" ELSE "prompt"
                  /\ asked'[c] = AtPrompt(c) /\ sent' = sent
           /\ to'[c] = IF /\ cli[c] = "wait" /\ asked[c].kind = "RCPT TO"
                          /\ down[c][1].code = 200
                       THEN asked[c].box ELSE to[c]
           /\ acked' = IF cli[c] = "ended" /\ down[c][1].code = 200 /\ ~lost'[c]
                       THEN acked \cup {MailOf(c)} ELSE acked
<1>1. /\ Waiting(c) /\ Complete(c) # {}
      /\ UNCHANGED <<up, pc, sess, mailbox, raced>>
  BY DEF ReadResponse, serverState
<1>2. PICK k \in Min(Complete(c))..Len(down[c]) :
          /\ down' = [down EXCEPT ![c] = SubSeq(down[c], k + 1, Len(down[c]))]
          /\ lost' = [lost EXCEPT ![c] = lost[c] \/ k > Min(Complete(c))]
  BY Zenon DEF ReadResponse
<1>3. /\ down'[c] = SubSeq(down[c], k + 1, Len(down[c]))
      /\ \A d \in Clients : d # c => down'[d] = down[d] /\ lost'[d] = lost[d]
  BY <1>2 DEF Typing, ConnectionTypes, ClientTypes
<1>4. lost'[c] = (lost[c] \/ k > Min(Complete(c)))
  BY <1>2, Zenon DEF Typing, ClientTypes
<1>5. /\ AsksData(c) =>
             /\ cli' = [cli EXCEPT ![c] = "body"]
             /\ asked' = [asked EXCEPT ![c] = [asked[c] EXCEPT !.num = Len(sent) + 1]]
             /\ sent' = Append(sent, [to |-> to[c], lines |-> <<>>])
      /\ ~AsksData(c) =>
             /\ cli' = [cli EXCEPT ![c] = IF cli[c] = "stuck" \/ asked[c].kind = "QUIT"
                                          THEN "done" ELSE "prompt"]
             /\ asked' = [asked EXCEPT ![c] = AtPrompt(c)] /\ sent' = sent
  BY DEF ReadResponse, AsksData
<1>6. /\ to' = IF cli[c] = "wait" /\ asked[c].kind = "RCPT TO" /\ down[c][1].code = 200
               THEN [to EXCEPT ![c] = asked[c].box] ELSE to
      /\ acked' = IF cli[c] = "ended" /\ down[c][1].code = 200 /\ ~lost'[c]
                  THEN acked \cup {MailOf(c)} ELSE acked
  BY Zenon DEF ReadResponse
<1>7. /\ AsksData(c) =>
             /\ cli'[c] = "body" /\ asked'[c] = [asked[c] EXCEPT !.num = Len(sent) + 1]
      /\ ~AsksData(c) =>
             /\ cli'[c] = IF cli[c] = "stuck" \/ asked[c].kind = "QUIT"
                          THEN "done" ELSE "prompt"
             /\ asked'[c] = AtPrompt(c)
      /\ \A d \in Clients : d # c => cli'[d] = cli[d] /\ asked'[d] = asked[d]
  <2> HIDE DEF AsksData
  <2>1. CASE AsksData(c)
    BY <1>5, <2>1 DEF Typing, ClientTypes
  <2>2. CASE ~AsksData(c)
    BY <1>5, <2>2 DEF Typing, ClientTypes
  <2> QED
    BY <2>1, <2>2
<1>8. /\ to'[c] = IF /\ cli[c] = "wait" /\ asked[c].kind = "RCPT TO"
                     /\ down[c][1].code = 200
                  THEN asked[c].box ELSE to[c]
      /\ \A d \in Clients : d # c => to'[d] = to[d]
  <2> DEFINE R == /\ cli[c] = "wait" /\ asked[c].kind = "RCPT TO"
                  /\ down[c][1].code = 200
  <2>1. to' = IF R THEN [to EXCEPT ![c] = asked[c].box] ELSE to
    BY <1>6, Zenon
  <2> HIDE DEF R
  <2>2. /\ to'[c] = IF R THEN asked[c].box ELSE to[c]
        /\ \A d \in Clients : d # c => to'[d] = to[d]
    BY <2>1 DEF Typing, ClientTypes
  <2> QED
    BY <2>2, Zenon DEF R
<1>9. OthersSame(c)
  BY <1>1, <1>3, <1>7, <1>8, ZenonT(60) DEF OthersSame, Same
<1>10. \E j \in Min(Complete(c))..Len(down[c]) :
           /\ down'[c] = SubSeq(down[c], j + 1, Len(down[c]))
           /\ lost'[c] <=> (lost[c] \/ j > Min(Complete(c)))
  BY <1>3, <1>4, Zenon
<1>11. /\ AsksData(c) => sent' = Append(sent, [to |-> to[c], lines |-> <<>>])
       /\ ~AsksData(c) => sent' = sent
  BY <1>5, Zenon
<1>12. UNCHANGED <<mailbox, raced>> /\ up'[c] = up[c] /\ pc'[c] = pc[c]
       /\ sess'[c] = sess[c]
  BY <1>1
<1> QED
  BY <1>1, <1>6, <1>7, <1>8, <1>9, <1>10, <1>11, <1>12, Zenon

-----------------------------------------------------------------------------
(* The types are an invariant, with what is needed to show it: the bound   *)
(* on mails, and what a session is in each place of the thread.            *)

DataAsked == {c \in Clients : asked[c].kind = "DATA" /\ cli[c] = "wait"}

Bounded ==
    /\ Len(sent) + Cardinality(DataAsked) <= MaxMails
    /\ \A c \in Clients : asked[c].num <= MaxMails
    /\ \A c \in Clients : InMail(c) => MailOf(c) \in DOMAIN sent
    /\ acked \subseteq DOMAIN sent

(* The body has a dot only when it is complete, and nothing in it outside  *)
(* DATA mode.                                                              *)
SessionAt(c) ==
    /\ pc[c] = "none" => up[c] = <<>> /\ sess[c] = NewSession
    /\ sess[c].data => pc[c] = "read" /\ sess[c].rcpt # NoBox
    /\ pc[c] = "append" =>
           /\ ~sess[c].data /\ sess[c].rcpt # NoBox /\ sess[c].id # 0
           /\ sess[c].body # <<>> /\ sess[c].body[Len(sess[c].body)].kind = "Dot"
    /\ \A i \in DOMAIN sess[c].body :
           sess[c].body[i].kind = "Dot" => pc[c] = "append" /\ i = Len(sess[c].body)
    /\ ~sess[c].data /\ pc[c] # "append" => sess[c].body = <<>>
Sessions == \A c \in Clients : SessionAt(c)

(* A mail is replaced or added.                                            *)
LEMMA MailReplaced ==
    ASSUME sent \in Seq(Mail), NEW n \in DOMAIN sent, NEW x \in Mail
    PROVE  LET new == [sent EXCEPT ![n] = x]
           IN  /\ new \in Seq(Mail) /\ Len(new) = Len(sent) /\ new[n] = x
               /\ DOMAIN new = DOMAIN sent
               /\ \A m \in DOMAIN sent : m # n => new[m] = sent[m]
  OBVIOUS

(* A mail with other lines has the recipient it had.                       *)
LEMMA LinesReplaced ==
    ASSUME NEW x \in Mail, NEW lines \in Seq(MailLine)
    PROVE  /\ [x EXCEPT !.lines = lines] \in Mail
           /\ [x EXCEPT !.lines = lines].to = x.to
           /\ [x EXCEPT !.lines = lines].lines = lines
           /\ x.lines \in Seq(MailLine)
  BY DEF Mail

(* A line added to one mail leaves the others as they are.                 *)
LEMMA MailFields ==
    ASSUME sent \in Seq(Mail), NEW n \in DOMAIN sent, NEW l \in MailLine
    PROVE  LET new == [sent EXCEPT ![n].lines = Append(@, l)]
           IN  /\ new \in Seq(Mail) /\ Len(new) = Len(sent)
               /\ new[n].to = sent[n].to /\ new[n].lines = Append(sent[n].lines, l)
               /\ DOMAIN new = DOMAIN sent
               /\ \A m \in DOMAIN sent : m # n => new[m] = sent[m]
<1> DEFINE x == [sent[n] EXCEPT !.lines = Append(sent[n].lines, l)]
<1>1. sent[n] \in Mail
  BY LenProperties, ElementOfSeq, Zenon
<1>2. Append(sent[n].lines, l) \in Seq(MailLine)
  <2>1. sent[n].lines \in Seq(MailLine)
    BY <1>1 DEF Mail
  <2> QED
    BY <2>1, AppendType, Zenon
<1>3. x \in Mail /\ x.to = sent[n].to /\ x.lines = Append(sent[n].lines, l)
  BY <1>1, <1>2, LinesReplaced
<1>4. [sent EXCEPT ![n].lines = Append(@, l)] = [sent EXCEPT ![n] = x]
  OBVIOUS
<1> HIDE DEF x
<1> DEFINE new == [sent EXCEPT ![n] = x]
<1>5. /\ new \in Seq(Mail) /\ Len(new) = Len(sent) /\ new[n] = x
      /\ DOMAIN new = DOMAIN sent
      /\ \A m \in DOMAIN sent : m # n => new[m] = sent[m]
  BY <1>3, MailReplaced, Zenon
<1> HIDE DEF new
<1>6. new[n].to = sent[n].to /\ new[n].lines = Append(sent[n].lines, l)
  BY <1>3, <1>5, Zenon
<1>7. [sent EXCEPT ![n].lines = Append(@, l)] = new
  BY <1>4, Zenon DEF new
<1> QED
  BY <1>5, <1>6, <1>7, Zenon

(* The mail of a client that is gone is empty.                             *)
LEMMA NoMailType == NoMail \in Mail
  BY EmptySeq, Zenon DEF NoMail, Mail

(* The final dot is a line with the number of its mail.                    *)
LEMMA DotType ==
    ASSUME NEW n \in Nat
    PROVE  Dot(n) \in MailLine /\ Dot(n).kind = "Dot" /\ Dot(n).num = n
  BY DEF Dot, Line, MailLine

(* A typed line is added to the mail of its client and to no other.        *)
LEMMA SentTyping ==
    ASSUME Typing, Bounded, NEW c \in Clients, NEW l \in MailLine, Types(c, l)
    PROVE  /\ MailOf(c) \in DOMAIN sent /\ sent' \in Seq(Mail)
           /\ Len(sent') = Len(sent) /\ DOMAIN sent' = DOMAIN sent
           /\ sent'[MailOf(c)].to = sent[MailOf(c)].to
           /\ sent'[MailOf(c)].lines = Append(sent[MailOf(c)].lines, l)
           /\ \A m \in DOMAIN sent : m # MailOf(c) => sent'[m] = sent[m]
<1>1. MailOf(c) \in DOMAIN sent
  BY DEF Types, Bounded, InMail
<1>2. sent' = [sent EXCEPT ![MailOf(c)].lines = Append(@, l)]
  BY DEF Types
<1> QED
  BY <1>1, <1>2, MailFields, Zenon DEF Typing

(* Typing a line keeps the types.                                          *)
LEMMA TypesTyping ==
    ASSUME Typing, Bounded, NEW c \in Clients, NEW l \in MailLine, Types(c, l),
           cli'[c] \in CliStates
    PROVE  Typing'
<1>1. sent' \in Seq(Mail)
  BY SentTyping
<1>2. cli' = [cli EXCEPT ![c] = cli'[c]] /\ asked' = asked /\ to' = to /\ lost' = lost
  BY DEF Types
<1>3. ClientTypes'
  BY <1>2 DEF Typing, ClientTypes
<1>4. ConnectionTypes'
  <2>1. up' = IF pc[c] = "none" THEN up ELSE [up EXCEPT ![c] = Append(up[c], Typed(l))]
    BY Zenon DEF Types, Sends
  <2>2. up[c] \in Seq(Sound) /\ Typed(l) \in Sound
    BY TypedLine DEF Typing, ConnectionTypes
  <2>3. Append(up[c], Typed(l)) \in Seq(Sound)
    BY <2>2, AppendType
  <2>4. down' = down
    BY DEF Types
  <2> QED
    BY <2>1, <2>3, <2>4 DEF Typing, ConnectionTypes
<1>5. ServerTypes'
  BY DEF Types, serverState, Typing, ServerTypes
<1> QED
  BY <1>1, <1>3, <1>4, <1>5 DEF Typing

(* A client's going keeps the types.                                       *)
LEMMA TypingLeft ==
    ASSUME Typing, Bounded, NEW c \in Clients, Left(c)
    PROVE  Typing'
<1>1. ClientTypes'
  BY DEF Left, Typing, ClientTypes, CliStates, NoCmd, Cmd, Message, Kinds
<1>2. ConnectionTypes' /\ ServerTypes'
  BY DEF Left, Typing, ConnectionTypes, ServerTypes, serverState
<1>3. sent' \in Seq(Mail)
  <2>1. sent' = IF InMail(c) THEN [sent EXCEPT ![MailOf(c)] = NoMail] ELSE sent
    BY LeftFacts, Zenon
  <2>2. CASE InMail(c)
    BY <2>1, <2>2, MailReplaced, NoMailType, Zenon DEF Bounded, Typing
  <2> QED
    BY <2>1, <2>2 DEF Typing
<1> QED
  BY <1>1, <1>2, <1>3 DEF Typing

(* What a client at the prompt last asked is a message without a number.   *)
LEMMA PromptType ==
    ASSUME Typing, NEW c \in Clients
    PROVE  AtPrompt(c) \in Message /\ AtPrompt(c).num = 0 /\ NoCmd \in Message
           /\ NoCmd.num = 0
<1>1. asked[c].kind \in Kinds /\ NoBox \in Boxes \cup {NoBox}
  BY DEF Typing, ClientTypes, Message
<1>2. \A k \in Kinds : Cmd(k, NoBox, 0) \in Message /\ Cmd(k, NoBox, 0).num = 0
  BY DEF Cmd, Message
<1>3. "none" \in Kinds
  BY DEF Kinds
<1> QED
  BY <1>1, <1>2, <1>3, Zenon DEF AtPrompt, NoCmd

(* Reading an answer keeps the types.                                      *)
LEMMA TypingResponse ==
    ASSUME Typing, NEW c \in Clients, ReadResponse(c)
    PROVE  Typing'
<1>1. DOMAIN down' = Clients
  BY DEF ReadResponse, Typing, ConnectionTypes
<1>2. ConnectionTypes' /\ ServerTypes'
  BY <1>1 DEF ReadResponse, Typing, ConnectionTypes, ServerTypes, serverState
<1>3. lost' \in [Clients -> BOOLEAN]
  <2>1. \E x \in BOOLEAN : lost' = [lost EXCEPT ![c] = x]
    BY Zenon DEF ReadResponse
  <2> QED
    BY <2>1 DEF Typing, ClientTypes
<1>4. to' \in [Clients -> Boxes \cup {NoBox}]
  <2>1. to' = to \/ to' = [to EXCEPT ![c] = asked[c].box]
    BY Zenon DEF ReadResponse
  <2>2. asked[c].box \in Boxes \cup {NoBox}
    BY DEF Typing, ClientTypes, Message
  <2> QED
    BY <2>1, <2>2 DEF Typing, ClientTypes
<1>5. /\ cli' \in [Clients -> CliStates] /\ asked' \in [Clients -> Message]
      /\ sent' \in Seq(Mail)
  <2>1. \/ /\ cli' = [cli EXCEPT ![c] = "body"]
           /\ asked' = [asked EXCEPT ![c] = [asked[c] EXCEPT !.num = Len(sent) + 1]]
           /\ sent' = Append(sent, [to |-> to[c], lines |-> <<>>])
        \/ /\ cli' = [cli EXCEPT ![c] = IF cli[c] = "stuck" \/ asked[c].kind = "QUIT"
                                        THEN "done" ELSE "prompt"]
           /\ asked' = [asked EXCEPT ![c] = AtPrompt(c)] /\ sent' = sent
    BY Zenon DEF ReadResponse
  <2>2. CASE /\ cli' = [cli EXCEPT ![c] = "body"]
             /\ asked' = [asked EXCEPT ![c] = [asked[c] EXCEPT !.num = Len(sent) + 1]]
             /\ sent' = Append(sent, [to |-> to[c], lines |-> <<>>])
    <3>1. [asked[c] EXCEPT !.num = Len(sent) + 1] \in Message
      BY SMTT(60) DEF Typing, ClientTypes, Message
    <3>2. [to |-> to[c], lines |-> <<>>] \in Mail
      BY EmptySeq DEF Typing, ClientTypes, Mail
    <3>3. Append(sent, [to |-> to[c], lines |-> <<>>]) \in Seq(Mail)
      BY <3>2, AppendType DEF Typing
    <3>4. asked' \in [Clients -> Message]
      BY <2>2, <3>1 DEF Typing, ClientTypes
    <3>5. cli' \in [Clients -> CliStates]
      BY <2>2 DEF Typing, ClientTypes, CliStates
    <3> QED
      BY <2>2, <3>3, <3>4, <3>5
  <2>3. CASE /\ cli' = [cli EXCEPT ![c] = IF cli[c] = "stuck" \/ asked[c].kind = "QUIT"
                                          THEN "done" ELSE "prompt"]
             /\ asked' = [asked EXCEPT ![c] = AtPrompt(c)] /\ sent' = sent
    BY <2>3, PromptType DEF Typing, ClientTypes, CliStates
  <2> QED
    BY <2>1, <2>2, <2>3
<1> QED
  BY <1>2, <1>3, <1>4, <1>5 DEF Typing, ClientTypes

(* Storing a mail keeps the types.                                         *)
LEMMA TypingStore ==
    ASSUME Typing, NEW c \in Clients, SessionAt(c), Store(c)
    PROVE  Typing'
<1>1. sess[c] \in Session /\ pc[c] = "append"
  BY DEF Typing, ServerTypes, Store
<1>2. /\ sess[c].rcpt \in Boxes /\ sess[c].body \in Seq(MailLine) /\ sess[c].id \in Nat
      /\ Stored(sess[c]) \in Session
  BY <1>1, SessionFields DEF SessionAt
<1>3. mailbox' \in [Boxes -> Seq(FileLine)]
  <2> DEFINE b == sess[c].rcpt
             f == mailbox[b] \o Entry(sess[c].id, sess[c].body)
  <2>1. mailbox' = mailbox \/ mailbox' = [mailbox EXCEPT ![b] = f]
    BY Zenon DEF Store
  <2>2. f \in Seq(FileLine)
    BY <1>2, EntryAppended DEF Typing, ServerTypes
  <2> HIDE DEF f
  <2> QED
    BY <1>2, <2>1, <2>2 DEF Typing, ServerTypes
<1>4. /\ sess' = [sess EXCEPT ![c] = Stored(sess[c])] /\ pc' = [pc EXCEPT ![c] = "read"]
      /\ UNCHANGED <<cli, asked, up, to, sent, lost>>
  BY Zenon DEF Store, clientState
<1>5. ServerTypes'
  BY <1>2, <1>3, <1>4 DEF Typing, ServerTypes
<1>6. DOMAIN down' = Clients
  BY DEF Store, Reply, Typing, ConnectionTypes
<1> QED
  BY <1>4, <1>5, <1>6 DEF Typing, ClientTypes, ConnectionTypes

(* Every step keeps the types.                                             *)
LEMMA TypingNext ==
    ASSUME Typing, Bounded, Sessions, [Next]_vars
    PROVE  Typing'
<1>0. CASE UNCHANGED vars
  BY <1>0 DEF vars, clientState, serverState, history, Typing, ClientTypes,
     ConnectionTypes, ServerTypes
<1>1. ASSUME NEW c \in Clients, Connect(c) PROVE Typing'
  <2>1. <<>> \in Seq(Sound) /\ NewSession \in Session
    BY EmptySeq, NewSessionType
  <2> QED
    BY <1>1, <2>1 DEF Connect, history, Typing, ClientTypes, CliStates, ConnectionTypes,
       ServerTypes
<1>2. ASSUME NEW c \in Clients, BodyEnd(c) PROVE Typing'
  <2>1. Types(c, Dot(MailOf(c))) /\ cli'[c] = "ended"
    BY <1>2, BodyEndFacts
  <2>2. Dot(MailOf(c)) \in MailLine
    <3>1. MailOf(c) \in Nat
      BY DEF Typing, ClientTypes, Message, MailOf
    <3> QED
      BY <3>1, DotType
  <2> QED
    BY <2>1, <2>2, TypesTyping DEF CliStates
<1>3. ASSUME NEW c \in Clients, BodyEof(c) PROVE Typing'
  BY <1>3 DEF BodyEof, history, serverState, Typing, ClientTypes, CliStates,
     ConnectionTypes, ServerTypes
<1>4. ASSUME NEW c \in Clients, Leave(c) \/ SeesClose(c) PROVE Typing'
  BY <1>4, TypingLeft DEF Leave, SeesClose
<1>5. ASSUME NEW c \in Clients, NEW m \in Commands, Command(c, m) PROVE Typing'
  <2>1. m \in Sound /\ m \in Message
    BY CommandTypes DEF Sound
  <2>2. /\ cli' = [cli EXCEPT ![c] = "wait"] /\ asked' = [asked EXCEPT ![c] = m]
        /\ up' = IF pc[c] = "none" THEN up ELSE [up EXCEPT ![c] = Append(up[c], m)]
        /\ UNCHANGED <<down, pc, sess, mailbox, to, sent, lost>>
    BY <1>5, Zenon DEF Command, Sends, serverState, history
  <2>3. Append(up[c], m) \in Seq(Sound)
    BY <2>1, AppendType DEF Typing, ConnectionTypes
  <2>4. ConnectionTypes'
    BY <2>2, <2>3 DEF Typing, ConnectionTypes
  <2> QED
    BY <2>1, <2>2, <2>4 DEF Typing, ClientTypes, CliStates, ServerTypes
<1>6. ASSUME NEW c \in Clients, cli[c] = "body",
             NEW l \in {Text(MailOf(c))} \cup {BodyId(n) : n \in BodyIds}, BodyLine(c, l)
      PROVE  Typing'
  <2>1. Types(c, l) /\ cli'[c] = "body"
    BY <1>6, BodyLineFacts
  <2>2. l \in MailLine
    <3>1. MailOf(c) \in Nat
      BY DEF Typing, ClientTypes, Message, MailOf
    <3> QED
      BY <1>6, <3>1, BodyLineType
  <2> QED
    BY <2>1, <2>2, TypesTyping DEF CliStates
<1>7. ASSUME NEW c \in Clients, ReadResponse(c) PROVE Typing'
  BY <1>7, TypingResponse
<1>8. ASSUME NEW c \in Clients, ReadMessage(c) PROVE Typing'
  <2>1. sess[c].data => sess[c].rcpt # NoBox
    BY DEF Sessions, SessionAt
  <2> QED
    BY <1>8, <2>1, ReadTyping
<1>9. ASSUME NEW c \in Clients, Store(c) PROVE Typing'
  BY <1>9, TypingStore DEF Sessions
<1>10. ASSUME NEW c \in Clients, EndSession(c) PROVE Typing'
  BY <1>10, NewSessionType DEF EndSession, clientState, history, Typing, ClientTypes,
     ConnectionTypes, ServerTypes
<1>11. CASE Crash
  <2>1. <<>> \in Seq(Sound) /\ NewSession \in Session
    BY EmptySeq, NewSessionType
  <2> QED
    BY <1>11, <2>1 DEF Crash, clientState, history, Typing, ClientTypes,
       ConnectionTypes, ServerTypes
<1> QED
  BY <1>0, <1>1, <1>2, <1>3, <1>4, <1>5, <1>6, <1>7, <1>8, <1>9, <1>10, <1>11
     DEF Next, UserStep, ServerStep

-----------------------------------------------------------------------------
(* The bound on mails.                                                     *)

LEMMA FewAsk ==
    /\ IsFiniteSet(DataAsked) /\ Cardinality(DataAsked) \in Nat
    /\ IsFiniteSet(DataAsked') /\ Cardinality(DataAsked') \in Nat
<1>1. DataAsked \in SUBSET Clients /\ DataAsked' \in SUBSET Clients
  BY DEF DataAsked
<1>2. IsFiniteSet(Clients)
  BY SmtpAssumption
<1>3. IsFiniteSet(DataAsked) /\ IsFiniteSet(DataAsked')
  BY <1>1, <1>2, FS_Subset, Zenon
<1> QED
  BY <1>3, FS_CardinalityType, Zenon

(* Whoever else waits for the answer to DATA, still does.                  *)
LEMMA OthersAsk ==
    ASSUME NEW c \in Clients, OthersSame(c)
    PROVE  \A d \in Clients : d # c =>
               /\ d \in DataAsked' <=> d \in DataAsked
               /\ InMail(d)' <=> InMail(d)
               /\ MailOf(d)' = MailOf(d) /\ asked'[d] = asked[d]
  BY DEF OthersSame, Same, DataAsked, InMail, MailOf

(* A step that begins no mail and promises none.                           *)
LEMMA BoundedKept ==
    ASSUME Typing, Bounded, NEW c \in Clients, OthersSame(c),
           Len(sent') = Len(sent), DOMAIN sent' = DOMAIN sent,
           acked' \subseteq DOMAIN sent,
           cli'[c] = "wait" /\ asked'[c].kind = "DATA" => c \in DataAsked,
           asked'[c].num <= MaxMails,
           InMail(c)' => asked'[c].num \in DOMAIN sent
    PROVE  Bounded'
<1>1. DataAsked' \in SUBSET DataAsked
  <2>1. \A d \in Clients : d # c => (d \in DataAsked' <=> d \in DataAsked)
    BY OthersAsk, Zenon
  <2>2. c \in DataAsked' => c \in DataAsked
    BY Zenon DEF DataAsked
  <2>3. \A d \in DataAsked' : d \in Clients
    BY DEF DataAsked
  <2> QED
    BY <2>1, <2>2, <2>3, Zenon
<1>2. Cardinality(DataAsked') <= Cardinality(DataAsked)
  BY <1>1, FewAsk, FS_Subset, Zenon
<1>3. Len(sent) \in Nat /\ MaxMails \in Nat
  BY LenProperties, SmtpAssumption DEF Typing
<1>4. Len(sent') + Cardinality(DataAsked') <= MaxMails
  <2>1. Len(sent) + Cardinality(DataAsked) <= MaxMails
    BY DEF Bounded
  <2> QED
    BY <1>2, <1>3, <2>1, FewAsk
<1>5. \A d \in Clients : asked'[d].num <= MaxMails
  BY OthersAsk DEF Bounded
<1>6. \A d \in Clients : InMail(d)' => MailOf(d)' \in DOMAIN sent'
  <2>1. ASSUME NEW d \in Clients, d # c, InMail(d)' PROVE MailOf(d)' \in DOMAIN sent'
    <3>1. MailOf(d)' = MailOf(d) /\ InMail(d)
      BY <2>1, OthersAsk, Zenon
    <3> QED
      BY <3>1 DEF Bounded
  <2>2. MailOf(c)' = asked'[c].num
    BY DEF MailOf
  <2> QED
    BY <2>1, <2>2
<1> QED
  BY <1>4, <1>5, <1>6, Zenon DEF Bounded

(* No mail has been begun in the initial state.                            *)
LEMMA BoundedInit == Init => Bounded
<1> SUFFICES ASSUME Init PROVE Bounded
  OBVIOUS
<1>1. DataAsked = {}
  BY DEF Init, DataAsked
<1>2. Cardinality(DataAsked) = 0
  BY <1>1, FS_EmptySet, Zenon
<1>3. Len(sent) = 0 /\ MaxMails \in Nat
  BY SmtpAssumption DEF Init
<1>4. \A c \in Clients : asked[c].num = 0 /\ ~InMail(c)
  BY DEF Init, NoCmd, Cmd, InMail
<1>5. acked = {}
  BY DEF Init
<1> QED
  BY <1>2, <1>3, <1>4, <1>5 DEF Bounded

(* DATA is sent only if the mail it may begin is within the bound.         *)
LEMMA BoundedCommand ==
    ASSUME Typing, Bounded, NEW c \in Clients, NEW m \in Commands, Command(c, m)
    PROVE  Bounded'
<1>1. m \in Sound /\ m.num \in Nat
  BY CommandTypes DEF Sound, Message
<1>2. /\ OthersSame(c) /\ sent' = sent /\ acked' = acked /\ cli[c] = "prompt"
      /\ cli'[c] = "wait" /\ asked'[c] = m
  BY <1>1, CommandFacts, Zenon
<1>3. m.num <= MaxMails
  BY CommandTypes, SmtpAssumption
<1>4. CASE m.kind # "DATA"
  <2>1. ~InMail(c)'
    BY <1>2 DEF InMail
  <2> QED
    BY <1>2, <1>3, <1>4, <2>1, BoundedKept DEF Bounded
<1>5. CASE m.kind = "DATA"
  <2>1. Len(sent) + Cardinality(DataAsked) < MaxMails
    <3>1. Len(sent) + Cardinality({d \in Clients : asked[d].kind = "DATA"
                                                 /\ cli[d] = "wait"}) < MaxMails
      BY <1>5 DEF Command
    <3> QED
      BY <3>1, Zenon DEF DataAsked
  <2>2. DataAsked' = DataAsked \cup {c}
    <3>1. \A d \in Clients : d # c => (d \in DataAsked' <=> d \in DataAsked)
      BY <1>2, OthersAsk, Zenon
    <3>2. c \in DataAsked'
      BY <1>2, <1>5 DEF DataAsked
    <3>3. DataAsked \subseteq Clients /\ DataAsked' \subseteq Clients
      BY DEF DataAsked
    <3> QED
      BY <3>1, <3>2, <3>3
  <2>3. c \notin DataAsked
    BY <1>2 DEF DataAsked
  <2>4. Cardinality(DataAsked') = Cardinality(DataAsked) + 1
    <3>1. Cardinality(DataAsked \cup {c})
              = IF c \in DataAsked THEN Cardinality(DataAsked) ELSE Cardinality(DataAsked) + 1
      BY FewAsk, FS_AddElement, Zenon
    <3> QED
      BY <2>2, <2>3, <3>1
  <2>5. Len(sent') + Cardinality(DataAsked') <= MaxMails
    <3>1. Len(sent) \in Nat /\ MaxMails \in Nat
      BY LenProperties, SmtpAssumption DEF Typing
    <3> QED
      BY <1>2, <2>1, <2>4, <3>1, FewAsk
  <2>6. \A d \in Clients : asked'[d].num <= MaxMails
    BY <1>2, <1>3, OthersAsk DEF Bounded
  <2>7. \A d \in Clients : InMail(d)' => d # c /\ InMail(d) /\ MailOf(d)' = MailOf(d)
    BY <1>2, OthersAsk DEF InMail
  <2> QED
    BY <1>2, <2>5, <2>6, <2>7 DEF Bounded
<1> QED
  BY <1>4, <1>5

(* An accepted DATA begins a mail for which Command left room.             *)
LEMMA BoundedResponse ==
    ASSUME Typing, Bounded, NEW c \in Clients, ReadResponse(c)
    PROVE  Bounded'
<1>1. /\ OthersSame(c) /\ Waiting(c)
      /\ AsksData(c) =>
             /\ cli'[c] = "body" /\ asked'[c] = [asked[c] EXCEPT !.num = Len(sent) + 1]
             /\ sent' = Append(sent, [to |-> to[c], lines |-> <<>>])
      /\ ~AsksData(c) => /\ cli'[c] \in {"done", "prompt"}
                         /\ asked'[c] = AtPrompt(c) /\ sent' = sent
      /\ acked' = acked \/ (cli[c] = "ended" /\ acked' = acked \cup {MailOf(c)})
  BY ResponseFacts, ZenonT(60)
<1>2. /\ Len(sent) \in Nat /\ DOMAIN sent = 1..Len(sent) /\ MaxMails \in Nat
      /\ sent' \in Seq(Mail)
  <2>1. sent' \in Seq(Mail)
    BY TypingResponse DEF Typing
  <2> QED
    BY <2>1, LenProperties, SmtpAssumption DEF Typing
<1>3. acked' \subseteq DOMAIN sent
  <2>1. cli[c] = "ended" => MailOf(c) \in DOMAIN sent
    BY DEF Bounded, InMail
  <2> QED
    BY <1>1, <2>1 DEF Bounded
<1>4. CASE ~AsksData(c)
  <2>1. ~InMail(c)' /\ cli'[c] # "wait"
    BY <1>1, <1>4 DEF InMail
  <2>2. asked'[c].num <= MaxMails
    <3>1. asked'[c].num = 0
      BY <1>1, <1>4, PromptType, Zenon
    <3>2. 0 <= MaxMails
      BY <1>2
    <3> QED
      BY <3>1, <3>2, Zenon
  <2> QED
    BY <1>1, <1>3, <1>4, <2>1, <2>2, BoundedKept
<1>5. CASE AsksData(c)
  <2>1. DataAsked' = DataAsked \ {c} /\ c \in DataAsked
    <3>1. \A d \in Clients : d # c => (d \in DataAsked' <=> d \in DataAsked)
      BY <1>1, OthersAsk, Zenon
    <3>2. c \notin DataAsked' /\ c \in DataAsked
      BY <1>1, <1>5 DEF DataAsked, AsksData
    <3>3. DataAsked \subseteq Clients /\ DataAsked' \subseteq Clients
      BY DEF DataAsked
    <3> QED
      BY <3>1, <3>2, <3>3
  <2>2. Cardinality(DataAsked') = Cardinality(DataAsked) - 1
    <3>1. Cardinality(DataAsked \ {c})
              = IF c \in DataAsked THEN Cardinality(DataAsked) - 1 ELSE Cardinality(DataAsked)
      BY FewAsk, FS_RemoveElement, Zenon
    <3> QED
      BY <2>1, <3>1
  <2>3. Len(sent') = Len(sent) + 1 /\ DOMAIN sent' = 1..(Len(sent) + 1)
    <3> DEFINE x == [to |-> to[c], lines |-> <<>>]
    <3>1. sent \in Seq({x} \cup Mail) /\ x \in {x} \cup Mail
      <4>1. Mail \subseteq {x} \cup Mail
        OBVIOUS
      <4> QED
        BY <4>1, SeqMonotonic, Zenon DEF Typing
    <3> HIDE DEF x
    <3>2. Len(Append(sent, x)) = Len(sent) + 1
      BY <3>1, AppendType, Zenon
    <3>3. Len(sent') = Len(sent) + 1
      BY <1>1, <1>5, <3>2 DEF x
    <3> QED
      BY <1>2, <3>3, LenProperties
  <2>4. Len(sent') + Cardinality(DataAsked') <= MaxMails
    <3>1. Len(sent) + Cardinality(DataAsked) <= MaxMails
      BY DEF Bounded
    <3> QED
      BY <1>2, <2>2, <2>3, <3>1, FewAsk
  <2>5. asked'[c].num = Len(sent) + 1
    BY <1>1, <1>5 DEF Typing, ClientTypes, Message
  <2>6. asked'[c].num <= MaxMails
    BY <1>2, <2>3, <2>4, <2>5, FewAsk
  <2>7. \A d \in Clients : asked'[d].num <= MaxMails
    BY <1>1, <2>6, OthersAsk DEF Bounded
  <2>8. DOMAIN sent \subseteq DOMAIN sent' /\ Len(sent) + 1 \in DOMAIN sent'
    BY <1>2, <2>3
  <2>9. \A d \in Clients : InMail(d)' => MailOf(d)' \in DOMAIN sent'
    <3>1. MailOf(c)' = Len(sent) + 1
      BY <2>5 DEF MailOf
    <3>2. \A d \in Clients : d # c /\ InMail(d)' => MailOf(d)' \in DOMAIN sent
      BY <1>1, OthersAsk DEF Bounded
    <3> QED
      BY <2>8, <3>1, <3>2, Zenon
  <2> QED
    BY <1>3, <2>4, <2>7, <2>8, <2>9 DEF Bounded
<1> QED
  BY <1>4, <1>5

(* Every step keeps the bound on mails.                                    *)
LEMMA BoundedNext ==
    ASSUME Typing, Bounded, Sessions, [Next]_vars
    PROVE  Bounded'
<1> DEFINE Keeps(c) ==
        /\ OthersSame(c)
        /\ Len(sent') = Len(sent) /\ DOMAIN sent' = DOMAIN sent
        /\ acked' = acked
        /\ cli'[c] # "wait" \/ (cli'[c] = cli[c] /\ asked'[c] = asked[c])
        /\ asked'[c] = asked[c] \/ asked'[c] = NoCmd
        /\ InMail(c)' => asked'[c] = asked[c] /\ InMail(c)
<1>1. ASSUME NEW c \in Clients, Keeps(c) PROVE Bounded'
  <2>1. acked' \subseteq DOMAIN sent
    BY <1>1 DEF Bounded
  <2>2. cli'[c] = "wait" /\ asked'[c].kind = "DATA" => c \in DataAsked
    BY <1>1 DEF DataAsked
  <2>3. asked'[c].num <= MaxMails
    <3>1. 0 <= MaxMails
      BY SmtpAssumption
    <3> QED
      BY <1>1, <3>1, PromptType DEF Bounded
  <2>4. InMail(c)' => asked'[c].num \in DOMAIN sent
    BY <1>1 DEF Bounded, MailOf
  <2> QED
    BY <1>1, <2>1, <2>2, <2>3, <2>4, BoundedKept
<1>2. CASE UNCHANGED vars
  <2>1. DataAsked' = DataAsked
    BY <1>2 DEF vars, clientState, DataAsked
  <2> QED
    BY <1>2, <2>1 DEF vars, clientState, history, Bounded, InMail, MailOf
<1>3. ASSUME NEW c \in Clients, Connect(c) PROVE Keeps(c)
  BY <1>3, ConnectFacts DEF InMail
<1>4. ASSUME NEW c \in Clients, NEW l \in MailLine, Types(c, l),
             cli'[c] \in {"body", "ended"}
      PROVE  Keeps(c)
  <2>1. Len(sent') = Len(sent) /\ DOMAIN sent' = DOMAIN sent
    BY <1>4, SentTyping, Zenon
  <2> QED
    BY <1>4, <2>1, TypesFacts DEF InMail
<1>5. ASSUME NEW c \in Clients, BodyEof(c) PROVE Keeps(c)
  BY <1>5, BodyEofFacts DEF InMail
<1>6. ASSUME NEW c \in Clients, Left(c) PROVE Keeps(c)
  <2>1. sent' = IF InMail(c) THEN [sent EXCEPT ![MailOf(c)] = NoMail] ELSE sent
    BY <1>6, LeftFacts, Zenon
  <2>2. Len(sent') = Len(sent) /\ DOMAIN sent' = DOMAIN sent
    <3>1. CASE InMail(c)
      BY <2>1, <3>1, MailReplaced, NoMailType, Zenon DEF Bounded, Typing
    <3> QED
      BY <2>1, <3>1
  <2> QED
    BY <1>6, <2>2, LeftFacts DEF InMail
<1>7. ASSUME NEW c \in Clients, ReadMessage(c) PROVE Keeps(c)
  BY <1>7, ReadFrame DEF ReadMessageFrame, InMail
<1>8. ASSUME NEW c \in Clients, Store(c) PROVE Keeps(c)
  BY <1>8, StoreFacts DEF InMail
<1>9. ASSUME NEW c \in Clients, EndSession(c) PROVE Keeps(c)
  BY <1>9, EndSessionFacts DEF InMail
<1>10. CASE Crash
  <2>1. DataAsked' = DataAsked
    BY <1>10 DEF Crash, clientState, DataAsked
  <2> QED
    BY <1>10, <2>1 DEF Crash, clientState, history, Bounded, InMail, MailOf
<1>11. ASSUME NEW c \in Clients, BodyEnd(c) PROVE Keeps(c)
  <2>1. MailOf(c) \in Nat
    BY DEF Typing, ClientTypes, Message, MailOf
  <2> QED
    BY <1>4, <1>11, <2>1, BodyEndFacts, DotType
<1>12. ASSUME NEW c \in Clients,
              NEW l \in {Text(MailOf(c))} \cup {BodyId(n) : n \in BodyIds}, BodyLine(c, l)
       PROVE  Keeps(c)
  <2>1. MailOf(c) \in Nat
    BY DEF Typing, ClientTypes, Message, MailOf
  <2>2. l \in MailLine
    BY <2>1, BodyLineType
  <2> QED
    BY <1>4, <1>12, <2>2, BodyLineFacts
<1> HIDE DEF Keeps
<1> QED
  BY <1>1, <1>2, <1>3, <1>5, <1>6, <1>7, <1>8, <1>9, <1>10, <1>11, <1>12,
     BoundedCommand, BoundedResponse DEF Next, UserStep, ServerStep, Leave, SeesClose

-----------------------------------------------------------------------------
(* Sessions.                                                               *)

LEMMA NewSessionFields ==
    /\ NewSession.body = <<>> /\ ~NewSession.data /\ NewSession.rcpt = NoBox
    /\ DOMAIN <<>> = {}
  BY DEF NewSession

(* A message to a thread that is there changes nothing about its session.  *)
LEMMA SessionKept ==
    ASSUME NEW c, SessionAt(c), pc'[c] = pc[c], sess'[c] = sess[c],
           up'[c] = up[c] \/ pc[c] # "none"
    PROVE  SessionAt(c)'
  BY DEF SessionAt

(* The variables of a new thread, or of one that is gone, are as they      *)
(* should be.                                                              *)
LEMMA SessionNew ==
    ASSUME NEW c, pc'[c] \in {"none", "read"}, sess'[c] = NewSession, up'[c] = <<>>
    PROVE  SessionAt(c)'
  BY NewSessionFields DEF SessionAt

(* What the body is after a message in DATA mode.                          *)
LEMMA BodyGrows ==
    ASSUME NEW s \in Session, NEW m \in Sound
    PROVE  LET b == Append(s.body, AsLine(m))
           IN  /\ b \in Seq(MailLine) /\ DOMAIN b = 1..(Len(s.body) + 1)
               /\ Len(b) = Len(s.body) + 1 /\ b # <<>>
               /\ Len(s.body) \in Nat /\ DOMAIN s.body = 1..Len(s.body)
               /\ \A i \in 1..Len(s.body) : b[i] = s.body[i]
               /\ b[Len(s.body) + 1] = AsLine(m)
               /\ [s EXCEPT !.body = b].body = b
               /\ [s EXCEPT !.body = b].rcpt = s.rcpt
               /\ [s EXCEPT !.body = b].data = s.data
               /\ [s EXCEPT !.body = b] \in Session
<1> DEFINE b == Append(s.body, AsLine(m))
           t == [s EXCEPT !.body = b]
<1>1. AsLine(m) \in MailLine /\ s.body \in Seq(MailLine)
  BY AsLineIsLine, SessionFields DEF Sound
<1>2. /\ b \in Seq(MailLine) /\ Len(b) = Len(s.body) + 1
      /\ b[Len(s.body) + 1] = AsLine(m) /\ Len(s.body) \in Nat
      /\ \A i \in 1..Len(s.body) : b[i] = s.body[i]
  BY <1>1, AppendType
<1>3. DOMAIN b = 1..Len(b) /\ DOMAIN s.body = 1..Len(s.body)
  BY <1>1, <1>2, LenProperties, Zenon
<1> HIDE DEF b
<1>4. b # <<>>
  <2>1. Len(<<>>) = 0
    BY EmptySeq
  <2> QED
    BY <1>2, <2>1
<1>5. t.body = b /\ t.rcpt = s.rcpt /\ t.data = s.data /\ t \in Session
  <2>1. t \in Session
    BY <1>2, SessionFields
  <2>2. s = [helo |-> s.helo, sender |-> s.sender, rcpt |-> s.rcpt, data |-> s.data,
             body |-> s.body, id |-> s.id]
    BY DEF Session
  <2> QED
    BY <2>1, <2>2
<1>6. DOMAIN b = 1..(Len(s.body) + 1)
  BY <1>2, <1>3
<1> QED
  BY <1>2, <1>3, <1>4, <1>5, <1>6, Zenon DEF b

(* What the dot and store_email change in the variables of the thread.     *)
LEMMA EndDataFields ==
    ASSUME NEW s \in Session, NEW n \in Nat
    PROVE  /\ EndData(s, n).body = s.body /\ EndData(s, n).rcpt = s.rcpt
           /\ EndData(s, n).id = n /\ EndData(s, n).data = FALSE
           /\ Stored(s).body = <<>> /\ Stored(s).rcpt = s.rcpt /\ Stored(s).data = s.data
  BY DEF EndData, Stored, Session

(* The session after a message, in terms of the fields that matter.        *)
LEMMA SessionAfter ==
    ASSUME Typing, NEW c \in Clients, SessionAt(c), NEW m \in Sound,
           ReadLine(c, m) \/ ReadDot(c, m)
    PROVE  LET b == Append(sess[c].body, AsLine(m))
           IN  /\ sess'[c].body = b /\ sess'[c].rcpt = sess[c].rcpt
               /\ sess'[c].data <=> ReadLine(c, m)
               /\ ReadDot(c, m) => /\ sess'[c].id = NextId(mailbox[sess[c].rcpt])
                                   /\ sess'[c].id \in Nat \ {0}
               /\ sess[c].rcpt \in Boxes
<1> DEFINE b == Append(sess[c].body, AsLine(m))
           t == [sess[c] EXCEPT !.body = b]
<1>1. sess[c] \in Session
  BY DEF Typing, ServerTypes
<1>2. t.body = b /\ t.rcpt = sess[c].rcpt /\ t.data = sess[c].data /\ t \in Session
  BY <1>1, BodyGrows, Zenon
<1>3. sess[c].rcpt \in Boxes /\ sess[c].data
  <2>1. sess[c].data
    BY DEF ReadLine, ReadDot
  <2>2. sess[c].rcpt # NoBox
    BY <2>1 DEF SessionAt
  <2> QED
    BY <1>1, <2>1, <2>2, SessionFields
<1> HIDE DEF t, b
<1>4. CASE ReadLine(c, m)
  <2>1. sess'[c] = t /\ m.kind # "Dot"
    BY <1>4, Zenon DEF ReadLine, t, b
  <2>2. ~ReadDot(c, m)
    BY <2>1 DEF ReadDot
  <2> QED
    BY <1>2, <1>3, <1>4, <2>1, <2>2, Zenon DEF b
<1>5. CASE ReadDot(c, m)
  <2> DEFINE n == NextId(mailbox[sess[c].rcpt])
  <2>1. sess'[c] = EndData(t, n) /\ m.kind = "Dot"
    BY <1>5, Zenon DEF ReadDot, t, b
  <2>2. n \in Nat \ {0}
    BY <1>3, NextIdIsNew DEF Typing, ServerTypes
  <2> HIDE DEF n
  <2>3. EndData(t, n).body = t.body /\ EndData(t, n).rcpt = t.rcpt
        /\ EndData(t, n).id = n /\ EndData(t, n).data = FALSE
    BY <1>2, <2>2, EndDataFields
  <2>4. ~ReadLine(c, m)
    BY <2>1 DEF ReadLine
  <2>5. sess'[c].body = b /\ sess'[c].rcpt = sess[c].rcpt /\ ~sess'[c].data
        /\ sess'[c].id = n
    BY <1>2, <2>1, <2>3
  <2> QED
    BY <1>3, <1>5, <2>2, <2>4, <2>5, Zenon DEF b, n
<1> QED
  BY <1>4, <1>5

(* There are no sessions in the initial state.                             *)
LEMMA SessionsInit == Init => Sessions
  BY NewSessionFields DEF Init, Sessions, SessionAt

(* Every step keeps the sessions as their place in the thread demands.     *)
LEMMA SessionsNext ==
    ASSUME Typing, Sessions, [Next]_vars
    PROVE  Sessions'
<1>0. CASE UNCHANGED vars
  BY <1>0, SessionKept DEF vars, serverState, Sessions
<1>1. ASSUME NEW c \in Clients, OthersSame(c), SessionAt(c)' PROVE Sessions'
  <2>1. ASSUME NEW d \in Clients, d # c PROVE SessionAt(d)'
    <3>1. SessionAt(d) /\ pc'[d] = pc[d] /\ sess'[d] = sess[d] /\ up'[d] = up[d]
      BY <1>1, <2>1 DEF Sessions, OthersSame, Same
    <3> QED
      BY <3>1, SessionKept
  <2> QED
    BY <1>1, <2>1 DEF Sessions
<1>2. ASSUME NEW c \in Clients, Connect(c) PROVE Sessions'
  BY <1>1, <1>2, ConnectFacts, SessionNew
<1>3. ASSUME NEW c \in Clients, NEW l, Types(c, l) PROVE Sessions'
  BY <1>1, <1>3, TypesFacts, SessionKept DEF Sessions
<1>4. ASSUME NEW c \in Clients, BodyEof(c) PROVE Sessions'
  BY <1>1, <1>4, BodyEofFacts, SessionKept DEF Sessions
<1>5. ASSUME NEW c \in Clients, Left(c) PROVE Sessions'
  BY <1>1, <1>5, LeftFacts, SessionKept DEF Sessions
<1>6. ASSUME NEW c \in Clients, NEW m \in Commands, Command(c, m) PROVE Sessions'
  <2>1. m \in Sound
    BY CommandTypes
  <2> QED
    BY <1>1, <1>6, <2>1, CommandFacts, SessionKept DEF Sessions
<1>7. ASSUME NEW c \in Clients, ReadResponse(c) PROVE Sessions'
  <2>1. /\ OthersSame(c) /\ up'[c] = up[c] /\ pc'[c] = pc[c] /\ sess'[c] = sess[c]
    BY <1>7, ResponseFacts, Zenon
  <2> QED
    BY <1>1, <2>1, SessionKept DEF Sessions
<1>8. ASSUME NEW c \in Clients, ReadMessage(c) PROVE Sessions'
  <2> DEFINE m == Head(up[c])
  <2>1. /\ ReadMessageFrame(c)
        /\ \/ ReadLine(c, m) \/ ReadDot(c, m) \/ ReadQuit(c, m)
           \/ \E a : ReadCommand(c, m, a)
    BY <1>8, ReadFrame, ReadCases, Zenon
  <2>2. m \in Sound /\ sess[c] \in Session /\ pc[c] = "read"
    BY <1>8, ReadTypes DEF Typing, ServerTypes, ReadMessage
  <2>3. SessionAt(c)
    BY DEF Sessions
  <2> HIDE DEF m
  <2> DEFINE b == Append(sess[c].body, AsLine(m))
             n == Len(sess[c].body)
  <2>4. /\ DOMAIN b = 1..(n + 1) /\ Len(b) = n + 1 /\ b # <<>> /\ n \in Nat
        /\ DOMAIN sess[c].body = 1..n
        /\ \A i \in 1..n : b[i] = sess[c].body[i]
        /\ b[n + 1] = AsLine(m)
    BY <2>2, BodyGrows, Zenon
  <2>5. \A i \in 1..n : sess[c].body[i].kind # "Dot"
    BY <2>2, <2>3, <2>4 DEF SessionAt
  <2>6. AsLine(m).kind = "Dot" <=> m.kind = "Dot"
    BY <2>2, AsLineIsLine DEF Sound
  <2> HIDE DEF b
  <2>7. \A i \in 1..(n + 1) : b[i].kind = "Dot" => i = n + 1 /\ m.kind = "Dot"
    <3>1. \A i \in 1..(n + 1) : i = n + 1 \/ i \in 1..n
      BY <2>4
    <3>2. ASSUME NEW i \in 1..n PROVE b[i].kind # "Dot"
      BY <2>4, <2>5, Zenon
    <3>3. b[n + 1].kind = "Dot" => m.kind = "Dot"
      BY <2>4, <2>6, Zenon
    <3> QED
      <4> SUFFICES ASSUME NEW i \in 1..(n + 1), b[i].kind = "Dot"
                   PROVE  i = n + 1 /\ m.kind = "Dot"
        OBVIOUS
      <4>1. i \notin 1..n
        BY <3>2
      <4>2. i = n + 1
        BY <3>1, <4>1
      <4> QED
        BY <3>3, <4>2, Zenon
  <2>8. CASE ReadLine(c, m) \/ ReadDot(c, m)
    <3>1. /\ sess'[c].body = b /\ sess'[c].rcpt = sess[c].rcpt /\ sess[c].rcpt \in Boxes
          /\ sess'[c].data <=> ReadLine(c, m)
          /\ ReadDot(c, m) => sess'[c].id \in Nat \ {0}
      BY <2>2, <2>3, <2>8, SessionAfter, Zenon DEF b
    <3>2. sess[c].rcpt # NoBox
      BY <3>1, NoBoxAssumption
    <3>3. CASE ReadLine(c, m)
      <4>1. pc'[c] = "read" /\ m.kind # "Dot"
        BY <3>3 DEF ReadLine
      <4>2. SessionAt(c)'
        BY <2>4, <2>7, <3>1, <3>2, <3>3, <4>1 DEF SessionAt
      <4> QED
        BY <1>1, <2>1, <4>2 DEF ReadMessageFrame
    <3>4. CASE ReadDot(c, m)
      <4>1. pc'[c] = "append" /\ m.kind = "Dot" /\ ~ReadLine(c, m)
        BY <3>4 DEF ReadDot, ReadLine
      <4>2. b[Len(b)].kind = "Dot"
        BY <2>4, <2>6, <4>1
      <4>3. SessionAt(c)'
        BY <2>4, <2>7, <3>1, <3>2, <3>4, <4>1, <4>2 DEF SessionAt
      <4> QED
        BY <1>1, <2>1, <4>3 DEF ReadMessageFrame
    <3> QED
      BY <2>8, <3>3, <3>4
  <2>9. CASE ReadQuit(c, m)
    <3>1. pc'[c] = "none" /\ sess'[c] = NewSession
      BY <2>9 DEF ReadQuit
    <3>2. up'[c] = <<>>
      BY <2>1, <3>1, Zenon DEF ReadMessageFrame, Consumes
    <3> QED
      BY <1>1, <2>1, <3>1, <3>2, SessionNew DEF ReadMessageFrame
  <2>10. CASE \E a : ReadCommand(c, m, a)
    <3>1. PICK a : ReadCommand(c, m, a)
      BY <2>10
    <3>2. /\ ~sess[c].data /\ pc'[c] = "read" /\ sess'[c].body = sess[c].body
          /\ sess'[c].data => /\ sess[c].rcpt # NoBox /\ m.kind = "DATA"
          /\ m.kind = "DATA" => sess'[c].rcpt = sess[c].rcpt
      BY <3>1 DEF ReadCommand
    <3>3. sess[c].body = <<>>
      BY <2>2, <2>3, <3>2 DEF SessionAt
    <3>4. SessionAt(c)'
      BY <3>2, <3>3, NewSessionFields DEF SessionAt
    <3> QED
      BY <1>1, <2>1, <3>4 DEF ReadMessageFrame
  <2> QED
    BY <2>1, <2>8, <2>9, <2>10
<1>9. ASSUME NEW c \in Clients, Store(c) PROVE Sessions'
  <2>1. /\ OthersSame(c) /\ pc[c] = "append" /\ pc'[c] = "read"
        /\ sess'[c] = Stored(sess[c])
    BY <1>9, StoreFacts, Zenon
  <2>2. SessionAt(c) /\ sess[c] \in Session /\ 0 \in Nat
    BY DEF Sessions, Typing, ServerTypes
  <2>3. sess'[c].body = <<>> /\ sess'[c].data = sess[c].data
    BY <2>1, <2>2, EndDataFields
  <2>4. ~sess[c].data
    BY <2>1, <2>2 DEF SessionAt
  <2>5. SessionAt(c)'
    BY <2>1, <2>3, <2>4, NewSessionFields DEF SessionAt
  <2> QED
    BY <1>1, <2>1, <2>5
<1>10. ASSUME NEW c \in Clients, EndSession(c) PROVE Sessions'
  BY <1>1, <1>10, EndSessionFacts, SessionNew
<1>11. CASE Crash
  <2>1. \A c \in Clients : pc'[c] = "none" /\ sess'[c] = NewSession /\ up'[c] = <<>>
    BY <1>11 DEF Crash
  <2> QED
    BY <2>1, SessionNew DEF Sessions
<1>12. ASSUME NEW c \in Clients, BodyEnd(c) PROVE Sessions'
  BY <1>3, <1>12, BodyEndFacts
<1>13. ASSUME NEW c \in Clients, NEW l, BodyLine(c, l) PROVE Sessions'
  BY <1>3, <1>13, BodyLineFacts
<1> QED
  BY <1>0, <1>2, <1>4, <1>5, <1>6, <1>7, <1>8, <1>9, <1>10, <1>11, <1>12, <1>13
     DEF Next, UserStep, ServerStep, Leave, SeesClose

-----------------------------------------------------------------------------
(* Files: store_email appends a mail's lines in one piece.                 *)

(* The mail whose ID line is at s ends with the dot at e.                  *)
EntryAt(file, s, e) ==
    /\ s \in 1..Len(file) /\ e \in 1..Len(file) /\ s + 3 <= e
    /\ file[s].kind = "ID" /\ file[s].num # 0 /\ file[e].kind = "Dot"
    /\ file[s + 1].kind = "From" /\ file[s + 2].kind = "Date"
    /\ \A j \in (s + 1)..(e - 1) : file[j].kind # "ID" /\ file[j].kind # "Dot"

IdIsNew(file, s) == \A j \in 1..(s - 1) : IsId(file[j]) => file[j].num < file[s].num

(* A line of a body that looks like an ID's has its mail's dot behind it.  *)
DotBehind(file, i) ==
    \E e \in 1..Len(file) :
        /\ i < e /\ file[e].kind = "Dot"
        /\ \A j \in (i + 1)..(e - 1) : file[j].kind # "ID"

(* Every ID line begins a mail and every dot ends one, whose ID was new    *)
(* unless its number is in R.                                              *)
WellFormed(file, R) ==
    /\ \A s \in 1..Len(file) :
           file[s].kind = "ID" => \E e \in 1..Len(file) : EntryAt(file, s, e)
    /\ \A e \in 1..Len(file) :
           file[e].kind = "Dot" =>
               \E s \in 1..Len(file) :
                   EntryAt(file, s, e) /\ (file[e].num \notin R => IdIsNew(file, s))
    /\ \A i \in 1..Len(file) : file[i].kind = "BodyId" => DotBehind(file, i)

Files == \A b \in Boxes : WellFormed(mailbox[b], raced)

(* Positions in a file are numbers.                                        *)
LEMMA IndexNat == \A n \in Nat : \A i \in 1..n : i \in Nat
  OBVIOUS

(* What is appended to a file leaves the mails in it as they are.          *)
LEMMA EntryKept ==
    ASSUME NEW file \in Seq(FileLine), NEW g \in Seq(FileLine), Len(g) >= Len(file),
           \A i \in 1..Len(file) : g[i] = file[i],
           NEW s \in Nat, NEW e \in Nat, EntryAt(file, s, e)
    PROVE  EntryAt(g, s, e) /\ (IdIsNew(file, s) => IdIsNew(g, s))
<1>1. Len(file) \in Nat /\ Len(g) \in Nat
  BY FileLines
<1>2. EntryAt(g, s, e)
  BY <1>1, SMTT(60) DEF EntryAt
<1>3. \A j \in 1..(s - 1) : g[j] = file[j]
  BY <1>1 DEF EntryAt
<1>4. g[s] = file[s]
  BY DEF EntryAt
<1> QED
  BY <1>2, <1>3, <1>4 DEF IdIsNew

(* The files stay well formed when a thread appends a mail whose body ends *)
(* with its only dot.                                                      *)
LEMMA MailAppended ==
    ASSUME NEW file \in Seq(FileLine), NEW id \in Nat \ {0}, NEW body \in Seq(MailLine),
           body # <<>>, body[Len(body)].kind = "Dot",
           \A i \in 1..Len(body) : body[i].kind = "Dot" => i = Len(body),
           NEW R, NEW S, R \subseteq S, WellFormed(file, R),
           id = NextId(file) \/ body[Len(body)].num \in S
    PROVE  WellFormed(file \o Entry(id, body), S)
<1> DEFINE f == file \o Entry(id, body)
           n == Len(file)
           k == Len(body)
<1>1. /\ f \in Seq(FileLine) /\ n \in Nat /\ k \in Nat /\ Len(f) = n + k + 4
      /\ \A i \in 1..n : f[i] = file[i]
      /\ f[n + 1] = Line("ID", id) /\ f[n + 2] = Line("From", 0) /\ f[n + 3] = Line("Date", 0)
      /\ \A i \in 1..k : f[n + 3 + i] = body[i]
      /\ f[n + k + 4] = Blank
  <2>1. id \in Nat
    OBVIOUS
  <2> HIDE DEF f
  <2>2. LET g == file \o Entry(id, body)
        IN  /\ g \in Seq(FileLine) /\ n \in Nat /\ k \in Nat /\ Len(g) = n + k + 4
            /\ \A i \in 1..n : g[i] = file[i]
            /\ g[n + 1] = Line("ID", id) /\ g[n + 2] = Line("From", 0)
            /\ g[n + 3] = Line("Date", 0)
            /\ \A i \in 1..k : g[n + 3 + i] = body[i]
            /\ g[n + k + 4] = Blank
    BY <2>1, EntryAppended, ZenonT(120)
  <2> QED
    BY <2>2, Zenon DEF f
<1> HIDE DEF f
<1>0. Len(f) >= n
  BY <1>1
<1>2. k >= 1
  BY <1>1, EmptySeq
<1>3. /\ f[n + 1].kind = "ID" /\ f[n + 1].num = id /\ f[n + 2].kind = "From"
      /\ f[n + 3].kind = "Date" /\ f[n + k + 4].kind = "Blank"
  BY <1>1 DEF Line, Blank
<1>4. \A i \in 1..k : body[i] \in MailLine
  BY <1>1, ElementOfSeq
<1>5. \A i \in 1..k : body[i].kind # "ID"
  BY <1>4 DEF MailLine
<1>6. \A i \in 1..Len(f) : \/ i \in 1..n \/ i = n + 1 \/ i = n + 2 \/ i = n + 3
                           \/ i = n + k + 4 \/ \E j \in 1..k : i = n + 3 + j
  <2> HIDE DEF n, k
  <2> SUFFICES ASSUME NEW i \in 1..Len(f)
               PROVE  \/ i \in 1..n \/ i = n + 1 \/ i = n + 2 \/ i = n + 3
                      \/ i = n + k + 4 \/ \E j \in 1..k : i = n + 3 + j
    BY Zenon
  <2>1. CASE i <= n + 3 \/ i = n + k + 4
    BY <1>1, <2>1
  <2>2. CASE i > n + 3 /\ i # n + k + 4
    <3>1. i - (n + 3) \in 1..k /\ i = n + 3 + (i - (n + 3))
      BY <1>1, <2>2
    <3> QED
      BY <3>1, Zenon
  <2> QED
    BY <1>1, <2>1, <2>2
<1>7. EntryAt(f, n + 1, n + 3 + k)
  <2>1. ASSUME NEW j \in (n + 2)..(n + 2 + k)
        PROVE  f[j].kind # "ID" /\ f[j].kind # "Dot"
    <3>1. CASE j \in {n + 2, n + 3}
      BY <1>3, <3>1
    <3>2. CASE j > n + 3
      <4>1. j - (n + 3) \in 1..k /\ j = n + 3 + (j - (n + 3)) /\ j - (n + 3) # k
        BY <1>1, <3>2
      <4>2. f[j] = body[j - (n + 3)]
        BY <1>1, <4>1
      <4> QED
        BY <1>5, <4>1, <4>2
    <3> QED
      BY <1>1, <3>1, <3>2
  <2>2. f[n + 3 + k] = body[k]
    BY <1>1, <1>2
  <2> QED
    BY <1>1, <1>2, <1>3, <2>1, <2>2 DEF EntryAt
<1>8. body[k].num \notin S => IdIsNew(f, n + 1)
  <2> SUFFICES ASSUME body[k].num \notin S, NEW j \in 1..n, IsId(f[j])
               PROVE  f[j].num < f[n + 1].num
    BY <1>1 DEF IdIsNew
  <2>1. id = NextId(file) /\ f[j] = file[j]
    BY <1>1
  <2> QED
    BY <1>3, <2>1, NextIdIsNew
<1>9. ASSUME NEW s \in 1..Len(f), f[s].kind = "ID"
      PROVE  \E e \in 1..Len(f) : EntryAt(f, s, e)
  <2>1. CASE s \in 1..n
    <3>1. file[s].kind = "ID"
      BY <1>1, <1>9, <2>1
    <3>2. PICK e \in 1..n : EntryAt(file, s, e)
      BY <2>1, <3>1 DEF WellFormed
    <3>3. EntryAt(f, s, e)
      BY <1>0, <1>1, <2>1, <3>2, EntryKept, IndexNat
    <3> QED
      BY <1>1, <3>3
  <2>2. CASE s \notin 1..n
    <3>1. s = n + 1
      BY <1>1, <1>3, <1>5, <1>6, <1>9, <2>2, ZenonT(60)
    <3> QED
      BY <1>1, <1>7, <3>1
  <2> QED
    BY <2>1, <2>2
<1>10. ASSUME NEW e \in 1..Len(f), f[e].kind = "Dot"
       PROVE  \E s \in 1..Len(f) : EntryAt(f, s, e) /\ (f[e].num \notin S => IdIsNew(f, s))
  <2>1. CASE e \in 1..n
    <3>1. file[e].kind = "Dot" /\ f[e] = file[e]
      BY <1>1, <1>10, <2>1
    <3>2. PICK s \in 1..n : EntryAt(file, s, e) /\ (file[e].num \notin R => IdIsNew(file, s))
      BY <2>1, <3>1 DEF WellFormed
    <3>3. EntryAt(f, s, e) /\ (IdIsNew(file, s) => IdIsNew(f, s))
      BY <1>0, <1>1, <2>1, <3>2, EntryKept, IndexNat
    <3> QED
      BY <1>1, <3>1, <3>2, <3>3
  <2>2. CASE e \notin 1..n
    <3>1. PICK j \in 1..k : e = n + 3 + j
      BY <1>1, <1>3, <1>6, <1>10, <2>2
    <3>2. j = k /\ f[e] = body[k]
      BY <1>1, <1>10, <3>1
    <3>3. n + 1 \in 1..Len(f)
      BY <1>1
    <3> QED
      BY <1>7, <1>8, <3>1, <3>2, <3>3
  <2> QED
    BY <2>1, <2>2
<1>11. ASSUME NEW i \in 1..Len(f), f[i].kind = "BodyId"
       PROVE  DotBehind(f, i)
  <2>1. CASE i \in 1..n
    <3>1. DotBehind(file, i)
      BY <1>1, <1>11, <2>1 DEF WellFormed
    <3>2. PICK e \in 1..n :
              /\ i < e /\ file[e].kind = "Dot"
              /\ \A j \in (i + 1)..(e - 1) : file[j].kind # "ID"
      BY <3>1, Zenon DEF DotBehind
    <3>3. e \in 1..Len(f) /\ f[e].kind = "Dot"
      BY <1>1, <3>2
    <3>4. \A j \in (i + 1)..(e - 1) : j \in 1..n
      BY <1>1, <2>1
    <3>5. \A j \in (i + 1)..(e - 1) : f[j].kind # "ID"
      BY <1>1, <3>2, <3>4
    <3> QED
      BY <3>2, <3>3, <3>5, Zenon DEF DotBehind
  <2>2. CASE i \notin 1..n
    <3>1. PICK j \in 1..k : i = n + 3 + j
      BY <1>1, <1>3, <1>6, <1>11, <2>2
    <3>2. f[n + 3 + k].kind = "Dot" /\ f[i] = body[j]
      BY <1>1, <1>2, <3>1, SMTT(60)
    <3>3. n + 3 + k \in 1..Len(f) /\ i < n + 3 + k
      BY <1>1, <1>2, <1>11, <3>1, <3>2
    <3>4. ASSUME NEW x \in (i + 1)..(n + 2 + k)
          PROVE  f[x].kind # "ID"
      <4>1. x - (n + 3) \in 1..k /\ x = n + 3 + (x - (n + 3))
        BY <1>1, <3>1
      <4>2. f[x] = body[x - (n + 3)]
        BY <1>1, <4>1
      <4> QED
        BY <1>5, <4>1, <4>2
    <3>5. n + 3 + k - 1 = n + 2 + k
      BY <1>1
    <3> QED
      BY <3>2, <3>3, <3>4, <3>5 DEF DotBehind
  <2> QED
    BY <2>1, <2>2
<1>12. WellFormed(f, S)
  BY <1>9, <1>10, <1>11 DEF WellFormed
<1> QED
  BY <1>12 DEF f

(* A file with nothing in it is well formed.                               *)
LEMMA EmptyFile == \A R : WellFormed(<<>>, R)
<1>1. 1..Len(<<>>) = {}
  OBVIOUS
<1> QED
  BY <1>1 DEF WellFormed

(* The initial files are well formed.                                      *)
LEMMA FilesInit == Init => Files
  BY EmptyFile DEF Init, Files

(* store_email appends to the file of its recipient, if that opens, and to *)
(* no other; the mail counts as raced if its ID was no longer that of the  *)
(* next mail.                                                              *)
LEMMA MailboxFacts ==
    ASSUME Typing, NEW c \in Clients, Store(c)
    PROVE  LET s == sess[c]
           IN  /\ \A b \in Boxes :
                      mailbox'[b] = IF b = s.rcpt /\ b \notin Unopenable
                                    THEN mailbox[b] \o Entry(s.id, s.body) ELSE mailbox[b]
               /\ raced \subseteq raced'
               /\ s.rcpt \in Boxes \ Unopenable /\ s.id # NextId(mailbox[s.rcpt])
                      => s.body[Len(s.body)].num \in raced'
<1> DEFINE s == sess[c]
           m == s.body[Len(s.body)].num
           e == Entry(s.id, s.body)
           x == NextId(mailbox[s.rcpt])
<1>1. \/ /\ s.rcpt \notin Unopenable
         /\ mailbox' = [mailbox EXCEPT ![s.rcpt] = mailbox[s.rcpt] \o e]
         /\ raced' = IF s.id = x THEN raced ELSE raced \cup {m}
      \/ s.rcpt \in Unopenable /\ UNCHANGED <<mailbox, raced>>
  BY Zenon DEF Store, Last
<1> HIDE DEF s, m, e, x
<1>2. \A b \in Boxes : mailbox'[b] = IF b = s.rcpt /\ b \notin Unopenable
                                     THEN mailbox[b] \o e ELSE mailbox[b]
  BY <1>1 DEF Typing, ServerTypes
<1>3. raced \subseteq raced'
  BY <1>1
<1>4. s.rcpt \in Boxes \ Unopenable /\ s.id # x => m \in raced'
  BY <1>1
<1> QED
  BY <1>2, <1>3, <1>4, Zenon DEF s, m, e, x

(* Only Store changes files.                                               *)
LEMMA FilesKept ==
    ASSUME Typing, [Next]_vars
    PROVE  UNCHANGED <<mailbox, raced>> \/ \E c \in Clients : Store(c)
<1>1. CASE UNCHANGED vars
  BY <1>1 DEF vars, serverState, history
<1>2. CASE Crash
  BY <1>2 DEF Crash, history
<1>3. ASSUME NEW c \in Clients,
             UserStep(c) \/ SeesClose(c) \/ ReadResponse(c) \/ ServerStep(c)
      PROVE  UNCHANGED <<mailbox, raced>> \/ Store(c)
  <2>1. ASSUME NEW m \in Commands, Command(c, m) PROVE UNCHANGED <<mailbox, raced>>
    BY <2>1 DEF Command, serverState, history
  <2>2. ASSUME NEW l, BodyLine(c, l) PROVE UNCHANGED <<mailbox, raced>>
    BY <2>2 DEF BodyLine, serverState
  <2>3. Connect(c) \/ BodyEnd(c) \/ BodyEof(c) \/ EndSession(c)
            => UNCHANGED <<mailbox, raced>>
    BY DEF Connect, BodyEnd, BodyEof, EndSession, serverState, history
  <2>4. Leave(c) \/ SeesClose(c) => UNCHANGED <<mailbox, raced>>
    BY DEF Leave, SeesClose, Left, serverState
  <2>5. ReadResponse(c) => UNCHANGED <<mailbox, raced>>
    BY ResponseFacts
  <2>6. ReadMessage(c) => UNCHANGED <<mailbox, raced>>
    BY ReadFrame DEF ReadMessageFrame
  <2> QED
    BY <1>3, <2>1, <2>2, <2>3, <2>4, <2>5, <2>6, Zenon DEF UserStep, ServerStep
<1> QED
  BY <1>1, <1>2, <1>3, Zenon DEF Next

(* Every step keeps the files well formed.                                 *)
LEMMA FilesNext ==
    ASSUME Typing, Sessions, Files, [Next]_vars
    PROVE  Files'
<1>1. CASE UNCHANGED <<mailbox, raced>>
  BY <1>1 DEF Files
<1>2. ASSUME NEW c \in Clients, Store(c), NEW b \in Boxes
      PROVE  WellFormed(mailbox'[b], raced')
  <2> DEFINE s == sess[c]
  <2>1. mailbox'[b] = IF b = s.rcpt /\ b \notin Unopenable
                      THEN mailbox[b] \o Entry(s.id, s.body) ELSE mailbox[b]
    BY <1>2, MailboxFacts
  <2>2. /\ raced \subseteq raced'
        /\ s.rcpt \in Boxes \ Unopenable /\ s.id # NextId(mailbox[s.rcpt])
               => s.body[Len(s.body)].num \in raced'
    BY <1>2, MailboxFacts
  <2>3. WellFormed(mailbox[b], raced) /\ mailbox[b] \in Seq(FileLine)
    BY DEF Files, Typing, ServerTypes
  <2>4. CASE b = s.rcpt /\ b \notin Unopenable
    <3>1. s \in Session /\ SessionAt(c) /\ pc[c] = "append"
      BY <1>2 DEF Typing, ServerTypes, Sessions, Store
    <3>2. s.id \in Nat /\ s.body \in Seq(MailLine)
      BY <3>1, SessionFields
    <3>3. DOMAIN s.body = 1..Len(s.body)
      BY <3>2
    <3>4. /\ s.body # <<>> /\ s.body[Len(s.body)].kind = "Dot" /\ s.id \in Nat \ {0}
          /\ \A i \in 1..Len(s.body) : s.body[i].kind = "Dot" => i = Len(s.body)
      BY <3>1, <3>2, <3>3 DEF SessionAt
    <3>5. s.id = NextId(mailbox[b]) \/ s.body[Len(s.body)].num \in raced'
      BY <2>2, <2>4
    <3> HIDE DEF s
    <3>6. WellFormed(mailbox[b] \o Entry(s.id, s.body), raced')
      BY <2>2, <2>3, <3>2, <3>4, <3>5, MailAppended, Zenon
    <3> QED
      BY <2>1, <2>4, <3>6
  <2>5. CASE ~(b = s.rcpt /\ b \notin Unopenable)
    <3>1. mailbox'[b] = mailbox[b]
      BY <2>1, <2>5
    <3> QED
      BY <2>2, <2>3, <3>1 DEF WellFormed
  <2> QED
    BY <2>4, <2>5
<1> QED
  BY <1>1, <1>2, FilesKept DEF Files

-----------------------------------------------------------------------------
(* GET_MAIL on a well-formed file without lines that look like IDs.        *)

(* A set of lines has a first one.                                         *)
LEMMA Least ==
    ASSUME NEW S, S \subseteq Nat, S # {}
    PROVE  Min(S) \in S /\ \A x \in S : Min(S) <= x
<1>1. IsWellFoundedOn(OpToRel(<, Nat), Nat)
  BY NatLessThanWellFounded
<1>2. PICK m \in S : \A y \in S : ~(<<y, m>> \in OpToRel(<, Nat))
  BY <1>1, WFMin, Zenon
<1>3. \A y \in S : ~(y < m)
  BY <1>2 DEF OpToRel
<1>4. \A y \in S : m <= y
  BY <1>3
<1> QED
  BY <1>4, Zenon DEF Min

NoBodyId(file) == \A i \in 1..Len(file) : file[i].kind # "BodyId"
IdLineIs(file, j, n) == IsId(file[j]) /\ file[j].num = n

(* It returns the mail whose ID line is the first with its number.         *)
LEMMA GetReturns ==
    ASSUME NEW file \in Seq(FileLine), NoBodyId(file), NEW s \in Nat, NEW e \in Nat,
           EntryAt(file, s, e), \A j \in 1..(s - 1) : ~IdLineIs(file, j, file[s].num)
    PROVE  Get(file, file[s].num) = Answer(200, SubSeq(file, s, e), TRUE)
<1> DEFINE id    == file[s].num
           Named == {i \in DOMAIN file : IsId(file[i]) /\ file[i].num = id}
           Stops == {i \in s..Len(file) :
                         file[i].kind = "Dot" \/ (IsId(file[i]) /\ i \notin Named)}
<1>1. Len(file) \in Nat /\ DOMAIN file = 1..Len(file)
  BY FileLines
<1>2. s \in Named
  BY <1>1 DEF EntryAt, IsId
<1>3. \A i \in Named : i >= s
  BY <1>1 DEF EntryAt, IdLineIs
<1>4. Named \subseteq Nat
  BY <1>1
<1>5. Stops \subseteq Nat /\ \A i \in Stops : i >= s
  BY <1>1
<1>6. e \in Stops
  BY <1>1 DEF EntryAt
<1>7. \A i \in Stops : i >= e
  <2> SUFFICES ASSUME NEW i \in Stops, i < e
               PROVE  FALSE
    BY <1>1, <1>5
  <2>0. i \in s..Len(file) /\ s \in 1..Len(file)
    BY DEF EntryAt
  <2>1. i \in 1..Len(file) /\ i >= s
    BY <1>1, <2>0
  <2>2. i # s
    BY <1>2 DEF EntryAt
  <2>3. i \in (s + 1)..(e - 1)
    BY <2>1, <2>2
  <2>4. file[i].kind # "ID" /\ file[i].kind # "Dot" /\ file[i].kind # "BodyId"
    BY <2>1, <2>3 DEF EntryAt, NoBodyId
  <2> QED
    BY <2>4 DEF IsId
<1>8. file[e].kind = "Dot"
  BY DEF EntryAt
<1>9. Get(file, id) =
         IF Named = {} THEN Answer(401, <<>>, TRUE)
         ELSE LET from == Min(Named)
                  stops == {i \in from..Len(file) :
                               file[i].kind = "Dot" \/ (IsId(file[i]) /\ i \notin Named)}
                  last == Min(stops)
              IN  IF stops = {} THEN Answer(200, SubSeq(file, from, Len(file)), FALSE)
                  ELSE IF file[last].kind = "Dot"
                  THEN Answer(200, SubSeq(file, from, last), TRUE)
                  ELSE Answer(200, SubSeq(file, from, last - 1), FALSE)
  BY Zenon DEF Get
<1>10. Min(Named) = s
  <2> HIDE DEF Named
  <2>1. Min(Named) \in Named /\ \A x \in Named : Min(Named) <= x
    BY <1>2, <1>4, Least
  <2>2. Min(Named) >= s /\ Min(Named) <= s
    BY <1>2, <1>3, <2>1
  <2>3. Min(Named) \in Nat
    BY <1>4, <2>1
  <2> QED
    BY <2>2, <2>3
<1>11. Min(Stops) = e
  <2> HIDE DEF Stops
  <2>1. Min(Stops) \in Stops /\ \A x \in Stops : Min(Stops) <= x
    BY <1>5, <1>6, Least
  <2>2. Min(Stops) >= e /\ Min(Stops) <= e
    BY <1>6, <1>7, <2>1
  <2>3. Min(Stops) \in Nat
    BY <1>5, <2>1
  <2> QED
    BY <2>2, <2>3
<1>12. Named # {}
  BY <1>2
<1>13. Stops # {}
  BY <1>6
<1> HIDE DEF Named
<1>14. Get(file, id) = IF Stops = {} THEN Answer(200, SubSeq(file, s, Len(file)), FALSE)
                       ELSE IF file[Min(Stops)].kind = "Dot"
                       THEN Answer(200, SubSeq(file, s, Min(Stops)), TRUE)
                       ELSE Answer(200, SubSeq(file, s, Min(Stops) - 1), FALSE)
  BY <1>9, <1>10, <1>12, Zenon
<1> HIDE DEF Stops
<1> QED
  BY <1>8, <1>11, <1>13, <1>14, Zenon

(* An answer that stops, short of its NUL, at a line of a body like an     *)
(* ID's.                                                                   *)
Cut(file, a) ==
    \E i \in 1..Len(file), j \in 1..Len(file) :
        /\ i < j /\ file[j].kind = "BodyId"
        /\ a = Answer(200, SubSeq(file, i, j - 1), FALSE)

(* Its answer has an end, or is cut.                                       *)
LEMMA GetEnds ==
    ASSUME NEW file \in Seq(FileLine), NEW R, WellFormed(file, R), NEW n
    PROVE  Get(file, n).end \/ Cut(file, Get(file, n))
<1> DEFINE Named == {i \in DOMAIN file : IsId(file[i]) /\ file[i].num = n}
           from  == Min(Named)
           Stops == {i \in from..Len(file) :
                         file[i].kind = "Dot" \/ (IsId(file[i]) /\ i \notin Named)}
           last  == Min(Stops)
<1>1. Len(file) \in Nat /\ DOMAIN file = 1..Len(file)
  BY FileLines
<1>2. CASE Named = {}
  <2>1. Get(file, n) = Answer(401, <<>>, TRUE)
    BY <1>2, Zenon DEF Get
  <2> QED
    BY <2>1 DEF Answer
<1>3. CASE Named # {}
  <2>1. Get(file, n) = IF Stops = {} THEN Answer(200, SubSeq(file, from, Len(file)), FALSE)
                       ELSE IF file[last].kind = "Dot"
                       THEN Answer(200, SubSeq(file, from, last), TRUE)
                       ELSE Answer(200, SubSeq(file, from, last - 1), FALSE)
    BY <1>3, Zenon DEF Get
  <2>2. from \in Named
    <3>1. Named \subseteq Nat
      BY <1>1
    <3> HIDE DEF Named
    <3> QED
      BY <1>3, <3>1, Least
  <2>3. from \in 1..Len(file) /\ IsId(file[from])
    BY <1>1, <2>2
  <2>4. PICK e \in 1..Len(file) :
            /\ from < e /\ file[e].kind = "Dot"
            /\ \A j \in (from + 1)..(e - 1) : file[j].kind # "ID"
    <3> HIDE DEF from
    <3>1. CASE file[from].kind = "ID"
      <4>1. PICK e \in 1..Len(file) : EntryAt(file, from, e)
        BY <2>3, <3>1 DEF WellFormed
      <4>2. from < e
        BY <1>1, <2>3, <4>1 DEF EntryAt
      <4> QED
        BY <4>1, <4>2 DEF EntryAt
    <3>2. CASE file[from].kind = "BodyId"
      BY <2>3, <3>2 DEF WellFormed, DotBehind
    <3> QED
      BY <2>3, <3>1, <3>2 DEF IsId
  <2>5. e \in Stops
    <3> HIDE DEF from, Named
    <3> QED
      BY <1>1, <2>3, <2>4
  <2>6. last \in Stops /\ last <= e
    <3>1. Stops \subseteq Nat
      <4> HIDE DEF from, Named
      <4> QED
        BY <1>1, <2>3
    <3> HIDE DEF Stops
    <3> QED
      BY <2>5, <3>1, Least
  <2>7. /\ last \in from..Len(file)
        /\ file[last].kind = "Dot" \/ (IsId(file[last]) /\ last \notin Named)
    <3> HIDE DEF from, last
    <3> QED
      BY <2>6
  <2> HIDE DEF from, last
  <2>8. Stops # {}
    BY <2>5
  <2> HIDE DEF Stops
  <2>9. CASE file[last].kind = "Dot"
    <3>1. Get(file, n) = Answer(200, SubSeq(file, from, last), TRUE)
      BY <2>1, <2>8, <2>9, Zenon
    <3> QED
      BY <3>1 DEF Answer
  <2>10. CASE file[last].kind # "Dot"
    <3>1. Get(file, n) = Answer(200, SubSeq(file, from, last - 1), FALSE)
      BY <2>1, <2>8, <2>10, Zenon
    <3>2. last # from /\ last # e
      BY <2>2, <2>4, <2>7, <2>10
    <3>3. last \in 1..Len(file) /\ from < last /\ last \in (from + 1)..(e - 1)
      BY <1>1, <2>3, <2>4, <2>6, <2>7, <3>2
    <3>4. file[last].kind = "BodyId"
      BY <2>4, <2>7, <2>10, <3>3 DEF IsId
    <3> QED
      BY <2>3, <3>1, <3>3, <3>4, Zenon DEF Cut
  <2> QED
    BY <2>9, <2>10
<1> QED
  BY <1>2, <1>3

-----------------------------------------------------------------------------
(* The phases of a client whose connection has lost nothing, and what its  *)
(* thread is doing meanwhile.                                              *)

(* The box that GET_MAIL named has a line at which its answer stops.       *)
StopsShort(c, a) ==
    /\ asked[c].kind = "GET_MAIL" /\ asked[c].box \in Boxes
    /\ Cut(mailbox[asked[c].box], a)

(* The thread is gone and has not answered. *)
Dead(c) == pc[c] = "none" /\ down[c] = <<>>

Idle(c) == up[c] = <<>> /\ down[c] = <<>> /\ ~sess[c].data /\ pc[c] # "append"

CommandSent(c) ==
    up[c] = <<asked[c]>> /\ down[c] = <<>> /\ ~sess[c].data /\ pc[c] = "read"

CommandAnswered(c) ==
    /\ up[c] = <<>> /\ pc[c] # "append"
    /\ down[c] = <<down[c][1]>> /\ (down[c][1].end \/ StopsShort(c, down[c][1]))
    /\ sess[c].data => asked[c].kind = "DATA" /\ down[c][1].code = 200
    /\ asked[c].kind = "DATA" /\ down[c][1].code = 200 /\ pc[c] = "read" => sess[c].data

Writing(c) ==
    sess[c].data /\ down[c] = <<>> /\ \A i \in DOMAIN up[c] : up[c][i].kind # "Dot"

Written(c) ==
    /\ sess[c].data /\ down[c] = <<>> /\ up[c] # <<>>
    /\ \A i \in DOMAIN up[c] : up[c][i].kind = "Dot" <=> i = Len(up[c])

Storing(c) == pc[c] = "append" /\ up[c] = <<>> /\ down[c] = <<>>

MailAnswered(c) ==
    pc[c] # "append" /\ up[c] = <<>> /\ down[c] = <<Ok>> /\ ~sess[c].data

Phase(c) ==
    /\ cli[c] \in {"prompt", "done"} => Idle(c)
    /\ cli[c] = "wait" => Dead(c) \/ CommandSent(c) \/ CommandAnswered(c)
    /\ cli[c] \in {"body", "stuck"} => Dead(c) \/ Writing(c)
    /\ cli[c] = "ended" => Dead(c) \/ Written(c) \/ Storing(c) \/ MailAnswered(c)

PhaseAt(c) == ~lost[c] /\ cli[c] # "gone" => Phase(c)
Phases == \A c \in Clients : PhaseAt(c)

(* A file keeps its lines where they are when a mail is appended.          *)
LEMMA FileGrows ==
    ASSUME NEW file \in Seq(FileLine), NEW id \in Nat, NEW body \in Seq(MailLine)
    PROVE  \A i \in DOMAIN file :
               /\ i \in DOMAIN (file \o Entry(id, body))
               /\ (file \o Entry(id, body))[i] = file[i]
<1> DEFINE f == file \o Entry(id, body)
<1>1. /\ f \in Seq(FileLine) /\ Len(f) = Len(file) + Len(body) + 4
      /\ Len(body) \in Nat
      /\ \A j \in 1..Len(file) : f[j] = file[j]
  BY EntryAppended, ZenonT(60)
<1> HIDE DEF f
<1>2. /\ DOMAIN file = 1..Len(file) /\ Len(file) \in Nat /\ DOMAIN f = 1..Len(f)
  BY <1>1, FileLines
<1>3. \A i \in DOMAIN file : i \in DOMAIN f /\ f[i] = file[i]
  BY <1>1, <1>2
<1> QED
  BY <1>3, Zenon DEF f

(* Files that agree on a part have it in common.                           *)
LEMMA SamePart ==
    ASSUME NEW f, NEW g, NEW m \in Int, NEW n \in Int, m <= n,
           \A x \in m..n : f[x] \in FileLine /\ g[x] = f[x]
    PROVE  SubSeq(g, m, n) = SubSeq(f, m, n)
<1> DEFINE s == SubSeq(f, m, n)
           t == SubSeq(g, m, n)
<1>1. \A x \in m..n : f[x] \in FileLine
  OBVIOUS
<1>2. \A x \in m..n : g[x] \in FileLine
  OBVIOUS
<1>3. /\ s \in Seq(FileLine) /\ Len(s) = IF m <= n THEN n - m + 1 ELSE 0
      /\ \A k \in 1..(n - m + 1) : s[k] = f[m + k - 1]
  BY <1>1, SubSeqProperties
<1>4. /\ t \in Seq(FileLine) /\ Len(t) = IF m <= n THEN n - m + 1 ELSE 0
      /\ \A k \in 1..(n - m + 1) : t[k] = g[m + k - 1]
  BY <1>2, SubSeqProperties
<1> HIDE DEF s, t
<1>5. Len(s) = Len(t) /\ Len(t) = n - m + 1
  BY <1>3, <1>4
<1>6. \A k \in 1..(n - m + 1) : m + k - 1 \in m..n
  OBVIOUS
<1>7. \A k \in 1..Len(t) : t[k] = s[k]
  BY <1>3, <1>4, <1>5, <1>6
<1>8. t = s
  BY <1>3, <1>4, <1>5, <1>7, SeqEqual
<1> QED
  BY <1>8 DEF s, t

(* What is appended to a file leaves the line at which an answer stopped.  *)
LEMMA CutStays ==
    ASSUME NEW file \in Seq(FileLine), NEW g \in Seq(FileLine), Len(g) >= Len(file),
           \A i \in 1..Len(file) : g[i] = file[i], NEW a, Cut(file, a)
    PROVE  Cut(g, a)
<1>1. Len(file) \in Nat /\ Len(g) \in Nat
  BY FileLines
<1>2. PICK i \in 1..Len(file), j \in 1..Len(file) :
          /\ i < j /\ file[j].kind = "BodyId"
          /\ a = Answer(200, SubSeq(file, i, j - 1), FALSE)
  BY Zenon DEF Cut
<1>3. SubSeq(g, i, j - 1) = SubSeq(file, i, j - 1)
  <2> DEFINE n == j - 1
  <2>1. i \in Int /\ n \in Int /\ i <= n
    BY <1>1, <1>2
  <2>2. \A x \in i..n : x \in 1..Len(file) /\ x \in 1..Len(g)
    BY <1>1, <1>2
  <2> HIDE DEF n
  <2>3. \A x \in i..n : file[x] \in FileLine /\ g[x] = file[x]
    BY <2>2, FileLines, Zenon
  <2>4. SubSeq(g, i, n) = SubSeq(file, i, n)
    BY <2>1, <2>3, SamePart, ZenonT(60)
  <2> QED
    BY <2>4 DEF n
<1>4. i \in 1..Len(g) /\ j \in 1..Len(g) /\ g[j].kind = "BodyId"
  BY <1>1, <1>2
<1> QED
  BY <1>2, <1>3, <1>4, Zenon DEF Cut

(* Lines never disappear from the files.                                   *)
LEMMA StopsStay ==
    ASSUME Typing, Sessions, [Next]_vars, NEW c, NEW a, StopsShort(c, a),
           asked'[c] = asked[c]
    PROVE  StopsShort(c, a)'
<1> DEFINE b == asked[c].box
<1>1. b \in Boxes /\ Cut(mailbox[b], a) /\ asked[c].kind = "GET_MAIL"
  BY Zenon DEF StopsShort
<1> HIDE DEF b
<1>2. CASE mailbox'[b] = mailbox[b]
  BY <1>1, <1>2 DEF StopsShort, b
<1>3. CASE mailbox'[b] # mailbox[b]
  <2>1. PICK d \in Clients : Store(d)
    BY <1>3, FilesKept
  <2> DEFINE e == Entry(sess[d].id, sess[d].body)
             f == mailbox[b] \o e
  <2>2. mailbox'[b] = f
    BY <1>1, <1>3, <2>1, MailboxFacts
  <2>3. mailbox[b] \in Seq(FileLine) /\ sess[d] \in Session
    BY <1>1 DEF Typing, ServerTypes
  <2>4. sess[d].id \in Nat /\ sess[d].body \in Seq(MailLine)
    BY <2>3, SessionFields
  <2>5. /\ f \in Seq(FileLine) /\ Len(f) = Len(mailbox[b]) + Len(sess[d].body) + 4
        /\ Len(sess[d].body) \in Nat /\ Len(mailbox[b]) \in Nat
        /\ \A i \in 1..Len(mailbox[b]) : f[i] = mailbox[b][i]
    <3> DEFINE m == mailbox[b]
               id == sess[d].id
               body == sess[d].body
    <3>1. m \in Seq(FileLine) /\ id \in Nat /\ body \in Seq(MailLine)
      BY <2>3, <2>4, Zenon
    <3> HIDE DEF m, id, body
    <3>2. LET g == m \o Entry(id, body)
          IN  /\ g \in Seq(FileLine) /\ Len(g) = Len(m) + Len(body) + 4
              /\ Len(body) \in Nat /\ Len(m) \in Nat
              /\ \A i \in 1..Len(m) : g[i] = m[i]
      BY <3>1, EntryAppended, Zenon
    <3> QED
      BY <3>2, ZenonT(60) DEF m, id, body
  <2> HIDE DEF f, e
  <2>6. Len(f) >= Len(mailbox[b])
    <3> DEFINE x == Len(f)
               y == Len(mailbox[b])
               z == Len(sess[d].body)
    <3>1. x = y + z + 4 /\ y \in Nat /\ z \in Nat
      BY <2>5, Zenon
    <3> HIDE DEF x, y, z
    <3>2. x >= y
      BY <3>1
    <3> QED
      BY <3>2 DEF x, y
  <2>7. Cut(f, a)
    BY <1>1, <2>3, <2>5, <2>6, CutStays
  <2> QED
    BY <1>1, <2>2, <2>7 DEF StopsShort, b
<1> QED
  BY <1>2, <1>3

(* GET_MAIL's answer has an end unless it stops at a line of a body like   *)
(* an ID's.                                                                *)
LEMMA AnswersEnd ==
    ASSUME Typing, Files, NEW c \in Clients, NEW a, asked[c] \in Sound,
           ReadCommand(c, asked[c], a)
    PROVE  a.end \/ StopsShort(c, a)
<1> DEFINE m == asked[c]
<1> SUFFICES ASSUME m.kind = "GET_MAIL", a = Get(mailbox[m.box], m.num)
             PROVE  a.end \/ StopsShort(c, a)
  BY DEF ReadCommand
<1>1. m.box \in Boxes
  BY DEF Sound
<1>2. mailbox[m.box] \in Seq(FileLine) /\ WellFormed(mailbox[m.box], raced)
  BY <1>1 DEF Typing, ServerTypes, Files
<1>3. a.end \/ Cut(mailbox[m.box], a)
  BY <1>2, GetEnds, Zenon
<1> QED
  BY <1>1, <1>3 DEF StopsShort

(* A client that loses nothing has its messages taken one by one.          *)
LEMMA ReadInOrder ==
    ASSUME Typing, NEW c \in Clients, ReadMessage(c), ~lost'[c], cli[c] # "gone"
    PROVE  ~lost[c] /\ up'[c] = IF pc'[c] = "none" THEN <<>> ELSE Tail(up[c])
  BY ReadFrame, Zenon DEF ReadMessageFrame, Consumes

(* A queue of one message.                                                 *)
LEMMA TailOfOne == \A x : Tail(<<x>>) = <<>> /\ Head(<<x>>) = x /\ Len(<<x>>) = 1
  OBVIOUS

(* The client's own line goes behind those it has sent.                    *)
LEMMA MessageAppended ==
    ASSUME NEW S, NEW s \in Seq(S), NEW m \in S
    PROVE  /\ Append(s, m) # <<>> /\ Len(s) \in Nat /\ Len(Append(s, m)) = Len(s) + 1
           /\ DOMAIN s = 1..Len(s) /\ DOMAIN Append(s, m) = 1..(Len(s) + 1)
           /\ \A i \in 1..Len(s) : Append(s, m)[i] = s[i]
           /\ Append(s, m)[Len(s) + 1] = m
  OBVIOUS

(* A step that changes nothing of a connection leaves its phase.           *)
LEMMA PhaseKept ==
    ASSUME Typing, Sessions, [Next]_vars, NEW c, PhaseAt(c), Same(c)
    PROVE  PhaseAt(c)'
<1>1. asked'[c] = asked[c] =>
          \A a : StopsShort(c, a) => StopsShort(c, a)'
  BY StopsStay, Zenon
<1>2. ~lost'[c] /\ cli'[c] # "gone" => Phase(c)
  BY DEF PhaseAt, Same
<1>3. Phase(c) => Phase(c)'
  BY <1>1 DEF Phase, Same, Idle, Dead, CommandSent, CommandAnswered, Writing, Written,
              Storing, MailAnswered
<1> QED
  BY <1>2, <1>3 DEF PhaseAt

(* No client is in a phase in the initial state.                           *)
LEMMA PhasesInit == Init => Phases
  BY DEF Init, Phases, PhaseAt

(* A client that sends a command waits for it to be read.                  *)
LEMMA PhaseCommand ==
    ASSUME Typing, Sessions, Phases, NEW c \in Clients, NEW m \in Sound, Command(c, m)
    PROVE  PhaseAt(c)'
<1>1. /\ cli[c] = "prompt" /\ cli'[c] = "wait" /\ asked'[c] = m
      /\ up'[c] = IF pc[c] = "none" THEN up[c] ELSE Append(up[c], m)
      /\ down'[c] = down[c] /\ pc'[c] = pc[c] /\ sess'[c] = sess[c] /\ lost'[c] = lost[c]
  BY CommandFacts
<1>2. SUFFICES ASSUME ~lost'[c]
               PROVE  Dead(c)' \/ CommandSent(c)'
  BY <1>1 DEF PhaseAt, Phase
<1>3. Idle(c) /\ pc[c] \in {"none", "read", "append"}
  BY <1>1, <1>2 DEF Phases, PhaseAt, Phase, Typing, ServerTypes
<1>4. CASE pc[c] = "none"
  BY <1>1, <1>3, <1>4 DEF Idle, Dead
<1>5. CASE pc[c] = "read"
  <2>1. up'[c] = <<m>>
    BY <1>1, <1>3, <1>5, AppendToEmpty DEF Idle
  <2> QED
    BY <1>1, <1>3, <1>5, <2>1 DEF Idle, CommandSent
<1> QED
  BY <1>3, <1>4, <1>5 DEF Idle

(* A line of a mail, or its dot, goes behind the lines before it.          *)
LEMMA PhaseTypes ==
    ASSUME Typing, Sessions, Phases, NEW c \in Clients, NEW l \in MailLine, Types(c, l),
           \/ cli'[c] = "body" /\ l.kind # "Dot"
           \/ cli'[c] = "ended" /\ l.kind = "Dot"
    PROVE  PhaseAt(c)'
<1>1. /\ cli[c] = "body"
      /\ up'[c] = IF pc[c] = "none" THEN up[c] ELSE Append(up[c], Typed(l))
      /\ down'[c] = down[c] /\ pc'[c] = pc[c] /\ sess'[c] = sess[c] /\ lost'[c] = lost[c]
  BY TypesFacts
<1>2. SUFFICES ASSUME ~lost'[c]
               PROVE  Phase(c)'
  BY DEF PhaseAt
<1>3. Dead(c) \/ Writing(c)
  BY <1>1, <1>2 DEF Phases, PhaseAt, Phase
<1>4. CASE Dead(c)
  BY <1>1, <1>4 DEF Phase, Dead
<1>5. CASE Writing(c)
  <2>1. pc[c] = "read" /\ up[c] \in Seq(Sound) /\ Typed(l) \in Sound
        /\ Typed(l).kind = l.kind
    BY <1>5, TypedLine DEF Writing, Sessions, SessionAt, Typing, ConnectionTypes
  <2> DEFINE t == Append(up[c], Typed(l))
             n == Len(up[c])
  <2>2. /\ t # <<>> /\ n \in Nat /\ Len(t) = n + 1
        /\ DOMAIN up[c] = 1..n /\ DOMAIN t = 1..(n + 1)
        /\ \A i \in 1..n : t[i] = up[c][i]
        /\ t[n + 1] = Typed(l)
    <3> DEFINE q == up[c]
               x == Typed(l)
    <3>1. q \in Seq(Sound) /\ x \in Sound
      BY <2>1
    <3> HIDE DEF q, x
    <3>2. /\ Append(q, x) # <<>> /\ Len(q) \in Nat /\ Len(Append(q, x)) = Len(q) + 1
          /\ DOMAIN q = 1..Len(q) /\ DOMAIN Append(q, x) = 1..(Len(q) + 1)
          /\ \A i \in 1..Len(q) : Append(q, x)[i] = q[i]
          /\ Append(q, x)[Len(q) + 1] = x
      BY <3>1, MessageAppended
    <3> QED
      BY <3>2, Zenon DEF q, x
  <2>3. up'[c] = t
    BY <1>1, <2>1
  <2> HIDE DEF t
  <2>4. \A i \in 1..n : t[i].kind # "Dot"
    BY <1>5, <2>2 DEF Writing
  <2>5. t[n + 1].kind = l.kind
    BY <2>1, <2>2
  <2>6. l.kind # "Dot" => Writing(c)'
    BY <1>1, <1>5, <2>2, <2>3, <2>4, <2>5 DEF Writing
  <2>7. l.kind = "Dot" => Written(c)'
    BY <1>1, <1>5, <2>2, <2>3, <2>4, <2>5 DEF Writing, Written
  <2> QED
    BY <2>6, <2>7 DEF Phase
<1> QED
  BY <1>3, <1>4, <1>5

(* The whole answer is read, and nothing else.                             *)
LEMMA OneAnswer ==
    ASSUME NEW c \in Clients, down[c] = <<down[c][1]>>
    PROVE  Complete(c) = (IF down[c][1].end THEN {1} ELSE {}) /\ Len(down[c]) = 1
<1> DEFINE a == down[c][1]
<1>1. DOMAIN <<a>> = {1} /\ Len(<<a>>) = 1 /\ <<a>>[1] = a
  OBVIOUS
<1>2. DOMAIN down[c] = {1} /\ Len(down[c]) = 1
  <2> HIDE DEF a
  <2>1. down[c] = <<a>>
    BY Zenon DEF a
  <2> QED
    BY <1>1, <2>1
<1> QED
  BY <1>2 DEF Complete

(* Nothing complete is read from an empty stream.                          *)
LEMMA NoAnswer ==
    ASSUME NEW c \in Clients, down[c] = <<>>
    PROVE  Complete(c) = {}
  BY DEF Complete

(* The first of one.                                                       *)
LEMMA MinOfOne == Min({1}) = 1
  BY Least

(* A client that reads its answer leaves nothing behind.                   *)
LEMMA PhaseResponse ==
    ASSUME Typing, Sessions, Phases, NEW c \in Clients, ReadResponse(c)
    PROVE  PhaseAt(c)'
<1>1. /\ Waiting(c) /\ Complete(c) # {}
      /\ up'[c] = up[c] /\ pc'[c] = pc[c] /\ sess'[c] = sess[c]
      /\ AsksData(c) => cli'[c] = "body"
      /\ ~AsksData(c) => cli'[c] = IF cli[c] = "stuck" \/ asked[c].kind = "QUIT"
                                   THEN "done" ELSE "prompt"
  BY ResponseFacts, Zenon
<1>2. PICK k \in Min(Complete(c))..Len(down[c]) :
          /\ down'[c] = SubSeq(down[c], k + 1, Len(down[c]))
          /\ lost'[c] <=> (lost[c] \/ k > Min(Complete(c)))
  BY ResponseFacts, Zenon
<1>3. SUFFICES ASSUME ~lost'[c]
               PROVE  Phase(c)'
  BY DEF PhaseAt
<1>4. Phase(c)
  BY <1>1, <1>2, <1>3 DEF Phases, PhaseAt, Waiting
<1>5. down[c] # <<>>
  BY <1>1, NoAnswer
<1>6. CASE cli[c] = "wait"
  <2>1. CommandAnswered(c)
    BY <1>4, <1>5, <1>6 DEF Phase, Dead, CommandSent
  <2>2. down'[c] = <<>>
    <3>1. Complete(c) = {1} /\ Len(down[c]) = 1
      BY <1>1, <2>1, OneAnswer DEF CommandAnswered
    <3>2. k = 1
      BY <1>2, <3>1, MinOfOne
    <3>3. down'[c] = SubSeq(down[c], 2, 1)
      BY <1>2, <3>1, <3>2
    <3> QED
      BY <2>1, <3>3 DEF CommandAnswered
  <2>3. CASE AsksData(c)
    <3>1. up'[c] = <<>> /\ (pc[c] = "none" \/ sess[c].data)
      BY <1>1, <2>1, <2>3 DEF CommandAnswered, AsksData, Typing, ServerTypes
    <3>2. Dead(c)' \/ Writing(c)'
      BY <1>1, <2>2, <3>1 DEF Dead, Writing
    <3> QED
      BY <1>1, <2>3, <3>2 DEF Phase
  <2>4. CASE ~AsksData(c)
    <3>1. ~sess[c].data
      BY <1>6, <2>1, <2>4 DEF CommandAnswered, AsksData
    <3>2. Idle(c)'
      BY <1>1, <2>1, <2>2, <3>1 DEF CommandAnswered, Idle
    <3> QED
      BY <1>1, <2>4, <3>2 DEF Phase
  <2> QED
    BY <2>3, <2>4
<1>7. CASE cli[c] = "ended"
  <2>1. MailAnswered(c)
    BY <1>4, <1>5, <1>7 DEF Phase, Dead, Written, Storing
  <2>2. down[c] = <<Ok>> /\ Len(down[c]) = 1 /\ Ok.end /\ down[c][1] = Ok
    BY <2>1 DEF MailAnswered, Ok, Answer
  <2>3. down'[c] = <<>>
    <3>1. Complete(c) = {1}
      BY <2>2, OneAnswer, Zenon
    <3>2. k = 1
      BY <1>2, <2>2, <3>1, MinOfOne
    <3>3. down'[c] = SubSeq(down[c], 2, 1)
      BY <1>2, <2>2, <3>2
    <3> QED
      BY <2>2, <3>3
  <2>4. Idle(c)' /\ ~AsksData(c)
    BY <1>1, <1>7, <2>1, <2>3 DEF MailAnswered, Idle, AsksData
  <2> QED
    BY <1>1, <2>4 DEF Phase
<1>8. CASE cli[c] = "stuck"
  BY <1>4, <1>5, <1>8 DEF Phase, Dead, Writing
<1> QED
  BY <1>1, <1>6, <1>7, <1>8 DEF Waiting

(* A thread that reads a message answers a command and takes a line of a   *)
(* mail without an answer, as its client expects.                          *)
LEMMA PhaseRead ==
    ASSUME Typing, Sessions, Files, Phases, [Next]_vars, NEW c \in Clients, ReadMessage(c)
    PROVE  PhaseAt(c)'
<1> DEFINE m == Head(up[c])
<1>1. /\ cli'[c] = cli[c] /\ asked'[c] = asked[c]
      /\ \/ ReadLine(c, m) \/ ReadDot(c, m) \/ ReadQuit(c, m)
         \/ \E a : ReadCommand(c, m, a)
  BY ReadFrame, ReadCases, Zenon DEF ReadMessageFrame
<1>2. m \in Sound /\ up[c] \in Seq(Sound) /\ up[c] # <<>> /\ pc[c] = "read"
  BY ReadTypes DEF ReadMessage
<1>3. SUFFICES ASSUME ~lost'[c], cli[c] # "gone"
               PROVE  Phase(c)'
  BY <1>1 DEF PhaseAt
<1>4. Phase(c) /\ up'[c] = IF pc'[c] = "none" THEN <<>> ELSE Tail(up[c])
  BY <1>3, ReadInOrder DEF Phases, PhaseAt
<1>5. /\ Len(up[c]) \in Nat \ {0} /\ DOMAIN up[c] = 1..Len(up[c]) /\ m = up[c][1]
      /\ Tail(up[c]) \in Seq(Sound) /\ Len(Tail(up[c])) = Len(up[c]) - 1
      /\ DOMAIN Tail(up[c]) = 1..(Len(up[c]) - 1)
      /\ \A i \in 1..(Len(up[c]) - 1) : Tail(up[c])[i] = up[c][i + 1]
  BY <1>2, TailOfMessages
<1> HIDE DEF m
<1>6. CASE cli[c] \in {"prompt", "done"}
  BY <1>2, <1>4, <1>6 DEF Phase, Idle
<1>7. CASE cli[c] = "wait"
  <2>1. CommandSent(c)
    BY <1>2, <1>4, <1>7 DEF Phase, Dead, CommandAnswered
  <2>2. m = asked[c] /\ Tail(up[c]) = <<>>
    BY <2>1, TailOfOne DEF CommandSent, m
  <2>3. ASSUME NEW a, Answered(c, a) PROVE down'[c] = <<a>> /\ down'[c][1] = a
    BY <1>3, <2>1, <2>3, AppendToEmpty DEF CommandSent, Answered
  <2>4. up'[c] = <<>>
    BY <1>4, <2>2
  <2>5. CASE ReadQuit(c, m)
    <3>1. Ok.end /\ ~sess'[c].data
      BY <2>5, NewSessionFields DEF Ok, Answer, ReadQuit
    <3>2. down'[c] = <<Ok>> /\ down'[c][1] = Ok
      BY <2>3, <2>5 DEF ReadQuit
    <3>3. CommandAnswered(c)'
      <4> HIDE DEF Ok
      <4> QED
        BY <2>4, <2>5, <3>1, <3>2 DEF ReadQuit, CommandAnswered
    <3> QED
      BY <1>1, <1>7, <3>3 DEF Phase
  <2>6. ASSUME NEW a, ReadCommand(c, m, a) PROVE Phase(c)'
    <3>1. a.end \/ StopsShort(c, a)'
      <4>1. asked[c] \in Sound /\ ReadCommand(c, asked[c], a)
        BY <1>2, <2>2, <2>6
      <4>2. a.end \/ StopsShort(c, a)
        BY <4>1, AnswersEnd, Zenon
      <4> QED
        BY <1>1, <4>2, StopsStay, Zenon
    <3>2. down'[c] = <<a>> /\ down'[c][1] = a
      BY <2>3, <2>6 DEF ReadCommand
    <3>3. CommandAnswered(c)'
      BY <1>1, <2>2, <2>4, <2>6, <3>1, <3>2 DEF ReadCommand, CommandAnswered
    <3> QED
      BY <1>1, <1>7, <3>3 DEF Phase
  <2>7. ~ReadLine(c, m) /\ ~ReadDot(c, m)
    BY <2>1 DEF CommandSent, ReadLine, ReadDot
  <2> QED
    BY <1>1, <2>5, <2>6, <2>7
<1>8. ASSUME ReadLine(c, m) PROVE /\ sess'[c].data /\ down'[c] = down[c] /\ pc'[c] = "read"
                                  /\ m.kind # "Dot"
  <2>1. sess'[c].data <=> ReadLine(c, m)
    BY <1>2, <1>8, SessionAfter, Zenon DEF Sessions
  <2> QED
    BY <1>8, <2>1 DEF ReadLine
<1>9. CASE cli[c] \in {"body", "stuck"}
  <2>1. Writing(c)
    BY <1>2, <1>4, <1>9 DEF Phase, Dead
  <2>2. m.kind # "Dot"
    BY <1>5, <2>1 DEF Writing
  <2>3. ReadLine(c, m)
    BY <1>1, <2>1, <2>2 DEF Writing, ReadDot, ReadQuit, ReadCommand
  <2>4. \A i \in DOMAIN up'[c] : up'[c][i].kind # "Dot"
    <3>1. up'[c] = Tail(up[c])
      BY <1>4, <1>8, <2>3
    <3>2. \A i \in 1..(Len(up[c]) - 1) : up[c][i + 1].kind # "Dot"
      BY <1>5, <2>1 DEF Writing
    <3> QED
      BY <1>5, <3>1, <3>2
  <2>5. Writing(c)'
    BY <1>8, <2>1, <2>3, <2>4 DEF Writing
  <2> QED
    BY <1>1, <1>9, <2>5 DEF Phase
<1>10. CASE cli[c] = "ended"
  <2>1. Written(c)
    BY <1>2, <1>4, <1>10 DEF Phase, Dead, Storing, MailAnswered
  <2>2. \A i \in 1..Len(up[c]) : up[c][i].kind = "Dot" <=> i = Len(up[c])
    BY <1>5, <2>1 DEF Written
  <2>3. ~ReadQuit(c, m) /\ \A a : ~ReadCommand(c, m, a)
    BY <2>1 DEF Written, ReadQuit, ReadCommand
  <2>4. CASE ReadLine(c, m)
    <3>1. up'[c] = Tail(up[c]) /\ Len(up[c]) # 1
      BY <1>4, <1>5, <1>8, <2>2, <2>4
    <3>2. up'[c] # <<>>
      <4> DEFINE n == Len(up[c])
      <4>1. Len(Tail(up[c])) = n - 1 /\ n \in Nat \ {0} /\ n # 1
        BY <1>5, <3>1
      <4> HIDE DEF n
      <4>2. n - 1 # 0
        BY <4>1
      <4>3. Len(<<>>) = 0
        BY EmptySeq
      <4> QED
        BY <3>1, <4>1, <4>2, <4>3
    <3>3. \A i \in 1..(Len(up[c]) - 1) : up[c][i + 1].kind = "Dot" <=> i = Len(up[c]) - 1
      BY <1>5, <2>2
    <3>4. \A i \in DOMAIN up'[c] : up'[c][i].kind = "Dot" <=> i = Len(up'[c])
      BY <1>5, <3>1, <3>3
    <3>5. Written(c)'
      BY <1>8, <2>1, <2>4, <3>2, <3>4 DEF Written
    <3> QED
      BY <1>1, <1>10, <3>5 DEF Phase
  <2>5. CASE ReadDot(c, m)
    <3>1. pc'[c] = "append" /\ down'[c] = down[c] /\ m.kind = "Dot"
      BY <2>5 DEF ReadDot
    <3>2. Len(up[c]) = 1
      <4> DEFINE n == Len(up[c])
      <4>1. n \in Nat \ {0}
        BY <1>5
      <4>2. \A i \in 1..n : up[c][i].kind = "Dot" => i = n
        BY <2>2
      <4> HIDE DEF n
      <4>3. 1 \in 1..n
        BY <4>1
      <4>4. up[c][1].kind = "Dot"
        BY <1>5, <3>1
      <4>5. 1 = n
        BY <4>2, <4>3, <4>4, Zenon
      <4> QED
        BY <4>5 DEF n
    <3>3. up'[c] = Tail(up[c]) /\ Len(Tail(up[c])) = 0
      BY <1>4, <1>5, <3>1, <3>2
    <3>4. up'[c] = <<>>
      BY <1>5, <3>3, EmptySeq
    <3>5. Storing(c)'
      BY <2>1, <3>1, <3>4 DEF Written, Storing
    <3> QED
      BY <1>1, <1>10, <3>5 DEF Phase
  <2> QED
    BY <1>1, <2>3, <2>4, <2>5
<1> QED
  BY <1>3, <1>6, <1>7, <1>9, <1>10 DEF Typing, ClientTypes, CliStates

(* A stored mail is answered once, to the client that sent its dot.        *)
LEMMA PhaseStore ==
    ASSUME Typing, Sessions, Phases, NEW c \in Clients, Store(c)
    PROVE  PhaseAt(c)'
<1>1. /\ pc[c] = "append" /\ pc'[c] = "read" /\ sess'[c] = Stored(sess[c])
      /\ cli'[c] = cli[c] /\ up'[c] = up[c] /\ lost'[c] = lost[c] /\ Answered(c, Ok)
  BY StoreFacts, Zenon
<1>2. SUFFICES ASSUME ~lost[c], cli[c] # "gone"
               PROVE  Phase(c)'
  BY <1>1 DEF PhaseAt
<1>3. Phase(c) /\ ~sess[c].data
  BY <1>1, <1>2 DEF Phases, PhaseAt, Sessions, SessionAt
<1>4. cli[c] = "ended" /\ Storing(c)
  BY <1>1, <1>2, <1>3 DEF Phase, Dead, Idle, CommandSent, CommandAnswered, Writing,
     Written, Storing, MailAnswered, Typing, ClientTypes, CliStates
<1>5. ~sess'[c].data
  <2>1. sess[c] \in Session /\ 0 \in Nat
    BY DEF Typing, ServerTypes
  <2> QED
    BY <1>1, <1>3, <2>1, EndDataFields
<1>6. down'[c] = <<Ok>>
  BY <1>1, <1>4, AppendToEmpty DEF Storing, Answered
<1>7. MailAnswered(c)'
  BY <1>1, <1>4, <1>5, <1>6 DEF Storing, MailAnswered
<1> QED
  BY <1>1, <1>4, <1>7 DEF Phase

(* A client whose server died has nothing to expect but the end of its     *)
(* connection.                                                             *)
LEMMA PhaseCrash ==
    ASSUME Typing, Sessions, Phases, Crash, NEW c \in Clients
    PROVE  PhaseAt(c)'
<1>1. /\ pc'[c] = "none" /\ sess'[c] = NewSession /\ up'[c] = <<>>
      /\ UNCHANGED <<cli, asked, down, mailbox, lost>>
  BY DEF Crash, clientState, history
<1>2. SUFFICES ASSUME ~lost[c], cli[c] # "gone"
               PROVE  Phase(c)'
  BY <1>1 DEF PhaseAt
<1>3. /\ Phase(c) /\ ~NewSession.data
      /\ \A a : StopsShort(c, a) => StopsShort(c, a)'
  BY <1>1, <1>2, NewSessionFields DEF Phases, PhaseAt, StopsShort
<1> QED
  BY <1>1, <1>3 DEF Phase, Dead, Idle, CommandSent, CommandAnswered, Writing,
     Written, Storing, MailAnswered

(* Every step keeps client and thread in the same phase.                   *)
LEMMA PhasesNext ==
    ASSUME Typing, Sessions, Files, Phases, [Next]_vars
    PROVE  Phases'
<1>0. CASE UNCHANGED vars
  BY <1>0, PhaseKept DEF vars, clientState, serverState, history, Phases, Same
<1>1. ASSUME NEW c \in Clients, OthersSame(c), PhaseAt(c)' PROVE Phases'
  <2>1. ASSUME NEW d \in Clients, d # c PROVE PhaseAt(d)'
    BY <1>1, <2>1, PhaseKept DEF Phases, OthersSame
  <2> QED
    BY <1>1, <2>1 DEF Phases
<1>2. ASSUME NEW c \in Clients, Connect(c) PROVE Phases'
  <2>1. /\ OthersSame(c) /\ cli'[c] = "prompt" /\ up'[c] = <<>> /\ down'[c] = <<>>
        /\ pc'[c] \in {"none", "read"} /\ sess'[c] = NewSession
    BY <1>2, ConnectFacts
  <2>2. PhaseAt(c)'
    BY <2>1, NewSessionFields DEF PhaseAt, Phase, Idle
  <2> QED
    BY <1>1, <2>1, <2>2
<1>3. ASSUME NEW c \in Clients, NEW l \in {Text(MailOf(c))} \cup {BodyId(n) : n \in BodyIds},
             BodyLine(c, l)
      PROVE Phases'
  <2>1. l \in MailLine /\ l.kind # "Dot"
    <3>1. MailOf(c) \in Nat
      BY DEF Typing, ClientTypes, Message, MailOf
    <3>2. l \in MailLine
      BY <3>1, BodyLineType
    <3> QED
      BY <3>2 DEF Text, BodyId, Line
  <2> QED
    BY <1>1, <1>3, <2>1, BodyLineFacts, TypesFacts, PhaseTypes
<1>4. ASSUME NEW c \in Clients, BodyEnd(c) PROVE Phases'
  <2>1. Dot(MailOf(c)) \in MailLine /\ Dot(MailOf(c)).kind = "Dot"
    <3>1. MailOf(c) \in Nat
      BY DEF Typing, ClientTypes, Message, MailOf
    <3> QED
      BY <3>1 DEF Dot, Line, MailLine
  <2>2. Types(c, Dot(MailOf(c))) /\ cli'[c] = "ended"
    BY <1>4, BodyEndFacts
  <2> QED
    BY <1>1, <2>1, <2>2, TypesFacts, PhaseTypes
<1>5. ASSUME NEW c \in Clients, BodyEof(c) PROVE Phases'
  <2>1. /\ OthersSame(c) /\ cli[c] = "body" /\ cli'[c] = "stuck"
        /\ up'[c] = up[c] /\ down'[c] = down[c] /\ pc'[c] = pc[c]
        /\ sess'[c] = sess[c] /\ lost'[c] = lost[c]
    BY <1>5, BodyEofFacts
  <2>2. PhaseAt(c)'
    BY <2>1 DEF Phases, PhaseAt, Phase, Dead, Writing
  <2> QED
    BY <1>1, <2>1, <2>2
<1>6. ASSUME NEW c \in Clients, Left(c) PROVE Phases'
  BY <1>1, <1>6, LeftFacts DEF PhaseAt
<1>7. ASSUME NEW c \in Clients, NEW m \in Commands, Command(c, m) PROVE Phases'
  <2>1. m \in Sound
    BY CommandTypes
  <2> QED
    BY <1>1, <1>7, <2>1, CommandFacts, PhaseCommand
<1>8. ASSUME NEW c \in Clients, ReadResponse(c) PROVE Phases'
  BY <1>1, <1>8, ResponseFacts, PhaseResponse
<1>9. ASSUME NEW c \in Clients, ReadMessage(c) PROVE Phases'
  BY <1>1, <1>9, ReadFrame, PhaseRead DEF ReadMessageFrame
<1>10. ASSUME NEW c \in Clients, Store(c) PROVE Phases'
  BY <1>1, <1>10, StoreFacts, PhaseStore
<1>11. ASSUME NEW c \in Clients, EndSession(c) PROVE Phases'
  BY <1>1, <1>11, EndSessionFacts DEF PhaseAt
<1>12. CASE Crash
  BY <1>12, PhaseCrash DEF Phases
<1> QED
  BY <1>0, <1>2, <1>3, <1>4, <1>5, <1>6, <1>7, <1>8, <1>9, <1>10, <1>11, <1>12
     DEF Next, UserStep, ServerStep, Leave, SeesClose

-----------------------------------------------------------------------------
(* What follows from these: the types, InStep, NobodyWaitsForEver.         *)

LEMMA TypesHold ==
    ASSUME Typing, Bounded, Sessions, Files
    PROVE  TypeOK
<1>1. /\ cli \in [Clients -> {"gone", "prompt", "wait", "body", "ended", "stuck", "done"}]
      /\ pc \in [Clients -> {"none", "read", "append"}]
      /\ lost \in [Clients -> BOOLEAN]
  BY Zenon DEF Typing, ClientTypes, ServerTypes, CliStates
<1>2. acked \subseteq Mails
  <2>1. Len(sent) \in Nat /\ DOMAIN sent = 1..Len(sent)
    BY LenProperties DEF Typing
  <2>2. Len(sent) <= MaxMails
    <3>1. Cardinality(DataAsked) \in Nat
      BY FewAsk
    <3> QED
      BY <2>1, <3>1, SmtpAssumption DEF Bounded
  <2> QED
    BY <2>1, <2>2, SmtpAssumption DEF Bounded, Mails
<1>3. ASSUME NEW c \in Clients
      PROVE  /\ asked[c].num \in 0..MaxMails
             /\ \A i \in DOMAIN sess[c].body : sess[c].body[i] \in FileLine
             /\ sess[c].rcpt \in Boxes \cup {NoBox}
             /\ pc[c] = "append" => sess[c].rcpt # NoBox /\ sess[c].id > 0
  <2>1. asked[c].num \in Nat
    BY DEF Typing, ClientTypes, Message
  <2>2. sess[c] \in Session
    BY DEF Typing, ServerTypes
  <2>3. sess[c].body \in Seq(MailLine) /\ sess[c].id \in Nat
        /\ sess[c].rcpt \in Boxes \cup {NoBox}
    BY <2>2, SessionFields
  <2>4. \A i \in DOMAIN sess[c].body : sess[c].body[i] \in MailLine
    BY <2>3, ElementOfSeq, LenProperties
  <2>5. MailLine \subseteq FileLine
    BY DEF MailLine, FileLine
  <2>6. pc[c] = "append" => sess[c].rcpt # NoBox /\ sess[c].id # 0
    BY DEF Sessions, SessionAt
  <2>7. asked[c].num \in 0..MaxMails
    BY <2>1, SmtpAssumption DEF Bounded
  <2>8. \A i \in DOMAIN sess[c].body : sess[c].body[i] \in FileLine
    BY <2>4, <2>5, Zenon
  <2> QED
    BY <2>3, <2>6, <2>7, <2>8
<1>4. ASSUME NEW b \in Boxes, NEW i \in DOMAIN mailbox[b]
      PROVE  mailbox[b][i] \in FileLine /\ (mailbox[b][i].kind = "ID" => mailbox[b][i].num > 0)
  <2>1. mailbox[b] \in Seq(FileLine) /\ WellFormed(mailbox[b], raced)
    BY DEF Typing, ServerTypes, Files
  <2>2. i \in 1..Len(mailbox[b]) /\ mailbox[b][i] \in FileLine /\ mailbox[b][i].num \in Nat
    BY <2>1, FileLines
  <2>3. mailbox[b][i].kind = "ID" => mailbox[b][i].num # 0
    BY <2>1, <2>2 DEF WellFormed, EntryAt
  <2> QED
    BY <2>2, <2>3
<1> QED
  BY <1>1, <1>2, <1>3, <1>4, Zenon DEF TypeOK

(* InStep follows from the phases.                                         *)
LEMMA InStepHolds ==
    ASSUME Typing, Sessions, Phases
    PROVE  InStep
<1> SUFFICES ASSUME NEW c \in Clients, ~lost[c]
             PROVE  /\ sess[c].data => \/ InMail(c) \/ cli[c] = "gone"
                                       \/ cli[c] = "wait" /\ asked[c].kind = "DATA"
                    /\ cli[c] = "prompt" => Idle(c)
                    /\ cli[c] = "body" => /\ down[c] = <<>>
                                          /\ sess[c].data \/ pc[c] = "none"
                    /\ Waiting(c) => Len(down[c]) <= 1
  BY Zenon DEF InStep, InMail, Idle
<1>1. cli[c] # "gone" => Phase(c)
  BY DEF Phases, PhaseAt
<1>2. sess[c].data => pc[c] = "read"
  BY DEF Sessions, SessionAt
<1>3. sess[c].data => \/ InMail(c) \/ cli[c] = "gone"
                      \/ cli[c] = "wait" /\ asked[c].kind = "DATA"
  BY <1>1, <1>2 DEF Phase, Idle, Dead, CommandSent, CommandAnswered, InMail, Typing,
     ClientTypes, CliStates
<1>4. cli[c] = "prompt" => Idle(c)
  BY <1>1 DEF Phase
<1>5. cli[c] = "body" => down[c] = <<>> /\ (sess[c].data \/ pc[c] = "none")
  BY <1>1 DEF Phase, Dead, Writing
<1>6. Waiting(c) => down[c] = <<>> \/ down[c] = <<down[c][1]>>
  <2>1. MailAnswered(c) => down[c] = <<down[c][1]>>
    BY DEF MailAnswered
  <2> QED
    BY <1>1, <2>1 DEF Waiting, Phase, Dead, CommandSent, CommandAnswered, Writing, Written,
       Storing
<1>7. Len(<<>>) = 0 /\ (down[c] = <<down[c][1]>> => Len(down[c]) = 1)
  BY OneAnswer, EmptySeq
<1>8. Waiting(c) => Len(down[c]) <= 1
  <2>1. Waiting(c) => Len(down[c]) = 0 \/ Len(down[c]) = 1
    BY <1>6, <1>7, Zenon
  <2> DEFINE n == Len(down[c])
  <2>2. n = 0 \/ n = 1 => n <= 1
    <3> HIDE DEF n
    <3> QED
      OBVIOUS
  <2> QED
    BY <2>1, <2>2, Zenon
<1> QED
  BY <1>3, <1>4, <1>5, <1>8, Zenon

(* NobodyWaitsForEver follows from the phases.                             *)
LEMMA NobodyWaits ==
    ASSUME Typing, Sessions, Phases
    PROVE  NobodyWaitsForEver
<1> SUFFICES ASSUME NEW c \in Clients, Waiting(c), ~lost[c]
             PROVE  \/ up[c] # <<>> \/ pc[c] # "read" \/ Complete(c) # {}
                    \/ CutAnswer(c) \/ EofInBody(c)
  BY Zenon DEF NobodyWaitsForEver
<1>0. cli[c] \in {"wait", "ended", "stuck"}
  BY DEF Waiting
<1>1. Phase(c)
  BY <1>0 DEF Phases, PhaseAt
<1>2. Dead(c) => pc[c] # "read"
  BY DEF Dead
<1>3. CommandSent(c) => up[c] # <<>>
  BY DEF CommandSent
<1>4. CommandAnswered(c) => Complete(c) # {} \/ CutAnswer(c)
  <2> SUFFICES ASSUME CommandAnswered(c), ~down[c][1].end
               PROVE  CutAnswer(c)
    BY OneAnswer DEF CommandAnswered
  <2> DEFINE file == mailbox[asked[c].box]
  <2>1. /\ asked[c].kind = "GET_MAIL" /\ asked[c].box \in Boxes
        /\ down[c] = <<down[c][1]>> /\ Cut(file, down[c][1])
    BY Zenon DEF CommandAnswered, StopsShort
  <2>2. DOMAIN file = 1..Len(file)
    BY <2>1, FileLines DEF Typing, ServerTypes
  <2> HIDE DEF file
  <2>3. PICK i \in DOMAIN file, j \in DOMAIN file :
            /\ i < j /\ file[j].kind = "BodyId"
            /\ down[c][1] = Answer(200, SubSeq(file, i, j - 1), FALSE)
    BY <2>1, <2>2, ZenonT(60) DEF Cut
  <2>4. down[c] = <<Answer(200, SubSeq(file, i, j - 1), FALSE)>>
    BY <2>1, <2>3, Zenon
  <2> QED
    BY <2>1, <2>3, <2>4, ZenonT(60) DEF CutAnswer, file
<1>5. MailAnswered(c) => Complete(c) # {}
  <2> SUFFICES ASSUME MailAnswered(c)
               PROVE  Complete(c) # {}
    OBVIOUS
  <2>1. down[c] = <<down[c][1]>> /\ down[c][1].end
    BY DEF MailAnswered, Ok, Answer
  <2> QED
    BY <2>1, OneAnswer
<1>6. Written(c) => up[c] # <<>>
  BY DEF Written
<1>7. Storing(c) => pc[c] # "read"
  BY DEF Storing
<1>8. cli[c] = "stuck" /\ Writing(c) => EofInBody(c)
  BY DEF Writing, EofInBody
<1> QED
  BY <1>0, <1>1, <1>2, <1>3, <1>4, <1>5, <1>6, <1>7, <1>8 DEF Phase

-----------------------------------------------------------------------------
(* The numbers of mails: no line of a mail is on two connections, and none *)
(* of an acknowledged mail is still on its way.                            *)

InQueue(q, n) == \E i \in DOMAIN q : Numbered(q[i]) /\ q[i].num = n

Uses(c, n) ==
    InQueue(up[c], n) \/ InQueue(sess[c].body, n) \/ (InMail(c) /\ MailOf(c) = n)

NumberAt(c) ==
    \A n \in Nat \ {0} :
        Uses(c, n) => /\ n <= Len(sent) /\ n \notin acked
                      /\ \A d \in Clients : d # c => ~Uses(d, n)
Numbers == \A c \in Clients : NumberAt(c)

(* No number is in an empty queue.                                         *)
LEMMA EmptyQueue == \A n : ~InQueue(<<>>, n)
  BY DEF InQueue

(* A number in a longer queue was there or has come with the last message. *)
LEMMA QueueAppended ==
    ASSUME NEW S, NEW s \in Seq(S), NEW m \in S, NEW n, InQueue(Append(s, m), n)
    PROVE  InQueue(s, n) \/ (Numbered(m) /\ m.num = n)
<1> DEFINE t == Append(s, m)
<1>1. /\ Len(s) \in Nat /\ DOMAIN s = 1..Len(s) /\ DOMAIN t = 1..(Len(s) + 1)
      /\ \A i \in 1..Len(s) : t[i] = s[i]
      /\ t[Len(s) + 1] = m
  BY MessageAppended
<1>2. InQueue(t, n)
  OBVIOUS
<1> HIDE DEF t
<1>3. \A i \in 1..(Len(s) + 1) : i \in 1..Len(s) \/ i = Len(s) + 1
  BY <1>1
<1> QED
  BY <1>1, <1>2, <1>3, Zenon DEF InQueue

(* A fragment has the number of what it was part of.                       *)
LEMMA QueueRemaining ==
    ASSUME NEW s \in Seq(Sound), NEW rest \in Remaining(s), NEW n \in Nat \ {0},
           InQueue(rest, n)
    PROVE  InQueue(s, n)
<1>1. PICK i \in DOMAIN rest : Numbered(rest[i]) /\ rest[i].num = n
  BY DEF InQueue
<1>2. PICK j \in DOMAIN s : rest[i] = s[j] \/ rest[i] \in Fragments(s[j])
  BY RemainingRest
<1>3. CASE rest[i] = s[j]
  BY <1>1, <1>3 DEF InQueue
<1>4. CASE rest[i] \in Fragments(s[j])
  <2>1. s[j] \in Sound
    BY LenProperties, ElementOfSeq
  <2>2. rest[i].num = 0 \/ (Numbered(s[j]) /\ rest[i].num = s[j].num)
    BY <1>1, <1>4, <2>1, FragmentIsMessage
  <2>3. n # 0
    OBVIOUS
  <2> QED
    BY <1>1, <2>2, <2>3, Zenon DEF InQueue
<1> QED
  BY <1>2, <1>3, <1>4

(* The number of the first message is in the queue.                        *)
LEMMA QueueHead ==
    ASSUME NEW S, NEW s \in Seq(S), s # <<>>, NEW n, Numbered(Head(s)), Head(s).num = n
    PROVE  InQueue(s, n)
<1>1. 1 \in DOMAIN s /\ Head(s) = s[1]
  OBVIOUS
<1> QED
  BY <1>1 DEF InQueue

(* A command has no number of a mail that is typed.                        *)
LEMMA CommandNumber ==
    ASSUME NEW m \in Commands, Numbered(m)
    PROVE  m.num = 0
<1>1. m.num = 0 \/ m.kind = "GET_MAIL"
  BY CommandFields, Zenon
<1> QED
  BY <1>1 DEF Numbered

(* What one connection does leaves the numbers apart: it uses no new one,  *)
(* but for that of a mail it begins, and one it has acknowledged is no     *)
(* longer in use.                                                          *)
LEMMA NumbersKept ==
    ASSUME Typing, Bounded, Numbers, NEW c \in Clients, OthersSame(c),
           Len(sent') \in Nat, Len(sent') >= Len(sent),
           \A n \in Nat \ {0} :
               Uses(c, n)' => Uses(c, n) \/ (n = Len(sent) + 1 /\ Len(sent') = Len(sent) + 1),
           \/ acked' = acked
           \/ /\ acked' = acked \cup {MailOf(c)} /\ InMail(c)
              /\ \A n : ~Uses(c, n)'
    PROVE  Numbers'
<1>1. Len(sent) \in Nat /\ DOMAIN sent = 1..Len(sent)
  BY LenProperties DEF Typing
<1>2. \A d \in Clients : d # c => \A n : Uses(d, n)' <=> Uses(d, n)
  BY DEF OthersSame, Same, Uses, InMail, MailOf
<1>3. \A n \in Nat \ {0} : n \in acked' =>
          n \in acked \/ (n = MailOf(c) /\ Uses(c, n) /\ ~Uses(c, n)' /\ n <= Len(sent))
  <2>1. InMail(c) => MailOf(c) \in DOMAIN sent /\ Uses(c, MailOf(c))
    BY DEF Bounded, Uses
  <2> HIDE DEF Uses
  <2> QED
    BY <1>1, <2>1
<1>4. \A n \in Nat \ {0} : n \in acked => n <= Len(sent)
  BY <1>1 DEF Bounded
<1> HIDE DEF Uses
<1> SUFFICES ASSUME NEW d \in Clients, NEW n \in Nat \ {0}, Uses(d, n)'
             PROVE  /\ n <= Len(sent') /\ n \notin acked'
                    /\ \A x \in Clients : x # d => ~Uses(x, n)'
  BY Zenon DEF Numbers, NumberAt
<1>5. CASE d # c
  <2>1. Uses(d, n)
    BY <1>2, <1>5
  <2>2. n <= Len(sent) /\ n \notin acked /\ \A x \in Clients : x # d => ~Uses(x, n)
    BY <2>1 DEF Numbers, NumberAt
  <2>3. n # Len(sent) + 1 /\ n <= Len(sent')
    BY <1>1, <2>2
  <2>4. ~Uses(c, n) /\ ~Uses(c, n)'
    BY <1>5, <2>2, <2>3
  <2>5. n \notin acked'
    BY <1>3, <2>2, <2>4
  <2> QED
    BY <1>2, <2>2, <2>3, <2>4, <2>5
<1>6. CASE d = c /\ Uses(c, n)
  <2>1. n <= Len(sent) /\ n \notin acked /\ \A x \in Clients : x # c => ~Uses(x, n)
    BY <1>6 DEF Numbers, NumberAt
  <2>2. n <= Len(sent')
    BY <1>1, <2>1
  <2>3. n \notin acked'
    BY <1>3, <1>6, <2>1
  <2> QED
    BY <1>2, <1>6, <2>1, <2>2, <2>3
<1>7. CASE d = c /\ n = Len(sent) + 1 /\ Len(sent') = Len(sent) + 1
  <2>1. n <= Len(sent') /\ ~(n <= Len(sent))
    BY <1>1, <1>7
  <2>2. n \notin acked'
    BY <1>3, <1>4, <2>1
  <2>3. \A x \in Clients : ~Uses(x, n)
    BY <2>1 DEF Numbers, NumberAt
  <2> QED
    BY <1>2, <1>7, <2>1, <2>2, <2>3
<1> QED
  BY <1>5, <1>6, <1>7

(* No number is in use in the initial state.                               *)
LEMMA NumbersInit == Init => Numbers
  BY EmptyQueue, NewSessionFields DEF Init, Numbers, NumberAt, Uses, InMail

(* The number of a mail that begins is new, and that of an acknowledged    *)
(* mail is used no more.                                                   *)
LEMMA NumbersResponse ==
    ASSUME Typing, Bounded, Sessions, Phases, Numbers, NEW c \in Clients, ReadResponse(c)
    PROVE  Numbers'
<1>1. /\ OthersSame(c) /\ Waiting(c)
      /\ up'[c] = up[c] /\ pc'[c] = pc[c] /\ sess'[c] = sess[c]
      /\ AsksData(c) =>
             /\ cli'[c] = "body" /\ asked'[c] = [asked[c] EXCEPT !.num = Len(sent) + 1]
             /\ sent' = Append(sent, [to |-> to[c], lines |-> <<>>])
      /\ ~AsksData(c) => cli'[c] \in {"done", "prompt"} /\ sent' = sent
      /\ acked' = IF cli[c] = "ended" /\ down[c][1].code = 200 /\ ~lost'[c]
                  THEN acked \cup {MailOf(c)} ELSE acked
  BY ResponseFacts, Zenon
<1>2. Len(sent) \in Nat
  BY LenProperties DEF Typing
<1>3. CASE AsksData(c)
  <2>1. Len(sent') = Len(sent) + 1
    <3>1. to[c] \in Boxes \cup {NoBox}
      BY DEF Typing, ClientTypes
    <3>2. [to |-> to[c], lines |-> <<>>] \in Mail
      BY <3>1, EmptySeq DEF Mail
    <3> QED
      BY <1>1, <1>3, <3>2, AppendType DEF Typing
  <2>2. asked'[c].num = Len(sent) + 1
    BY <1>1, <1>3 DEF Typing, ClientTypes, Message
  <2>3. \A n : Uses(c, n)' => Uses(c, n) \/ n = Len(sent) + 1
    BY <1>1, <2>2 DEF Uses, MailOf
  <2>4. acked' = acked
    BY <1>1, <1>3 DEF AsksData
  <2> HIDE DEF Uses
  <2> QED
    BY <1>1, <1>2, <2>1, <2>3, <2>4, NumbersKept
<1>4. CASE ~AsksData(c)
  <2>1. \A n : Uses(c, n)' => Uses(c, n)
    BY <1>1, <1>4 DEF Uses, InMail
  <2>2. ASSUME cli[c] = "ended", ~lost'[c]
        PROVE  InMail(c) /\ \A n : ~Uses(c, n)'
    <3>1. ~lost[c] /\ down[c] # <<>>
      BY <2>2, ResponseFacts, NoAnswer
    <3>2. MailAnswered(c)
      BY <2>2, <3>1 DEF Phases, PhaseAt, Phase, Dead, Written, Storing
    <3>3. up[c] = <<>> /\ sess[c].body = <<>>
      BY <3>2 DEF MailAnswered, Sessions, SessionAt
    <3>4. ~InMail(c)'
      BY <1>1, <1>4 DEF InMail
    <3> QED
      BY <1>1, <2>2, <3>3, <3>4, EmptyQueue DEF Uses, InMail
  <2>3. sent' = sent
    BY <1>1, <1>4
  <2>4. \/ acked' = acked
        \/ /\ acked' = acked \cup {MailOf(c)} /\ InMail(c)
           /\ \A n : ~Uses(c, n)'
    BY <1>1, <2>2, Zenon
  <2> HIDE DEF Uses
  <2> QED
    BY <1>1, <1>2, <2>1, <2>3, <2>4, NumbersKept
<1> QED
  BY <1>3, <1>4

(* The number of a line that is typed is that of its mail.                 *)
LEMMA NumbersTypes ==
    ASSUME Typing, NEW c \in Clients, NEW l \in MailLine, Types(c, l),
           Numbered(l) => l.num = MailOf(c), InMail(c)',
           NEW n \in Nat \ {0}, Uses(c, n)'
    PROVE  Uses(c, n)
<1>1. /\ cli[c] = "body" /\ asked'[c] = asked[c] /\ sess'[c] = sess[c]
      /\ up'[c] = IF pc[c] = "none" THEN up[c] ELSE Append(up[c], Typed(l))
  BY TypesFacts
<1>2. InQueue(up[c], n)' => InQueue(up[c], n) \/ (Numbered(l) /\ l.num = n)
  <2>1. up[c] \in Seq(Sound)
    BY DEF Typing, ConnectionTypes
  <2>2. Typed(l) \in Sound /\ Typed(l).kind = l.kind /\ Typed(l).num = l.num
    BY TypedLine
  <2>3. InQueue(Append(up[c], Typed(l)), n) =>
            InQueue(up[c], n) \/ (Numbered(Typed(l)) /\ Typed(l).num = n)
    BY <2>1, <2>2, QueueAppended
  <2>4. InQueue(up[c], n)' = InQueue(up'[c], n)
    BY DEF InQueue
  <2>5. Numbered(Typed(l)) <=> Numbered(l)
    BY <2>2 DEF Numbered
  <2>6. CASE pc[c] = "none"
    BY <1>1, <2>4, <2>6
  <2>7. CASE pc[c] # "none"
    BY <1>1, <2>2, <2>3, <2>4, <2>5, <2>7, Zenon
  <2> QED
    BY <2>6, <2>7
<1>3. InQueue(sess[c].body, n)' => InQueue(sess[c].body, n)
  BY <1>1 DEF InQueue
<1>4. InMail(c) /\ MailOf(c)' = MailOf(c)
  BY <1>1 DEF InMail, MailOf
<1> QED
  BY <1>2, <1>3, <1>4, Zenon DEF Uses

(* What is read becomes part of the body, with its number.                 *)
LEMMA NumbersRead ==
    ASSUME Typing, Sessions, NEW c \in Clients, ReadMessage(c),
           NEW n \in Nat \ {0}, Uses(c, n)'
    PROVE  Uses(c, n)
<1> DEFINE m == Head(up[c])
<1>1. /\ cli'[c] = cli[c] /\ asked'[c] = asked[c] /\ Consumes(c)
      /\ \/ ReadLine(c, m) \/ ReadDot(c, m) \/ ReadQuit(c, m)
         \/ \E a : ReadCommand(c, m, a)
  BY ReadFrame, ReadCases, Zenon DEF ReadMessageFrame
<1>2. m \in Sound /\ up[c] \in Seq(Sound) /\ up[c] # <<>>
  BY ReadTypes
<1>3. m \in Message /\ sess[c] \in Session
  BY <1>2 DEF Sound, Typing, ServerTypes
<1>4. sess[c].body \in Seq(MailLine) /\ AsLine(m) \in MailLine
  BY <1>3, SessionFields, AsLineIsLine
<1>5. Numbered(m) /\ m.num = n => InQueue(up[c], n)
  BY <1>2, QueueHead
<1> HIDE DEF m
<1>6. InQueue(Append(sess[c].body, AsLine(m)), n) =>
          InQueue(sess[c].body, n) \/ InQueue(up[c], n)
  <2>1. SUFFICES ASSUME InQueue(Append(sess[c].body, AsLine(m)), n)
                 PROVE  InQueue(sess[c].body, n) \/ (Numbered(m) /\ m.num = n)
    BY <1>5
  <2>2. InQueue(sess[c].body, n) \/ (Numbered(AsLine(m)) /\ AsLine(m).num = n)
    BY <1>4, <2>1, QueueAppended
  <2>3. Numbered(AsLine(m)) =>
            AsLine(m).num = 0 \/ (Numbered(m) /\ AsLine(m).num = m.num)
    BY <1>3, AsLineIsLine
  <2>4. n # 0
    OBVIOUS
  <2> QED
    BY <2>2, <2>3, <2>4, Zenon
<1>7. \/ sess'[c].body = Append(sess[c].body, AsLine(m))
      \/ sess'[c].body = <<>> \/ sess'[c].body = sess[c].body
  <2>1. ReadLine(c, m) \/ ReadDot(c, m) => sess'[c].body = Append(sess[c].body, AsLine(m))
    BY <1>2, SessionAfter, Zenon DEF Sessions
  <2>2. ReadQuit(c, m) => sess'[c].body = <<>>
    BY NewSessionFields DEF ReadQuit
  <2>3. (\E a : ReadCommand(c, m, a)) => sess'[c].body = sess[c].body
    BY Zenon DEF ReadCommand
  <2> QED
    BY <1>1, <2>1, <2>2, <2>3
<1>8. InQueue(sess'[c].body, n) => InQueue(sess[c].body, n) \/ InQueue(up[c], n)
  BY <1>6, <1>7, EmptyQueue, Zenon
<1>9. InQueue(up'[c], n) => InQueue(up[c], n)
  <2>1. PICK rest \in Remaining(up[c]) :
            up'[c] = IF pc'[c] = "none" THEN <<>> ELSE rest
    BY <1>1, Zenon DEF Consumes
  <2>2. InQueue(rest, n) => InQueue(up[c], n)
    BY <1>2, QueueRemaining
  <2>3. CASE pc'[c] = "none"
    BY <2>1, <2>3, EmptyQueue, Zenon
  <2>4. CASE pc'[c] # "none"
    BY <2>1, <2>2, <2>4, Zenon
  <2> QED
    BY <2>3, <2>4
<1>10. InMail(c)' /\ MailOf(c)' = n => InMail(c) /\ MailOf(c) = n
  BY <1>1 DEF InMail, MailOf
<1>11. Uses(c, n)' = (InQueue(up'[c], n) \/ InQueue(sess'[c].body, n)
                      \/ (InMail(c)' /\ MailOf(c)' = n))
  BY Zenon DEF Uses, InQueue
<1> QED
  BY <1>8, <1>9, <1>10, <1>11, Zenon DEF Uses

(* Every step keeps the numbers of mails apart.                            *)
LEMMA NumbersNext ==
    ASSUME Typing, Bounded, Sessions, Phases, Numbers, [Next]_vars
    PROVE  Numbers'
<1> DEFINE Keeps(c) ==
        /\ OthersSame(c) /\ acked' = acked
        /\ Len(sent') = Len(sent)
        /\ \A n \in Nat \ {0} : Uses(c, n)' => Uses(c, n)
<1>0. Len(sent) \in Nat
  BY LenProperties DEF Typing
<1>1. ASSUME NEW c \in Clients, Keeps(c) PROVE Numbers'
  <2>1. /\ OthersSame(c) /\ acked' = acked /\ Len(sent') = Len(sent)
        /\ \A n \in Nat \ {0} : Uses(c, n)' => Uses(c, n)
    BY <1>1
  <2> HIDE DEF Uses
  <2> QED
    BY <1>0, <2>1, NumbersKept
<1>2. CASE UNCHANGED vars
  BY <1>2 DEF vars, clientState, serverState, history, Numbers, NumberAt, Uses, InMail,
     MailOf, InQueue
<1>3. ASSUME NEW c \in Clients, Connect(c) PROVE Keeps(c)
  BY <1>3, ConnectFacts, NewSessionFields, EmptyQueue DEF Uses, InMail, InQueue
<1>4. ASSUME NEW c \in Clients, NEW l \in MailLine, Types(c, l),
             cli'[c] \in {"body", "ended"}, Numbered(l) => l.num = MailOf(c)
      PROVE  Keeps(c)
  <2>1. Len(sent') = Len(sent)
    BY <1>4, SentTyping, Zenon
  <2>2. InMail(c)'
    BY <1>4 DEF InMail
  <2>3. \A n \in Nat \ {0} : Uses(c, n)' => Uses(c, n)
    BY <1>4, <2>2, NumbersTypes
  <2> QED
    BY <1>4, <2>1, <2>3, TypesFacts
<1>5. ASSUME NEW c \in Clients, BodyEof(c) PROVE Keeps(c)
  BY <1>5, BodyEofFacts DEF Uses, InMail, MailOf, InQueue
<1>6. ASSUME NEW c \in Clients, Left(c) PROVE Keeps(c)
  <2>1. sent' = IF InMail(c) THEN [sent EXCEPT ![MailOf(c)] = NoMail] ELSE sent
    BY <1>6, LeftFacts, Zenon
  <2>2. Len(sent') = Len(sent)
    <3>1. CASE InMail(c)
      BY <2>1, <3>1, MailReplaced, NoMailType, Zenon DEF Bounded, Typing
    <3> QED
      BY <2>1, <3>1
  <2>3. \A n : Uses(c, n)' => Uses(c, n)
    BY <1>6, LeftFacts DEF Uses, InMail, InQueue
  <2> QED
    BY <1>6, <2>2, <2>3, LeftFacts
<1>7. ASSUME NEW c \in Clients, NEW m \in Commands, Command(c, m) PROVE Keeps(c)
  <2>1. m \in Sound /\ (Numbered(m) => m.num = 0)
    BY CommandTypes, CommandNumber
  <2>2. /\ OthersSame(c) /\ UNCHANGED <<sent, acked>> /\ cli'[c] = "wait"
        /\ up'[c] = IF pc[c] = "none" THEN up[c] ELSE Append(up[c], m)
        /\ sess'[c] = sess[c]
    BY <1>7, <2>1, CommandFacts
  <2>3. up[c] \in Seq(Sound)
    BY DEF Typing, ConnectionTypes
  <2>4. ASSUME NEW n \in Nat \ {0}, InQueue(up'[c], n) PROVE InQueue(up[c], n)
    <3>1. CASE pc[c] = "none"
      BY <2>2, <2>4, <3>1
    <3>2. CASE pc[c] # "none"
      <4>1. InQueue(Append(up[c], m), n)
        BY <2>2, <2>4, <3>2
      <4>2. InQueue(up[c], n) \/ (Numbered(m) /\ m.num = n)
        BY <2>1, <2>3, <4>1, QueueAppended
      <4>3. n # 0
        OBVIOUS
      <4> QED
        BY <2>1, <4>2, <4>3, Zenon
    <3> QED
      BY <3>1, <3>2
  <2>5. ~InMail(c)' /\ \A n : InQueue(sess'[c].body, n) => InQueue(sess[c].body, n)
    BY <2>2 DEF InMail
  <2>6. \A n : Uses(c, n)' = (InQueue(up'[c], n) \/ InQueue(sess'[c].body, n)
                              \/ (InMail(c)' /\ MailOf(c)' = n))
    BY Zenon DEF Uses, InQueue
  <2>7. \A n \in Nat \ {0} : Uses(c, n)' => Uses(c, n)
    BY <2>4, <2>5, <2>6, Zenon DEF Uses
  <2> QED
    BY <2>2, <2>7
<1>8. ASSUME NEW c \in Clients, ReadMessage(c) PROVE Keeps(c)
  <2>1. \A n \in Nat \ {0} : Uses(c, n)' => Uses(c, n)
    BY <1>8, NumbersRead
  <2> QED
    BY <1>8, <2>1, ReadFrame DEF ReadMessageFrame
<1>9. ASSUME NEW c \in Clients, Store(c) PROVE Keeps(c)
  <2>1. sess'[c].body = <<>>
    <3>1. sess'[c] = Stored(sess[c])
      BY <1>9, StoreFacts, Zenon
    <3>2. sess[c] \in Session /\ 0 \in Nat
      BY DEF Typing, ServerTypes
    <3> QED
      BY <3>1, <3>2, EndDataFields, ZenonT(60)
  <2> QED
    BY <1>9, <2>1, StoreFacts, EmptyQueue DEF Uses, InMail, MailOf, InQueue
<1>10. ASSUME NEW c \in Clients, EndSession(c) PROVE Keeps(c)
  BY <1>10, EndSessionFacts, NewSessionFields, EmptyQueue DEF Uses, InMail, InQueue
<1>11. CASE Crash
  <2>1. \A d \in Clients : up'[d] = <<>> /\ sess'[d] = NewSession
    BY <1>11 DEF Crash
  <2>2. UNCHANGED <<cli, asked, sent, acked>>
    BY <1>11 DEF Crash, clientState, history
  <2>3. \A d \in Clients : \A n : Uses(d, n)' => Uses(d, n)
    BY <2>1, <2>2, NewSessionFields DEF Uses, InMail, MailOf, InQueue
  <2> QED
    BY <2>2, <2>3, Zenon DEF Numbers, NumberAt
<1>12. ASSUME NEW c \in Clients, BodyEnd(c) PROVE Keeps(c)
  <2>1. MailOf(c) \in Nat
    BY DEF Typing, ClientTypes, Message, MailOf
  <2> QED
    BY <1>4, <1>12, <2>1, BodyEndFacts, DotType
<1>13. ASSUME NEW c \in Clients,
              NEW l \in {Text(MailOf(c))} \cup {BodyId(n) : n \in BodyIds}, BodyLine(c, l)
       PROVE  Keeps(c)
  <2>1. MailOf(c) \in Nat
    BY DEF Typing, ClientTypes, Message, MailOf
  <2>2. l \in MailLine
    BY <2>1, BodyLineType
  <2>3. Numbered(l) => l.num = MailOf(c)
    BY DEF Numbered, Text, BodyId, Line
  <2> QED
    BY <1>4, <1>13, <2>2, <2>3, BodyLineFacts
<1> HIDE DEF Keeps
<1> QED
  BY <1>1, <1>2, <1>3, <1>5, <1>6, <1>7, <1>8, <1>9, <1>10, <1>11, <1>12, <1>13,
     NumbersResponse DEF Next, UserStep, ServerStep, Leave, SeesClose

-----------------------------------------------------------------------------
(* Mails: what their senders have typed is what is read, stored, and then  *)
(* stays.                                                                  *)

NoDot(file, m) == \A i \in 1..Len(file) : file[i] # Dot(m)

(* The mail m, with these lines, is stored from line s on, and nowhere     *)
(* else in the file.                                                       *)
StoredAt(file, s, lines, m) ==
    /\ lines # <<>> /\ s + Len(lines) + 3 <= Len(file)
    /\ file[s] = Line("ID", file[s].num)
    /\ file[s + 1] = Line("From", 0) /\ file[s + 2] = Line("Date", 0)
    /\ \A i \in 1..Len(lines) : file[s + 2 + i] = lines[i]
    /\ file[s + Len(lines) + 3] = Blank
    /\ lines[Len(lines)] = Dot(m)
    /\ \A i \in 1..Len(file) : file[i] = Dot(m) => i = s + 2 + Len(lines)

StoredOnce(m) ==
    \A b \in Boxes :
        IF b = sent[m].to /\ b \notin Unopenable
        THEN \E s \in 1..Len(mailbox[b]) : StoredAt(mailbox[b], s, sent[m].lines, m)
        ELSE NoDot(mailbox[b], m)

DotNumbers ==
    \A b \in Boxes : \A i \in 1..Len(mailbox[b]) :
        mailbox[b][i].kind = "Dot" => mailbox[b][i].num <= Len(sent)

(* The lines of the mail are those the thread has and those on their way.  *)
Delivered(body, queue, lines) ==
    /\ Len(lines) = Len(body) + Len(queue)
    /\ \A i \in 1..Len(body) : body[i] = lines[i]
    /\ \A i \in 1..Len(queue) : AsLine(queue[i]) = lines[Len(body) + i]

MailSent(c) == sent[MailOf(c)]
OnItsWay(c) == InMail(c) /\ (sess[c].data \/ pc[c] = "append")

(* The client knows its recipient as the thread does, once it has read     *)
(* that it was accepted.                                                   *)
AnsweredTo(c) ==
    /\ cli[c] = "wait" /\ asked[c].kind = "RCPT TO"
    /\ down[c] # <<>> /\ down[c][1].code = 200
RecipientAt(c) ==
    pc[c] # "none" => sess[c].rcpt = IF AnsweredTo(c) THEN asked[c].box ELSE to[c]

(* A mail on a connection that has lost nothing.                           *)
Faithful(c) ==
    /\ RecipientAt(c)
    /\ cli[c] = "wait" => sess[c].body = <<>>
    /\ OnItsWay(c) =>
           /\ Delivered(sess[c].body, up[c], MailSent(c).lines)
           /\ sess[c].rcpt = MailSent(c).to
           /\ \A b \in Boxes : NoDot(mailbox[b], MailOf(c))
    /\ cli[c] = "ended" /\ down[c] # <<>> => StoredOnce(MailOf(c))

Closed(c) ==
    cli[c] = "ended" =>
        /\ MailSent(c).lines # <<>>
        /\ MailSent(c).lines[Len(MailSent(c).lines)] = Dot(MailOf(c))

MailAt(c) ==
    /\ cli[c] = "gone" => to[c] = NoBox
    /\ Closed(c)
    /\ ~lost[c] /\ cli[c] # "gone" => Faithful(c)

Stores ==
    /\ \A c \in Clients : MailAt(c)
    /\ \A m \in acked : StoredOnce(m)

(* The lines of a file behind store_email's.                               *)
LEMMA LinesAppended ==
    ASSUME NEW file \in Seq(FileLine), NEW id \in Nat, NEW body \in Seq(MailLine)
    PROVE  \A i \in 1..Len(file \o Entry(id, body)) :
               \/ i \in 1..Len(file) /\ (file \o Entry(id, body))[i] = file[i]
               \/ (file \o Entry(id, body))[i].kind \in {"ID", "From", "Date", "Blank"}
               \/ \E j \in 1..Len(body) : /\ i = Len(file) + 3 + j
                                          /\ (file \o Entry(id, body))[i] = body[j]
<1> DEFINE f == file \o Entry(id, body)
           n == Len(file)
           k == Len(body)
<1>1. /\ f \in Seq(FileLine) /\ n \in Nat /\ k \in Nat /\ Len(f) = n + k + 4
      /\ \A i \in 1..n : f[i] = file[i]
      /\ f[n + 1] = Line("ID", id) /\ f[n + 2] = Line("From", 0) /\ f[n + 3] = Line("Date", 0)
      /\ \A i \in 1..k : f[n + 3 + i] = body[i]
      /\ f[n + k + 4] = Blank
  BY EntryAppended, ZenonT(60)
<1> HIDE DEF f
<1>2. /\ f[n + 1].kind = "ID" /\ f[n + 2].kind = "From" /\ f[n + 3].kind = "Date"
      /\ f[n + k + 4].kind = "Blank"
  BY <1>1 DEF Line, Blank
<1> HIDE DEF n, k
<1>3. ASSUME NEW i \in 1..Len(f)
      PROVE  \/ i \in 1..n /\ f[i] = file[i]
             \/ f[i].kind \in {"ID", "From", "Date", "Blank"}
             \/ \E j \in 1..k : i = n + 3 + j /\ f[i] = body[j]
  <2>1. CASE i <= n
    BY <1>1, <2>1
  <2>2. CASE i \in {n + 1, n + 2, n + 3, n + k + 4}
    BY <1>2, <2>2
  <2>3. CASE i > n + 3 /\ i # n + k + 4
    <3>0. n \in Nat /\ k \in Nat /\ Len(f) = n + k + 4
      BY <1>1, Zenon
    <3>1. i - (n + 3) \in 1..k /\ i = n + 3 + (i - (n + 3))
      BY <1>3, <2>3, <3>0
    <3>2. f[i] = body[i - (n + 3)]
      BY <1>1, <3>1
    <3> QED
      BY <3>1, <3>2, Zenon
  <2> QED
    BY <1>1, <1>3, <2>1, <2>2, <2>3
<1> QED
  BY <1>3, Zenon DEF f, n, k

(* A mail without a certain dot does not bring it into a file.             *)
LEMMA NoDotKept ==
    ASSUME NEW file \in Seq(FileLine), NEW id \in Nat, NEW body \in Seq(MailLine),
           NEW m, NoDot(file, m), \A i \in 1..Len(body) : body[i] # Dot(m)
    PROVE  NoDot(file \o Entry(id, body), m)
<1>1. Dot(m).kind = "Dot"
  BY DEF Dot, Line
<1> DEFINE f == file \o Entry(id, body)
<1>2. \A i \in 1..Len(f) : \/ i \in 1..Len(file) /\ f[i] = file[i]
                           \/ f[i].kind \in {"ID", "From", "Date", "Blank"}
                           \/ \E j \in 1..Len(body) : i = Len(file) + 3 + j /\ f[i] = body[j]
  BY LinesAppended, Zenon
<1> HIDE DEF f
<1>3. NoDot(f, m)
  BY <1>1, <1>2 DEF NoDot
<1> QED
  BY <1>3 DEF f

(* A stored mail stays stored when another is appended.                    *)
LEMMA StoredKept ==
    ASSUME NEW file \in Seq(FileLine), NEW id \in Nat, NEW body \in Seq(MailLine),
           NEW m, NEW s \in 1..Len(file), NEW lines \in Seq(MailLine),
           StoredAt(file, s, lines, m), \A i \in 1..Len(body) : body[i] # Dot(m)
    PROVE  StoredAt(file \o Entry(id, body), s, lines, m)
<1> DEFINE f == file \o Entry(id, body)
           n == Len(file)
           k == Len(body)
           x == Len(lines)
<1>1. Dot(m).kind = "Dot"
  BY DEF Dot, Line
<1>2. /\ n \in Nat /\ k \in Nat /\ Len(f) = n + k + 4
      /\ \A i \in 1..n : f[i] = file[i]
  BY EntryAppended, SMTT(60)
<1>3. \A i \in 1..Len(f) : \/ i \in 1..n /\ f[i] = file[i]
                           \/ f[i].kind \in {"ID", "From", "Date", "Blank"}
                           \/ \E j \in 1..k : i = n + 3 + j /\ f[i] = body[j]
  BY LinesAppended, Zenon
<1>4. x \in Nat
  BY LenProperties
<1>5. /\ lines # <<>> /\ s + x + 3 <= n
      /\ file[s] = Line("ID", file[s].num)
      /\ file[s + 1] = Line("From", 0) /\ file[s + 2] = Line("Date", 0)
      /\ \A i \in 1..x : file[s + 2 + i] = lines[i]
      /\ file[s + x + 3] = Blank
      /\ lines[x] = Dot(m)
      /\ \A i \in 1..n : file[i] = Dot(m) => i = s + 2 + x
  BY DEF StoredAt
<1> HIDE DEF f
<1>6. \A i \in 1..Len(f) : f[i] = Dot(m) => i = s + 2 + x
  BY <1>1, <1>3, <1>5
<1> HIDE DEF n, k, x
<1>7. s \in 1..n
  BY DEF n
<1>8. s + x + 3 <= Len(f)
  BY <1>2, <1>4, <1>5, <1>7
<1>9. /\ f[s] = file[s] /\ f[s + 1] = file[s + 1] /\ f[s + 2] = file[s + 2]
      /\ f[s + x + 3] = file[s + x + 3]
      /\ \A i \in 1..x : f[s + 2 + i] = file[s + 2 + i]
  <2>1. /\ s + 1 \in 1..n /\ s + 2 \in 1..n /\ s + x + 3 \in 1..n
        /\ \A i \in 1..x : s + 2 + i \in 1..n
    BY <1>2, <1>4, <1>5, <1>7
  <2> QED
    BY <1>2, <1>7, <2>1
<1>10. StoredAt(f, s, lines, m)
  BY <1>5, <1>6, <1>8, <1>9, Zenon DEF StoredAt, x
<1> QED
  BY <1>10 DEF f

(* A mail with its only dot at its end is stored where the file ended.     *)
LEMMA StoredNew ==
    ASSUME NEW file \in Seq(FileLine), NEW id \in Nat, NEW body \in Seq(MailLine),
           NEW m, NoDot(file, m), body # <<>>, body[Len(body)] = Dot(m),
           \A i \in 1..Len(body) : body[i].kind = "Dot" => i = Len(body)
    PROVE  /\ Len(file) + 1 \in 1..Len(file \o Entry(id, body))
           /\ StoredAt(file \o Entry(id, body), Len(file) + 1, body, m)
<1> DEFINE f == file \o Entry(id, body)
           n == Len(file)
           k == Len(body)
<1>1. Dot(m).kind = "Dot"
  BY DEF Dot, Line
<1>2. /\ f \in Seq(FileLine) /\ n \in Nat /\ k \in Nat /\ Len(f) = n + k + 4
      /\ \A i \in 1..n : f[i] = file[i]
      /\ f[n + 1] = Line("ID", id) /\ f[n + 2] = Line("From", 0) /\ f[n + 3] = Line("Date", 0)
      /\ \A i \in 1..k : f[n + 3 + i] = body[i]
      /\ f[n + k + 4] = Blank
  <2> HIDE DEF f
  <2>1. LET g == file \o Entry(id, body)
        IN  /\ g \in Seq(FileLine) /\ n \in Nat /\ k \in Nat /\ Len(g) = n + k + 4
            /\ \A i \in 1..n : g[i] = file[i]
            /\ g[n + 1] = Line("ID", id) /\ g[n + 2] = Line("From", 0)
            /\ g[n + 3] = Line("Date", 0)
            /\ \A i \in 1..k : g[n + 3 + i] = body[i]
            /\ g[n + k + 4] = Blank
    BY EntryAppended, ZenonT(120)
  <2> QED
    BY <2>1, Zenon DEF f
<1>3. \A i \in 1..Len(f) : \/ i \in 1..n /\ f[i] = file[i]
                           \/ f[i].kind \in {"ID", "From", "Date", "Blank"}
                           \/ \E j \in 1..k : i = n + 3 + j /\ f[i] = body[j]
  BY LinesAppended, Zenon
<1> HIDE DEF f
<1>4. ASSUME NEW i \in 1..Len(f), f[i] = Dot(m) PROVE i = n + 3 + k
  <2>1. i \notin 1..n \/ f[i] # file[i]
    BY <1>4 DEF NoDot
  <2>2. PICK j \in 1..k : i = n + 3 + j /\ f[i] = body[j]
    BY <1>1, <1>3, <1>4, <2>1
  <2>3. j = k
    BY <1>1, <1>4, <2>2
  <2> QED
    BY <2>2, <2>3
<1>5. f[n + 1] = Line("ID", f[n + 1].num)
  <2>1. Line("ID", id).num = id
    BY DEF Line
  <2> QED
    BY <1>2, <2>1
<1>6. \A i \in 1..k : n + 1 + 2 + i = n + 3 + i
  BY <1>2
<1>7. /\ n + 1 + 1 = n + 2 /\ n + 1 + 2 = n + 3 /\ n + 1 + k + 3 = n + k + 4
      /\ n + 1 + 2 + k = n + 3 + k
      /\ n + k + 4 <= Len(f) /\ n + 1 \in 1..Len(f)
  BY <1>2
<1>8. \A i \in 1..k : f[n + 1 + 2 + i] = body[i]
  BY <1>2, <1>6
<1>9. StoredAt(f, n + 1, body, m)
  <2> HIDE DEF Blank
  <2> QED
    BY <1>2, <1>4, <1>5, <1>7, <1>8 DEF StoredAt
<1> QED
  BY <1>7, <1>9 DEF f

(* What one connection does to mails: it writes only in its own, and only  *)
(* Store writes in files.                                                  *)
SentFrame(c) ==
    \A m \in DOMAIN sent :
        m \in DOMAIN sent' /\ ((InMail(c) /\ MailOf(c) = m) \/ sent'[m] = sent[m])
BoxFrame(c) == mailbox' = mailbox \/ Store(c)

(* A body has no dot of a mail whose number the connection does not use.   *)
LEMMA OtherDots ==
    ASSUME Typing, NEW c \in Clients, NEW m \in Nat, ~Uses(c, m)
    PROVE  \A i \in 1..Len(sess[c].body) : sess[c].body[i] # Dot(m)
<1>1. sess[c] \in Session
  BY DEF Typing, ServerTypes
<1>2. sess[c].body \in Seq(MailLine)
  BY <1>1, SessionFields
<1>3. DOMAIN sess[c].body = 1..Len(sess[c].body)
  BY <1>2, LenProperties
<1>4. ~InQueue(sess[c].body, m)
  BY DEF Uses
<1>5. Numbered(Dot(m)) /\ Dot(m).num = m
  BY DEF Numbered, Dot, Line
<1> QED
  BY <1>3, <1>4, <1>5, Zenon DEF InQueue

(* A connection brings no dot into a file whose number it does not use.    *)
LEMMA NoDotStays ==
    ASSUME Typing, NEW c \in Clients, BoxFrame(c), NEW m \in Nat, ~Uses(c, m),
           NEW b \in Boxes, NoDot(mailbox[b], m)
    PROVE  NoDot(mailbox'[b], m)
<1>1. CASE mailbox' = mailbox
  BY <1>1
<1>2. CASE Store(c) /\ mailbox'[b] # mailbox[b]
  <2>1. mailbox'[b] = mailbox[b] \o Entry(sess[c].id, sess[c].body)
    BY <1>2, MailboxFacts
  <2>2. mailbox[b] \in Seq(FileLine) /\ sess[c] \in Session
    BY DEF Typing, ServerTypes
  <2>3. sess[c].id \in Nat /\ sess[c].body \in Seq(MailLine)
    BY <2>2, SessionFields
  <2>4. \A i \in 1..Len(sess[c].body) : sess[c].body[i] # Dot(m)
    BY OtherDots
  <2>5. NoDot(mailbox[b] \o Entry(sess[c].id, sess[c].body), m)
    BY <2>2, <2>3, <2>4, NoDotKept
  <2> QED
    BY <2>1, <2>5
<1> QED
  BY <1>1, <1>2 DEF BoxFrame

(* A stored mail stays stored, whatever connection makes a step that does  *)
(* not use its number.                                                     *)
LEMMA StoredStays ==
    ASSUME Typing, NEW c \in Clients, BoxFrame(c), NEW m \in DOMAIN sent, ~Uses(c, m),
           sent'[m] = sent[m], StoredOnce(m)
    PROVE  StoredOnce(m)'
<1>1. m \in Nat /\ sent[m] \in Mail
  BY LenProperties, ElementOfSeq DEF Typing
<1>2. sent[m].lines \in Seq(MailLine)
  BY <1>1 DEF Mail
<1>3. ASSUME NEW b \in Boxes, b = sent[m].to, b \notin Unopenable
      PROVE  \E s \in 1..Len(mailbox'[b]) : StoredAt(mailbox'[b], s, sent[m].lines, m)
  <2>1. PICK s \in 1..Len(mailbox[b]) : StoredAt(mailbox[b], s, sent[m].lines, m)
    BY <1>3 DEF StoredOnce
  <2>2. CASE mailbox'[b] = mailbox[b]
    BY <2>1, <2>2
  <2>3. CASE mailbox'[b] # mailbox[b]
    <3> DEFINE f == mailbox[b] \o Entry(sess[c].id, sess[c].body)
    <3>1. mailbox'[b] = f
      BY <1>3, <2>3, MailboxFacts DEF BoxFrame
    <3>2. mailbox[b] \in Seq(FileLine) /\ sess[c] \in Session
      BY DEF Typing, ServerTypes
    <3>3. sess[c].id \in Nat /\ sess[c].body \in Seq(MailLine)
      BY <3>2, SessionFields
    <3>4. \A i \in 1..Len(sess[c].body) : sess[c].body[i] # Dot(m)
      BY <1>1, OtherDots
    <3>5. StoredAt(f, s, sent[m].lines, m)
      BY <1>2, <2>1, <3>2, <3>3, <3>4, StoredKept
    <3>6. s \in DOMAIN f
      <4>1. s \in DOMAIN mailbox[b]
        BY <2>1, <3>2, FileLines
      <4> QED
        BY <3>2, <3>3, <4>1, FileGrows, Zenon
    <3>7. f \in Seq(FileLine)
      BY <3>2, <3>3, EntryAppended, Zenon
    <3> HIDE DEF f
    <3>8. s \in 1..Len(f)
      BY <3>6, <3>7, FileLines
    <3> QED
      BY <3>1, <3>5, <3>8
  <2> QED
    BY <2>2, <2>3
<1>4. ASSUME NEW b \in Boxes, ~(b = sent[m].to /\ b \notin Unopenable)
      PROVE  NoDot(mailbox'[b], m)
  <2>1. NoDot(mailbox[b], m)
    BY <1>4, Zenon DEF StoredOnce
  <2> QED
    BY <1>1, <2>1, NoDotStays
<1>5. ASSUME NEW b \in Boxes
      PROVE  IF b = sent'[m].to /\ b \notin Unopenable
             THEN \E s \in 1..Len(mailbox'[b]) : StoredAt(mailbox'[b], s, sent'[m].lines, m)
             ELSE NoDot(mailbox'[b], m)
  BY <1>3, <1>4, Zenon
<1> QED
  BY <1>5, Zenon DEF StoredOnce, StoredAt, NoDot

(* The initial files have no dots.                                         *)
LEMMA DotNumbersInit == Init => DotNumbers
<1>1. 1..Len(<<>>) = {}
  OBVIOUS
<1> QED
  BY <1>1 DEF Init, DotNumbers

(* A dot that is appended to a file is that of a mail that was begun.      *)
LEMMA DotNumbersNext ==
    ASSUME Typing, Numbers, DotNumbers, NEW c \in Clients, BoxFrame(c),
           Len(sent') \in Nat, Len(sent') >= Len(sent)
    PROVE  DotNumbers'
<1>0. Len(sent) \in Nat
  BY LenProperties DEF Typing
<1> SUFFICES ASSUME NEW b \in Boxes, NEW i \in 1..Len(mailbox'[b]),
                    mailbox'[b][i].kind = "Dot"
             PROVE  mailbox'[b][i].num <= Len(sent')
  BY Zenon DEF DotNumbers
<1>1. mailbox[b] \in Seq(FileLine) /\ sess[c] \in Session
  BY DEF Typing, ServerTypes
<1>2. sess[c].id \in Nat /\ sess[c].body \in Seq(MailLine)
  BY <1>1, SessionFields
<1>3. ASSUME NEW j \in 1..Len(mailbox[b]), mailbox[b][j].kind = "Dot"
      PROVE  mailbox[b][j].num <= Len(sent')
  <2>1. mailbox[b][j].num \in Nat /\ mailbox[b][j].num <= Len(sent)
    BY <1>1, <1>3, FileLines DEF DotNumbers
  <2> QED
    BY <1>0, <2>1
<1>4. ASSUME NEW j \in 1..Len(sess[c].body), sess[c].body[j].kind = "Dot"
      PROVE  sess[c].body[j].num <= Len(sent')
  <2> DEFINE n == sess[c].body[j].num
  <2>1. DOMAIN sess[c].body = 1..Len(sess[c].body) /\ n \in Nat
    <3>1. sess[c].body[j] \in MailLine
      BY <1>2, ElementOfSeq
    <3> QED
      BY <1>2, <3>1, LenProperties DEF MailLine
  <2>2. InQueue(sess[c].body, n)
    BY <1>4, <2>1 DEF InQueue, Numbered
  <2>3. Uses(c, n)
    BY <2>2 DEF Uses
  <2> HIDE DEF n
  <2>4. n # 0 => n <= Len(sent)
    BY <2>1, <2>3 DEF Numbers, NumberAt
  <2>5. n <= Len(sent')
    BY <1>0, <2>1, <2>4
  <2> QED
    BY <2>5 DEF n
<1>5. CASE mailbox'[b] = mailbox[b]
  BY <1>3, <1>5
<1>6. CASE mailbox'[b] # mailbox[b]
  <2> DEFINE f == mailbox[b] \o Entry(sess[c].id, sess[c].body)
  <2>1. mailbox'[b] = f
    BY <1>6, MailboxFacts DEF BoxFrame
  <2>2. \/ i \in 1..Len(mailbox[b]) /\ f[i] = mailbox[b][i]
        \/ f[i].kind \in {"ID", "From", "Date", "Blank"}
        \/ \E j \in 1..Len(sess[c].body) : /\ i = Len(mailbox[b]) + 3 + j
                                           /\ f[i] = sess[c].body[j]
    <3>1. \A j \in 1..Len(f) :
              \/ j \in 1..Len(mailbox[b]) /\ f[j] = mailbox[b][j]
              \/ f[j].kind \in {"ID", "From", "Date", "Blank"}
              \/ \E l \in 1..Len(sess[c].body) : /\ j = Len(mailbox[b]) + 3 + l
                                                 /\ f[j] = sess[c].body[l]
      BY <1>1, <1>2, LinesAppended, ZenonT(30)
    <3> HIDE DEF f
    <3>2. i \in 1..Len(f)
      BY <2>1
    <3> QED
      BY <3>1, <3>2, Zenon
  <2> HIDE DEF f
  <2>3. CASE i \in 1..Len(mailbox[b]) /\ f[i] = mailbox[b][i]
    BY <1>3, <2>1, <2>3, Zenon
  <2>4. ASSUME NEW j \in 1..Len(sess[c].body), f[i] = sess[c].body[j]
        PROVE  mailbox'[b][i].num <= Len(sent')
    BY <1>4, <2>1, <2>4, Zenon
  <2>5. f[i].kind = "Dot"
    BY <2>1
  <2> QED
    BY <2>2, <2>3, <2>4, <2>5
<1> QED
  BY <1>5, <1>6

(* A mail of one connection is not disturbed by another.                   *)
LEMMA MailKept ==
    ASSUME Typing, Bounded, Numbers, NEW c \in Clients, SentFrame(c), BoxFrame(c),
           NEW d \in Clients, d # c, Same(d), MailAt(d)
    PROVE  MailAt(d)'
<1>1. /\ cli'[d] = cli[d] /\ asked'[d] = asked[d] /\ up'[d] = up[d]
      /\ down'[d] = down[d] /\ pc'[d] = pc[d] /\ sess'[d] = sess[d]
      /\ to'[d] = to[d] /\ lost'[d] = lost[d] /\ MailOf(d)' = MailOf(d)
  BY DEF Same, MailOf
<1>2. ASSUME InMail(d)
      PROVE  /\ MailOf(d) \in DOMAIN sent /\ MailOf(d) \in Nat
             /\ ~Uses(c, MailOf(d)) /\ sent'[MailOf(d)] = sent[MailOf(d)]
  <2>1. MailOf(d) \in DOMAIN sent /\ MailOf(d) \in Nat \ {0}
    <3>1. MailOf(d) \in DOMAIN sent
      BY <1>2 DEF Bounded
    <3> QED
      BY <3>1, LenProperties DEF Typing
  <2>2. Uses(d, MailOf(d))
    BY <1>2 DEF Uses
  <2>3. ~Uses(c, MailOf(d))
    BY <2>1, <2>2 DEF Numbers, NumberAt
  <2>4. ~(InMail(c) /\ MailOf(c) = MailOf(d))
    BY <2>3 DEF Uses
  <2> QED
    BY <2>1, <2>3, <2>4 DEF SentFrame
<1>3. InMail(d)' = InMail(d) /\ OnItsWay(d)' = OnItsWay(d)
  BY <1>1 DEF InMail, OnItsWay
<1>4. InMail(d) => MailSent(d)' = MailSent(d)
  BY <1>1, <1>2 DEF MailSent
<1>5. Closed(d)'
  BY <1>1, <1>4 DEF MailAt, Closed, InMail
<1>6. ASSUME Faithful(d) PROVE Faithful(d)'
  <2>1. RecipientAt(d)'
    BY <1>1, <1>6, ZenonT(60) DEF Faithful, RecipientAt, AnsweredTo
  <2>2. cli'[d] = "wait" => sess'[d].body = <<>>
    BY <1>1, <1>6 DEF Faithful
  <2>3. ASSUME OnItsWay(d)'
        PROVE  /\ Delivered(sess'[d].body, up'[d], MailSent(d)'.lines)
               /\ sess'[d].rcpt = MailSent(d)'.to
               /\ \A b \in Boxes : NoDot(mailbox'[b], MailOf(d)')
    <3>1. OnItsWay(d) /\ InMail(d)
      BY <1>3, <2>3 DEF OnItsWay
    <3>2. /\ Delivered(sess[d].body, up[d], MailSent(d).lines)
          /\ sess[d].rcpt = MailSent(d).to
          /\ \A b \in Boxes : NoDot(mailbox[b], MailOf(d))
      BY <1>6, <3>1, Zenon DEF Faithful
    <3>3. \A b \in Boxes : NoDot(mailbox'[b], MailOf(d))
      BY <1>2, <3>1, <3>2, NoDotStays
    <3> QED
      BY <1>1, <1>4, <3>1, <3>2, <3>3
  <2>4. ASSUME cli'[d] = "ended", down'[d] # <<>> PROVE StoredOnce(MailOf(d))'
    <3>0. PICK m : m = MailOf(d)
      OBVIOUS
    <3>1. InMail(d) /\ StoredOnce(m)
      BY <1>1, <1>6, <2>4, <3>0 DEF Faithful, InMail
    <3>2. m \in DOMAIN sent /\ ~Uses(c, m) /\ sent'[m] = sent[m] /\ MailOf(d)' = m
      BY <1>1, <1>2, <3>0, <3>1
    <3>3. StoredOnce(m)'
      BY <3>1, <3>2, StoredStays
    <3> QED
      BY <3>2, <3>3, Zenon DEF StoredOnce
  <2>5. NoDot(mailbox, MailOf(d))' = NoDot(mailbox', MailOf(d)')
    BY DEF NoDot
  <2> QED
    BY <2>1, <2>2, <2>3, <2>4, Zenon DEF Faithful, Delivered, NoDot
<1>7. ~lost'[d] /\ cli'[d] # "gone" => Faithful(d)'
  BY <1>1, <1>6 DEF MailAt
<1> QED
  BY <1>1, <1>5, <1>7 DEF MailAt

(* A step of c keeps all mails, if it keeps c's.                           *)
LEMMA StoresKept ==
    ASSUME Typing, Bounded, Numbers, Stores, NEW c \in Clients, OthersSame(c),
           SentFrame(c), BoxFrame(c), MailAt(c)',
           \/ acked' = acked
           \/ /\ acked' = acked \cup {MailOf(c)}
              /\ \E m : m = MailOf(c) /\ StoredOnce(m)'
    PROVE  Stores'
<1>1. ASSUME NEW d \in Clients PROVE MailAt(d)'
  <2>1. CASE d = c
    BY <2>1
  <2>2. CASE d # c
    BY <2>2, MailKept DEF Stores, OthersSame
  <2> QED
    BY <2>1, <2>2
<1>2. ASSUME NEW m \in acked PROVE StoredOnce(m)'
  <2>1. m \in DOMAIN sent /\ m \in Nat \ {0}
    <3>1. m \in DOMAIN sent
      BY DEF Bounded
    <3> QED
      BY <3>1, LenProperties DEF Typing
  <2>2. ~Uses(c, m)
    BY <2>1 DEF Numbers, NumberAt
  <2>3. sent'[m] = sent[m]
    BY <2>1, <2>2 DEF SentFrame, Uses
  <2>4. StoredOnce(m)
    BY DEF Stores
  <2> QED
    BY <2>1, <2>2, <2>3, <2>4, StoredStays
<1>3. \A m \in acked' : StoredOnce(m)'
  BY <1>2, Zenon
<1> QED
  BY <1>1, <1>3 DEF Stores

(* A line that is typed is on its way; what is read becomes part of the    *)
(* body; in the end the body is the mail.                                  *)
LEMMA DeliveredTyped ==
    ASSUME NEW body \in Seq(MailLine), NEW q \in Seq(Sound), NEW lines \in Seq(MailLine),
           NEW l \in MailLine, Delivered(body, q, lines)
    PROVE  Delivered(body, Append(q, Typed(l)), Append(lines, l))
<1>1. Typed(l) \in Sound /\ AsLine(Typed(l)) = l
  BY TypedLine
<1> DEFINE x == Typed(l)
           r == Append(q, x)
           t == Append(lines, l)
           k == Len(body)
<1>2. /\ Len(q) \in Nat /\ Len(r) = Len(q) + 1
      /\ \A i \in 1..Len(q) : r[i] = q[i]
      /\ r[Len(q) + 1] = x
  <2>1. x \in Sound
    BY <1>1
  <2> HIDE DEF x
  <2> QED
    BY <2>1, MessageAppended
<1>3. /\ Len(lines) \in Nat /\ Len(t) = Len(lines) + 1
      /\ \A i \in 1..Len(lines) : t[i] = lines[i]
      /\ t[Len(lines) + 1] = l
  BY MessageAppended
<1>4. k \in Nat
  BY LenProperties
<1>5. /\ Len(lines) = k + Len(q)
      /\ \A i \in 1..k : body[i] = lines[i]
      /\ \A i \in 1..Len(q) : AsLine(q[i]) = lines[k + i]
  BY DEF Delivered
<1>6. AsLine(x) = l
  BY <1>1
<1> HIDE DEF x, r, t
<1>7. Len(t) = k + Len(r)
  BY <1>2, <1>3, <1>4, <1>5
<1>8. \A i \in 1..k : body[i] = t[i]
  BY <1>2, <1>3, <1>4, <1>5
<1>9. ASSUME NEW i \in 1..Len(r) PROVE AsLine(r[i]) = t[k + i]
  <2>1. CASE i \in 1..Len(q)
    <3>1. k + i \in 1..Len(lines)
      BY <1>2, <1>4, <1>5, <2>1
    <3> QED
      BY <1>2, <1>3, <1>5, <2>1, <3>1
  <2>2. CASE i = Len(q) + 1
    <3>1. r[i] = x /\ t[k + i] = l
      BY <1>2, <1>3, <1>4, <1>5, <2>2
    <3> QED
      BY <1>6, <3>1
  <2>3. i \in 1..Len(q) \/ i = Len(q) + 1
    BY <1>2, <1>9
  <2> QED
    BY <2>1, <2>2, <2>3
<1>10. Delivered(body, r, t)
  BY <1>7, <1>8, <1>9 DEF Delivered
<1> QED
  BY <1>10 DEF r, t, x

(* What is read from the head of the queue moves to the end of the body.   *)
LEMMA DeliveredRead ==
    ASSUME NEW body \in Seq(MailLine), NEW q \in Seq(Sound), q # <<>>,
           NEW lines, Delivered(body, q, lines)
    PROVE  Delivered(Append(body, AsLine(Head(q))), Tail(q), lines)
<1> DEFINE m == Head(q)
           x == AsLine(m)
           b == Append(body, x)
           r == Tail(q)
           k == Len(body)
<1>1. /\ Len(q) \in Nat \ {0} /\ m = q[1] /\ m \in Sound
      /\ r \in Seq(Sound) /\ Len(r) = Len(q) - 1
      /\ \A i \in 1..(Len(q) - 1) : r[i] = q[i + 1]
  BY TailOfMessages
<1>2. x \in MailLine
  BY <1>1, AsLineIsLine DEF Sound
<1>3. /\ k \in Nat /\ Len(b) = k + 1
      /\ \A i \in 1..k : b[i] = body[i]
      /\ b[k + 1] = x
  <2> HIDE DEF x
  <2> QED
    BY <1>2, MessageAppended
<1>4. /\ Len(lines) = k + Len(q)
      /\ \A i \in 1..k : body[i] = lines[i]
      /\ \A i \in 1..Len(q) : AsLine(q[i]) = lines[k + i]
  BY DEF Delivered
<1>5. x = lines[k + 1]
  <2>1. AsLine(q[1]) = lines[k + 1]
    BY <1>1, <1>4
  <2> HIDE DEF m
  <2> QED
    BY <1>1, <2>1
<1> HIDE DEF x, b, r, m
<1>6. Len(lines) = Len(b) + Len(r)
  BY <1>1, <1>3, <1>4
<1>7. ASSUME NEW i \in 1..Len(b) PROVE b[i] = lines[i]
  <2>1. CASE i \in 1..k
    BY <1>3, <1>4, <2>1
  <2>2. CASE i = k + 1
    BY <1>3, <1>5, <2>2
  <2>3. i \in 1..k \/ i = k + 1
    BY <1>3, <1>7
  <2> QED
    BY <2>1, <2>2, <2>3
<1>8. ASSUME NEW i \in 1..Len(r) PROVE AsLine(r[i]) = lines[Len(b) + i]
  <2>1. i \in 1..(Len(q) - 1) /\ i + 1 \in 1..Len(q) /\ k + (i + 1) = Len(b) + i
    BY <1>1, <1>3, <1>8
  <2>2. r[i] = q[i + 1] /\ AsLine(q[i + 1]) = lines[k + (i + 1)]
    BY <1>1, <1>4, <2>1
  <2> QED
    BY <2>1, <2>2
<1>9. Delivered(b, r, lines)
  BY <1>6, <1>7, <1>8 DEF Delivered
<1> QED
  BY <1>9 DEF b, r, x, m

(* Sequences with the same elements are the same.                          *)
LEMMA SameSequence ==
    ASSUME NEW S, NEW s \in Seq(S), NEW t \in Seq(S), Len(s) = Len(t),
           \A i \in 1..Len(s) : s[i] = t[i]
    PROVE  s = t
  OBVIOUS

(* When nothing is on its way any more, the body is the mail.              *)
LEMMA DeliveredAll ==
    ASSUME NEW body \in Seq(MailLine), NEW lines \in Seq(MailLine),
           Delivered(body, <<>>, lines)
    PROVE  body = lines
<1>1. Len(body) \in Nat /\ Len(<<>>) = 0
  BY LenProperties, EmptySeq
<1>2. Len(lines) = Len(body) /\ \A i \in 1..Len(body) : body[i] = lines[i]
  BY <1>1 DEF Delivered
<1> QED
  BY <1>2, SameSequence

(* Nothing has been typed, nothing is on its way and nothing was read.     *)
LEMMA DeliveredNone == Delivered(<<>>, <<>>, <<>>)
<1>1. Len(<<>>) = 0
  BY EmptySeq
<1> QED
  BY <1>1 DEF Delivered

(* A typed line is added to the mail and is on its way.                    *)
LEMMA MailTypes ==
    ASSUME Typing, Bounded, Sessions, Phases, Stores, NEW c \in Clients,
           NEW l \in MailLine, Types(c, l),
           cli'[c] = "body" \/ (cli'[c] = "ended" /\ l = Dot(MailOf(c)))
    PROVE  MailAt(c)' /\ SentFrame(c) /\ BoxFrame(c)
<1>1. /\ OthersSame(c) /\ UNCHANGED <<mailbox, acked, raced>>
      /\ cli[c] = "body" /\ asked'[c] = asked[c]
      /\ up'[c] = IF pc[c] = "none" THEN up[c] ELSE Append(up[c], Typed(l))
      /\ down'[c] = down[c] /\ pc'[c] = pc[c] /\ sess'[c] = sess[c]
      /\ to'[c] = to[c] /\ lost'[c] = lost[c]
  BY TypesFacts
<1>2. /\ MailOf(c) \in DOMAIN sent /\ sent' \in Seq(Mail)
      /\ Len(sent') = Len(sent) /\ DOMAIN sent' = DOMAIN sent
      /\ sent'[MailOf(c)].to = sent[MailOf(c)].to
      /\ sent'[MailOf(c)].lines = Append(sent[MailOf(c)].lines, l)
      /\ \A m \in DOMAIN sent : m # MailOf(c) => sent'[m] = sent[m]
  BY SentTyping, Zenon
<1>3. SentFrame(c) /\ BoxFrame(c)
  BY <1>1, <1>2 DEF SentFrame, BoxFrame, InMail
<1>4. /\ MailOf(c)' = MailOf(c)
      /\ MailSent(c)'.to = MailSent(c).to /\ MailSent(c)'.lines = Append(MailSent(c).lines, l)
  BY <1>1, <1>2, Zenon DEF MailSent, MailOf
<1>5. MailSent(c).lines \in Seq(MailLine)
  <2>1. MailSent(c) \in Mail
    BY <1>2, LenProperties, ElementOfSeq DEF Typing, MailSent
  <2> QED
    BY <2>1 DEF Mail
<1>6. Closed(c)'
  <2> SUFFICES ASSUME cli'[c] = "ended"
               PROVE  /\ MailSent(c)'.lines # <<>>
                      /\ MailSent(c)'.lines[Len(MailSent(c)'.lines)] = Dot(MailOf(c)')
    BY Zenon DEF Closed
  <2>1. l = Dot(MailOf(c))
    OBVIOUS
  <2> DEFINE s == MailSent(c).lines
  <2>2. s \in Seq(MailLine)
    BY <1>5
  <2> HIDE DEF s
  <2>3. /\ Append(s, l) # <<>> /\ Len(Append(s, l)) = Len(s) + 1
        /\ Append(s, l)[Len(s) + 1] = l
    BY <2>2, MessageAppended
  <2>4. Dot(MailOf(c)') = l
    BY <1>4, <2>1
  <2>5. MailSent(c)'.lines = Append(s, l)
    BY <1>4 DEF s
  <2> QED
    BY <2>3, <2>4, <2>5
<1>7. ASSUME ~lost'[c] PROVE Faithful(c)'
  <2>1. Faithful(c) /\ Phase(c)
    BY <1>1, <1>7 DEF Stores, MailAt, Phases, PhaseAt
  <2>2. RecipientAt(c)'
    BY <1>1, <2>1, ZenonT(60) DEF Faithful, RecipientAt, AnsweredTo
  <2>3. ASSUME OnItsWay(c)'
        PROVE  /\ Delivered(sess'[c].body, up'[c], MailSent(c)'.lines)
               /\ sess'[c].rcpt = MailSent(c)'.to
               /\ \A b \in Boxes : NoDot(mailbox'[b], MailOf(c)')
    <3>1. OnItsWay(c) /\ pc[c] # "none"
      BY <1>1, <2>3 DEF OnItsWay, InMail, Sessions, SessionAt
    <3>2. /\ Delivered(sess[c].body, up[c], MailSent(c).lines)
          /\ sess[c].rcpt = MailSent(c).to
          /\ \A b \in Boxes : NoDot(mailbox[b], MailOf(c))
      BY <2>1, <3>1, Zenon DEF Faithful
    <3>3. sess[c] \in Session /\ up[c] \in Seq(Sound)
      BY DEF Typing, ServerTypes, ConnectionTypes
    <3>4. sess[c].body \in Seq(MailLine)
      BY <3>3, SessionFields
    <3>5. Delivered(sess[c].body, Append(up[c], Typed(l)), Append(MailSent(c).lines, l))
      BY <1>5, <3>2, <3>3, <3>4, DeliveredTyped
    <3> QED
      BY <1>1, <1>4, <3>1, <3>2, <3>5
  <2>4. down'[c] = <<>> /\ cli'[c] # "wait"
    BY <1>1, <2>1 DEF Phase, Dead, Writing
  <2> QED
    BY <2>2, <2>3, <2>4, Zenon DEF Faithful, Delivered, NoDot
<1> QED
  BY <1>3, <1>6, <1>7 DEF MailAt

(* A mail begins with the recipient that the thread has; a mail that is    *)
(* acknowledged is stored.                                                 *)
LEMMA MailResponse ==
    ASSUME Typing, Bounded, Sessions, Phases, Stores, DotNumbers, NEW c \in Clients,
           ReadResponse(c)
    PROVE  /\ MailAt(c)' /\ SentFrame(c) /\ BoxFrame(c)
           /\ \/ acked' = acked
              \/ /\ acked' = acked \cup {MailOf(c)}
                 /\ \E m : m = MailOf(c) /\ StoredOnce(m)'
<1>1. /\ OthersSame(c) /\ Waiting(c) /\ UNCHANGED <<mailbox, raced>>
      /\ up'[c] = up[c] /\ pc'[c] = pc[c] /\ sess'[c] = sess[c]
      /\ AsksData(c) =>
             /\ cli'[c] = "body" /\ asked'[c] = [asked[c] EXCEPT !.num = Len(sent) + 1]
             /\ sent' = Append(sent, [to |-> to[c], lines |-> <<>>])
      /\ ~AsksData(c) => cli'[c] \in {"done", "prompt"} /\ sent' = sent
      /\ to'[c] = IF /\ cli[c] = "wait" /\ asked[c].kind = "RCPT TO"
                     /\ down[c][1].code = 200
                  THEN asked[c].box ELSE to[c]
      /\ acked' = IF cli[c] = "ended" /\ down[c][1].code = 200 /\ ~lost'[c]
                  THEN acked \cup {MailOf(c)} ELSE acked
  BY ResponseFacts, Zenon
<1>2. down[c] # <<>> /\ (~lost'[c] => ~lost[c])
  BY ResponseFacts, NoAnswer
<1>3. ~lost'[c] => Faithful(c) /\ Phase(c)
  BY <1>1, <1>2 DEF Stores, MailAt, Phases, PhaseAt, Waiting
<1>4. ASSUME ~lost'[c] PROVE RecipientAt(c)'
  <2>1. pc'[c] # "none" => sess'[c].rcpt = to'[c]
    BY <1>1, <1>2, <1>3, <1>4 DEF Faithful, RecipientAt, AnsweredTo
  <2>2. ~AnsweredTo(c)'
    BY <1>1 DEF AnsweredTo
  <2> QED
    BY <2>1, <2>2 DEF RecipientAt
<1>5. CASE AsksData(c)
  <2> DEFINE n == Len(sent) + 1
             x == [to |-> to[c], lines |-> <<>>]
  <2>1. acked' = acked /\ cli[c] = "wait"
    BY <1>1, <1>5 DEF AsksData
  <2>2. x \in Mail /\ x.to = to[c] /\ x.lines = <<>>
    <3>1. to[c] \in Boxes \cup {NoBox}
      BY DEF Typing, ClientTypes
    <3> QED
      BY <3>1, EmptySeq DEF Mail
  <2>3. sent' = Append(sent, x)
    BY <1>1, <1>5
  <2> HIDE DEF x
  <2>4. /\ Len(sent) \in Nat /\ DOMAIN sent = 1..Len(sent) /\ sent'[n] = x
        /\ DOMAIN sent' = 1..n /\ \A m \in 1..Len(sent) : sent'[m] = sent[m]
    BY <2>2, <2>3, MessageAppended DEF Typing
  <2>5. SentFrame(c)
    BY <2>4 DEF SentFrame
  <2>6. MailOf(c)' = n
    BY <1>1, <1>5, ZenonT(60) DEF MailOf, Typing, ClientTypes, Message
  <2>7. MailSent(c)' = x
    BY <2>4, <2>6, Zenon DEF MailSent
  <2>8. ASSUME ~lost'[c] PROVE Faithful(c)'
    <3>1. CommandAnswered(c) /\ sess[c].body = <<>> /\ RecipientAt(c)
      BY <1>2, <1>3, <2>1, <2>8 DEF Phase, Dead, CommandSent, Faithful
    <3>2. Delivered(sess'[c].body, up'[c], MailSent(c)'.lines)
      BY <1>1, <2>2, <2>7, <3>1, DeliveredNone DEF CommandAnswered
    <3>3. ASSUME NEW b \in Boxes PROVE NoDot(mailbox'[b], n)
      <4> SUFFICES ASSUME NEW i \in 1..Len(mailbox[b]), mailbox[b][i] = Dot(n)
                   PROVE  FALSE
        BY <1>1 DEF NoDot
      <4>1. mailbox[b][i].kind = "Dot" /\ mailbox[b][i].num = n
        BY DEF Dot, Line
      <4>2. n <= Len(sent)
        BY <4>1 DEF DotNumbers
      <4> QED
        BY <2>4, <4>2
    <3>4. OnItsWay(c)' => sess'[c].rcpt = MailSent(c)'.to
      <4>1. ~AnsweredTo(c)
        BY <1>5 DEF AnsweredTo, AsksData
      <4>2. OnItsWay(c)' => pc[c] # "none"
        BY <1>1, NewSessionFields DEF OnItsWay, Sessions, SessionAt
      <4> QED
        BY <1>1, <2>2, <2>7, <3>1, <4>1, <4>2 DEF RecipientAt
    <3>5. cli'[c] = "body"
      BY <1>1, <1>5
    <3> HIDE DEF n
    <3>6. \A b \in Boxes : NoDot(mailbox'[b], MailOf(c)')
      BY <2>6, <3>3
    <3> QED
      BY <1>4, <2>8, <3>2, <3>4, <3>5, <3>6, Zenon DEF Faithful, Delivered, NoDot
  <2>9. MailAt(c)'
    <3>1. cli'[c] = "body"
      BY <1>1, <1>5
    <3> QED
      BY <2>8, <3>1 DEF MailAt, Closed
  <2> QED
    BY <1>1, <2>1, <2>5, <2>9 DEF BoxFrame
<1>6. CASE ~AsksData(c)
  <2>1. SentFrame(c) /\ BoxFrame(c)
    BY <1>1, <1>6 DEF SentFrame, BoxFrame
  <2>2. cli'[c] \in {"done", "prompt"}
    BY <1>1, <1>6
  <2>3. ASSUME ~lost'[c] PROVE Faithful(c)'
    <3>1. RecipientAt(c)'
      BY <1>4, <2>3
    <3>2. ~OnItsWay(c)' /\ cli'[c] # "wait" /\ cli'[c] # "ended"
      BY <2>2 DEF OnItsWay, InMail
    <3> QED
      BY <3>1, <3>2 DEF Faithful
  <2>4. MailAt(c)'
    BY <2>2, <2>3 DEF MailAt, Closed
  <2>5. ASSUME cli[c] = "ended", ~lost'[c] PROVE \E m : m = MailOf(c) /\ StoredOnce(m)'
    <3>1. PICK m : m = MailOf(c)
      OBVIOUS
    <3>2. StoredOnce(m)
      BY <1>2, <1>3, <2>5, <3>1 DEF Faithful
    <3>3. StoredOnce(m)'
      BY <1>1, <1>6, <3>2, ZenonT(60) DEF StoredOnce
    <3> QED
      BY <3>1, <3>3
  <2> QED
    BY <1>1, <2>1, <2>4, <2>5
<1> QED
  BY <1>5, <1>6

(* The steps that neither type nor read a line of a mail.                  *)
LEMMA MailConnect ==
    ASSUME Typing, Stores, NEW c \in Clients, Connect(c)
    PROVE  MailAt(c)' /\ SentFrame(c) /\ BoxFrame(c)
<1>1. /\ UNCHANGED <<mailbox, sent, acked>>
      /\ cli[c] = "gone" /\ cli'[c] = "prompt" /\ sess'[c] = NewSession /\ to'[c] = to[c]
  BY ConnectFacts
<1>2. to[c] = NoBox /\ NewSession.rcpt = NoBox
  BY <1>1 DEF Stores, MailAt, NewSession
<1>3. Faithful(c)'
  <2>1. RecipientAt(c)'
    BY <1>1, <1>2 DEF RecipientAt, AnsweredTo
  <2> QED
    BY <1>1, <2>1 DEF Faithful, OnItsWay, InMail
<1> QED
  BY <1>1, <1>3 DEF MailAt, Closed, SentFrame, BoxFrame

(* A command finds an empty body, and the recipient unchanged.             *)
LEMMA MailCommand ==
    ASSUME Typing, Sessions, Phases, Stores, NEW c \in Clients, NEW m \in Sound,
           Command(c, m)
    PROVE  MailAt(c)' /\ SentFrame(c) /\ BoxFrame(c)
<1>1. /\ UNCHANGED <<mailbox, sent, acked>>
      /\ cli[c] = "prompt" /\ cli'[c] = "wait" /\ down'[c] = down[c]
      /\ pc'[c] = pc[c] /\ sess'[c] = sess[c] /\ to'[c] = to[c] /\ lost'[c] = lost[c]
  BY CommandFacts
<1>2. ASSUME ~lost[c] PROVE Faithful(c)'
  <2>1. Faithful(c) /\ Idle(c)
    BY <1>1, <1>2 DEF Stores, MailAt, Phases, PhaseAt, Phase
  <2>2. down'[c] = <<>> /\ sess'[c].body = <<>>
    BY <1>1, <2>1 DEF Idle, Sessions, SessionAt
  <2>3. RecipientAt(c)'
    BY <1>1, <2>1, <2>2 DEF Faithful, RecipientAt, AnsweredTo
  <2> QED
    BY <1>1, <2>2, <2>3 DEF Faithful, OnItsWay, InMail
<1> QED
  BY <1>1, <1>2 DEF MailAt, Closed, SentFrame, BoxFrame

(* At the end of the input in a body the mail stays as it is.              *)
LEMMA MailBodyEof ==
    ASSUME Typing, Stores, NEW c \in Clients, BodyEof(c)
    PROVE  MailAt(c)' /\ SentFrame(c) /\ BoxFrame(c)
<1>1. /\ UNCHANGED <<mailbox, sent, acked>>
      /\ cli[c] = "body" /\ cli'[c] = "stuck" /\ asked'[c] = asked[c]
      /\ up'[c] = up[c] /\ down'[c] = down[c] /\ pc'[c] = pc[c]
      /\ sess'[c] = sess[c] /\ to'[c] = to[c] /\ lost'[c] = lost[c]
  BY BodyEofFacts
<1>2. MailOf(c)' = MailOf(c) /\ MailSent(c)' = MailSent(c)
  BY <1>1 DEF MailOf, MailSent
<1>3. ASSUME Faithful(c) PROVE Faithful(c)'
  <2>1. RecipientAt(c)'
    BY <1>1, <1>3 DEF Faithful, RecipientAt, AnsweredTo
  <2>2. OnItsWay(c)' => OnItsWay(c)
    BY <1>1 DEF OnItsWay, InMail
  <2>3. ASSUME OnItsWay(c)'
        PROVE  /\ Delivered(sess'[c].body, up'[c], MailSent(c)'.lines)
               /\ sess'[c].rcpt = MailSent(c)'.to
               /\ \A b \in Boxes : NoDot(mailbox'[b], MailOf(c)')
    BY <1>1, <1>2, <1>3, <2>2, <2>3 DEF Faithful
  <2> QED
    BY <1>1, <2>1, <2>3, Zenon DEF Faithful, Delivered, NoDot
<1> QED
  BY <1>1, <1>3 DEF Stores, MailAt, Closed, SentFrame, BoxFrame

(* A client that is gone has no mail and no recipient.                     *)
LEMMA MailLeft ==
    ASSUME Typing, Bounded, NEW c \in Clients, Left(c)
    PROVE  MailAt(c)' /\ SentFrame(c) /\ BoxFrame(c)
<1>1. /\ UNCHANGED <<mailbox, acked>> /\ cli'[c] = "gone" /\ to'[c] = NoBox
      /\ sent' = IF InMail(c) THEN [sent EXCEPT ![MailOf(c)] = NoMail] ELSE sent
  BY LeftFacts, Zenon
<1>2. SentFrame(c)
  BY <1>1 DEF SentFrame, Typing
<1> QED
  BY <1>1, <1>2 DEF MailAt, Closed, BoxFrame

(* A thread that ends had no client any more.                              *)
LEMMA MailEndSession ==
    ASSUME Typing, Stores, NEW c \in Clients, EndSession(c)
    PROVE  MailAt(c)' /\ SentFrame(c) /\ BoxFrame(c)
<1>1. /\ UNCHANGED <<mailbox, sent, acked>> /\ cli[c] = "gone" /\ cli'[c] = "gone"
      /\ to'[c] = to[c]
  BY EndSessionFacts
<1> QED
  BY <1>1 DEF Stores, MailAt, Closed, SentFrame, BoxFrame

(* A crash loses the bodies, but no file.                                  *)
LEMMA StoresCrash ==
    ASSUME Typing, Sessions, Phases, Stores, Crash
    PROVE  Stores'
<1>1. /\ UNCHANGED <<cli, asked, down, mailbox, sent, acked, to, lost>>
      /\ \A c \in Clients : pc'[c] = "none" /\ sess'[c] = NewSession
  BY DEF Crash, clientState, history
<1>2. ASSUME NEW m, StoredOnce(m) PROVE StoredOnce(m)'
  BY <1>1, <1>2, Zenon DEF StoredOnce
<1>3. ASSUME NEW c \in Clients PROVE MailAt(c)'
  <2>1. MailAt(c) /\ NewSession.body = <<>> /\ ~NewSession.data
    BY NewSessionFields DEF Stores
  <2>2. MailOf(c)' = MailOf(c) /\ MailSent(c)' = MailSent(c)
    BY <1>1 DEF MailOf, MailSent
  <2>3. ASSUME Faithful(c) PROVE Faithful(c)'
    <3>1. RecipientAt(c)' /\ ~OnItsWay(c)' /\ sess'[c].body = <<>>
      BY <1>1, <2>1 DEF RecipientAt, OnItsWay
    <3>2. ASSUME cli'[c] = "ended", down'[c] # <<>> PROVE StoredOnce(MailOf(c))'
      <4>1. PICK m : m = MailOf(c)
        OBVIOUS
      <4>2. StoredOnce(m)'
        BY <1>1, <1>2, <2>3, <3>2, <4>1 DEF Faithful
      <4> QED
        BY <2>2, <4>1, <4>2, Zenon DEF StoredOnce
    <3> QED
      BY <3>1, <3>2, Zenon DEF Faithful
  <2> QED
    BY <1>1, <2>1, <2>2, <2>3 DEF MailAt, Closed
<1> QED
  BY <1>1, <1>2, <1>3, Zenon DEF Stores

(* What is read is what was sent.                                          *)
LEMMA MailRead ==
    ASSUME Typing, Sessions, Phases, Stores, NEW c \in Clients, ReadMessage(c)
    PROVE  MailAt(c)' /\ SentFrame(c) /\ BoxFrame(c)
<1> DEFINE m == Head(up[c])
<1>1. /\ cli'[c] = cli[c] /\ asked'[c] = asked[c] /\ to'[c] = to[c]
      /\ UNCHANGED <<mailbox, sent, acked>>
      /\ \/ ReadLine(c, m) \/ ReadDot(c, m) \/ ReadQuit(c, m)
         \/ \E a : ReadCommand(c, m, a)
  BY ReadFrame, ReadCases, Zenon DEF ReadMessageFrame
<1>2. m \in Sound /\ up[c] \in Seq(Sound) /\ up[c] # <<>> /\ pc[c] = "read"
  BY ReadTypes DEF ReadMessage
<1>3. MailOf(c)' = MailOf(c) /\ MailSent(c)' = MailSent(c)
  BY <1>1 DEF MailOf, MailSent
<1>4. ASSUME ~lost'[c], cli[c] # "gone" PROVE Faithful(c)'
  <2>1. /\ ~lost[c] /\ Phase(c) /\ Faithful(c)
        /\ up'[c] = IF pc'[c] = "none" THEN <<>> ELSE Tail(up[c])
    BY <1>4, ReadInOrder DEF Phases, PhaseAt, Stores, MailAt
  <2>2. CASE cli[c] \in {"prompt", "done"}
    BY <1>2, <2>1, <2>2 DEF Phase, Idle
  <2>3. CASE cli[c] = "wait"
    <3>1. CommandSent(c) /\ sess[c].body = <<>> /\ RecipientAt(c)
      BY <1>2, <2>1, <2>3 DEF Phase, Dead, CommandAnswered, Faithful
    <3>2. m = asked[c]
      BY <3>1, TailOfOne DEF CommandSent
    <3> HIDE DEF m
    <3>3. ~OnItsWay(c)' /\ cli'[c] # "ended"
      BY <1>1, <2>3 DEF OnItsWay, InMail
    <3>4. CASE ReadQuit(c, m)
      <4>1. RecipientAt(c)' /\ sess'[c].body = <<>>
        BY <3>4, NewSessionFields DEF ReadQuit, RecipientAt
      <4> QED
        BY <3>3, <4>1 DEF Faithful
    <3>5. ASSUME NEW a, ReadCommand(c, m, a) PROVE Faithful(c)'
      <4>1. down'[c] = <<a>> /\ <<a>> # <<>> /\ <<a>>[1] = a
        BY <1>4, <3>1, <3>5, AppendToEmpty, ZenonT(60) DEF CommandSent, Answered, ReadCommand
      <4>2. sess[c].rcpt = to[c]
        BY <1>2, <3>1 DEF RecipientAt, AnsweredTo, CommandSent
      <4>3. sess'[c].rcpt = IF asked[c].kind = "RCPT TO" /\ a.code = 200
                            THEN asked[c].box ELSE to[c]
        BY <3>2, <3>5, <4>2 DEF ReadCommand
      <4>4. AnsweredTo(c)' <=> asked[c].kind = "RCPT TO" /\ a.code = 200
        BY <1>1, <2>3, <4>1 DEF AnsweredTo
      <4>5. RecipientAt(c)'
        BY <1>1, <4>3, <4>4 DEF RecipientAt
      <4>6. sess'[c].body = <<>>
        BY <3>1, <3>5 DEF ReadCommand
      <4> QED
        BY <3>3, <4>5, <4>6 DEF Faithful
    <3>6. ~ReadLine(c, m) /\ ~ReadDot(c, m)
      BY <3>1 DEF CommandSent, ReadLine, ReadDot
    <3> QED
      BY <1>1, <3>4, <3>5, <3>6 DEF m
  <2>4. CASE InMail(c)
    <3>1. sess[c].data /\ down[c] = <<>>
      BY <1>2, <2>1, <2>4 DEF InMail, Phase, Dead, Writing, Written, Storing, MailAnswered
    <3>2. /\ Delivered(sess[c].body, up[c], MailSent(c).lines)
          /\ sess[c].rcpt = MailSent(c).to
          /\ \A b \in Boxes : NoDot(mailbox[b], MailOf(c))
          /\ RecipientAt(c)
      BY <2>1, <2>4, <3>1, Zenon DEF Faithful, OnItsWay
    <3>3. ReadLine(c, m) \/ ReadDot(c, m)
      BY <1>1, <3>1 DEF ReadQuit, ReadCommand
    <3>4. /\ sess'[c].body = Append(sess[c].body, AsLine(m))
          /\ sess'[c].rcpt = sess[c].rcpt
      <4> HIDE DEF m
      <4> QED
        BY <1>2, <3>3, SessionAfter, Zenon DEF Sessions
    <3>5. down'[c] = <<>> /\ pc'[c] # "none"
      BY <3>1, <3>3 DEF ReadLine, ReadDot
    <3>6. sess[c].body \in Seq(MailLine)
      BY SessionFields DEF Typing, ServerTypes
    <3>7. Delivered(sess'[c].body, up'[c], MailSent(c)'.lines)
      <4>1. Delivered(Append(sess[c].body, AsLine(Head(up[c]))), Tail(up[c]),
                      MailSent(c).lines)
        BY <1>2, <3>2, <3>6, DeliveredRead
      <4> QED
        BY <1>3, <2>1, <3>4, <3>5, <4>1
    <3>8. cli'[c] # "wait"
      BY <1>1, <2>4 DEF InMail
    <3>9. RecipientAt(c)'
      <4>1. sess[c].rcpt = to[c]
        BY <1>2, <2>4, <3>2 DEF RecipientAt, AnsweredTo, InMail
      <4> QED
        BY <1>1, <3>4, <3>8, <4>1 DEF RecipientAt, AnsweredTo
    <3>10. sess'[c].rcpt = MailSent(c)'.to
      BY <1>3, <3>2, <3>4
    <3>11. \A b \in Boxes : NoDot(mailbox'[b], MailOf(c)')
      BY <1>1, <1>3, <3>2
    <3> QED
      BY <3>5, <3>7, <3>8, <3>9, <3>10, <3>11, Zenon DEF Faithful, Delivered, NoDot
  <2> QED
    BY <1>4, <2>2, <2>3, <2>4 DEF InMail, Typing, ClientTypes, CliStates
<1>5. Closed(c)' /\ (cli'[c] = "gone" => to'[c] = NoBox)
  BY <1>1, <1>3 DEF Stores, MailAt, Closed
<1> QED
  BY <1>1, <1>4, <1>5 DEF MailAt, SentFrame, BoxFrame

(* What is read to the end is what is stored.                              *)
LEMMA MailStore ==
    ASSUME Typing, Bounded, Sessions, Phases, Stores, NEW c \in Clients, Store(c)
    PROVE  MailAt(c)' /\ SentFrame(c) /\ BoxFrame(c)
<1>1. /\ UNCHANGED <<sent, acked>>
      /\ pc[c] = "append" /\ pc'[c] = "read" /\ sess'[c] = Stored(sess[c])
      /\ cli'[c] = cli[c] /\ asked'[c] = asked[c] /\ up'[c] = up[c]
      /\ to'[c] = to[c] /\ lost'[c] = lost[c]
  BY StoreFacts, Zenon
<1>2. MailOf(c)' = MailOf(c) /\ MailSent(c)' = MailSent(c)
  BY <1>1 DEF MailOf, MailSent
<1>3. sess[c] \in Session /\ ~sess[c].data
  BY <1>1 DEF Typing, ServerTypes, Sessions, SessionAt
<1>4. /\ sess'[c].rcpt = sess[c].rcpt /\ ~sess'[c].data
      /\ sess[c].id \in Nat /\ sess[c].body \in Seq(MailLine)
  <2>1. 0 \in Nat
    OBVIOUS
  <2>2. Stored(sess[c]).rcpt = sess[c].rcpt /\ Stored(sess[c]).data = sess[c].data
    BY <1>3, <2>1, EndDataFields
  <2>3. sess[c].id \in Nat /\ sess[c].body \in Seq(MailLine)
    BY <1>3, SessionFields
  <2> QED
    BY <1>1, <1>3, <2>2, <2>3, Zenon
<1>5. ASSUME ~lost[c], cli[c] # "gone" PROVE Faithful(c)'
  <2>1. Phase(c) /\ Faithful(c)
    BY <1>5 DEF Phases, PhaseAt, Stores, MailAt
  <2>2. cli[c] = "ended" /\ up[c] = <<>>
    BY <1>1, <1>3, <1>5, <2>1 DEF Phase, Dead, Idle, CommandSent, CommandAnswered,
       Writing, Written, Storing, MailAnswered, Typing, ClientTypes, CliStates
  <2> DEFINE body == sess[c].body
             lines == MailSent(c).lines
  <2>3. /\ Delivered(body, up[c], lines) /\ sess[c].rcpt = MailSent(c).to
        /\ \A b \in Boxes : NoDot(mailbox[b], MailOf(c))
        /\ RecipientAt(c)
    BY <1>1, <2>1, <2>2, Zenon DEF Faithful, OnItsWay, InMail
  <2>4. lines # <<>> /\ lines[Len(lines)] = Dot(MailOf(c))
    BY <2>2 DEF Stores, MailAt, Closed
  <2>5. body = lines
    <3>1. Len(body) \in Nat /\ Len(<<>>) = 0 /\ Len(lines) = Len(body) + Len(up[c])
      BY <1>4, <2>3, LenProperties, EmptySeq DEF Delivered
    <3>2. lines \in Seq(MailLine)
      <4>1. MailSent(c) \in Mail
        <5>1. MailOf(c) \in DOMAIN sent
          BY <2>2 DEF Bounded, InMail
        <5> QED
          BY <5>1, LenProperties, ElementOfSeq DEF Typing, MailSent
      <4> QED
        BY <4>1 DEF Mail
    <3> QED
      BY <1>4, <2>2, <2>3, <3>2, DeliveredAll
  <2>6. \A i \in 1..Len(body) : body[i].kind = "Dot" => i = Len(body)
    <3>1. DOMAIN body = 1..Len(body)
      BY <1>4, LenProperties
    <3> QED
      BY <3>1 DEF Sessions, SessionAt
  <2> DEFINE n == MailOf(c)
  <2>7. ASSUME NEW b \in Boxes
        PROVE  IF b = MailSent(c).to /\ b \notin Unopenable
               THEN \E s \in 1..Len(mailbox'[b]) : StoredAt(mailbox'[b], s, lines, n)
               ELSE NoDot(mailbox'[b], n)
    <3> DEFINE f == mailbox[b] \o Entry(sess[c].id, body)
    <3>1. mailbox'[b] = IF b = sess[c].rcpt /\ b \notin Unopenable
                        THEN f ELSE mailbox[b]
      BY MailboxFacts, Zenon
    <3>2. mailbox[b] \in Seq(FileLine)
      BY DEF Typing, ServerTypes
    <3>3. CASE b = sess[c].rcpt /\ b \notin Unopenable
      <4>1. body # <<>> /\ body[Len(body)] = Dot(n) /\ NoDot(mailbox[b], n)
        BY <2>3, <2>4, <2>5
      <4>2. /\ Len(mailbox[b]) + 1 \in 1..Len(f)
            /\ StoredAt(f, Len(mailbox[b]) + 1, body, n)
        <5> HIDE DEF n
        <5> QED
          BY <1>4, <2>6, <3>2, <4>1, StoredNew, Zenon
      <4>3. \E s \in 1..Len(f) : StoredAt(f, s, lines, n)
        BY <2>5, <4>2, Zenon
      <4>4. mailbox'[b] = f
        BY <3>1, <3>3
      <4> QED
        BY <2>3, <3>3, <4>3, <4>4, Zenon
    <3>4. CASE ~(b = sess[c].rcpt /\ b \notin Unopenable)
      BY <2>3, <3>1, <3>4
    <3> QED
      BY <3>3, <3>4
  <2>8. StoredOnce(MailOf(c))'
    <3>1. sent' = sent /\ MailOf(c)' = n
      BY <1>1, <1>2
    <3>2. ASSUME NEW b \in Boxes
          PROVE  IF b = sent'[n].to /\ b \notin Unopenable
                 THEN \E s \in 1..Len(mailbox'[b]) : StoredAt(mailbox'[b], s, sent'[n].lines, n)
                 ELSE NoDot(mailbox'[b], n)
      <4> HIDE DEF n
      <4>1. MailSent(c) = sent'[n]
        BY <3>1 DEF MailSent, n
      <4> QED
        BY <2>7, <4>1, Zenon
    <3>3. PICK m : m = n
      OBVIOUS
    <3>4. MailOf(c)' = m
      BY <3>1, <3>3
    <3> HIDE DEF n
    <3>5. StoredOnce(m)'
      BY <3>2, <3>3, ZenonT(60) DEF StoredOnce, StoredAt, NoDot
    <3> QED
      BY <3>4, <3>5, Zenon DEF StoredOnce
  <2>9. RecipientAt(c)' /\ ~OnItsWay(c)' /\ cli'[c] # "wait"
    BY <1>1, <1>4, <2>2, <2>3 DEF RecipientAt, OnItsWay, AnsweredTo
  <2> QED
    BY <2>8, <2>9 DEF Faithful
<1>6. Closed(c)' /\ (cli'[c] = "gone" => to'[c] = NoBox)
  BY <1>1, <1>2 DEF Stores, MailAt, Closed
<1> QED
  BY <1>1, <1>5, <1>6 DEF MailAt, SentFrame, BoxFrame

(* Mails keep their numbers.                                               *)
LEMMA SentGrows ==
    ASSUME Typing, Typing', NEW c \in Clients, SentFrame(c)
    PROVE  Len(sent') \in Nat /\ Len(sent') >= Len(sent)
<1>1. /\ Len(sent) \in Nat /\ DOMAIN sent = 1..Len(sent)
      /\ Len(sent') \in Nat /\ DOMAIN sent' = 1..Len(sent')
  BY LenProperties DEF Typing
<1>2. CASE Len(sent) = 0
  BY <1>1, <1>2
<1>3. CASE Len(sent) # 0
  <2>1. Len(sent) \in DOMAIN sent
    BY <1>1, <1>3
  <2>2. Len(sent) \in DOMAIN sent'
    BY <2>1 DEF SentFrame
  <2> QED
    BY <1>1, <2>2
<1> QED
  BY <1>2, <1>3

(* In the beginning no mail is under way.                                   *)
LEMMA StoresInit == Init => Stores
<1> SUFFICES ASSUME Init PROVE Stores
  OBVIOUS
<1>1. ASSUME NEW c \in Clients PROVE MailAt(c)
  BY DEF Init, MailAt, Closed
<1> QED
  BY <1>1 DEF Init, Stores

(* Each step keeps both parts of the invariant about stored mails.         *)
LEMMA StoresNext ==
    ASSUME Typing, Bounded, Sessions, Phases, Numbers, DotNumbers, Stores,
           Typing', [Next]_vars
    PROVE  DotNumbers' /\ Stores'
<1> DEFINE Keeps(c) == /\ OthersSame(c) /\ SentFrame(c) /\ BoxFrame(c) /\ MailAt(c)'
                       /\ \/ acked' = acked
                          \/ /\ acked' = acked \cup {MailOf(c)}
                             /\ \E m : m = MailOf(c) /\ StoredOnce(m)'
<1>1. ASSUME NEW c \in Clients, Keeps(c) PROVE DotNumbers' /\ Stores'
  <2>1. /\ OthersSame(c) /\ SentFrame(c) /\ BoxFrame(c) /\ MailAt(c)'
        /\ \/ acked' = acked
           \/ /\ acked' = acked \cup {MailOf(c)}
              /\ \E m : m = MailOf(c) /\ StoredOnce(m)'
    BY <1>1, Zenon
  <2>2. Len(sent') \in Nat /\ Len(sent') >= Len(sent)
    BY <2>1, SentGrows
  <2>3. DotNumbers'
    BY <2>1, <2>2, DotNumbersNext
  <2>4. Stores'
    BY <2>1, StoresKept, Zenon
  <2> QED
    BY <2>3, <2>4
<1>2. CASE UNCHANGED vars
  <2>1. DotNumbers'
    BY <1>2 DEF vars, serverState, history, DotNumbers
  <2>2. UNCHANGED <<cli, asked, up, down, pc, sess, mailbox, to, sent, acked, lost>>
    BY <1>2 DEF vars, clientState, serverState, history
  <2>3. \A c \in Clients : MailOf(c)' = MailOf(c) /\ MailSent(c)' = MailSent(c)
    BY <2>2 DEF MailOf, MailSent
  <2>4. ASSUME NEW m, StoredOnce(m) PROVE StoredOnce(m)'
    BY <2>2, <2>4, Zenon DEF StoredOnce
  <2>5. ASSUME NEW c \in Clients PROVE MailAt(c)'
    <3>1. MailAt(c)
      BY DEF Stores
    <3>2. ASSUME Faithful(c) PROVE Faithful(c)'
      <4>1. RecipientAt(c)' /\ OnItsWay(c)' = OnItsWay(c)
        BY <2>2, <3>2 DEF Faithful, RecipientAt, AnsweredTo, OnItsWay, InMail
      <4>2. ASSUME cli'[c] = "ended", down'[c] # <<>> PROVE StoredOnce(MailOf(c))'
        <5>1. PICK m : m = MailOf(c)
          OBVIOUS
        <5>2. StoredOnce(m)'
          BY <2>2, <2>4, <3>2, <4>2, <5>1 DEF Faithful
        <5> QED
          BY <2>3, <5>1, <5>2, Zenon DEF StoredOnce
      <4>3. ASSUME OnItsWay(c)'
            PROVE  /\ Delivered(sess'[c].body, up'[c], MailSent(c)'.lines)
                   /\ sess'[c].rcpt = MailSent(c)'.to
                   /\ \A b \in Boxes : NoDot(mailbox'[b], MailOf(c)')
        BY <2>2, <2>3, <3>2, <4>1, <4>3 DEF Faithful
      <4>4. cli'[c] = "wait" => sess'[c].body = <<>>
        BY <2>2, <3>2 DEF Faithful
      <4> QED
        BY <4>1, <4>2, <4>3, <4>4, Zenon DEF Faithful, Delivered, NoDot
    <3> QED
      BY <2>2, <2>3, <3>1, <3>2 DEF MailAt, Closed
  <2>6. Stores'
    BY <2>2, <2>4, <2>5, Zenon DEF Stores
  <2> QED
    BY <2>1, <2>6
<1>3. ASSUME NEW c \in Clients, Connect(c) PROVE Keeps(c)
  BY <1>3, ConnectFacts, MailConnect
<1>4. ASSUME NEW c \in Clients, NEW l \in {Text(MailOf(c))} \cup {BodyId(n) : n \in BodyIds},
             BodyLine(c, l)
      PROVE  Keeps(c)
  <2>1. MailOf(c) \in Nat
    BY DEF Typing, ClientTypes, Message, MailOf
  <2>2. l \in MailLine
    BY <2>1, BodyLineType
  <2>3. Types(c, l) /\ cli'[c] = "body"
    BY <1>4, BodyLineFacts
  <2> QED
    BY <2>2, <2>3, TypesFacts, MailTypes
<1>5. ASSUME NEW c \in Clients, BodyEnd(c) PROVE Keeps(c)
  <2>1. MailOf(c) \in Nat
    BY DEF Typing, ClientTypes, Message, MailOf
  <2>2. Dot(MailOf(c)) \in MailLine
    BY <2>1, DotType
  <2>3. Types(c, Dot(MailOf(c))) /\ cli'[c] = "ended"
    BY <1>5, BodyEndFacts
  <2> QED
    BY <2>2, <2>3, TypesFacts, MailTypes
<1>6. ASSUME NEW c \in Clients, BodyEof(c) PROVE Keeps(c)
  BY <1>6, BodyEofFacts, MailBodyEof
<1>7. ASSUME NEW c \in Clients, Left(c) PROVE Keeps(c)
  BY <1>7, LeftFacts, MailLeft
<1>8. ASSUME NEW c \in Clients, NEW m \in Commands, Command(c, m) PROVE Keeps(c)
  <2>1. m \in Sound
    BY CommandTypes
  <2> QED
    BY <1>8, <2>1, CommandFacts, MailCommand
<1>9. ASSUME NEW c \in Clients, ReadResponse(c) PROVE Keeps(c)
  BY <1>9, ResponseFacts, MailResponse
<1>10. ASSUME NEW c \in Clients, ReadMessage(c) PROVE Keeps(c)
  BY <1>10, ReadFrame, MailRead DEF ReadMessageFrame
<1>11. ASSUME NEW c \in Clients, Store(c) PROVE Keeps(c)
  BY <1>11, StoreFacts, MailStore
<1>12. ASSUME NEW c \in Clients, EndSession(c) PROVE Keeps(c)
  BY <1>12, EndSessionFacts, MailEndSession
<1>13. CASE Crash
  <2>1. DotNumbers'
    BY <1>13 DEF Crash, history, DotNumbers
  <2> QED
    BY <1>13, <2>1, StoresCrash
<1> HIDE DEF Keeps
<1> QED
  BY <1>1, <1>2, <1>3, <1>4, <1>5, <1>6, <1>7, <1>8, <1>9, <1>10, <1>11, <1>12, <1>13
     DEF Next, UserStep, ServerStep, Leave, SeesClose

-----------------------------------------------------------------------------
(* A stored mail, as AckedIsStored and Retrievable look at it.             *)

(* The last ID line before a place in a file.                              *)
LEMMA StartIs ==
    ASSUME NEW file, NEW s \in Nat, NEW e \in Nat, s \in 1..e,
           file[s].kind = "ID", \A j \in (s + 1)..e : file[j].kind # "ID"
    PROVE  EntryStart(file, e) = s
<1> DEFINE S == {j \in 1..e : file[j].kind = "ID"}
<1>1. s \in S /\ \A x \in S : s >= x
  OBVIOUS
<1>2. \A x \in S : x \in Nat
  OBVIOUS
<1> HIDE DEF S
<1>3. Max(S) \in S /\ \A x \in S : Max(S) >= x
  BY <1>1, Zenon DEF Max
<1>4. Max(S) \in Nat /\ Max(S) >= s /\ s >= Max(S)
  BY <1>1, <1>2, <1>3, Zenon
<1>5. Max(S) = s
  BY <1>4
<1> QED
  BY <1>5, Zenon DEF EntryStart, S

(* What store_email writes, line by line.                                  *)
LEMMA EntryLines ==
    ASSUME NEW id \in Nat, NEW body \in Seq(MailLine)
    PROVE  LET f == Entry(id, body)
               k == Len(body)
           IN  /\ f \in Seq(FileLine) /\ k \in Nat /\ Len(f) = k + 4
               /\ f[1] = Line("ID", id) /\ f[2] = Line("From", 0)
               /\ f[3] = Line("Date", 0)
               /\ \A i \in 1..k : f[3 + i] = body[i]
               /\ f[k + 4] = Blank
<1> DEFINE head == <<Line("ID", id), Line("From", 0), Line("Date", 0)>>
           t == Entry(id, body)
           f == <<>> \o t
           k == Len(body)
<1>1. t \in Seq(FileLine)
  <2>1. head \in Seq(FileLine)
    BY DEF Line, FileLine
  <2>2. body \in Seq(FileLine)
    <3>1. MailLine \subseteq FileLine
      BY DEF MailLine, FileLine
    <3> QED
      BY <3>1, SeqMonotonic, Zenon
  <2>3. <<Blank>> \in Seq(FileLine)
    BY DEF Blank, Line, FileLine
  <2>4. t = (head \o body) \o <<Blank>>
    BY Zenon DEF Entry
  <2> HIDE DEF head, t, Blank
  <2>5. head \o body \in Seq(FileLine)
    BY <2>1, <2>2, Concatenated
  <2> QED
    BY <2>3, <2>4, <2>5, Concatenated
<1>2. <<>> \in Seq(FileLine) /\ Len(<<>>) = 0
  BY EmptySeq
<1>3. LET n == Len(<<>>)
      IN  /\ f \in Seq(FileLine) /\ n \in Nat /\ k \in Nat
          /\ Len(f) = n + k + 4
          /\ f[n + 1] = Line("ID", id)
          /\ f[n + 2] = Line("From", 0) /\ f[n + 3] = Line("Date", 0)
          /\ \A i \in 1..k : f[n + 3 + i] = body[i]
          /\ f[n + k + 4] = Blank
  BY <1>2, EntryAppended, ZenonT(60)
<1>4. f = t
  <2> HIDE DEF t
  <2> QED
    BY <1>1, ConcatEmptySeq
<1> HIDE DEF f, k
<1>5. /\ f \in Seq(FileLine) /\ k \in Nat /\ Len(f) = k + 4
      /\ f[1] = Line("ID", id) /\ f[2] = Line("From", 0) /\ f[3] = Line("Date", 0)
      /\ f[k + 4] = Blank
  <2> HIDE DEF Blank
  <2> QED
    BY <1>2, <1>3
<1>6. \A i \in 1..k : f[3 + i] = body[i]
  BY <1>2, <1>3
<1> HIDE DEF t
<1>7. /\ t \in Seq(FileLine) /\ k \in Nat /\ Len(t) = k + 4
      /\ t[1] = Line("ID", id) /\ t[2] = Line("From", 0) /\ t[3] = Line("Date", 0)
      /\ \A i \in 1..k : t[3 + i] = body[i]
      /\ t[k + 4] = Blank
  BY <1>4, <1>5, <1>6, Zenon
<1> QED
  BY <1>7, Zenon DEF t, k

(* A piece of a sequence, element by element.                              *)
LEMMA Piece ==
    ASSUME NEW S, NEW t \in Seq(S), NEW s \in Nat, NEW e \in Nat,
           s \in 1..Len(t), e \in s..Len(t)
    PROVE  /\ SubSeq(t, s, e) \in Seq(S) /\ Len(SubSeq(t, s, e)) = e - s + 1
           /\ \A i \in 1..(e - s + 1) : SubSeq(t, s, e)[i] = t[s + i - 1]
  OBVIOUS

(* A mail stored at one place: its dot, its ID line, its text.             *)
LEMMA StoredLooks ==
    ASSUME NEW file \in Seq(FileLine), NEW lines \in Seq(MailLine), NEW m,
           NEW s \in 1..Len(file), StoredAt(file, s, lines, m)
    PROVE  LET e == s + 2 + Len(lines)
           IN  /\ {i \in DOMAIN file : file[i] = Dot(m)} = {e}
               /\ EntryStart(file, e) = s
               /\ SubSeq(file, s, e + 1) = Entry(file[s].num, lines)
<1> DEFINE k == Len(lines)
           e == s + 2 + k
<1>1. /\ Len(file) \in Nat /\ DOMAIN file = 1..Len(file) /\ s \in Nat
      /\ \A i \in 1..Len(file) : file[i] \in FileLine /\ file[i].num \in Nat
  BY FileLines
<1>2. k \in Nat \ {0} /\ \A i \in 1..k : lines[i].kind # "ID"
  <2>1. lines # <<>>
    BY DEF StoredAt
  <2>2. k \in Nat \ {0}
    BY <2>1, EmptySeq
  <2>3. \A i \in 1..k : lines[i] \in MailLine
    BY ElementOfSeq, Zenon
  <2> QED
    BY <2>2, <2>3 DEF MailLine
<1>3. /\ s + k + 3 <= Len(file)
      /\ file[s] = Line("ID", file[s].num)
      /\ file[s + 1] = Line("From", 0) /\ file[s + 2] = Line("Date", 0)
      /\ \A i \in 1..k : file[s + 2 + i] = lines[i]
      /\ file[s + k + 3] = Blank
      /\ lines[k] = Dot(m)
      /\ \A i \in 1..Len(file) : file[i] = Dot(m) => i = s + 2 + k
  BY DEF StoredAt
<1> HIDE DEF k
<1>4. e \in 1..Len(file) /\ e \in Nat /\ file[e] = Dot(m) /\ s \in 1..e
  <2>1. k \in 1..k
    BY <1>2
  <2> QED
    BY <1>1, <1>2, <1>3, <2>1, SMTT(60)
<1>5. {i \in DOMAIN file : file[i] = Dot(m)} = {e}
  <2> HIDE DEF Dot
  <2> QED
    BY <1>1, <1>3, <1>4
<1>6. EntryStart(file, e) = s
  <2>1. file[s].kind = "ID"
    BY <1>3 DEF Line
  <2>2. ASSUME NEW j \in (s + 1)..e PROVE file[j].kind # "ID"
    <3>1. CASE j = s + 1 \/ j = s + 2
      <4>1. file[j] = Line("From", 0) \/ file[j] = Line("Date", 0)
        BY <1>3, <3>1
      <4> QED
        BY <4>1 DEF Line
    <3>2. CASE ~(j = s + 1 \/ j = s + 2)
      <4>1. j - (s + 2) \in 1..k /\ s + 2 + (j - (s + 2)) = j
        BY <1>1, <1>2, <2>2, <3>2
      <4>2. file[j] = lines[j - (s + 2)]
        BY <1>3, <4>1
      <4> QED
        BY <1>2, <4>1, <4>2
    <3> QED
      BY <3>1, <3>2
  <2> HIDE DEF e
  <2> QED
    BY <1>1, <1>4, <2>1, <2>2, StartIs
<1>7. SubSeq(file, s, e + 1) = Entry(file[s].num, lines)
  <2> DEFINE t == SubSeq(file, s, e + 1)
             f == Entry(file[s].num, lines)
  <2>1. /\ f \in Seq(FileLine) /\ Len(f) = k + 4
        /\ f[1] = Line("ID", file[s].num) /\ f[2] = Line("From", 0)
        /\ f[3] = Line("Date", 0)
        /\ \A i \in 1..k : f[3 + i] = lines[i]
        /\ f[k + 4] = Blank
    <3>1. file[s].num \in Nat
      BY <1>1
    <3>2. LET g == Entry(file[s].num, lines)
          IN  /\ g \in Seq(FileLine) /\ Len(lines) \in Nat /\ Len(g) = Len(lines) + 4
              /\ g[1] = Line("ID", file[s].num) /\ g[2] = Line("From", 0)
              /\ g[3] = Line("Date", 0)
              /\ \A i \in 1..Len(lines) : g[3 + i] = lines[i]
              /\ g[Len(lines) + 4] = Blank
      BY <3>1, EntryLines, ZenonT(60)
    <3> QED
      BY <3>2, Zenon DEF k
  <2>2. /\ t \in Seq(FileLine) /\ Len(t) = k + 4
        /\ \A i \in 1..(k + 4) : t[i] = file[s + i - 1]
    <3> DEFINE y == e + 1
    <3>1. s \in Nat /\ y \in Nat /\ y \in s..Len(file) /\ y - s + 1 = k + 4
      BY <1>1, <1>2, <1>3
    <3> HIDE DEF y
    <3>2. /\ SubSeq(file, s, y) \in Seq(FileLine) /\ Len(SubSeq(file, s, y)) = y - s + 1
          /\ \A i \in 1..(y - s + 1) : SubSeq(file, s, y)[i] = file[s + i - 1]
      BY <3>1, Piece
    <3>3. t = SubSeq(file, s, y)
      BY Zenon DEF y
    <3> HIDE DEF t
    <3> QED
      BY <3>1, <3>2, <3>3
  <2> HIDE DEF t, f
  <2>3. ASSUME NEW i \in 1..(k + 4) PROVE t[i] = f[i]
    <3>1. t[i] = file[s + i - 1]
      BY <2>2
    <3>2. CASE i = 1
      <4>1. s + i - 1 = s
        BY <1>1, <3>2
      <4> QED
        BY <1>3, <2>1, <3>1, <3>2, <4>1, Zenon
    <3>3. CASE i = 2
      <4>1. s + i - 1 = s + 1
        BY <1>1, <3>3
      <4> QED
        BY <1>3, <2>1, <3>1, <3>3, <4>1, Zenon
    <3>4. CASE i = 3
      <4>1. s + i - 1 = s + 2
        BY <1>1, <3>4
      <4> QED
        BY <1>3, <2>1, <3>1, <3>4, <4>1, Zenon
    <3>5. CASE i = k + 4
      <4>1. s + i - 1 = s + k + 3
        BY <1>1, <1>2, <3>5
      <4> QED
        BY <1>3, <2>1, <3>1, <3>5, <4>1, Zenon
    <3>6. CASE i \notin {1, 2, 3, k + 4}
      <4>1. i - 3 \in 1..k /\ 3 + (i - 3) = i /\ s + 2 + (i - 3) = s + i - 1
        BY <1>1, <1>2, <2>3, <3>6
      <4>2. f[i] = lines[i - 3] /\ file[s + i - 1] = lines[i - 3]
        BY <1>3, <2>1, <4>1
      <4> QED
        BY <3>1, <4>2
    <3> QED
      BY <3>2, <3>3, <3>4, <3>5, <3>6
  <2>4. t = f
    BY <2>1, <2>2, <2>3, SeqEqual
  <2> QED
    BY <2>4 DEF t, f
<1> QED
  BY <1>5, <1>6, <1>7 DEF k

(* What the invariant says about mails whose sender has been answered.     *)
LEMMA AckedHolds ==
    ASSUME Typing, Bounded, Stores
    PROVE  AckedIsStored
<1> SUFFICES ASSUME NEW m \in acked, NEW b \in Boxes
             PROVE  /\ Cardinality(DotsOf(b, m))
                           = IF b = sent[m].to /\ b \notin Unopenable THEN 1 ELSE 0
                    /\ \A i \in DotsOf(b, m) :
                           SubSeq(mailbox[b], EntryStart(mailbox[b], i), i + 1)
                               = Entry(mailbox[b][EntryStart(mailbox[b], i)].num,
                                       sent[m].lines)
  BY Zenon DEF AckedIsStored
<1> DEFINE file == mailbox[b]
           lines == sent[m].lines
<1>1. file \in Seq(FileLine) /\ DOMAIN file = 1..Len(file)
  <2>1. file \in Seq(FileLine)
    BY DEF Typing, ServerTypes
  <2> HIDE DEF file
  <2> QED
    BY <2>1, FileLines
<1>2. lines \in Seq(MailLine)
  <2>1. m \in DOMAIN sent
    BY DEF Bounded
  <2>2. sent[m] \in Mail
    BY <2>1, LenProperties, ElementOfSeq DEF Typing
  <2> QED
    BY <2>2 DEF Mail
<1>3. StoredOnce(m)
  BY DEF Stores
<1>4. CASE b = sent[m].to /\ b \notin Unopenable
  <2>1. PICK s \in 1..Len(file) : StoredAt(file, s, lines, m)
    BY <1>3, <1>4, Zenon DEF StoredOnce
  <2> DEFINE e == s + 2 + Len(lines)
  <2> HIDE DEF file, lines
  <2>2. /\ {i \in DOMAIN file : file[i] = Dot(m)} = {e}
        /\ EntryStart(file, e) = s
        /\ SubSeq(file, s, e + 1) = Entry(file[s].num, lines)
    BY <1>1, <1>2, <2>1, StoredLooks, Zenon
  <2> HIDE DEF e
  <2>3. DotsOf(b, m) = {e}
    BY <2>2, Zenon DEF DotsOf, file
  <2>4. Cardinality(DotsOf(b, m)) = 1
    BY <2>3, FS_Singleton
  <2>5. ASSUME NEW i \in DotsOf(b, m)
        PROVE  SubSeq(file, EntryStart(file, i), i + 1)
                   = Entry(file[EntryStart(file, i)].num, lines)
    BY <2>2, <2>3, <2>5, Zenon
  <2> QED
    BY <1>4, <2>4, <2>5, Zenon DEF file, lines
<1>5. CASE ~(b = sent[m].to /\ b \notin Unopenable)
  <2>1. NoDot(file, m)
    BY <1>3, <1>5, Zenon DEF StoredOnce
  <2>2. DotsOf(b, m) = {}
    BY <1>1, <2>1, Zenon DEF DotsOf, NoDot
  <2>3. Cardinality(DotsOf(b, m)) = 0
    BY <2>2, FS_EmptySet
  <2> QED
    BY <1>5, <2>2, <2>3, Zenon
<1> QED
  BY <1>4, <1>5

-----------------------------------------------------------------------------
(* LIST: the recursive function of list_emails exists, and names every     *)
(* mail.                                                                   *)

(* The answer from line i on, given those from later lines on.             *)
ListedFrom(f, file, i) ==
    IF i > Len(file) THEN <<>>
    ELSE IF IsId(file[i]) THEN <<file[i]>> \o f[i + 3]
    ELSE f[i + 1]
IsListing(f, file) == f = [i \in 1..(Len(file) + 3) |-> ListedFrom(f, file, i)]

(* There is such a function: from its end, one more line at a time.        *)
LEMMA ListingExists ==
    ASSUME NEW file \in Seq(FileLine)
    PROVE  \E f : IsListing(f, file)
<1> DEFINE n == Len(file)
           Partial(k) == \E f : f = [i \in (n + 1 - k)..(n + 3) |-> ListedFrom(f, file, i)]
           Bad == {k \in 0..n : ~Partial(k)}
<1>1. n \in Nat
  BY FileLines
<1>2. SUFFICES ASSUME Bad # {} PROVE FALSE
  <2>1. n \in 0..n /\ n + 1 - n = 1
    BY <1>1
  <2>2. Partial(n)
    BY <1>2, <2>1
  <2> QED
    BY <2>1, <2>2 DEF IsListing
<1>3. \A x, y \in Nat : x < y => <<x, y>> \in OpToRel(<, Nat)
  BY Zenon DEF OpToRel
<1>4. Bad \subseteq Nat
  BY <1>1
<1>5. PICK k \in Bad : \A b \in Bad : ~(<<b, k>> \in OpToRel(<, Nat))
  BY <1>2, <1>4, NatLessThanWellFounded, WFMin
<1>6. \A b \in Bad : ~(b < k)
  BY <1>3, <1>4, <1>5, Zenon
<1>7. k # 0
  <2> DEFINE f == [i \in (n + 1)..(n + 3) |-> <<>>]
  <2>1. \A i \in (n + 1)..(n + 3) : ListedFrom(f, file, i) = <<>>
    BY <1>1 DEF ListedFrom
  <2>2. n + 1 - 0 = n + 1
    BY <1>1
  <2>3. f = [i \in (n + 1 - 0)..(n + 3) |-> ListedFrom(f, file, i)]
    BY <2>1, <2>2
  <2>4. Partial(0)
    BY <2>3
  <2> QED
    BY <2>4
<1>8. k - 1 \in 0..n /\ k \in 1..n /\ k - 1 < k
  BY <1>1, <1>7
<1>9. Partial(k - 1)
  <2> HIDE DEF Partial
  <2> QED
    BY <1>6, <1>8
<1>10. PICK f : f = [i \in (n + 1 - (k - 1))..(n + 3) |-> ListedFrom(f, file, i)]
  BY <1>9
<1> DEFINE a == n + 1 - k
           g == [i \in a..(n + 3) |-> IF i = a THEN ListedFrom(f, file, a) ELSE f[i]]
<1> HIDE DEF n
<1>11. /\ a \in 1..n /\ a + 1 = n + 1 - (k - 1) /\ a + 3 <= n + 3
  BY <1>1, <1>8
<1> HIDE DEF a
<1>12. /\ \A i \in (a + 1)..(n + 3) : f[i] = ListedFrom(f, file, i)
       /\ \A i \in (a + 1)..(n + 3) : g[i] = f[i]
       /\ g[a] = ListedFrom(f, file, a)
  <2>1. f = [i \in (a + 1)..(n + 3) |-> ListedFrom(f, file, i)]
    BY <1>10, <1>11
  <2>2. \A i \in (a + 1)..(n + 3) : f[i] = ListedFrom(f, file, i)
    BY <2>1, Zenon
  <2>3. \A i \in (a + 1)..(n + 3) : i \in a..(n + 3) /\ i # a
    BY <1>1, <1>11
  <2>4. a \in a..(n + 3)
    BY <1>1, <1>11
  <2>5. \A i \in (a + 1)..(n + 3) : g[i] = f[i]
    BY <2>3, Zenon
  <2>6. g[a] = ListedFrom(f, file, a)
    BY <2>4, Zenon
  <2> QED
    BY <2>2, <2>5, <2>6
<1>13. ASSUME NEW i \in a..(n + 3) PROVE g[i] = ListedFrom(g, file, i)
  <2>1. CASE i > n
    <3>1. i \in (a + 1)..(n + 3)
      BY <1>1, <1>11, <1>13, <2>1
    <3>2. ListedFrom(f, file, i) = <<>> /\ ListedFrom(g, file, i) = <<>>
      BY <2>1 DEF ListedFrom, n
    <3> QED
      BY <1>12, <3>1, <3>2, Zenon
  <2>2. CASE ~(i > n)
    <3>1. i + 1 \in (a + 1)..(n + 3) /\ i + 3 \in (a + 1)..(n + 3)
      BY <1>1, <1>11, <1>13, <2>2
    <3>2. g[i + 1] = f[i + 1] /\ g[i + 3] = f[i + 3]
      BY <1>12, <3>1, Zenon
    <3>3. ListedFrom(g, file, i) = ListedFrom(f, file, i)
      <4> HIDE DEF g
      <4> QED
        BY <3>2 DEF ListedFrom
    <3>4. i = a \/ i \in (a + 1)..(n + 3)
      BY <1>1, <1>11, <1>13
    <3> QED
      BY <1>12, <3>3, <3>4, Zenon
  <2> QED
    BY <2>1, <2>2
<1>14. g = [i \in a..(n + 3) |-> ListedFrom(g, file, i)]
  <2>1. g = [i \in a..(n + 3) |-> g[i]]
    BY Zenon
  <2> HIDE DEF g
  <2> QED
    BY <1>13, <2>1, Zenon
<1> HIDE DEF g
<1>15. Partial(k)
  BY <1>14, Zenon DEF a
<1> QED
  BY <1>5, <1>15

(* List's answer is made by such a function.                               *)
LEMMA ListIs ==
    ASSUME NEW file \in Seq(FileLine)
    PROVE  \E f : IsListing(f, file) /\ List(file) = Answer(200, f[1], TRUE)
<1> DEFINE g == CHOOSE f : f = [i \in 1..(Len(file) + 3) |->
                                    IF i > Len(file) THEN <<>>
                                    ELSE IF IsId(file[i]) THEN <<file[i]>> \o f[i + 3]
                                    ELSE f[i + 1]]
<1>1. List(file) = Answer(200, g[1], TRUE)
  BY Zenon DEF List
<1>2. \E f : IsListing(f, file)
  BY ListingExists
<1>3. IsListing(g, file)
  BY <1>2, Zenon DEF IsListing, ListedFrom
<1> QED
  BY <1>1, <1>3, Zenon

(* Behind an ID line are two that are none, so that none is skipped.       *)
Apart(file) ==
    \A i, j \in 1..Len(file) : IsId(file[i]) /\ IsId(file[j]) /\ i < j => j >= i + 3

(* Whatever list_emails starts from, it names every ID line from there on. *)
LEMMA AllListed ==
    ASSUME NEW file \in Seq(FileLine), Apart(file), NEW f, IsListing(f, file),
           NEW s \in 1..Len(file), IsId(file[s])
    PROVE  f[1] \in Seq(FileLine) /\ file[s] \in Range(f[1])
<1> DEFINE n == Len(file)
           Lists(i) == /\ f[i] \in Seq(FileLine)
                       /\ \A t \in 1..n : t >= i /\ IsId(file[t]) =>
                              \E x \in DOMAIN f[i] : f[i][x] = file[t]
           Bad == {k \in 0..(n + 2) : ~Lists(n + 3 - k)}
<1>1. n \in Nat /\ \A i \in 1..n : file[i] \in FileLine
  BY FileLines
<1>2. \A i \in 1..(n + 3) : f[i] = ListedFrom(f, file, i)
  BY Zenon DEF IsListing
<1>3. \A i, j \in 1..n : IsId(file[i]) /\ IsId(file[j]) /\ i < j => j >= i + 3
  BY DEF Apart
<1>4. SUFFICES ASSUME Bad # {} PROVE FALSE
  <2>1. n + 2 \in 0..(n + 2) /\ n + 3 - (n + 2) = 1
    BY <1>1
  <2>2. Lists(1)
    <3> HIDE DEF Lists
    <3> QED
      BY <1>4, <2>1
  <2>3. s \in 1..n /\ s >= 1
    BY <1>1
  <2>4. f[1] \in Seq(FileLine) /\ \E x \in DOMAIN f[1] : f[1][x] = file[s]
    BY <2>2, <2>3
  <2> QED
    BY <2>4, Zenon DEF Range
<1>5. \A x, y \in Nat : x < y => <<x, y>> \in OpToRel(<, Nat)
  BY Zenon DEF OpToRel
<1>6. Bad \subseteq Nat
  BY <1>1
<1>7. PICK k \in Bad : \A b \in Bad : ~(<<b, k>> \in OpToRel(<, Nat))
  BY <1>4, <1>6, NatLessThanWellFounded, WFMin
<1>8. \A b \in Bad : ~(b < k)
  BY <1>5, <1>6, <1>7, Zenon
<1> DEFINE i == n + 3 - k
<1>9. k \in 0..(n + 2) /\ ~Lists(n + 3 - k)
  <2> HIDE DEF Lists
  <2> QED
    BY <1>7
<1> HIDE DEF n, Lists
<1>10. i \in 1..(n + 3) /\ ~Lists(i)
  BY <1>1, <1>9
<1>11. ASSUME NEW j \in 1..(n + 3), j > i PROVE Lists(j)
  <2>1. n + 3 - j \in 0..(n + 2) /\ n + 3 - j < k /\ n + 3 - (n + 3 - j) = j
    BY <1>1, <1>9, <1>10, <1>11
  <2> QED
    BY <1>8, <2>1
<1> HIDE DEF i, Bad
<1>12. CASE i > n
  <2>1. f[i] = <<>>
    BY <1>2, <1>10, <1>12, Zenon DEF ListedFrom, n
  <2>2. \A t \in 1..n : ~(t >= i)
    BY <1>1, <1>10, <1>12
  <2>3. <<>> \in Seq(FileLine)
    BY EmptySeq
  <2> QED
    BY <1>10, <2>1, <2>2, <2>3, Zenon DEF Lists
<1>13. CASE ~(i > n)
  <2>1. /\ i \in 1..n /\ i + 1 \in 1..(n + 3) /\ i + 3 \in 1..(n + 3)
        /\ i + 1 > i /\ i + 3 > i
    BY <1>1, <1>10, <1>13
  <2>2. CASE ~IsId(file[i])
    <3>1. f[i] = f[i + 1]
      BY <1>2, <1>10, <1>13, <2>2, Zenon DEF ListedFrom, n
    <3>2. Lists(i + 1)
      BY <1>11, <2>1
    <3>3. ASSUME NEW t \in 1..n, t >= i, IsId(file[t])
          PROVE  \E x \in DOMAIN f[i] : f[i][x] = file[t]
      <4>1. t >= i + 1
        <5>1. t # i
          BY <2>2, <3>3
        <5> QED
          BY <1>1, <2>1, <3>3, <5>1
      <4> QED
        BY <3>1, <3>2, <3>3, <4>1, Zenon DEF Lists
    <3>4. f[i] \in Seq(FileLine)
      BY <3>1, <3>2, Zenon DEF Lists
    <3> QED
      BY <1>10, <3>3, <3>4, Zenon DEF Lists
  <2>3. CASE IsId(file[i])
    <3> DEFINE r == f[i + 3]
               l == file[i]
    <3>1. f[i] = <<l>> \o r
      BY <1>2, <1>10, <1>13, <2>3, Zenon DEF ListedFrom, n
    <3>2. Lists(i + 3)
      BY <1>11, <2>1
    <3>3. r \in Seq(FileLine) /\ l \in FileLine
      BY <1>1, <2>1, <3>2, Zenon DEF Lists
    <3> HIDE DEF r, l
    <3>4. /\ <<l>> \o r \in Seq(FileLine)
          /\ 1 \in DOMAIN (<<l>> \o r) /\ (<<l>> \o r)[1] = l
          /\ \A x \in DOMAIN r : /\ x + 1 \in DOMAIN (<<l>> \o r)
                                 /\ (<<l>> \o r)[x + 1] = r[x]
      BY <3>3
    <3>5. ASSUME NEW t \in 1..n, t >= i, IsId(file[t])
          PROVE  \E x \in DOMAIN f[i] : f[i][x] = file[t]
      <4>1. CASE t = i
        <5>1. file[t] = l
          BY <4>1 DEF l
        <5> QED
          BY <3>1, <3>4, <5>1
      <4>2. CASE t # i
        <5>1. t >= i + 3
          <6>1. i < t
            BY <1>1, <2>1, <3>5, <4>2
          <6> QED
            BY <1>3, <2>1, <2>3, <3>5, <6>1 DEF n
        <5>2. PICK x \in DOMAIN r : r[x] = file[t]
          BY <3>2, <3>5, <5>1, Zenon DEF Lists, r
        <5> QED
          BY <3>1, <3>4, <5>2, Zenon
      <4> QED
        BY <4>1, <4>2
    <3>6. f[i] \in Seq(FileLine)
      BY <3>1, <3>4
    <3> QED
      BY <1>10, <3>5, <3>6, Zenon DEF Lists
  <2> QED
    BY <2>2, <2>3
<1> QED
  BY <1>12, <1>13

(* What the invariant says about looking mails up.                         *)
LEMMA RetrievableHolds ==
    ASSUME Typing, Files
    PROVE  Retrievable
<1> SUFFICES ASSUME NEW b \in Boxes,
                    \A i \in DOMAIN mailbox[b] : mailbox[b][i].kind # "BodyId",
                    NEW e \in DOMAIN mailbox[b],
                    mailbox[b][e].kind = "Dot", mailbox[b][e].num \notin raced
             PROVE  LET file == mailbox[b]
                        s == EntryStart(file, e)
                    IN  /\ Get(file, file[s].num) = Answer(200, SubSeq(file, s, e), TRUE)
                        /\ file[s] \in Range(List(file).lines)
  BY Zenon DEF Retrievable
<1> DEFINE file == mailbox[b]
<1>1. /\ file \in Seq(FileLine) /\ WellFormed(file, raced)
      /\ \A i \in DOMAIN file : file[i].kind # "BodyId"
      /\ e \in DOMAIN file /\ file[e].kind = "Dot" /\ file[e].num \notin raced
  BY DEF Typing, ServerTypes, Files
<1> HIDE DEF file
<1>2. /\ Len(file) \in Nat /\ DOMAIN file = 1..Len(file)
      /\ \A i \in 1..Len(file) : file[i].num \in Nat
  BY <1>1, FileLines
<1>3. NoBodyId(file)
  BY <1>1, <1>2 DEF NoBodyId
<1>4. PICK s \in 1..Len(file) : EntryAt(file, s, e) /\ IdIsNew(file, s)
  BY <1>1, <1>2 DEF WellFormed
<1>5. s \in Nat /\ e \in Nat
  BY <1>1, <1>2, IndexNat
<1>6. EntryStart(file, e) = s
  <2>1. s \in 1..e /\ file[s].kind = "ID"
    BY <1>4, <1>5 DEF EntryAt
  <2>2. \A j \in (s + 1)..e : file[j].kind # "ID"
    <3> SUFFICES ASSUME NEW j \in (s + 1)..e PROVE file[j].kind # "ID"
      OBVIOUS
    <3>1. j = e \/ j \in (s + 1)..(e - 1)
      BY <1>5
    <3> QED
      BY <1>1, <1>4, <3>1 DEF EntryAt
  <2> QED
    BY <1>5, <2>1, <2>2, StartIs
<1>7. \A j \in 1..(s - 1) : ~IdLineIs(file, j, file[s].num)
  <2> SUFFICES ASSUME NEW j \in 1..(s - 1), IdLineIs(file, j, file[s].num)
               PROVE  FALSE
    OBVIOUS
  <2>1. file[j].num < file[s].num /\ file[j].num = file[s].num
    BY <1>4 DEF IdIsNew, IdLineIs
  <2>2. file[s].num \in Nat
    BY <1>2
  <2> QED
    BY <2>1, <2>2
<1>8. Get(file, file[s].num) = Answer(200, SubSeq(file, s, e), TRUE)
  BY <1>1, <1>3, <1>4, <1>5, <1>7, GetReturns, ZenonT(60)
<1>9. Apart(file)
  <2> SUFFICES ASSUME NEW i \in 1..Len(file), NEW j \in 1..Len(file),
                      IsId(file[i]), IsId(file[j]), i < j
               PROVE  j >= i + 3
    BY DEF Apart
  <2>1. file[i].kind = "ID" /\ file[j].kind = "ID"
    BY <1>3 DEF IsId, NoBodyId
  <2>2. PICK x \in 1..Len(file) : EntryAt(file, i, x)
    BY <1>1, <2>1 DEF WellFormed
  <2>3. j # i + 1 /\ j # i + 2
    BY <2>1, <2>2 DEF EntryAt
  <2> QED
    BY <1>2, <2>3
<1>10. PICK f : IsListing(f, file) /\ List(file) = Answer(200, f[1], TRUE)
  BY <1>1, ListIs
<1>11. file[s] \in Range(f[1])
  <2>1. IsId(file[s])
    BY <1>4 DEF IsId, EntryAt
  <2> QED
    BY <1>1, <1>9, <1>10, <2>1, AllListed
<1>12. List(file).lines = f[1]
  BY <1>10 DEF Answer
<1> QED
  BY <1>6, <1>8, <1>11, <1>12, Zenon DEF file

-----------------------------------------------------------------------------
(* The inductive invariant, and the theorems.                              *)

Inv == /\ Typing /\ Bounded /\ Sessions /\ Files /\ Phases
       /\ Numbers /\ DotNumbers /\ Stores

(* It holds in the beginning.                                              *)
LEMMA InvInit == Init => Inv
  BY TypingInit, BoundedInit, SessionsInit, FilesInit, PhasesInit, NumbersInit,
     DotNumbersInit, StoresInit, Zenon DEF Inv

(* Every step keeps it.                                                    *)
LEMMA InvNext == Inv /\ [Next]_vars => Inv'
<1> SUFFICES ASSUME Inv, [Next]_vars PROVE Inv'
  OBVIOUS
<1>1. /\ Typing /\ Bounded /\ Sessions /\ Files /\ Phases
      /\ Numbers /\ DotNumbers /\ Stores
  BY Zenon DEF Inv
<1>2. Typing' /\ Bounded' /\ Sessions' /\ Files' /\ Phases' /\ Numbers'
  BY <1>1, TypingNext, BoundedNext, SessionsNext, FilesNext, PhasesNext, NumbersNext,
     Zenon
<1>3. DotNumbers' /\ Stores'
  BY <1>1, <1>2, StoresNext, Zenon
<1> QED
  BY <1>2, <1>3, Zenon DEF Inv

(* The invariant holds in every state the server and its clients reach.    *)
THEOREM Invariance == Spec => []Inv
  BY InvInit, InvNext, PTL DEF Spec

(* Every variable keeps its type, and IDs are positive.                    *)
THEOREM TypeCorrect == Spec => []TypeOK
<1>1. Inv => TypeOK
  BY TypesHold DEF Inv
<1> QED
  BY <1>1, Invariance, PTL

(* "Message stored successfully" is true: a mail whose sender read it is   *)
(* in its recipient's file once, line for line, whatever others do and     *)
(* whoever dies, unless read_message threw bytes of the connection away    *)
(* or the file does not open.                                              *)
THEOREM AckedMailIsStored == Spec => []AckedIsStored
<1>1. Inv => AckedIsStored
  BY AckedHolds DEF Inv
<1> QED
  BY <1>1, Invariance, PTL

(* On a connection that lost nothing, client and thread agree on what a    *)
(* message is, and no answer is left over for the next command.            *)
THEOREM ConversationsInStep == Spec => []InStep
<1>1. Inv => InStep
  BY InStepHolds DEF Inv
<1> QED
  BY <1>1, Invariance, PTL

(* GET_MAIL returns a stored mail whole and LIST names it, unless two      *)
(* threads raced for its ID or a body has a line like an ID's.             *)
THEOREM MailRetrievable == Spec => []Retrievable
<1>1. Inv => Retrievable
  BY RetrievableHolds DEF Inv
<1> QED
  BY <1>1, Invariance, PTL

(* On a connection that lost nothing, client and thread wait for each      *)
(* other for ever in two cases only: the client's own GET_MAIL has stopped *)
(* at a line of a body like an ID's, or its input has ended in a body.     *)
THEOREM NoMutualWait == Spec => []NobodyWaitsForEver
<1>1. Inv => NobodyWaitsForEver
  BY NobodyWaits DEF Inv
<1> QED
  BY <1>1, Invariance, PTL

=============================================================================
