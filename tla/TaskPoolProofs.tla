---------------------------- MODULE TaskPoolProofs ----------------------------
(***************************************************************************)
(* Proofs that TaskQueue implements TaskPool, and what follows from it: no *)
(* task is lost, or with two clients, or finished twice.                   *)
(*                                                                         *)
(* The proof goes step by step.  Until the queue comes to harm each step   *)
(* of the program leaves the abstract pool alone or is one of its three    *)
(* steps, and these keep every task in one place.  That, in turn, is why   *)
(* there is room in the ring for the next task that comes back.            *)
(***************************************************************************)
EXTENDS TaskQueueProofs, FiniteSetTheorems

-----------------------------------------------------------------------------
(* Every task is in one place.  The abstract pool's state is passed as     *)
(* three values: pool, held and finished.                                  *)

(* Nothing is in two places: in the pool, held by a client or finished.    *)
Apart(pool, held, done) ==
    /\ \A i, j \in DOMAIN pool : pool[i] = pool[j] => i = j
    /\ \A c, d \in Clients : held[c] = held[d] /\ held[c] # NoTask => c = d
    /\ \A i \in DOMAIN pool, c \in Clients : pool[i] # held[c]
    /\ \A i \in DOMAIN pool : pool[i] \notin done
    /\ \A c \in Clients : held[c] \notin done

(* Each task is somewhere.                                                 *)
Somewhere(pool, held, done) ==
    \A t \in Tasks : \/ \E i \in DOMAIN pool : pool[i] = t
                     \/ \E c \in Clients : held[c] = t
                     \/ t \in done

Conserved(pool, held, done) ==
    /\ pool \in Seq(Tasks)
    /\ held \in [Clients -> Tasks \cup {NoTask}]
    /\ done \subseteq Tasks
    /\ Apart(pool, held, done) /\ Somewhere(pool, held, done)

(* A task is taken: the first of the pool goes to a client that has none.  *)
LEMMA TakeConserves ==
    ASSUME NEW pool, NEW held, NEW done, Conserved(pool, held, done),
           NEW c \in Clients, held[c] = NoTask, pool # <<>>
    PROVE  Conserved(Tail(pool), [held EXCEPT ![c] = Head(pool)], done)
<1> DEFINE p == Tail(pool)
           h == [held EXCEPT ![c] = Head(pool)]
<1>1. /\ pool \in Seq(Tasks) /\ Len(pool) \in Nat /\ Len(pool) # 0
      /\ DOMAIN pool = 1..Len(pool) /\ pool[1] \in Tasks /\ Head(pool) = pool[1]
  BY DEF Conserved
<1>2. /\ p \in Seq(Tasks) /\ DOMAIN p = 1..(Len(pool) - 1)
      /\ \A i \in DOMAIN p : p[i] = pool[i + 1] /\ i + 1 \in DOMAIN pool
                            /\ i + 1 # 1
  BY <1>1
<1>3. /\ h \in [Clients -> Tasks \cup {NoTask}]
      /\ h[c] = pool[1] /\ \A d \in Clients : d # c => h[d] = held[d]
  BY <1>1 DEF Conserved
<1>4. pool[1] # NoTask /\ 1 \in DOMAIN pool
  BY <1>1, QueueAssumption
<1> HIDE DEF p, h
<1>5. Apart(p, h, done)
  <2>1. \A i, j \in DOMAIN p : p[i] = p[j] => i = j
    <3> SUFFICES ASSUME NEW i \in DOMAIN p, NEW j \in DOMAIN p, p[i] = p[j]
                 PROVE  i = j
      OBVIOUS
    <3>1. i + 1 = j + 1
      BY <1>2 DEF Conserved, Apart
    <3> QED
      BY <1>1, <1>2, <3>1
  <2>2. \A a, d \in Clients : h[a] = h[d] /\ h[a] # NoTask => a = d
    BY <1>3, <1>4 DEF Conserved, Apart
  <2>3. \A i \in DOMAIN p, d \in Clients : p[i] # h[d]
    BY <1>2, <1>3, <1>4 DEF Conserved, Apart
  <2>4. \A i \in DOMAIN p : p[i] \notin done
    BY <1>2 DEF Conserved, Apart
  <2>5. \A d \in Clients : h[d] \notin done
    BY <1>3, <1>4 DEF Conserved, Apart
  <2> QED
    BY <2>1, <2>2, <2>3, <2>4, <2>5 DEF Apart
<1>6. Somewhere(p, h, done)
  <2> SUFFICES ASSUME NEW t \in Tasks, t \notin done
               PROVE  \/ \E i \in DOMAIN p : p[i] = t
                      \/ \E d \in Clients : h[d] = t
    BY DEF Somewhere
  <2>1. CASE \E i \in DOMAIN pool : pool[i] = t
    <3>1. PICK i \in DOMAIN pool : pool[i] = t
      BY <2>1
    <3>2. CASE i = 1
      BY <1>3, <3>1, <3>2
    <3>3. CASE i # 1
      <4>1. i - 1 \in DOMAIN p /\ p[i - 1] = pool[i]
        BY <1>1, <1>2, <3>3
      <4> QED
        BY <3>1, <4>1
    <3> QED
      BY <3>2, <3>3
  <2>2. CASE \E d \in Clients : held[d] = t
    <3>1. PICK d \in Clients : held[d] = t
      BY <2>2
    <3>2. d # c
      BY <3>1, QueueAssumption
    <3> QED
      BY <1>3, <3>1, <3>2
  <2> QED
    BY <2>1, <2>2 DEF Conserved, Somewhere
<1>7. done \subseteq Tasks
  BY DEF Conserved
<1>8. Conserved(p, h, done)
  BY <1>2, <1>3, <1>5, <1>6, <1>7 DEF Conserved
<1> QED
  BY <1>8 DEF p, h

(* A task comes back, in front of the others.                              *)
LEMMA GiveBackConserves ==
    ASSUME NEW pool, NEW held, NEW done, Conserved(pool, held, done),
           NEW c \in Clients, held[c] # NoTask
    PROVE  Conserved(<<held[c]>> \o pool, [held EXCEPT ![c] = NoTask], done)
<1> DEFINE p == <<held[c]>> \o pool
           h == [held EXCEPT ![c] = NoTask]
<1>1. /\ pool \in Seq(Tasks) /\ Len(pool) \in Nat
      /\ DOMAIN pool = 1..Len(pool) /\ held[c] \in Tasks
  BY DEF Conserved
<1>2. /\ p \in Seq(Tasks) /\ DOMAIN p = 1..(Len(pool) + 1) /\ p[1] = held[c]
      /\ \A i \in DOMAIN p : i # 1 => p[i] = pool[i - 1] /\ i - 1 \in DOMAIN pool
      /\ \A i \in DOMAIN pool : p[i + 1] = pool[i] /\ i + 1 \in DOMAIN p
  BY <1>1
<1>3. /\ h \in [Clients -> Tasks \cup {NoTask}]
      /\ h[c] = NoTask /\ \A d \in Clients : d # c => h[d] = held[d]
  BY <1>1 DEF Conserved
<1>4. NoTask \notin Tasks
  BY QueueAssumption
<1> HIDE DEF p, h
<1>5. Apart(p, h, done)
  <2>1. \A i, j \in DOMAIN p : p[i] = p[j] => i = j
    <3> SUFFICES ASSUME NEW i \in DOMAIN p, NEW j \in DOMAIN p, p[i] = p[j]
                 PROVE  i = j
      OBVIOUS
    <3>1. CASE i # 1 /\ j # 1
      <4>1. i - 1 = j - 1
        BY <1>2, <3>1 DEF Conserved, Apart
      <4> QED
        BY <1>1, <1>2, <4>1
    <3>2. CASE i = 1 \/ j = 1
      BY <1>2, <3>2 DEF Conserved, Apart
    <3> QED
      BY <3>1, <3>2
  <2>2. \A a, d \in Clients : h[a] = h[d] /\ h[a] # NoTask => a = d
    BY <1>3 DEF Conserved, Apart
  <2>3. \A i \in DOMAIN p, d \in Clients : p[i] # h[d]
    <3> SUFFICES ASSUME NEW i \in DOMAIN p, NEW d \in Clients
                 PROVE  p[i] # h[d]
      OBVIOUS
    <3>1. CASE d = c
      <4>1. p[i] \in Tasks
        BY <1>2
      <4> QED
        BY <1>3, <1>4, <3>1, <4>1
    <3>2. CASE d # c /\ i = 1
      BY <1>1, <1>2, <1>3, <1>4, <3>2 DEF Conserved, Apart
    <3>3. CASE d # c /\ i # 1
      BY <1>2, <1>3, <3>3 DEF Conserved, Apart
    <3> QED
      BY <3>1, <3>2, <3>3
  <2>4. \A i \in DOMAIN p : p[i] \notin done
    BY <1>2 DEF Conserved, Apart
  <2>5. \A d \in Clients : h[d] \notin done
    BY <1>3, <1>4 DEF Conserved, Apart
  <2> QED
    BY <2>1, <2>2, <2>3, <2>4, <2>5 DEF Apart
<1>6. Somewhere(p, h, done)
  <2> SUFFICES ASSUME NEW t \in Tasks, t \notin done
               PROVE  \/ \E i \in DOMAIN p : p[i] = t
                      \/ \E d \in Clients : h[d] = t
    BY DEF Somewhere
  <2>1. CASE \E i \in DOMAIN pool : pool[i] = t
    BY <1>2, <2>1
  <2>2. CASE \E d \in Clients : held[d] = t
    <3>1. 1 \in DOMAIN p
      BY <1>1, <1>2
    <3> QED
      BY <1>2, <1>3, <2>2, <3>1
  <2> QED
    BY <2>1, <2>2 DEF Conserved, Somewhere
<1>7. done \subseteq Tasks
  BY DEF Conserved
<1>8. Conserved(p, h, done)
  BY <1>2, <1>3, <1>5, <1>6, <1>7 DEF Conserved
<1> QED
  BY <1>8 DEF p, h

(* A task is finished.                                                     *)
LEMMA FinishConserves ==
    ASSUME NEW pool, NEW held, NEW done, Conserved(pool, held, done),
           NEW c \in Clients, held[c] # NoTask
    PROVE  Conserved(pool, [held EXCEPT ![c] = NoTask], done \cup {held[c]})
<1> DEFINE h == [held EXCEPT ![c] = NoTask]
           f == done \cup {held[c]}
<1>1. held[c] \in Tasks /\ NoTask \notin Tasks
  BY QueueAssumption DEF Conserved
<1>2. /\ h \in [Clients -> Tasks \cup {NoTask}]
      /\ h[c] = NoTask /\ \A d \in Clients : d # c => h[d] = held[d]
  BY <1>1 DEF Conserved
<1> HIDE DEF h
<1>3. Apart(pool, h, f)
  <2>1. \A i, j \in DOMAIN pool : pool[i] = pool[j] => i = j
    BY DEF Conserved, Apart
  <2>2. \A a, d \in Clients : h[a] = h[d] /\ h[a] # NoTask => a = d
    BY <1>2 DEF Conserved, Apart
  <2>3. \A i \in DOMAIN pool : pool[i] \in Tasks
    BY DEF Conserved
  <2>4. \A i \in DOMAIN pool, d \in Clients : pool[i] # h[d]
    BY <1>1, <1>2, <2>3 DEF Conserved, Apart
  <2>5. \A i \in DOMAIN pool : pool[i] \notin f
    BY DEF Conserved, Apart
  <2>6. \A d \in Clients : h[d] \notin f
    BY <1>1, <1>2 DEF Conserved, Apart
  <2> QED
    BY <2>1, <2>2, <2>4, <2>5, <2>6 DEF Apart
<1>4. Somewhere(pool, h, f)
  BY <1>2 DEF Conserved, Somewhere
<1>5. f \subseteq Tasks /\ pool \in Seq(Tasks)
  BY <1>1 DEF Conserved
<1>6. Conserved(pool, h, f)
  BY <1>2, <1>3, <1>4, <1>5 DEF Conserved
<1> QED
  BY <1>6 DEF h

(* While a client has a task the pool is not complete.                     *)
LEMMA Room ==
    ASSUME NEW pool, NEW held, NEW done, Conserved(pool, held, done),
           NEW c \in Clients, held[c] # NoTask
    PROVE  Len(pool) < Len(TaskList)
<1> DEFINE n == Len(pool)
           f == [i \in 1..(n + 1) |-> IF i = n + 1 THEN held[c] ELSE pool[i]]
           Lines == 1..Len(TaskList)
           g == [i \in 1..(n + 1) |-> CHOOSE l \in Lines : TaskList[l] = f[i]]
<1>1. /\ n \in Nat /\ DOMAIN pool = 1..n
      /\ held[c] \in Tasks /\ \A i \in 1..n : pool[i] \in Tasks
  BY DEF Conserved
<1>2. Len(TaskList) \in Nat /\ DOMAIN TaskList = Lines
  BY QueueAssumption
<1>3. \A i \in 1..(n + 1) : f[i] \in Tasks
  BY <1>1
<1>4. \A i, j \in 1..(n + 1) : f[i] = f[j] => i = j
  BY <1>1 DEF Conserved, Apart
<1> HIDE DEF f
<1>5. \A i \in 1..(n + 1) : g[i] \in Lines /\ TaskList[g[i]] = f[i]
  <2> SUFFICES ASSUME NEW i \in 1..(n + 1)
               PROVE  \E l \in Lines : TaskList[l] = f[i]
    OBVIOUS
  <2> QED
    BY <1>2, <1>3 DEF Tasks
<1>6. g \in Injection(1..(n + 1), Lines)
  <2>1. g \in [1..(n + 1) -> Lines]
    BY <1>5, Zenon
  <2>2. ASSUME NEW i \in 1..(n + 1), NEW j \in 1..(n + 1), g[i] = g[j]
        PROVE  i = j
    <3> HIDE DEF g, n
    <3>1. f[i] = f[j]
      BY <1>5, <2>2
    <3> QED
      BY <1>4, <3>1
  <2> QED
    BY <2>1, <2>2, Zenon DEF Injection, IsInjective
<1> HIDE DEF g
<1>7. IsFiniteSet(Lines) /\ Cardinality(Lines) = Len(TaskList)
  <2> HIDE DEF n
  <2>1. 1 \in Int /\ Len(TaskList) \in Int /\ Len(TaskList) - 1 + 1 = Len(TaskList)
    BY <1>2
  <2>2. 1 > Len(TaskList) => Len(TaskList) = 0
    BY <1>2
  <2> QED
    BY <2>1, <2>2, FS_Interval
<1>8. Cardinality(1..(n + 1)) = n + 1
  BY <1>1, FS_Interval
<1>9. Cardinality(1..(n + 1)) <= Cardinality(Lines)
  BY <1>6, <1>7, FS_Injection, Zenon
<1> QED
  BY <1>1, <1>2, <1>7, <1>8, <1>9

-----------------------------------------------------------------------------
(* What holds of the program until harm is done.                           *)

HeldMap == [c \in Clients |-> Held(c)]

(* What a handler knows at each of its steps in get_task and push_front.   *)
Steps(c) ==
    /\ pc[c] = "advance" => slot[c] = front /\ front # Back
    /\ pc[c] \in {"none", "get", "load", "advance", "unlock", "copy"} =>
           task[c] = NoTask
    /\ pc[c] \in {"write", "written"} =>
           slot[c] = front /\ front # Back /\ task[c] # NoTask
    /\ pc[c] = "written" => slot[c] \notin Uncopied

Sound ==
    /\ sem # "gone"
    /\ \A c \in Clients : Steps(c)
    /\ Conserved(Pooled, HeldMap, finished)

SoundInv == harm = {} => Sound

-----------------------------------------------------------------------------
(* The ring.                                                               *)

(* A number that is out of the ring by less than once around.              *)
LEMMA Around ==
    ASSUME NEW x \in Int
    PROVE  /\ x \in 0..(Slots - 1) => x % Slots = x
           /\ x \in Slots..(2 * Slots - 1) => x % Slots = x - Slots
           /\ x \in (-Slots)..(-1) => x % Slots = x + Slots
<1>1. \A k \in Int, r \in 0..(Slots - 1) : (Slots * k + r) % Slots = r
  BY QueueAssumption
<1>2. Slots \in Nat \ {0}
  BY QueueAssumption
<1>3. ASSUME x \in 0..(Slots - 1) PROVE x % Slots = x
  <2>1. Slots * 0 + x = x
    BY <1>2
  <2> QED
    BY <1>1, <1>3, <2>1
<1>4. ASSUME x \in Slots..(2 * Slots - 1) PROVE x % Slots = x - Slots
  <2>1. Slots * 1 + (x - Slots) = x /\ x - Slots \in 0..(Slots - 1)
    BY <1>2, <1>4
  <2> QED
    BY <1>1, <2>1
<1>5. ASSUME x \in (-Slots)..(-1) PROVE x % Slots = x + Slots
  <2>1. Slots * (-1) + (x + Slots) = x /\ x + Slots \in 0..(Slots - 1)
    BY <1>2, <1>5
  <2> QED
    BY <1>1, <2>1
<1> QED
  BY <1>3, <1>4, <1>5

(* The place k behind front, and the number of places from front to back.  *)
Place(f, k) == (f + k) % Slots
Filled(f)   == (Back - f) % Slots

LEMMA RingPlaces ==
    ASSUME NEW f \in Places
    PROVE  /\ Filled(f) \in 0..(Slots - 1)
           /\ Filled(f) = 0 <=> f = Back
           /\ \A k \in 0..(Slots - 1) : Place(f, k) \in Places
           /\ Place(f, 0) = f
           /\ \A k \in 1..(Slots - 1) : Place(f, k) # f
<1>1. /\ Slots \in Nat \ {0} /\ Back \in 0..(Slots - 1) /\ f \in 0..(Slots - 1)
  BY QueueAssumption DEF Back, Places
<1>2. Filled(f) = IF f <= Back THEN Back - f ELSE Back - f + Slots
  BY <1>1, Around DEF Filled
<1>3. \A k \in 0..(Slots - 1) :
         Place(f, k) = IF f + k < Slots THEN f + k ELSE f + k - Slots
  BY <1>1, Around DEF Place
<1> QED
  BY <1>1, <1>2, <1>3 DEF Places

(* front moves on over a place that is filled.                             *)
LEMMA RingAdvance ==
    ASSUME NEW f \in Places, f # Back, NEW e, e = (f + 1) % Slots
    PROVE  /\ e \in Places
           /\ Filled(e) = Filled(f) - 1
           /\ \A k \in 0..(Slots - 2) : Place(e, k) = Place(f, k + 1)
<1>1. /\ Slots \in Nat \ {0} /\ Back \in 0..(Slots - 1) /\ f \in 0..(Slots - 1)
  BY QueueAssumption DEF Back, Places
<1>2. e = IF f + 1 < Slots THEN f + 1 ELSE 0
  BY <1>1, Around
<1>3. e \in 0..(Slots - 1)
  BY <1>1, <1>2
<1>4. /\ Filled(f) = IF f <= Back THEN Back - f ELSE Back - f + Slots
      /\ Filled(e) = IF e <= Back THEN Back - e ELSE Back - e + Slots
  BY <1>1, <1>3, Around DEF Filled
<1>5. \A k \in 0..(Slots - 1) :
         /\ Place(f, k) = IF f + k < Slots THEN f + k ELSE f + k - Slots
         /\ Place(e, k) = IF e + k < Slots THEN e + k ELSE e + k - Slots
  BY <1>1, <1>3, Around DEF Place
<1>6. Filled(e) = Filled(f) - 1
  <2> HIDE DEF Filled, Back
  <2> QED
    BY <1>1, <1>2, <1>3, <1>4
<1>7. ASSUME NEW k \in 0..(Slots - 2)
      PROVE  Place(e, k) = Place(f, k + 1)
  <2> HIDE DEF Place
  <2>1. k \in 0..(Slots - 1) /\ k + 1 \in 0..(Slots - 1) /\ k \in Int
    BY <1>1
  <2>2. Place(e, k) = IF e + k < Slots THEN e + k ELSE e + k - Slots
    BY <1>5, <2>1
  <2>3. Place(f, k + 1) = IF f + (k + 1) < Slots THEN f + (k + 1) ELSE f + (k + 1) - Slots
    BY <1>5, <2>1
  <2> QED
    BY <1>1, <1>2, <1>3, <2>1, <2>2, <2>3
<1> QED
  BY <1>3, <1>6, <1>7 DEF Places

(* front moves back, when there is a place left.                           *)
LEMMA RingRetreat ==
    ASSUME NEW f \in Places, Filled(f) + 1 < Slots, NEW e, e = (f - 1) % Slots
    PROVE  /\ e \in Places /\ e # Back
           /\ Filled(e) = Filled(f) + 1
           /\ \A k \in 0..(Slots - 2) : Place(e, k + 1) = Place(f, k)
<1>1. /\ Slots \in Nat \ {0} /\ Back \in 0..(Slots - 1) /\ f \in 0..(Slots - 1)
  BY QueueAssumption DEF Back, Places
<1>2. e = IF f = 0 THEN Slots - 1 ELSE f - 1
  BY <1>1, Around
<1>3. e \in 0..(Slots - 1)
  BY <1>1, <1>2
<1>4. /\ Filled(f) = IF f <= Back THEN Back - f ELSE Back - f + Slots
      /\ Filled(e) = IF e <= Back THEN Back - e ELSE Back - e + Slots
  BY <1>1, <1>3, Around DEF Filled
<1>5. \A k \in 0..(Slots - 1) :
         /\ Place(f, k) = IF f + k < Slots THEN f + k ELSE f + k - Slots
         /\ Place(e, k) = IF e + k < Slots THEN e + k ELSE e + k - Slots
  BY <1>1, <1>3, Around DEF Place
<1>6. e # Back /\ Filled(e) = Filled(f) + 1
  <2> HIDE DEF Filled, Back
  <2> QED
    BY <1>1, <1>2, <1>3, <1>4
<1>7. ASSUME NEW k \in 0..(Slots - 2)
      PROVE  Place(e, k + 1) = Place(f, k)
  <2> HIDE DEF Place
  <2>1. k \in 0..(Slots - 1) /\ k + 1 \in 0..(Slots - 1) /\ k \in Int
    BY <1>1
  <2>2. Place(f, k) = IF f + k < Slots THEN f + k ELSE f + k - Slots
    BY <1>5, <2>1
  <2>3. Place(e, k + 1) = IF e + (k + 1) < Slots THEN e + (k + 1) ELSE e + (k + 1) - Slots
    BY <1>5, <2>1
  <2> QED
    BY <1>1, <1>2, <1>3, <2>1, <2>2, <2>3
<1> QED
  BY <1>3, <1>6, <1>7 DEF Places

-----------------------------------------------------------------------------
(* The tasks in the queue, and the task of each client.                    *)

(* push_front has taken a place that it has not filled.                    *)
Filling == \E c \in Clients : pc[c] \in {"write", "written"}

Contents(f, strings, filling) ==
    LET n    == Filled(f)
        skip == IF filling THEN 1 ELSE 0
    IN  [i \in 1..(n - skip) |-> strings[(f + skip + i - 1) % Slots]]

LEMMA PooledIs ==
    Pooled = Contents(front, q, Filling)
  BY DEF Pooled, Contents, Filled, Filling

LEMMA PooledBecomes ==
    Pooled' = Contents(front', q', Filling')
  BY DEF Pooled, Contents, Filled, Filling

LEMMA ContentsAre ==
    ASSUME NEW f \in Int, NEW s
    PROVE  /\ Contents(f, s, TRUE)  = [i \in 1..(Filled(f) - 1) |-> s[Place(f, i)]]
           /\ Contents(f, s, FALSE) = [i \in 1..Filled(f) |-> s[Place(f, i - 1)]]
<1>1. /\ Contents(f, s, TRUE)  = [i \in 1..(Filled(f) - 1) |-> s[(f + 1 + i - 1) % Slots]]
      /\ Contents(f, s, FALSE) = [i \in 1..(Filled(f) - 0) |-> s[(f + 0 + i - 1) % Slots]]
  BY Zenon DEF Contents
<1>2. \A i \in Int : f + 1 + i - 1 = f + i /\ f + 0 + i - 1 = f + (i - 1)
  OBVIOUS
<1>3. Filled(f) \in Int /\ Filled(f) - 0 = Filled(f)
  BY QueueAssumption DEF Filled, Back
<1>4. \A n, i : i \in 1..n => i \in Int
  OBVIOUS
<1>5. \A i \in 1..(Filled(f) - 1) : s[(f + 1 + i - 1) % Slots] = s[Place(f, i)]
  BY <1>2, <1>4, Zenon DEF Place
<1>6. \A i \in 1..Filled(f) : s[(f + 0 + i - 1) % Slots] = s[Place(f, i - 1)]
  BY <1>2, <1>4, Zenon DEF Place
<1> QED
  BY <1>1, <1>3, <1>5, <1>6, Zenon

(* Steps that move neither front nor a string.                             *)
LEMMA PooledKept ==
    ASSUME front' = front, q' = q, Filling' <=> Filling
    PROVE  Pooled' = Pooled
  BY DEF Pooled, Filling

LEMMA HeldKept ==
    ASSUME NEW c, pc'[c] = pc[c], slot'[c] = slot[c], task'[c] = task[c],
           pc[c] \in {"unlock", "copy"} /\ slot[c] # NoSlot =>
               q'[slot[c]] = q[slot[c]]
    PROVE  Held(c)' = Held(c)
  BY DEF Held

(* While one handler is between P and V, no other one is.                  *)
LEMMA OthersOutside ==
    ASSUME MutualExclusion, sem # "gone", NEW c \in Clients, pc[c] \in Inside,
           NEW d \in Clients \ {c}
    PROVE  pc[d] \notin Inside
  BY DEF MutualExclusion

(* The step of handler c moves no other handler.                           *)
LEMMA OthersStay ==
    ASSUME TypeOK, NEW c \in Clients, Handler(c), NEW d \in Clients \ {c}
    PROVE  /\ pc'[d] = pc[d] /\ slot'[d] = slot[d] /\ task'[d] = task[d]
           /\ pc'[d] \in Inside <=> pc[d] \in Inside
  BY OneAtATime DEF Untouched

(* The three steps of the abstract pool, and none.                         *)
Idle == Pooled' = Pooled /\ HeldMap' = HeldMap /\ finished' = finished

Took(c) ==
    /\ HeldMap[c] = NoTask /\ Pooled # <<>>
    /\ Pooled' = Tail(Pooled)
    /\ HeldMap' = [HeldMap EXCEPT ![c] = Head(Pooled)]
    /\ finished' = finished

GaveBack(c) ==
    /\ HeldMap[c] # NoTask
    /\ Pooled' = <<HeldMap[c]>> \o Pooled
    /\ HeldMap' = [HeldMap EXCEPT ![c] = NoTask]
    /\ finished' = finished

Finished(c) ==
    /\ HeldMap[c] # NoTask
    /\ Pooled' = Pooled
    /\ HeldMap' = [HeldMap EXCEPT ![c] = NoTask]
    /\ finished' = finished \cup {HeldMap[c]}

LEMMA HeldMapKept ==
    ASSUME \A c \in Clients : Held(c)' = Held(c)
    PROVE  HeldMap' = HeldMap
  BY DEF HeldMap

LEMMA HeldMapChanged ==
    ASSUME NEW c \in Clients, NEW x, Held(c)' = x,
           \A d \in Clients \ {c} : Held(d)' = Held(d)
    PROVE  HeldMap' = [HeldMap EXCEPT ![c] = x]
  BY DEF HeldMap

-----------------------------------------------------------------------------
(* The steps of a handler, as steps of the pool.                           *)

(* get_task and the locks, but for the one step that takes the task.       *)
LEMMA GetIdle ==
    ASSUME Inv, Sound, NEW c \in Clients, Handler(c),
           \/ GetLock(c) \/ GetLoad(c) \/ GetUnlock(c) \/ GetCopy(c)
           \/ PushLock(c) \/ PushUnlock(c)
    PROVE  Idle
<1> USE DEF Inv, Goto, shared
<1>1. /\ front' = front /\ q' = q /\ finished' = finished
  BY DEF GetLock, GetLoad, GetUnlock, GetCopy, PushLock, PushUnlock, history
<1>2. \A d \in Clients : pc'[d] \in {"write", "written"} <=>
                         pc[d] \in {"write", "written"}
  BY ZenonT(60) DEF GetLock, GetLoad, GetUnlock, GetCopy, PushLock, PushUnlock, TypeOK
<1>3. Pooled' = Pooled
  BY <1>1, <1>2, PooledKept DEF Filling
<1>4. \A d \in Clients \ {c} : Held(d)' = Held(d)
  BY <1>1, OthersStay, HeldKept
<1>5. Held(c)' = Held(c)
  <2>1. CASE GetLock(c) \/ PushLock(c)
    BY <2>1 DEF GetLock, PushLock, TypeOK, Held
  <2>2. CASE GetLoad(c)
    <3>1. task[c] = NoTask /\ task'[c] = NoTask /\ pc[c] = "load"
      BY <2>2 DEF GetLoad, Sound, Steps
    <3>2. pc'[c] = "advance" \/ (pc'[c] = "unlock" /\ slot'[c] = NoSlot)
      BY <2>2 DEF GetLoad, TypeOK
    <3> QED
      BY <3>1, <3>2 DEF Held
  <2>3. CASE GetUnlock(c)
    BY <1>1, <2>3 DEF GetUnlock, TypeOK, Held
  <2>4. CASE GetCopy(c)
    <3>1. /\ pc[c] = "copy" /\ slot[c] # NoSlot
          /\ pc'[c] = "reply" /\ task'[c] = q[slot[c]]
      BY <2>4 DEF GetCopy, TypeOK
    <3> QED
      BY <3>1 DEF Held
  <2>5. CASE PushUnlock(c)
    BY <2>5 DEF PushUnlock, TypeOK, Held
  <2> QED
    BY <2>1, <2>2, <2>3, <2>4, <2>5
<1>6. HeldMap' = HeldMap
  BY <1>4, <1>5, HeldMapKept
<1> QED
  BY <1>1, <1>3, <1>6 DEF Idle

(* The loop of handle_client: only a RESULT matters to the pool.           *)
LEMMA LoopIdle ==
    ASSUME Inv, Sound, harm' = {}, NEW c \in Clients, Handler(c),
           \/ GiveUp(c) \/ HandleGet(c) \/ HandleClose(c) \/ HandleInvalid(c)
           \/ Reply(c) \/ ReplyError(c) \/ ReplyKilled(c)
    PROVE  Idle
<1> USE DEF Inv, Goto, shared
<1>1. /\ front' = front /\ q' = q /\ finished' = finished
      /\ task' = task /\ slot' = slot
  BY DEF GiveUp, HandleGet, HandleClose, HandleInvalid, Receive, Reply,
         ReplyError, ReplyKilled, history
<1>2. /\ pc[c] \in {"recv", "reply"} /\ pc'[c] \in {"recv", "get", "push", "exited"}
      /\ pc'[c] = "exited" => task[c] = NoTask
      /\ \A d \in Clients \ {c} : pc'[d] = pc[d]
  <2>1. CASE GiveUp(c)
    BY <2>1 DEF GiveUp, LeavesFor, TypeOK
  <2>2. CASE HandleGet(c) \/ HandleInvalid(c)
    BY <2>2 DEF HandleGet, HandleInvalid, Receive, TypeOK
  <2>3. CASE HandleClose(c)
    BY <2>3 DEF HandleClose, Receive, LeavesFor, TypeOK
  <2>4. CASE Reply(c) \/ ReplyError(c)
    BY <2>4 DEF Reply, ReplyError, TypeOK
  <2>5. CASE ReplyKilled(c)
    BY <2>5 DEF ReplyKilled, TypeOK
  <2> QED
    BY <2>1, <2>2, <2>3, <2>4, <2>5
<1>3. Pooled' = Pooled
  BY <1>1, <1>2, PooledKept DEF Filling
<1>4. \A d \in Clients \ {c} : Held(d)' = Held(d)
  BY <1>1, <1>2, HeldKept
<1>5. Held(c)' = Held(c)
  BY <1>1, <1>2 DEF Held
<1>6. HeldMap' = HeldMap
  BY <1>4, <1>5, HeldMapKept
<1> QED
  BY <1>1, <1>3, <1>6 DEF Idle

(* A RESULT, from a client that has a task or from one that has none.      *)
LEMMA ResultFinishes ==
    ASSUME Inv, NEW c \in Clients, HandleResult(c)
    PROVE  Idle \/ Finished(c)
<1> USE DEF Inv, shared
<1>1. /\ front' = front /\ q' = q /\ slot' = slot /\ pc' = pc /\ pc[c] = "recv"
      /\ \A d \in Clients \ {c} : task'[d] = task[d]
  BY DEF HandleResult, Receive, TypeOK
<1>2. Pooled' = Pooled
  BY <1>1, PooledKept DEF Filling
<1>3. \A d \in Clients \ {c} : Held(d)' = Held(d)
  BY <1>1, HeldKept
<1>4. CASE task[c] = NoTask
  <2>1. task' = task /\ finished' = finished
    BY <1>4 DEF HandleResult
  <2>2. HeldMap' = HeldMap
    BY <1>1, <1>3, <2>1, HeldKept, HeldMapKept
  <2> QED
    BY <1>2, <2>1, <2>2 DEF Idle
<1>5. CASE task[c] # NoTask
  <2>1. task'[c] = NoTask /\ finished' = finished \cup {task[c]}
    BY <1>5 DEF HandleResult, TypeOK
  <2>2. Held(c) = task[c] /\ Held(c)' = NoTask /\ HeldMap[c] = Held(c)
    BY <1>1, <2>1 DEF Held, HeldMap
  <2>3. HeldMap' = [HeldMap EXCEPT ![c] = NoTask]
    BY <1>3, <2>2, HeldMapChanged
  <2> QED
    BY <1>2, <1>5, <2>1, <2>2, <2>3 DEF Finished
<1> QED
  BY <1>4, <1>5

(* front moves on: the first task goes to the client.                      *)
LEMMA AdvanceTakes ==
    ASSUME Inv, Sound, NEW c \in Clients, GetAdvance(c)
    PROVE  Took(c)
<1> DEFINE F == Filled(front)
<1>1. /\ pc[c] = "advance" /\ pc'[c] = "unlock" /\ slot[c] = front /\ front # Back
      /\ front \in Places /\ slot'[c] = front /\ slot'[c] # NoSlot
      /\ task[c] = NoTask /\ task' = task /\ slot' = slot
      /\ q' = q /\ finished' = finished /\ front' = (front + 1) % Slots
      /\ \A d \in Clients \ {c} : pc'[d] = pc[d]
  BY DEF Inv, TypeOK, Sound, Steps, GetAdvance, Goto, history
<1>2. \A d \in Clients \ {c} : pc[d] \notin Inside
  BY <1>1, OthersOutside DEF Inv, Sound, Inside
<1>3. Filling = FALSE /\ Filling' = FALSE
  BY <1>1, <1>2 DEF Filling, Inside
<1>4. /\ F \in 1..(Slots - 1) /\ Place(front, 0) = front
      /\ front' \in Places /\ Filled(front') = F - 1
      /\ \A k \in 0..(Slots - 2) : Place(front', k) = Place(front, k + 1)
  <2>1. /\ Filled(front) \in 0..(Slots - 1) /\ (Filled(front) = 0 <=> front = Back)
        /\ Place(front, 0) = front
    BY <1>1, RingPlaces, Zenon
  <2>2. /\ front' \in Places /\ Filled(front') = Filled(front) - 1
        /\ \A k \in 0..(Slots - 2) : Place(front', k) = Place(front, k + 1)
    BY <1>1, RingAdvance, Zenon
  <2>3. Slots \in Nat
    BY QueueAssumption
  <2> HIDE DEF F
  <2>4. Filled(front) \in 1..(Slots - 1)
    BY <1>1, <2>1, <2>3
  <2> QED
    BY <2>1, <2>2, <2>4 DEF F
<1>5. front \in Int /\ front' \in Int /\ Slots \in Nat
  BY <1>1, <1>4, QueueAssumption DEF Places
<1>6. /\ Pooled = [i \in 1..F |-> q[Place(front, i - 1)]]
      /\ Pooled' = [i \in 1..(F - 1) |-> q[Place(front', i - 1)]]
  <2>1. Pooled = Contents(front, q, FALSE) /\ Pooled' = Contents(front', q, FALSE)
    BY <1>1, <1>3, PooledIs, PooledBecomes, Zenon
  <2>2. Pooled' = [i \in 1..Filled(front') |-> q[Place(front', i - 1)]]
    BY <1>5, <2>1, ContentsAre, Zenon
  <2>3. Pooled = [i \in 1..F |-> q[Place(front, i - 1)]]
    BY <1>5, <2>1, ContentsAre, Zenon
  <2>4. Filled(front') = F - 1
    BY <1>4
  <2> HIDE DEF F
  <2> QED
    BY <2>2, <2>3, <2>4, Zenon
<1>7. Held(c) = NoTask /\ Held(c)' = q[front]
  BY <1>1 DEF Held
<1>8. \A d \in Clients \ {c} : Held(d)' = Held(d)
  BY <1>1, HeldKept
<1>9. HeldMap' = [HeldMap EXCEPT ![c] = q[front]] /\ HeldMap[c] = NoTask
  BY <1>7, <1>8, HeldMapChanged DEF HeldMap
<1> HIDE DEF F
<1>10. Pooled \in Seq(Tasks) /\ DOMAIN Pooled = 1..F /\ Len(Pooled) = F
  BY <1>4, <1>6 DEF Sound, Conserved
<1>11. Pooled # <<>> /\ Head(Pooled) = q[front]
  <2>1. 1 \in 1..F /\ 1 - 1 = 0
    BY <1>4
  <2>2. Pooled[1] = q[front]
    BY <1>4, <1>6, <2>1
  <2> QED
    BY <1>4, <1>10, <2>2
<1>12. Pooled' = Tail(Pooled)
  <2>1. \A i \in 1..(F - 1) : q[Place(front', i - 1)] = Pooled[i + 1]
    <3> SUFFICES ASSUME NEW i \in 1..(F - 1)
                 PROVE  q[Place(front', i - 1)] = Pooled[i + 1]
      OBVIOUS
    <3>1. /\ i - 1 \in 0..(Slots - 2) /\ i + 1 \in 1..F
          /\ (i - 1) + 1 = (i + 1) - 1
      BY <1>4, <1>5
    <3>2. Place(front', i - 1) = Place(front, (i - 1) + 1)
      BY <1>4, <3>1
    <3>3. Pooled[i + 1] = q[Place(front, (i + 1) - 1)]
      BY <1>6, <3>1
    <3> QED
      BY <3>1, <3>2, <3>3
  <2>2. Pooled' = [i \in 1..(F - 1) |-> Pooled[i + 1]]
    BY <1>6, <2>1, Zenon
  <2> DEFINE rest == Tail(Pooled)
  <2>3. /\ rest \in Seq(Tasks) /\ Len(rest) = F - 1
        /\ \A i \in 1..(F - 1) : rest[i] = Pooled[i + 1]
    BY <1>4, <1>10, <1>11
  <2> HIDE DEF rest
  <2>4. rest = [i \in 1..(F - 1) |-> rest[i]]
    BY <2>3
  <2>5. Pooled' = rest
    BY <2>2, <2>3, <2>4, Zenon
  <2> QED
    BY <2>5 DEF rest
<1> QED
  BY <1>1, <1>9, <1>11, <1>12 DEF Took

(* front moves back, over a place that was not in use.                     *)
LEMMA RetreatIdle ==
    ASSUME Inv, Sound, harm' = {}, NEW c \in Clients, PushRetreat(c)
    PROVE  Idle /\ front' # Back
<1> DEFINE F == Filled(front)
<1>1. /\ pc[c] = "retreat" /\ pc'[c] = "write" /\ task[c] # NoTask
      /\ task' = task /\ q' = q /\ finished' = finished
      /\ front \in Places /\ front' = (front - 1) % Slots
      /\ \A d \in Clients \ {c} : pc'[d] = pc[d] /\ slot'[d] = slot[d]
  BY DEF Inv, TypeOK, PushRetreat, Goto
<1>2. \A d \in Clients \ {c} : pc[d] \notin Inside
  BY <1>1, OthersOutside DEF Inv, Sound, Inside
<1>3. Filling = FALSE /\ Filling' = TRUE
  BY <1>1, <1>2 DEF Filling, Inside
<1>4. front \in Int /\ Slots \in Nat /\ F \in 0..(Slots - 1) /\ Len(TaskList) < Slots
      /\ Len(TaskList) \in Nat
  BY <1>1, RingPlaces, QueueAssumption DEF Places
<1>5. Pooled = [i \in 1..F |-> q[Place(front, i - 1)]]
  <2>1. Pooled = Contents(front, q, FALSE)
    BY <1>3, PooledIs, Zenon
  <2> QED
    BY <1>4, <2>1, ContentsAre, Zenon
<1>6. Held(c) = task[c] /\ Held(c)' = task[c] /\ HeldMap[c] = Held(c)
  BY <1>1 DEF Held, HeldMap
<1>7. F + 1 < Slots
  <2>1. Len(Pooled) < Len(TaskList)
    BY <1>1, <1>6, Room DEF Sound
  <2> HIDE DEF F
  <2>2. Len(Pooled) = F
    BY <1>4, <1>5 DEF Sound, Conserved
  <2> QED
    BY <1>4, <2>1, <2>2
<1>8. /\ front' \in Places /\ front' # Back /\ Filled(front') = F + 1
      /\ \A k \in 0..(Slots - 2) : Place(front', k + 1) = Place(front, k)
  BY <1>1, <1>7, RingRetreat
<1>9. Pooled' = [i \in 1..((F + 1) - 1) |-> q[Place(front', i)]]
  <2>1. Pooled' = Contents(front', q, TRUE)
    BY <1>1, <1>3, PooledBecomes, Zenon
  <2>2. front' \in Int
    BY <1>8 DEF Places
  <2>3. Pooled' = [i \in 1..(Filled(front') - 1) |-> q[Place(front', i)]]
    BY <2>1, <2>2, ContentsAre, Zenon
  <2>4. Filled(front') = F + 1
    BY <1>8
  <2> HIDE DEF F
  <2> QED
    BY <2>3, <2>4, Zenon
<1>10. Pooled' = Pooled
  <2> HIDE DEF F
  <2>1. (F + 1) - 1 = F
    BY <1>4
  <2>2. \A i \in 1..F : q[Place(front', i)] = q[Place(front, i - 1)]
    <3> SUFFICES ASSUME NEW i \in 1..F
                 PROVE  q[Place(front', i)] = q[Place(front, i - 1)]
      OBVIOUS
    <3>1. i - 1 \in 0..(Slots - 2) /\ (i - 1) + 1 = i
      BY <1>4, <1>7
    <3> QED
      BY <1>8, <3>1
  <2> QED
    BY <1>5, <1>9, <2>1, <2>2, Zenon
<1>11. \A d \in Clients \ {c} : Held(d)' = Held(d)
  BY <1>1, HeldKept
<1>12. HeldMap' = HeldMap
  BY <1>6, <1>11, HeldMapKept
<1> QED
  BY <1>1, <1>8, <1>10, <1>12 DEF Idle

(* The string of the place that front is at is written.                    *)
LEMMA WriteIdle ==
    ASSUME Inv, Sound, harm' = {}, NEW c \in Clients, PushWrite(c)
    PROVE  Idle /\ slot[c] \notin Uncopied
<1> DEFINE F == Filled(front)
<1>1. /\ pc[c] = "write" /\ task[c] # NoTask /\ slot[c] = front /\ front \in Places
      /\ q \in [Places -> Texts]
  BY DEF Inv, TypeOK, Sound, Steps, PushWrite
<1>2. /\ pc'[c] = "written" /\ q' = [q EXCEPT ![front] = Garbled]
      /\ slot[c] \notin Uncopied
      /\ task' = task /\ slot' = slot /\ finished' = finished /\ front' = front
      /\ \A d \in Clients \ {c} : pc'[d] = pc[d]
  BY <1>1 DEF Inv, TypeOK, PushWrite
<1>3. \A d \in Clients \ {c} : pc[d] \notin Inside
  BY <1>1, OthersOutside DEF Inv, Sound, Inside
<1>4. Filling = TRUE /\ Filling' = TRUE
  BY <1>1, <1>2 DEF Filling
<1>5. /\ front \in Int /\ Slots \in Nat /\ F \in 0..(Slots - 1)
      /\ \A k \in 1..(Slots - 1) : Place(front, k) # front
      /\ \A k \in 0..(Slots - 1) : Place(front, k) \in Places
  <2>1. front \in Int /\ Slots \in Nat
    BY <1>1, QueueAssumption DEF Places
  <2> QED
    BY <1>1, <2>1, RingPlaces, Zenon
<1>6. /\ Pooled = [i \in 1..(F - 1) |-> q[Place(front, i)]]
      /\ Pooled' = [i \in 1..(F - 1) |-> q'[Place(front, i)]]
  <2>1. Pooled = Contents(front, q, TRUE) /\ Pooled' = Contents(front, q', TRUE)
    BY <1>2, <1>4, PooledIs, PooledBecomes, Zenon
  <2> QED
    BY <1>5, <2>1, ContentsAre, Zenon
<1>7. Pooled' = Pooled
  <2> HIDE DEF F
  <2>1. \A i \in 1..(F - 1) : q'[Place(front, i)] = q[Place(front, i)]
    <3> SUFFICES ASSUME NEW i \in 1..(F - 1)
                 PROVE  q'[Place(front, i)] = q[Place(front, i)]
      OBVIOUS
    <3>1. i \in 1..(Slots - 1) /\ i \in 0..(Slots - 1)
      BY <1>5
    <3> QED
      BY <1>1, <1>2, <1>5, <3>1
  <2> QED
    BY <1>6, <2>1, Zenon
<1>8. Held(c)' = Held(c)
  BY <1>1, <1>2 DEF Held
<1>9. \A d \in Clients \ {c} : Held(d)' = Held(d)
  <2> SUFFICES ASSUME NEW d \in Clients \ {c}
               PROVE  Held(d)' = Held(d)
    OBVIOUS
  <2>1. ASSUME pc[d] \in {"unlock", "copy"}, slot[d] # NoSlot
        PROVE  q'[slot[d]] = q[slot[d]]
    <3>1. pc[d] = "copy"
      BY <1>3, <2>1 DEF Inside
    <3>2. slot[d] \in Uncopied /\ slot[d] \in Places
      BY <2>1, <3>1 DEF Uncopied, Inv, TypeOK
    <3> QED
      BY <1>1, <1>2, <3>2
  <2> QED
    BY <1>2, <2>1, HeldKept
<1>10. HeldMap' = HeldMap
  BY <1>8, <1>9, HeldMapKept
<1> QED
  BY <1>2, <1>7, <1>10 DEF Idle

(* The string is complete: the task is back, in front of the others.       *)
LEMMA WrittenGivesBack ==
    ASSUME Inv, Sound, NEW c \in Clients, PushWritten(c)
    PROVE  GaveBack(c)
<1> DEFINE F == Filled(front)
<1>1. /\ pc[c] = "written" /\ task[c] # NoTask /\ slot[c] = front /\ front \in Places
      /\ q \in [Places -> Texts] /\ front # Back /\ slot[c] \notin Uncopied
  BY DEF Inv, TypeOK, Sound, Steps, PushWritten, Goto
<1>2. /\ pc'[c] = "release" /\ q' = [q EXCEPT ![front] = task[c]]
      /\ task' = task /\ slot' = slot /\ finished' = finished /\ front' = front
      /\ \A d \in Clients \ {c} : pc'[d] = pc[d]
  BY <1>1 DEF Inv, TypeOK, PushWritten, Goto, history
<1>3. \A d \in Clients \ {c} : pc[d] \notin Inside
  BY <1>1, OthersOutside DEF Inv, Sound, Inside
<1>4. Filling = TRUE /\ Filling' = FALSE
  BY <1>1, <1>2, <1>3 DEF Filling, Inside
<1>5. /\ front \in Int /\ Slots \in Nat /\ F \in 1..(Slots - 1)
      /\ \A k \in 1..(Slots - 1) : Place(front, k) # front
      /\ \A k \in 0..(Slots - 1) : Place(front, k) \in Places
      /\ Place(front, 0) = front
  <2>1. front \in Int /\ Slots \in Nat
    BY <1>1, QueueAssumption DEF Places
  <2>2. /\ Filled(front) \in 0..(Slots - 1) /\ (Filled(front) = 0 <=> front = Back)
        /\ \A k \in 1..(Slots - 1) : Place(front, k) # front
        /\ \A k \in 0..(Slots - 1) : Place(front, k) \in Places
        /\ Place(front, 0) = front
    BY <1>1, RingPlaces, Zenon
  <2> HIDE DEF F
  <2>3. Filled(front) \in 1..(Slots - 1)
    BY <1>1, <2>1, <2>2
  <2> QED
    BY <2>1, <2>2, <2>3 DEF F
<1>6. /\ Pooled = [i \in 1..(F - 1) |-> q[Place(front, i)]]
      /\ Pooled' = [i \in 1..F |-> q'[Place(front, i - 1)]]
  <2>1. Pooled = Contents(front, q, TRUE) /\ Pooled' = Contents(front, q', FALSE)
    BY <1>2, <1>4, PooledIs, PooledBecomes, Zenon
  <2> QED
    BY <1>5, <2>1, ContentsAre, Zenon
<1>7. Held(c) = task[c] /\ Held(c)' = NoTask /\ HeldMap[c] = task[c]
  BY <1>1, <1>2 DEF Held, HeldMap
<1>8. Pooled' = <<task[c]>> \o Pooled
  <2> HIDE DEF F
  <2>1. Pooled \in Seq(Tasks) /\ Len(Pooled) = F - 1 /\ task[c] \in Tasks
    BY <1>1, <1>5, <1>6, <1>7 DEF Sound, Conserved
  <2> DEFINE new == <<task[c]>> \o Pooled
  <2>2. /\ new \in Seq(Tasks) /\ Len(new) = F /\ new[1] = task[c]
        /\ \A i \in 2..F : new[i] = Pooled[i - 1]
    BY <1>5, <2>1
  <2> HIDE DEF new
  <2>3. \A i \in 1..F : Pooled'[i] = new[i]
    <3> SUFFICES ASSUME NEW i \in 1..F
                 PROVE  Pooled'[i] = new[i]
      OBVIOUS
    <3>1. CASE i = 1
      <4>1. i - 1 = 0 /\ Pooled'[i] = q'[Place(front, i - 1)]
        BY <1>6, <3>1
      <4>2. Pooled'[i] = q'[front]
        BY <1>5, <4>1
      <4> QED
        BY <1>1, <1>2, <2>2, <3>1, <4>2
    <3>2. CASE i # 1
      <4>1. i - 1 \in 1..(F - 1) /\ i - 1 \in 1..(Slots - 1) /\ i \in 2..F
        BY <1>5, <3>2
      <4>2. Pooled'[i] = q'[Place(front, i - 1)] /\ Pooled[i - 1] = q[Place(front, i - 1)]
        BY <1>6, <4>1
      <4>3. Place(front, i - 1) \in Places /\ Place(front, i - 1) # front
        BY <1>5, <4>1
      <4> QED
        BY <1>1, <1>2, <2>2, <4>1, <4>2, <4>3
    <3> QED
      BY <3>1, <3>2
  <2>4. DOMAIN new = 1..F
    BY <2>2
  <2>5. Pooled' = new
    <3>1. new = [i \in 1..F |-> new[i]]
      BY <2>2, <2>4
    <3>2. Pooled' = [i \in 1..F |-> Pooled'[i]]
      BY <1>6, Zenon
    <3> QED
      BY <2>3, <3>1, <3>2, Zenon
  <2> QED
    BY <2>5 DEF new
<1>9. \A d \in Clients \ {c} : Held(d)' = Held(d)
  <2> SUFFICES ASSUME NEW d \in Clients \ {c}
               PROVE  Held(d)' = Held(d)
    OBVIOUS
  <2>1. ASSUME pc[d] \in {"unlock", "copy"}, slot[d] # NoSlot
        PROVE  q'[slot[d]] = q[slot[d]]
    <3>1. pc[d] = "copy"
      BY <1>3, <2>1 DEF Inside
    <3>2. slot[d] \in Uncopied /\ slot[d] \in Places
      BY <2>1, <3>1 DEF Uncopied, Inv, TypeOK
    <3> QED
      BY <1>1, <1>2, <3>2
  <2> QED
    BY <1>2, <2>1, HeldKept
<1>10. HeldMap' = [HeldMap EXCEPT ![c] = NoTask]
  BY <1>7, <1>9, HeldMapChanged
<1> QED
  BY <1>1, <1>2, <1>7, <1>8, <1>10 DEF GaveBack

LEMMA HandlerPool ==
    ASSUME Inv, Sound, harm' = {}, NEW c \in Clients, Handler(c)
    PROVE  Idle \/ Took(c) \/ GaveBack(c) \/ Finished(c)
<1>1. CASE GetLock(c) \/ GetLoad(c) \/ GetUnlock(c) \/ GetCopy(c)
              \/ PushLock(c) \/ PushUnlock(c)
  BY <1>1, GetIdle
<1>2. CASE GiveUp(c) \/ HandleGet(c) \/ HandleClose(c) \/ HandleInvalid(c)
              \/ Reply(c) \/ ReplyError(c) \/ ReplyKilled(c)
  BY <1>2, LoopIdle
<1>3. CASE GetAdvance(c) \/ PushRetreat(c) \/ PushWrite(c) \/ PushWritten(c)
              \/ HandleResult(c)
  BY <1>3, AdvanceTakes, RetreatIdle, WriteIdle, WrittenGivesBack, ResultFinishes
<1> QED
  BY <1>1, <1>2, <1>3 DEF Handler

(* The rest of the program leaves the pool alone.                          *)
LEMMA OthersPool ==
    ASSUME Inv, Sound, NEW c \in Clients,
           \/ Expire(c) \/ Accept(c) \/ Connect(c) \/ ScriptedClient(c)
           \/ SendResult(c) \/ SendAny(c) \/ ClientEnds(c)
    PROVE  /\ Idle /\ sem' = sem /\ harm' = harm
           /\ \A d \in Clients : Steps(d)'
<1> USE DEF shared, handler, history
<1>1. /\ front' = front /\ q' = q /\ finished' = finished
      /\ sem' = sem /\ harm' = harm /\ task' = task /\ slot' = slot
  BY DEF Expire, Accept, Connect, ScriptedClient, SendGet, ReceiveTask, ReceiveEnd,
         SendResult, SendAny, ClientEnds
<1>2. \/ pc' = pc
      \/ /\ pc[c] = "none" /\ pc'[c] \in {"recv", "exited"}
         /\ \A d \in Clients \ {c} : pc'[d] = pc[d]
  BY DEF Expire, Accept, Connect, ScriptedClient, SendGet, ReceiveTask, ReceiveEnd,
         SendResult, SendAny, ClientEnds, Inv, TypeOK
<1>3. pc[c] = "none" => task[c] = NoTask
  BY DEF Sound, Steps
<1>4. \A d \in Clients : Held(d)' = Held(d)
  BY <1>1, <1>2, <1>3 DEF Held
<1>5. Pooled' = Pooled
  BY <1>1, <1>2, PooledKept DEF Filling
<1>6. HeldMap' = HeldMap
  BY <1>4, HeldMapKept
<1>7. Uncopied' = Uncopied
  BY <1>1, <1>2 DEF Uncopied
<1>8. ASSUME NEW d \in Clients PROVE Steps(d)'
  BY <1>1, <1>2, <1>7 DEF Sound, Steps
<1> QED
  BY <1>1, <1>5, <1>6, <1>8 DEF Idle

-----------------------------------------------------------------------------
(* The invariant.                                                          *)

(* Handlers c does not name are not where Steps says anything of front.    *)
LEMMA StepsStay ==
    ASSUME Inv, Sound, NEW c \in Clients, Handler(c), NEW d \in Clients \ {c},
           \/ front' = front /\ Uncopied' \subseteq Uncopied
           \/ pc[c] \in Inside
    PROVE  Steps(d)'
<1>1. pc'[d] = pc[d] /\ slot'[d] = slot[d] /\ task'[d] = task[d]
  BY OthersStay DEF Inv
<1>2. CASE front' = front /\ Uncopied' \subseteq Uncopied
  BY <1>1, <1>2 DEF Sound, Steps
<1>3. CASE pc[c] \in Inside
  <2>1. pc[d] \notin Inside
    BY <1>3, OthersOutside DEF Inv, Sound
  <2> QED
    BY <1>1, <2>1 DEF Sound, Steps, Inside
<1> QED
  BY <1>2, <1>3

LEMMA StepsHandler ==
    ASSUME Inv, Sound, harm' = {}, NEW c \in Clients, Handler(c)
    PROVE  \A d \in Clients : Steps(d)'
<1> USE DEF Inv, Goto, shared, history
<1>1. CASE GetLoad(c) \/ GetAdvance(c) \/ GetUnlock(c) \/ PushUnlock(c)
  <2>1. pc[c] \in Inside
    BY <1>1 DEF GetLoad, GetAdvance, GetUnlock, PushUnlock, Inside
  <2>2. Steps(c)'
    BY <1>1, ZenonT(60) DEF GetLoad, GetAdvance, GetUnlock, PushUnlock, TypeOK, Sound, Steps
  <2> QED
    BY <2>1, <2>2, StepsStay
<1>2. CASE PushRetreat(c)
  <2>1. pc[c] \in Inside /\ front' # Back
    BY <1>2, RetreatIdle DEF PushRetreat, Inside
  <2>2. Steps(c)'
    BY <1>2, <2>1 DEF PushRetreat, TypeOK, Sound, Steps
  <2> QED
    BY <2>1, <2>2, StepsStay
<1>3. CASE PushWrite(c) \/ PushWritten(c)
  <2>1. pc[c] \in Inside /\ front' = front /\ slot' = slot /\ task' = task
    BY <1>3 DEF PushWrite, PushWritten, Inside
  <2>2. \A d \in Clients : pc'[d] = "copy" <=> pc[d] = "copy"
    BY <1>3 DEF PushWrite, PushWritten, TypeOK
  <2>3. Uncopied' = Uncopied
    BY <2>1, <2>2 DEF Uncopied
  <2>4. PushWrite(c) => slot[c] \notin Uncopied
    BY WriteIdle
  <2>5. Steps(c)'
    BY <1>3, <2>1, <2>3, <2>4 DEF PushWrite, PushWritten, TypeOK, Sound, Steps
  <2> QED
    BY <2>1, <2>5, StepsStay
<1>4. CASE GetLock(c) \/ PushLock(c) \/ GetCopy(c)
  <2>1. front' = front /\ \A d \in Clients \ {c} : slot'[d] = slot[d]
    BY <1>4 DEF GetLock, PushLock, GetCopy, TypeOK
  <2>2. \A d \in Clients : pc'[d] = "copy" => pc[d] = "copy" /\ d # c
    BY <1>4 DEF GetLock, PushLock, GetCopy, TypeOK
  <2>3. Uncopied' \subseteq Uncopied
    BY <2>1, <2>2 DEF Uncopied
  <2>4. Steps(c)'
    BY <1>4, ZenonT(60) DEF GetLock, PushLock, GetCopy, TypeOK, Sound, Steps
  <2> QED
    BY <2>1, <2>3, <2>4, StepsStay
<1>5. CASE \/ GiveUp(c) \/ HandleGet(c) \/ HandleResult(c) \/ HandleClose(c)
           \/ HandleInvalid(c) \/ Reply(c) \/ ReplyError(c) \/ ReplyKilled(c)
  <2>1. front' = front /\ slot' = slot
    BY <1>5 DEF GiveUp, HandleGet, HandleResult, HandleClose, HandleInvalid, Receive,
                Reply, ReplyError, ReplyKilled
  <2>2. /\ pc'[c] \in {"recv", "get", "push", "exited"}
        /\ pc'[c] = "get" => task'[c] = NoTask
        /\ \A d \in Clients \ {c} : pc'[d] = pc[d]
    <3>1. CASE GiveUp(c) \/ HandleClose(c)
      BY <3>1 DEF GiveUp, HandleClose, Receive, LeavesFor, TypeOK
    <3>2. CASE HandleGet(c) \/ HandleResult(c) \/ HandleInvalid(c)
      BY <3>2 DEF HandleGet, HandleResult, HandleInvalid, Receive, TypeOK
    <3>3. CASE Reply(c) \/ ReplyError(c) \/ ReplyKilled(c)
      BY <3>3 DEF Reply, ReplyError, ReplyKilled, TypeOK
    <3> QED
      BY <1>5, <3>1, <3>2, <3>3
  <2>3. Uncopied' \subseteq Uncopied
    BY <2>1, <2>2 DEF Uncopied
  <2>4. Steps(c)'
    BY <2>2 DEF Steps
  <2> QED
    BY <2>1, <2>3, <2>4, StepsStay
<1> QED
  BY <1>1, <1>2, <1>3, <1>4, <1>5 DEF Handler

(* The steps of the abstract pool keep every task in one place.            *)
LEMMA PoolConserves ==
    ASSUME Sound, \/ Idle
                  \/ \E c \in Clients : Took(c) \/ GaveBack(c) \/ Finished(c)
    PROVE  Conserved(Pooled', HeldMap', finished')
<1>1. Conserved(Pooled, HeldMap, finished)
  BY DEF Sound
<1>2. CASE Idle
  BY <1>1, <1>2 DEF Idle
<1>3. ASSUME NEW c \in Clients, Took(c)
      PROVE  Conserved(Pooled', HeldMap', finished')
  BY <1>1, <1>3, TakeConserves DEF Took
<1>4. ASSUME NEW c \in Clients, GaveBack(c)
      PROVE  Conserved(Pooled', HeldMap', finished')
  BY <1>1, <1>4, GiveBackConserves DEF GaveBack
<1>5. ASSUME NEW c \in Clients, Finished(c)
      PROVE  Conserved(Pooled', HeldMap', finished')
  BY <1>1, <1>5, FinishConserves DEF Finished
<1> QED
  BY <1>2, <1>3, <1>4, <1>5

(* Harm that is done stays done.                                           *)
LEMMA HarmStays == [Next]_vars /\ harm' = {} => harm = {}
<1> SUFFICES ASSUME [Next]_vars, harm' = {} PROVE harm = {}
  OBVIOUS
<1> USE DEF history
<1>1. CASE UNCHANGED vars
  BY <1>1 DEF vars
<1>2. ASSUME NEW c \in Clients, Handler(c) PROVE harm = {}
  BY <1>2 DEF Handler, GetLock, GetLoad, GetAdvance, GetUnlock, GetCopy, PushLock,
              PushRetreat, PushWrite, PushWritten, PushUnlock, GiveUp, HandleGet,
              HandleResult, HandleClose, HandleInvalid, Receive, Reply, ReplyError,
              ReplyKilled
<1>3. ASSUME NEW c \in Clients,
             \/ Expire(c) \/ Accept(c) \/ HandlerSigterm(c) \/ Connect(c)
             \/ ScriptedClient(c) \/ SendResult(c) \/ SendAny(c) \/ ClientEnds(c)
      PROVE  harm = {}
  BY <1>3 DEF Expire, Accept, HandlerSigterm, Connect, ScriptedClient, SendGet,
              ReceiveTask, ReceiveEnd, SendResult, SendAny, ClientEnds
<1>4. CASE MainEnds
  BY <1>4 DEF MainEnds
<1> QED
  BY <1>1, <1>2, <1>3, <1>4 DEF Next

(* A step that does no harm is a step of the pool, or none.                *)
LEMMA SoundStep ==
    ASSUME Inv, Sound, [Next]_vars, harm' = {}
    PROVE  /\ \/ Idle
              \/ \E c \in Clients : Took(c) \/ GaveBack(c) \/ Finished(c)
           /\ \A d \in Clients : Steps(d)'
           /\ sem' # "gone"
<1>1. CASE UNCHANGED vars
  <2>1. UNCHANGED <<front, q, sem, pc, slot, task, finished, harm>>
    BY <1>1 DEF vars, shared, handler, history
  <2>2. Pooled' = Pooled /\ Uncopied' = Uncopied
    BY <2>1 DEF Pooled, Uncopied
  <2>3. \A c \in Clients : Held(c)' = Held(c)
    BY <2>1 DEF Held
  <2>4. \A d \in Clients : Steps(d)'
    BY <2>1, <2>2 DEF Sound, Steps
  <2> QED
    BY <2>1, <2>2, <2>3, <2>4, HeldMapKept DEF Idle, Sound
<1>2. ASSUME NEW c \in Clients, Handler(c)
      PROVE  sem' # "gone"
  <2>1. c # "gone"
    BY QueueAssumption
  <2> QED
    BY <1>2, <2>1 DEF Sound, Handler, GetLock, GetLoad, GetAdvance, GetUnlock, GetCopy,
              PushLock, PushRetreat, PushWrite, PushWritten, PushUnlock, GiveUp,
              HandleGet, HandleResult, HandleClose, HandleInvalid, Receive, Reply,
              ReplyError, ReplyKilled, P, V, shared
<1>3. ASSUME NEW c \in Clients, Handler(c)
      PROVE  /\ Idle \/ Took(c) \/ GaveBack(c) \/ Finished(c)
             /\ \A d \in Clients : Steps(d)'
  BY <1>3, HandlerPool, StepsHandler
<1>4. ASSUME NEW c \in Clients,
             \/ Expire(c) \/ Accept(c) \/ Connect(c) \/ ScriptedClient(c)
             \/ SendResult(c) \/ SendAny(c) \/ ClientEnds(c)
      PROVE  Idle /\ sem' # "gone" /\ \A d \in Clients : Steps(d)'
  BY <1>4, OthersPool DEF Sound
<1>5. ASSUME NEW c \in Clients PROVE ~HandlerSigterm(c)
  BY DEF HandlerSigterm
<1>6. ~MainEnds
  BY DEF MainEnds
<1> QED
  BY <1>1, <1>2, <1>3, <1>4, <1>5, <1>6 DEF Next

LEMMA SoundInit == Init => SoundInv
<1> SUFFICES ASSUME Init PROVE Sound
  BY DEF SoundInv
<1>1. /\ front = 0 /\ q = ReadTasks /\ sem = "free" /\ finished = {}
      /\ \A c \in Clients : pc[c] = "none" /\ task[c] = NoTask
  BY DEF Init
<1>2. \A c \in Clients : Steps(c)
  BY <1>1 DEF Steps
<1>3. HeldMap = [c \in Clients |-> NoTask]
  BY <1>1 DEF HeldMap, Held
<1>4. Slots \in Nat \ {0} /\ Len(TaskList) \in Nat /\ Len(TaskList) < Slots
      /\ TaskList \in Seq(Tasks) /\ DOMAIN TaskList = 1..Len(TaskList)
  BY QueueAssumption
<1>5. Pooled = TaskList
  <2>1. Filling = FALSE
    BY <1>1 DEF Filling
  <2>2. Filled(0) = Len(TaskList)
    <3>1. Len(TaskList) - 0 = Len(TaskList) /\ Len(TaskList) \in 0..(Slots - 1)
          /\ Len(TaskList) \in Int
      BY <1>4
    <3>2. Len(TaskList) % Slots = Len(TaskList)
      BY <3>1, Around, Zenon
    <3> QED
      BY <3>1, <3>2, Zenon DEF Filled, Back
  <2>3. \A i \in 1..Len(TaskList) : Place(0, i - 1) = i - 1
    BY <1>4, Around DEF Place
  <2>4. Pooled = [i \in 1..Len(TaskList) |-> ReadTasks[Place(0, i - 1)]]
    <3>1. Pooled = Contents(0, ReadTasks, FALSE)
      BY <1>1, <2>1, PooledIs, Zenon
    <3>2. 0 \in Int
      OBVIOUS
    <3>3. Pooled = [i \in 1..Filled(0) |-> ReadTasks[Place(0, i - 1)]]
      BY <3>1, <3>2, ContentsAre, Zenon
    <3> QED
      BY <2>2, <3>3, Zenon
  <2>5. \A i \in 1..Len(TaskList) : ReadTasks[Place(0, i - 1)] = TaskList[i]
    <3> SUFFICES ASSUME NEW i \in 1..Len(TaskList)
                 PROVE  ReadTasks[i - 1] = TaskList[i]
      BY <2>3
    <3>1. i - 1 \in Places /\ i - 1 < Len(TaskList) /\ (i - 1) + 1 = i
      BY <1>4 DEF Places
    <3> QED
      BY <3>1 DEF ReadTasks
  <2>6. TaskList = [i \in 1..Len(TaskList) |-> TaskList[i]]
    BY <1>4
  <2> QED
    BY <2>4, <2>5, <2>6, Zenon
<1>6. Conserved(TaskList, HeldMap, {})
  <2>1. HeldMap \in [Clients -> Tasks \cup {NoTask}]
    BY <1>3
  <2>2. \A i \in DOMAIN TaskList : TaskList[i] \in Tasks /\ TaskList[i] # NoTask
    BY QueueAssumption DEF Tasks
  <2>3. Apart(TaskList, HeldMap, {})
    BY <1>3, <2>2, QueueAssumption DEF Apart
  <2>4. Somewhere(TaskList, HeldMap, {})
    BY DEF Somewhere, Tasks
  <2> QED
    BY <1>4, <2>1, <2>3, <2>4 DEF Conserved
<1> QED
  BY <1>1, <1>2, <1>5, <1>6 DEF Sound

LEMMA SoundNext == Inv /\ SoundInv /\ [Next]_vars => SoundInv'
<1> SUFFICES ASSUME Inv, SoundInv, [Next]_vars, harm' = {}
             PROVE  Sound'
  BY DEF SoundInv
<1>1. Sound
  BY HarmStays DEF SoundInv
<1>2. Conserved(Pooled', HeldMap', finished')
  BY <1>1, SoundStep, PoolConserves
<1>3. (\A d \in Clients : Steps(d)') /\ sem' # "gone"
  BY <1>1, SoundStep
<1> QED
  BY <1>2, <1>3 DEF Sound

-----------------------------------------------------------------------------
(* What the code promises.                                                 *)

(* What is in one place is counted once.                                   *)
LEMMA ConservedCounts ==
    ASSUME NEW pool, NEW held, NEW done, Conserved(pool, held, done),
           NEW t \in Tasks
    PROVE  Cardinality({i \in DOMAIN pool : pool[i] = t})
           + Cardinality({c \in Clients : held[c] = t})
           + (IF t \in done THEN 1 ELSE 0) = 1
<1> DEFINE P0 == {i \in DOMAIN pool : pool[i] = t}
           H0 == {c \in Clients : held[c] = t}
<1>0. t # NoTask
  BY QueueAssumption
<1>1. CASE \E i \in DOMAIN pool : pool[i] = t
  <2>1. PICK i \in DOMAIN pool : pool[i] = t
    BY <1>1
  <2>2. P0 = {i} /\ H0 = {} /\ t \notin done
    BY <2>1 DEF Conserved, Apart
  <2>3. Cardinality(P0) = 1 /\ Cardinality(H0) = 0
    BY <2>2, FS_Singleton, FS_EmptySet
  <2> QED
    BY <2>2, <2>3
<1>2. CASE \E c \in Clients : held[c] = t
  <2>1. PICK c \in Clients : held[c] = t
    BY <1>2
  <2>2. P0 = {} /\ H0 = {c} /\ t \notin done
    BY <1>0, <2>1 DEF Conserved, Apart
  <2>3. Cardinality(P0) = 0 /\ Cardinality(H0) = 1
    BY <2>2, FS_Singleton, FS_EmptySet
  <2> QED
    BY <2>2, <2>3
<1>3. CASE t \in done
  <2>1. P0 = {} /\ H0 = {}
    BY <1>3 DEF Conserved, Apart
  <2>2. Cardinality(P0) = 0 /\ Cardinality(H0) = 0
    BY <2>1, FS_EmptySet
  <2> QED
    BY <1>3, <2>2
<1> QED
  BY <1>1, <1>2, <1>3 DEF Conserved, Somewhere

(* server.c's queue loses no task, hands none out twice at a time and books*)
(* none twice, for any number of tasks, places and clients, as long as none*)
(* of the four things has happened that it cannot survive.                 *)
THEOREM TasksAreConserved == Spec => []TaskConservation
<1>1. SoundInv => TaskConservation
  <2> SUFFICES ASSUME Sound, NEW t \in Tasks
               PROVE  Cardinality({i \in DOMAIN Pooled : Pooled[i] = t})
                      + Cardinality({c \in Clients : Held(c) = t})
                      + (IF t \in finished THEN 1 ELSE 0) = 1
    BY DEF SoundInv, TaskConservation
  <2>1. {c \in Clients : Held(c) = t} = {c \in Clients : HeldMap[c] = t}
    BY DEF HeldMap
  <2>2. Conserved(Pooled, HeldMap, finished)
    BY DEF Sound
  <2> HIDE DEF Pooled, HeldMap
  <2> QED
    BY <2>1, <2>2, ConservedCounts
<1>2. Init => Inv /\ SoundInv
  BY InitInv, SoundInit
<1>3. Inv /\ SoundInv /\ [Next]_vars => (Inv /\ SoundInv)'
  BY NextInv, SoundNext
<1> QED
  BY <1>1, <1>2, <1>3, PTL DEF Spec

(* The ring, the semaphore and the handlers of server.c implement a pool of*)
(* tasks: each step of theirs that does no harm takes the first task, puts *)
(* one back in front, finishes one, or leaves the pool alone.              *)
THEOREM QueueImplementsPool == Spec => ImplementsPool
<1>1. ASSUME Inv, SoundInv, [Next]_vars
      PROVE  [harm' = {} => Pool!Next]_<<Pooled, [c \in Clients |-> Held(c)], finished>>
  <2> SUFFICES ASSUME harm' = {}
               PROVE  \/ Pool!Next
                      \/ UNCHANGED <<Pooled, [c \in Clients |-> Held(c)], finished>>
    OBVIOUS
  <2>1. Sound
    BY <1>1, HarmStays DEF SoundInv
  <2>2. CASE Idle
    BY <2>2 DEF Idle, HeldMap
  <2>3. ASSUME NEW c \in Clients, Took(c)
        PROVE  Pool!Next
    BY <2>3 DEF Took, HeldMap, Pool!Next, Pool!Take
  <2>4. ASSUME NEW c \in Clients, GaveBack(c)
        PROVE  Pool!Next
    BY <2>4 DEF GaveBack, HeldMap, Pool!Next, Pool!GiveBack
  <2>5. ASSUME NEW c \in Clients, Finished(c)
        PROVE  Pool!Next
    BY <2>5 DEF Finished, HeldMap, Pool!Next, Pool!Finish
  <2> QED
    BY <1>1, <2>1, <2>2, <2>3, <2>4, <2>5, SoundStep
<1>2. Init => Inv /\ SoundInv
  BY InitInv, SoundInit
<1>3. Inv /\ SoundInv /\ [Next]_vars => (Inv /\ SoundInv)'
  BY NextInv, SoundNext
<1> QED
  BY <1>1, <1>2, <1>3, PTL DEF Spec, ImplementsPool

=============================================================================
