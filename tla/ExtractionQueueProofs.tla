------------------------ MODULE ExtractionQueueProofs ------------------------
(***************************************************************************)
(* Theorems about the extraction queue, for any tasks, keys, reservations   *)
(* and concurrency bound.  The inductive invariant QueueInv says what the   *)
(* drain loop leaves behind whenever it stops or sleeps.                    *)
(***************************************************************************)
EXTENDS ExtractionQueue, FiniteSetTheorems, TLAPS

Distinct(s) == \A i, j \in DOMAIN s : s[i] = s[j] => i = j

\* The loop's promises are finitely many and within the bound, and a loop that
\* has stopped has none.
LoopInv ==
  /\ IsFiniteSet(InFlight)
  /\ Cardinality(InFlight) <= Concurrency
  /\ proc = "off" => InFlight = {}

KeyInv == \A t, u \in Running : KeyOf[t] = KeyOf[u] => t = u

\* A drain that has returned stays alone until producers are accepted again.
DrainInv == drain = "done" => ~accepting /\ queue = <<>> /\ proc = "off"

QueueInv ==
  /\ QueueTypeOK /\ LoopInv /\ KeyInv
  /\ ReservationFences /\ NotStranded /\ DrainInv

-----------------------------------------------------------------------------
(* Sequences without repetitions                                           *)

\* Removing a position removes exactly the element that is there.
LEMMA DropAtFacts ==
  ASSUME NEW S, NEW s \in Seq(S), Distinct(s), NEW i \in DOMAIN s
  PROVE  /\ DropAt(s, i) \in Seq(S)
         /\ Distinct(DropAt(s, i))
         /\ \A x : In(x, DropAt(s, i)) <=> In(x, s) /\ x # s[i]
<1> DEFINE d == DropAt(s, i)
<1>1. Len(s) \in Nat /\ DOMAIN s = 1 .. Len(s) /\ i \in 1 .. Len(s) /\ Len(s) - 1 \in Nat
  OBVIOUS
<1>2. d = [j \in 1 .. (Len(s) - 1) |-> IF j < i THEN s[j] ELSE s[j + 1]]
  BY DEF DropAt
<1>3. \A j \in 1 .. (Len(s) - 1) : d[j] = IF j < i THEN s[j] ELSE s[j + 1]
  BY <1>2
<1>4. d \in [1 .. (Len(s) - 1) -> S]
  BY <1>1, <1>2
<1>5. d \in Seq(S) /\ DOMAIN d = 1 .. (Len(s) - 1)
  BY <1>1, <1>4
<1>6. Distinct(d)
  <2> DEFINE f(j) == IF j < i THEN j ELSE j + 1
  <2>1. \A j \in 1 .. (Len(s) - 1) : f(j) \in DOMAIN s /\ d[j] = s[f(j)]
    BY <1>1, <1>3
  <2>2. \A j, k \in 1 .. (Len(s) - 1) : f(j) = f(k) => j = k
    BY <1>1
  <2> HIDE DEF f, d
  <2> SUFFICES ASSUME NEW j \in 1 .. (Len(s) - 1), NEW k \in 1 .. (Len(s) - 1), d[j] = d[k]
               PROVE  j = k
    BY <1>5 DEF Distinct
  <2>3. f(j) = f(k)
    BY <2>1 DEF Distinct
  <2> QED
    BY <2>2, <2>3
<1>7. ASSUME NEW x, In(x, d) PROVE In(x, s) /\ x # s[i]
  <2> HIDE DEF d
  <2>1. PICK j \in 1 .. (Len(s) - 1) : d[j] = x
    BY <1>5, <1>7 DEF In
  <2>2. CASE j < i
    <3>1. j \in DOMAIN s /\ x = s[j] /\ j # i
      BY <1>1, <1>3, <2>1, <2>2
    <3> QED
      BY <3>1 DEF In, Distinct
  <2>3. CASE ~(j < i)
    <3>1. j + 1 \in DOMAIN s /\ x = s[j + 1] /\ j + 1 # i
      BY <1>1, <1>3, <2>1, <2>3
    <3> QED
      BY <3>1 DEF In, Distinct
  <2> QED
    BY <2>2, <2>3
<1>8. ASSUME NEW x, In(x, s), x # s[i] PROVE In(x, d)
  <2>1. PICK j \in DOMAIN s : s[j] = x
    BY <1>8 DEF In
  <2>2. j < i \/ j > i
    BY <1>1, <1>8, <2>1
  <2>3. CASE j < i
    BY <1>1, <1>3, <1>5, <2>1, <2>3 DEF In
  <2>4. CASE j > i
    <3>1. j - 1 \in 1 .. (Len(s) - 1) /\ ~(j - 1 < i) /\ (j - 1) + 1 = j
      BY <1>1, <2>1, <2>4
    <3> QED
      BY <1>3, <1>5, <2>1, <3>1 DEF In
  <2> QED
    BY <2>2, <2>3, <2>4
<1> HIDE DEF d
<1>9. \A x : In(x, d) <=> In(x, s) /\ x # s[i]
  BY <1>7, <1>8
<1> QED
  BY <1>5, <1>6, <1>9 DEF d

\* Removing an element removes it and nothing else.
LEMMA DropFacts ==
  ASSUME NEW S, NEW s \in Seq(S), Distinct(s), NEW x
  PROVE  /\ Drop(s, x) \in Seq(S)
         /\ Distinct(Drop(s, x))
         /\ \A y : In(y, Drop(s, x)) <=> In(y, s) /\ y # x
<1>1. CASE In(x, s)
  <2> DEFINE i == CHOOSE i \in DOMAIN s : s[i] = x
  <2>1. i \in DOMAIN s /\ s[i] = x
    BY <1>1 DEF In
  <2>2. Drop(s, x) = DropAt(s, i)
    BY <1>1 DEF Drop
  <2> HIDE DEF i
  <2> QED
    BY <2>1, <2>2, DropAtFacts
<1>2. CASE ~In(x, s)
  BY <1>2 DEF Drop, In
<1> QED
  BY <1>1, <1>2

\* Adding a new element at the end adds it and nothing else.
LEMMA AppendFacts ==
  ASSUME NEW S, NEW s \in Seq(S), Distinct(s), NEW x \in S, ~In(x, s)
  PROVE  /\ Append(s, x) \in Seq(S)
         /\ Distinct(Append(s, x))
         /\ \A y : In(y, Append(s, x)) <=> In(y, s) \/ y = x
<1> DEFINE a == Append(s, x)
<1>1. /\ a \in Seq(S) /\ DOMAIN a = 1 .. (Len(s) + 1) /\ DOMAIN s = 1 .. Len(s)
      /\ Len(s) \in Nat /\ a[Len(s) + 1] = x
      /\ \A j \in 1 .. Len(s) : a[j] = s[j]
  OBVIOUS
<1> HIDE DEF a
<1>2. Distinct(a)
  BY <1>1 DEF Distinct, In
<1>3. ASSUME NEW y PROVE In(y, a) <=> In(y, s) \/ y = x
  BY <1>1 DEF In
<1> QED
  BY <1>1, <1>2, <1>3 DEF a

\* So does adding it at the front.
LEMMA PrependFacts ==
  ASSUME NEW S, NEW s \in Seq(S), Distinct(s), NEW x \in S, ~In(x, s)
  PROVE  /\ <<x>> \o s \in Seq(S)
         /\ Distinct(<<x>> \o s)
         /\ \A y : In(y, <<x>> \o s) <=> In(y, s) \/ y = x
<1> DEFINE a == <<x>> \o s
<1>1. /\ a \in Seq(S) /\ DOMAIN a = 1 .. (Len(s) + 1) /\ DOMAIN s = 1 .. Len(s)
      /\ Len(s) \in Nat /\ a[1] = x
      /\ \A j \in 1 .. Len(s) : a[j + 1] = s[j]
  OBVIOUS
<1> HIDE DEF a
<1>2. \A j \in 2 .. (Len(s) + 1) : j - 1 \in 1 .. Len(s) /\ a[j] = s[j - 1]
  <2> TAKE j \in 2 .. (Len(s) + 1)
  <2>1. j - 1 \in 1 .. Len(s) /\ (j - 1) + 1 = j
    BY <1>1
  <2> QED
    BY <1>1, <2>1
<1>3. Distinct(a)
  <2> SUFFICES ASSUME NEW i \in DOMAIN a, NEW j \in DOMAIN a, a[i] = a[j] PROVE i = j
    BY DEF Distinct
  <2>0. \A k \in 2 .. (Len(s) + 1) : a[k] # x
    BY <1>1, <1>2 DEF In
  <2>1. CASE i = 1 /\ j # 1
    <3>1. j \in 2 .. (Len(s) + 1)
      BY <1>1, <2>1
    <3> QED
      BY <1>1, <2>0, <2>1, <3>1
  <2>2. CASE i # 1 /\ j = 1
    <3>1. i \in 2 .. (Len(s) + 1)
      BY <1>1, <2>2
    <3> QED
      BY <1>1, <2>0, <2>2, <3>1
  <2>3. CASE i # 1 /\ j # 1
    <3>1. i \in 2 .. (Len(s) + 1) /\ j \in 2 .. (Len(s) + 1)
      BY <1>1, <2>3
    <3>2. i - 1 = j - 1
      BY <1>1, <1>2, <3>1 DEF Distinct
    <3> QED
      BY <3>1, <3>2
  <2> QED
    BY <2>1, <2>2, <2>3
<1>4. ASSUME NEW y PROVE In(y, a) <=> In(y, s) \/ y = x
  <2>1. In(y, a) => In(y, s) \/ y = x
    <3> SUFFICES ASSUME NEW i \in DOMAIN a, a[i] = y, y # x PROVE In(y, s)
      BY DEF In
    <3>1. i \in 2 .. (Len(s) + 1)
      BY <1>1
    <3> QED
      BY <1>1, <1>2, <3>1 DEF In
  <2>2. In(y, s) => In(y, a)
    <3> SUFFICES ASSUME NEW i \in DOMAIN s, s[i] = y PROVE In(y, a)
      BY DEF In
    <3>1. i + 1 \in DOMAIN a /\ a[i + 1] = y
      BY <1>1
    <3> QED
      BY <3>1 DEF In
  <2>3. In(x, a)
    BY <1>1 DEF In
  <2> QED
    BY <2>1, <2>2, <2>3
<1> QED
  BY <1>1, <1>3, <1>4 DEF a

-----------------------------------------------------------------------------
(* The types                                                               *)

Statuses == {"new", "queued", "running", "settled", "done", "rejected"}

\* QueueTypeOK in terms of what is in the sequences.
TypeForm ==
  /\ queue \in Seq(Tasks) /\ Distinct(queue)
  /\ armed \in Seq(Tasks) /\ Distinct(armed)
  /\ status \in [Tasks -> Statuses]
  /\ reserved \subseteq Keys
  /\ accepting \in BOOLEAN
  /\ proc \in {"off", "scan", "parked", "woken"}
  /\ drain \in {"none", "waiting", "done"}
  /\ \A t \in Tasks : status[t] = "queued" <=> In(t, queue)
  /\ \A t \in Tasks : In(t, armed) => status[t] = "running"
  /\ aborted \subseteq Running

\* The two forms say the same.
LEMMA TypeForms == QueueTypeOK <=> TypeForm
<1>1. QueueTypeOK => TypeForm
  BY DEF QueueTypeOK, TypeForm, Statuses, Distinct, In, Running
<1>2. TypeForm => QueueTypeOK
  <2> SUFFICES ASSUME TypeForm PROVE QueueTypeOK
    OBVIOUS
  <2>1. \A i \in DOMAIN armed : armed[i] \in Tasks /\ In(armed[i], armed)
    BY DEF TypeForm, In
  <2>2. \A i \in DOMAIN armed : armed[i] \in Running
    BY <2>1 DEF TypeForm, Running
  <2>3. aborted \subseteq Tasks
    BY DEF TypeForm, Running
  <2> QED
    BY <2>2, <2>3 DEF QueueTypeOK, TypeForm, Statuses, Distinct
<1> QED
  BY <1>1, <1>2

\* The same, one step later.
LEMMA TypeFormsNext == TypeForm' => QueueTypeOK'
  BY TypeForms, PTL

\* The task a flush preempts is an armed one.
LEMMA PreemptedArmed ==
  ASSUME TypeForm, armed # <<>>, NEW k
  PROVE  Preempted(k) \in Running
<1>1. Len(armed) \in DOMAIN armed
  BY DEF TypeForm
<1>2. \E i \in DOMAIN armed : Preempted(k) = armed[i]
  BY <1>1 DEF Preempted
<1>3. \A i \in DOMAIN armed : armed[i] \in Tasks /\ In(armed[i], armed)
  BY DEF TypeForm, In
<1> QED
  BY <1>2, <1>3 DEF TypeForm, Running

\* A producer's task keeps the types.
LEMMA TypeEnqueue ==
  ASSUME QueueAssumption, TypeForm, NEW t \in Tasks, enqueue(t)
  PROVE  TypeForm'
<1>1. ~In(t, queue) /\ status[t] = "new" /\ t \notin Running
  BY DEF enqueue, TypeForm, Running
<1>2. status' = [status EXCEPT ![t] = "queued"]
  BY DEF enqueue, Become
<1>3. /\ queue' \in Seq(Tasks) /\ Distinct(queue')
      /\ \A y : In(y, queue') <=> In(y, queue) \/ y = t
  <2>1. queue \in Seq(Tasks) /\ Distinct(queue)
    BY DEF TypeForm
  <2>2. CASE t \in Front
    <3>1. queue' = <<t>> \o queue
      BY <2>2 DEF enqueue
    <3> QED
      BY <1>1, <2>1, <3>1, PrependFacts
  <2>3. CASE t \notin Front
    <3>1. queue' = Append(queue, t)
      BY <2>3 DEF enqueue
    <3> QED
      BY <1>1, <2>1, <3>1, AppendFacts
  <2> QED
    BY <2>2, <2>3
<1>4. /\ armed' \in Seq(Tasks) /\ Distinct(armed')
      /\ \A y : In(y, armed') => In(y, armed)
      /\ aborted' \subseteq Running
  <2>1. CASE armed = <<>> \/ t \notin Front
    BY <2>1 DEF enqueue, preemptRunning, TypeForm
  <2>2. CASE armed # <<>> /\ t \in Front
    <3>1. armed' = Drop(armed, Preempted(KeyOf[t])) /\ aborted' = aborted \cup {Preempted(KeyOf[t])}
      BY <2>2 DEF enqueue, preemptRunning
    <3> QED
      BY <2>2, <3>1, PreemptedArmed, DropFacts DEF TypeForm
  <2> QED
    BY <2>1, <2>2
<1>5. Running' = Running
  BY <1>1, <1>2 DEF Running, TypeForm
<1>6. proc' \in {"off", "scan", "parked", "woken"}
  BY DEF enqueue, StartOrWake, Start, Wake, TypeForm
<1>7. /\ status' \in [Tasks -> Statuses]
      /\ \A u \in Tasks : status'[u] = "queued" <=> In(u, queue')
      /\ \A u \in Tasks : In(u, armed') => status'[u] = "running"
  BY <1>1, <1>2, <1>3, <1>4 DEF TypeForm, Statuses
<1> QED
  BY <1>3, <1>4, <1>5, <1>6, <1>7 DEF enqueue, TypeForm

\* So does a task's start.
LEMMA TypeTake ==
  ASSUME QueueAssumption, TypeForm, NEW t \in Tasks, take(t)
  PROVE  TypeForm'
<1>1. PICK i \in DOMAIN queue : queue[i] = t /\ queue' = DropAt(queue, i)
  BY DEF take
<1>2. /\ queue' \in Seq(Tasks) /\ Distinct(queue')
      /\ \A y : In(y, queue') <=> In(y, queue) /\ y # t
  BY <1>1, DropAtFacts DEF TypeForm
<1>3. status[t] = "queued" /\ ~In(t, armed) /\ t \notin Running
  BY <1>1 DEF TypeForm, In, Running
<1>4. status' = [status EXCEPT ![t] = "running"]
  BY DEF take, Become
<1>5. /\ armed' \in Seq(Tasks) /\ Distinct(armed')
      /\ \A y : In(y, armed') => In(y, armed) \/ y = t
  BY <1>3, AppendFacts DEF take, TypeForm
<1>6. /\ status' \in [Tasks -> Statuses]
      /\ \A u \in Tasks : status'[u] = "queued" <=> In(u, queue')
      /\ \A u \in Tasks : In(u, armed') => status'[u] = "running"
  BY <1>2, <1>3, <1>4, <1>5 DEF TypeForm, Statuses
<1>7. aborted' \subseteq Running'
  BY <1>4 DEF take, TypeForm, Running
<1> QED
  BY <1>2, <1>5, <1>6, <1>7 DEF take, TypeForm

\* And the steps of a running task.
LEMMA TypeTaskStep ==
  ASSUME QueueAssumption, TypeForm, NEW t \in Tasks, TaskStep(t)
  PROVE  TypeForm'
<1>1. CASE disarm(t)
  <2>1. armed' = Drop(armed, t)
    BY <1>1 DEF disarm
  <2>2. /\ armed' \in Seq(Tasks) /\ Distinct(armed')
        /\ \A y : In(y, armed') <=> In(y, armed) /\ y # t
    BY <2>1, DropFacts DEF TypeForm
  <2> QED
    BY <1>1, <2>2 DEF disarm, TypeForm, Running
<1>2. CASE settle(t)
  <2>1. armed' = Drop(armed, t)
    BY <1>2 DEF settle
  <2>2. /\ armed' \in Seq(Tasks) /\ Distinct(armed')
        /\ \A y : In(y, armed') <=> In(y, armed) /\ y # t
    BY <2>1, DropFacts DEF TypeForm
  <2>3. status' = [status EXCEPT ![t] = "settled"] /\ status[t] = "running"
    BY <1>2 DEF settle, Become
  <2>4. /\ status' \in [Tasks -> Statuses]
        /\ \A u \in Tasks : status'[u] = "queued" <=> In(u, queue)
        /\ \A u \in Tasks : In(u, armed') => status'[u] = "running"
    BY <2>2, <2>3 DEF TypeForm, Statuses
  <2>5. aborted' \subseteq Running'
    BY <1>2, <2>3 DEF settle, TypeForm, Running
  <2> QED
    BY <1>2, <2>2, <2>4, <2>5 DEF settle, TypeForm
<1>3. CASE forget(t)
  <2>1. \E v \in {"new", "done"} : status' = [status EXCEPT ![t] = v]
    BY <1>3 DEF forget, Become
  <2>2. PICK v \in {"new", "done"} : status' = [status EXCEPT ![t] = v]
    BY <2>1
  <2>3. status[t] = "settled"
    BY <1>3 DEF forget
  <2>4. /\ status' \in [Tasks -> Statuses]
        /\ \A u \in Tasks : status'[u] = "queued" <=> In(u, queue)
        /\ \A u \in Tasks : In(u, armed) => status'[u] = "running"
    BY <2>2, <2>3 DEF TypeForm, Statuses
  <2>5. Running' = Running
    BY <2>2, <2>3 DEF TypeForm, Running
  <2> QED
    BY <1>3, <2>4, <2>5 DEF forget, TypeForm, Wake
<1> QED
  BY <1>1, <1>2, <1>3 DEF TaskStep

\* The other steps.
LEMMA TypeOther ==
  ASSUME QueueAssumption, TypeForm,
         \/ park \/ resume \/ stopAccepting \/ resumeAccepting \/ pauseAndDrain \/ drained
         \/ UNCHANGED queueVars
         \/ \E t \in Tasks : enqueueRejected(t)
         \/ \E k \in Reservers : tryReserveKey(k) \/ releaseKeyReservation(k)
  PROVE  TypeForm'
<1> USE DEF TypeForm, Running
<1>1. CASE park             BY <1>1 DEF park
<1>2. CASE resume           BY <1>2 DEF resume
<1>3. CASE stopAccepting    BY <1>3 DEF stopAccepting
<1>4. CASE resumeAccepting  BY <1>4 DEF resumeAccepting
<1>5. CASE pauseAndDrain    BY <1>5 DEF pauseAndDrain
<1>6. CASE drained          BY <1>6 DEF drained
<1>7. CASE UNCHANGED queueVars  BY <1>7 DEF queueVars
<1>8. ASSUME NEW t \in Tasks, enqueueRejected(t) PROVE TypeForm'
  <2>1. \E v \in {"new", "rejected"} : status' = [status EXCEPT ![t] = v]
    BY <1>8 DEF enqueueRejected, Become
  <2>2. PICK v \in {"new", "rejected"} : status' = [status EXCEPT ![t] = v]
    BY <2>1
  <2>3. status[t] = "new"
    BY <1>8 DEF enqueueRejected
  <2> QED
    BY <1>8, <2>2, <2>3 DEF enqueueRejected, Statuses
<1>9. ASSUME NEW k \in Reservers, tryReserveKey(k) PROVE TypeForm'
  BY <1>9 DEF tryReserveKey, Start, Keys
<1>10. ASSUME NEW k \in Reservers, releaseKeyReservation(k) PROVE TypeForm'
  BY <1>10 DEF releaseKeyReservation, Start, Wake
<1> QED
  BY <1>1, <1>2, <1>3, <1>4, <1>5, <1>6, <1>7, <1>8, <1>9, <1>10

-----------------------------------------------------------------------------
(* The loop                                                                *)

\* An empty set of promises leaves room.
LEMMA RoomWhenEmpty == ASSUME QueueAssumption, InFlight = {} PROVE Room
  BY FS_EmptySet DEF QueueAssumption, Room

\* Steps that start, settle and forget nothing leave the loop's promises as
\* they are.
LEMMA SameTasks ==
  ASSUME QueueInv,
         \A t \in Tasks : status'[t] = status[t]
                          \/ (status[t] \in {"new", "queued"} /\ status'[t] \in {"new", "queued", "rejected"})
  PROVE  Running' = Running /\ InFlight' = InFlight
  BY DEF QueueInv, QueueTypeOK, Running, InFlight

\* A producer's task: the loop is started or woken.
LEMMA InvEnqueue ==
  ASSUME QueueAssumption, QueueInv, NEW t \in Tasks, enqueue(t)
  PROVE  QueueInv'
<1>1. TypeForm /\ TypeForm' /\ QueueTypeOK'
  BY TypeForms, TypeEnqueue, TypeFormsNext DEF QueueInv
<1>2. status' = [status EXCEPT ![t] = "queued"] /\ status[t] = "new"
  BY DEF enqueue, Become
<1>3. Running' = Running /\ InFlight' = InFlight
  BY <1>1, <1>2 DEF TypeForm, Running, InFlight
<1>4. proc' \in {"scan", "woken"}
  BY <1>1 DEF enqueue, Quiet, StartOrWake, Start, Wake, TypeForm
<1>5. drain' # "done"
  BY DEF enqueue, QueueInv, DrainInv
<1> QED
  BY <1>1, <1>3, <1>4, <1>5
     DEF enqueue, QueueInv, LoopInv, KeyInv, DrainInv, ReservationFences, NotStranded, Active

\* A task's start: its key is neither active nor reserved, and there is room.
LEMMA InvTake ==
  ASSUME QueueAssumption, QueueInv, NEW t \in Tasks, take(t)
  PROVE  QueueInv'
<1>1. TypeForm /\ TypeForm' /\ QueueTypeOK'
  BY TypeForms, TypeTake, TypeFormsNext DEF QueueInv
<1>2. status' = [status EXCEPT ![t] = "running"] /\ ~Blocked(t)
  BY DEF take, Become
<1>3. status[t] = "queued"
  BY <1>1 DEF take, TypeForm, In
<1>4. Running' = Running \cup {t} /\ InFlight' = InFlight \cup {t} /\ t \notin InFlight
  BY <1>1, <1>2, <1>3 DEF TypeForm, Running, InFlight
<1>5. LoopInv'
  <2>1. IsFiniteSet(InFlight) /\ Cardinality(InFlight) \in Nat /\ Cardinality(InFlight) < Concurrency
    BY FS_CardinalityType DEF QueueInv, LoopInv, take, Room
  <2>2. IsFiniteSet(InFlight') /\ Cardinality(InFlight') = Cardinality(InFlight) + 1
    BY <1>4, <2>1, FS_AddElement
  <2> QED
    BY <2>1, <2>2 DEF LoopInv, take, QueueAssumption
<1>6. KeyInv' /\ ReservationFences'
  BY <1>2, <1>4 DEF QueueInv, KeyInv, ReservationFences, Blocked, Active, take
<1>7. NotStranded' /\ DrainInv'
  BY DEF QueueInv, DrainInv, NotStranded, take
<1> QED
  BY <1>1, <1>5, <1>6, <1>7 DEF QueueInv

\* The loop stops or sleeps with nothing it could start.
LEMMA InvPark ==
  ASSUME QueueAssumption, QueueInv, park
  PROVE  QueueInv'
<1>1. TypeForm /\ TypeForm' /\ QueueTypeOK'
  BY TypeForms, TypeOther, TypeFormsNext DEF QueueInv
<1>2. UNCHANGED <<queue, status, reserved, accepting, drain>> /\ proc' = IF InFlight = {} THEN "off" ELSE "parked"
  BY DEF park
<1>3. Running' = Running /\ InFlight' = InFlight /\ (Room' <=> Room)
  BY <1>2 DEF Running, InFlight, Room
<1>4. \A u \in Tasks : status[u] = "queued" /\ Room => Blocked(u)
  BY <1>1 DEF park, TypeForm, In
<1>5. NotStranded'
  <2> SUFFICES ASSUME NEW u \in Tasks, status[u] = "queued", Room, ~Blocked(u)
               PROVE  FALSE
    BY <1>2, <1>3, RoomWhenEmpty DEF NotStranded, Blocked, Active
  <2> QED
    BY <1>4
<1>6. LoopInv' /\ KeyInv' /\ ReservationFences'
  BY <1>2, <1>3 DEF QueueInv, LoopInv, KeyInv, ReservationFences, Active
<1>7. DrainInv'
  BY <1>2 DEF QueueInv, DrainInv, park
<1> QED
  BY <1>1, <1>5, <1>6, <1>7 DEF QueueInv

\* The steps of a task: the last one wakes the loop.
LEMMA InvTaskStep ==
  ASSUME QueueAssumption, QueueInv, NEW t \in Tasks, TaskStep(t)
  PROVE  QueueInv'
<1>1. TypeForm /\ TypeForm' /\ QueueTypeOK'
  BY TypeForms, TypeTaskStep, TypeFormsNext DEF QueueInv
<1>2. CASE disarm(t)
  <2>1. UNCHANGED <<queue, status, reserved, accepting, proc, drain>>
    BY <1>2 DEF disarm
  <2> QED
    BY <1>1, <2>1 DEF QueueInv, LoopInv, KeyInv, DrainInv, ReservationFences, NotStranded, Active, Blocked, Room,
                      Running, InFlight
<1>3. CASE settle(t)
  <2>1. status' = [status EXCEPT ![t] = "settled"] /\ status[t] = "running"
    BY <1>3 DEF settle, Become
  <2>2. UNCHANGED <<queue, reserved, accepting, proc, drain>>
    BY <1>3 DEF settle
  <2>3. Running' = Running \ {t} /\ InFlight' = InFlight /\ t \in InFlight'
    BY <1>1, <2>1 DEF TypeForm, Running, InFlight
  <2>4. proc # "off" /\ InFlight' # Running'
    BY <2>3 DEF QueueInv, LoopInv
  <2>5. LoopInv' /\ KeyInv' /\ ReservationFences' /\ DrainInv'
    BY <2>2, <2>3 DEF QueueInv, LoopInv, KeyInv, ReservationFences, Active, DrainInv
  <2>6. NotStranded'
    BY <2>2, <2>4 DEF NotStranded
  <2> QED
    BY <1>1, <2>5, <2>6 DEF QueueInv
<1>4. CASE forget(t)
  <2>1. PICK v \in {"new", "done"} : status' = [status EXCEPT ![t] = v]
    BY <1>4 DEF forget, Become
  <2>2. status[t] = "settled"
    BY <1>4 DEF forget
  <2>3. Running' = Running /\ InFlight' = InFlight \ {t} /\ t \in InFlight
    BY <1>1, <2>1, <2>2 DEF TypeForm, Running, InFlight
  <2>4. proc' \in {"scan", "woken"} /\ proc # "off"
    BY <1>1, <1>4, <2>3 DEF forget, Wake, QueueInv, LoopInv, TypeForm
  <2>5. LoopInv'
    <3>1. /\ IsFiniteSet(InFlight') /\ Cardinality(InFlight') = Cardinality(InFlight) - 1
          /\ Cardinality(InFlight) \in Nat
      BY <2>3, FS_RemoveElement, FS_CardinalityType DEF QueueInv, LoopInv
    <3> QED
      BY <2>4, <3>1 DEF QueueInv, LoopInv, QueueAssumption
  <2>6. KeyInv' /\ ReservationFences' /\ DrainInv' /\ NotStranded'
    BY <1>4, <2>3, <2>4 DEF QueueInv, KeyInv, ReservationFences, Active, DrainInv, NotStranded, forget
  <2> QED
    BY <1>1, <2>5, <2>6 DEF QueueInv
<1> QED
  BY <1>2, <1>3, <1>4 DEF TaskStep

\* Reserving a key only holds tasks back; giving it up starts or wakes the loop.
LEMMA InvReserve ==
  ASSUME QueueAssumption, QueueInv, NEW k \in Reservers, tryReserveKey(k) \/ releaseKeyReservation(k)
  PROVE  QueueInv'
<1>1. TypeForm /\ TypeForm' /\ QueueTypeOK'
  BY TypeForms, TypeOther, TypeFormsNext DEF QueueInv
<1>2. UNCHANGED <<queue, status, accepting, drain>>
  BY DEF tryReserveKey, releaseKeyReservation
<1>3. Running' = Running /\ InFlight' = InFlight /\ (Room' <=> Room)
  BY <1>2 DEF Running, InFlight, Room
<1>4. queue = <<>> => \A u \in Tasks : status[u] # "queued"
  BY <1>1 DEF TypeForm, In
<1>5. CASE tryReserveKey(k)
  <2>1. reserved' = reserved \cup {k} /\ ~Active(k)
    BY <1>5 DEF tryReserveKey, Reservable
  <2>2. proc' = proc \/ (proc' = "scan" /\ proc = "off" /\ queue # <<>>)
    <3>1. CASE proc = "off" /\ queue # <<>>
      BY <1>5, <3>1 DEF tryReserveKey, Start
    <3>2. CASE ~(proc = "off" /\ queue # <<>>)
      BY <1>5, <3>2 DEF tryReserveKey
    <3> QED
      BY <3>1, <3>2
  <2>3. NotStranded'
    BY <1>2, <1>3, <2>1, <2>2 DEF QueueInv, NotStranded, Blocked, Active
  <2>4. LoopInv' /\ KeyInv' /\ ReservationFences' /\ DrainInv'
    BY <1>2, <1>3, <2>1, <2>2 DEF QueueInv, LoopInv, KeyInv, ReservationFences, Active, DrainInv
  <2> QED
    BY <1>1, <2>3, <2>4 DEF QueueInv
<1>6. CASE releaseKeyReservation(k)
  <2>1. reserved' = reserved \ {k}
    BY <1>6 DEF releaseKeyReservation
  <2>2. \/ proc' = "scan" /\ proc = "off" /\ queue # <<>>
        \/ proc' = "off" /\ proc = "off" /\ queue = <<>>
        \/ proc' = "woken" /\ proc \in {"parked", "woken"}
    BY <1>1, <1>6 DEF releaseKeyReservation, Start, Wake, Quiet, TypeForm
  <2>3. NotStranded'
    BY <1>2, <1>4, <2>2 DEF NotStranded
  <2>4. LoopInv' /\ KeyInv' /\ ReservationFences' /\ DrainInv'
    BY <1>2, <1>3, <2>1, <2>2 DEF QueueInv, LoopInv, KeyInv, ReservationFences, Active, DrainInv
  <2> QED
    BY <1>1, <2>3, <2>4 DEF QueueInv
<1> QED
  BY <1>5, <1>6

\* The steps that touch neither tasks nor keys.
LEMMA InvOther ==
  ASSUME QueueAssumption, QueueInv,
         \/ resume \/ stopAccepting \/ resumeAccepting \/ pauseAndDrain \/ drained
         \/ UNCHANGED queueVars
         \/ \E t \in Tasks : enqueueRejected(t)
  PROVE  QueueInv'
<1>1. TypeForm /\ TypeForm' /\ QueueTypeOK'
  BY TypeForms, TypeOther, TypeFormsNext DEF QueueInv
<1>2. /\ \A t \in Tasks : status'[t] = status[t] \/ (status[t] = "new" /\ status'[t] \in {"new", "rejected"})
      /\ UNCHANGED <<queue, reserved>>
      /\ proc' = proc \/ (proc = "woken" /\ proc' = "scan")
  <2>1. CASE resume           BY <2>1 DEF resume
  <2>2. CASE stopAccepting    BY <2>2 DEF stopAccepting
  <2>3. CASE resumeAccepting  BY <2>3 DEF resumeAccepting
  <2>4. CASE pauseAndDrain    BY <2>4 DEF pauseAndDrain
  <2>5. CASE drained          BY <2>5 DEF drained
  <2>6. CASE UNCHANGED queueVars  BY <2>6 DEF queueVars
  <2>7. ASSUME NEW t \in Tasks, enqueueRejected(t)
        PROVE  /\ \A u \in Tasks : status'[u] = status[u] \/ (status[u] = "new" /\ status'[u] \in {"new", "rejected"})
               /\ UNCHANGED <<queue, reserved, proc>>
    BY <1>1, <2>7 DEF enqueueRejected, Become, TypeForm
  <2> QED
    BY <2>1, <2>2, <2>3, <2>4, <2>5, <2>6, <2>7
<1>3. Running' = Running /\ InFlight' = InFlight
  BY <1>2, SameTasks
<1>5. LoopInv' /\ KeyInv' /\ ReservationFences'
  BY <1>2, <1>3 DEF QueueInv, LoopInv, KeyInv, ReservationFences, Active
<1>6. NotStranded'
  BY <1>2, <1>3 DEF QueueInv, NotStranded, Blocked, Active, Room
<1>7. DrainInv'
  BY DEF QueueInv, DrainInv, resume, stopAccepting, resumeAccepting, pauseAndDrain, drained, Idle, queueVars,
         enqueueRejected
<1> QED
  BY <1>1, <1>5, <1>6, <1>7 DEF QueueInv

\* The invariant holds initially.
LEMMA InvInit == ASSUME QueueAssumption, QueueInit PROVE QueueInv
<1>1. InFlight = {} /\ Running = {}
  BY DEF QueueInit, InFlight, Running
<1>2. QueueTypeOK
  BY <1>1 DEF QueueInit, QueueTypeOK, In
<1>3. LoopInv
  BY <1>1, FS_EmptySet DEF LoopInv, QueueAssumption
<1> QED
  BY <1>1, <1>2, <1>3 DEF QueueInit, QueueInv, KeyInv, ReservationFences, Active, NotStranded, DrainInv

\* Every step keeps it.
LEMMA InvStep == ASSUME QueueAssumption, QueueInv, [QueueNext]_queueVars PROVE QueueInv'
  BY InvEnqueue, InvTake, InvPark, InvTaskStep, InvReserve, InvOther DEF QueueNext, Loop

-----------------------------------------------------------------------------
(* Theorems                                                                *)

\* QueueInv is an invariant of the queue.
THEOREM QueueInvariant == QueueSpec => []QueueInv
<1>1. QueueInit => QueueInv
  BY InvInit, QueueAssumption
<1>2. QueueInv /\ [QueueNext]_queueVars => QueueInv'
  BY InvStep, QueueAssumption
<1> QED
  BY <1>1, <1>2, PTL DEF QueueSpec

\* The queue, the task states and the registered aborts stay consistent.
THEOREM QueueTypeCorrect == QueueSpec => []QueueTypeOK
<1>1. QueueInv => QueueTypeOK
  BY DEF QueueInv
<1> QED
  BY <1>1, QueueInvariant, PTL

\* Tasks of one key never overlap, and no more tasks run than the bound allows,
\* whatever is enqueued, preempted or reserved: takeRunnable's exclusion.
THEOREM KeysAreExclusive == QueueSpec => []OneTaskPerKey
<1>1. QueueInv => OneTaskPerKey
  <2> SUFFICES ASSUME QueueInv PROVE OneTaskPerKey
    OBVIOUS
  <2>1. IsFiniteSet(InFlight) /\ Running \in SUBSET InFlight
    BY DEF QueueInv, LoopInv, Running, InFlight
  <2>2. /\ Cardinality(Running) <= Cardinality(InFlight)
        /\ Cardinality(Running) \in Nat /\ Cardinality(InFlight) \in Nat
    BY <2>1, FS_Subset, FS_CardinalityType
  <2> QED
    BY <2>2, QueueAssumption DEF QueueInv, LoopInv, KeyInv, OneTaskPerKey, QueueAssumption
<1> QED
  BY <1>1, QueueInvariant, PTL

\* No task of a reserved key runs: the fence of a claim decision.
THEOREM ReservationsFence == QueueSpec => []ReservationFences
<1>1. QueueInv => ReservationFences
  BY DEF QueueInv
<1> QED
  BY <1>1, QueueInvariant, PTL

\* No wake-up of the drain loop is lost.
THEOREM NothingStranded == QueueSpec => []NotStranded
<1>1. QueueInv => NotStranded
  BY DEF QueueInv
<1> QED
  BY <1>1, QueueInvariant, PTL

\* When pauseAndDrain has returned, no task is queued and none runs, until the
\* queue accepts again.  A key may still be reserved then.
THEOREM DrainedQueueIsIdle == QueueSpec => []DrainedIsIdle
<1>1. QueueInv => DrainedIsIdle
  <2> SUFFICES ASSUME QueueInv, drain = "done", NEW t \in Tasks
               PROVE  status[t] # "queued" /\ t \notin InFlight
    BY DEF DrainedIsIdle
  <2>1. queue = <<>> /\ InFlight = {}
    BY DEF QueueInv, DrainInv, LoopInv
  <2> QED
    BY <2>1 DEF QueueInv, QueueTypeOK, In
<1> QED
  BY <1>1, QueueInvariant, PTL
=============================================================================
