------------------------- MODULE RecallFlightProofs -------------------------
(***************************************************************************)
(* Every safety property of module RecallFlight holds for any callers,     *)
(* works, keys, slots and budget.  The inductive invariant ties together    *)
(* where a caller is, the stage of its flight, the flight's gate, its place *)
(* in the registry, and the budget's entries.                               *)
(***************************************************************************)
EXTENDS RecallFlight, FiniteSetTheorems, SequenceTheorems, TLAPS

Stages == {"none", "queued", "granted", "running", "reserved", "resolved", "failed"}
Distinct(s) == \A i, j \in DOMAIN s : s[i] = s[j] => i = j

\* The queue for a slot holds each queued flight once.
QueueInv ==
  /\ \A f \in Callers : stage[f] = "queued" <=> In(f, waiters)
  /\ Distinct(waiters)

\* A caller consumes a flight that some caller leads for the same work.
OnInv ==
  \A c \in Callers :
    /\ pc[c] \in {"idle", "guard", "get", "replayed"} => on[c] = None
    /\ pc[c] \in {"await", "check", "put", "answered", "kept"} => on[c] # None
    /\ on[c] # None => on[on[c]] = on[c] /\ Work[on[c]] = Work[c]
    /\ on[c] = c <=> stage[c] # "none"

\* What a caller's place says of the sets it is in.
CallerInv ==
  \A c \in Callers :
    /\ c \in attached <=> pc[c] = "await" /\ c \notin gone
    /\ pc[c] \in {"guard", "get", "put", "kept", "replayed"} => c \in Keyed
    /\ pc[c] \in {"check", "put", "answered", "kept"} => c \in captured
    /\ c \in captured => on[c] # None /\ pc[c] \in {"check", "put", "catch", "answered", "kept", "rejected"}
    /\ c \in orphaned => on[c] = c /\ c \notin Keyed /\ c \notin captured /\ pc[c] \in {"catch", "rejected"}
    /\ on[c] = c /\ pc[c] # "await" => stage[c] \in {"resolved", "failed"} \/ c \in orphaned

\* A gate is pending until its keyed leader is answered or rejected, and a
\* caller that stores its answer found it open.
GateInv ==
  \A c \in Callers :
    /\ gate[c] # "none" <=> on[c] = c /\ c \in Keyed
    /\ gate[c] = "pending" => pc[c] \in {"await", "check", "put", "catch"}
    /\ gate[c] = "ok" => pc[c] \in {"answered", "kept"}
    /\ gate[c] = "failed" => pc[c] = "rejected"
    /\ c \in Keyed /\ on[c] \notin {None, c} /\ pc[c] \in {"put", "answered", "kept"} => gate[on[c]] \in {"none", "ok"}

\* A registered flight has callers, or unregisters when its gate settles; a
\* flight that is under way is registered.
RegistryInv ==
  /\ \A w \in Works : registry[w] # None =>
       /\ on[registry[w]] = registry[w] /\ Work[registry[w]] = w
       /\ Live(registry[w]) # {} \/ (gate[registry[w]] = "pending" /\ registry[w] \in idle)
  /\ \A f \in Callers : Underway(f) => registry[Work[f]] = f

IInv ==
  /\ TypeOK /\ QueueInv /\ OnInv /\ CallerInv /\ GateInv /\ RegistryInv
  /\ AbandonedIsCancelled /\ EntriesAreOwned /\ BudgetIsBounded /\ SlotsAreUsed

-----------------------------------------------------------------------------
(* The queue and the slots                                                 *)

\* Removing a position removes exactly the element that is there.
LEMMA DropAtFacts ==
  ASSUME NEW S, NEW s \in Seq(S), Distinct(s), NEW i \in DOMAIN s
  PROVE  /\ DropAt(s, i) \in Seq(S)
         /\ Distinct(DropAt(s, i))
         /\ \A x : In(x, DropAt(s, i)) <=> In(x, s) /\ x # s[i]
<1> DEFINE d == DropAt(s, i)
<1>1. Len(s) \in Nat /\ DOMAIN s = 1 .. Len(s) /\ i \in 1 .. Len(s) /\ Len(s) - 1 \in Nat
  OBVIOUS
<1>2. d = [j \in 1 .. (Len(s) - 1) |-> IF j < i THEN s[j] ELSE s[j + 1]]
  BY DEF DropAt
<1>3. \A j \in 1 .. (Len(s) - 1) : d[j] = IF j < i THEN s[j] ELSE s[j + 1]
  BY <1>2
<1>4. d \in [1 .. (Len(s) - 1) -> S]
  BY <1>1, <1>2
<1>5. d \in Seq(S) /\ DOMAIN d = 1 .. (Len(s) - 1)
  BY <1>1, <1>4
<1>6. Distinct(d)
  <2> DEFINE f(j) == IF j < i THEN j ELSE j + 1
  <2>1. \A j \in 1 .. (Len(s) - 1) : f(j) \in DOMAIN s /\ d[j] = s[f(j)]
    BY <1>1, <1>3
  <2>2. \A j, k \in 1 .. (Len(s) - 1) : f(j) = f(k) => j = k
    BY <1>1
  <2> HIDE DEF f, d
  <2> SUFFICES ASSUME NEW j \in 1 .. (Len(s) - 1), NEW k \in 1 .. (Len(s) - 1), d[j] = d[k]
               PROVE  j = k
    BY <1>5 DEF Distinct
  <2>3. f(j) = f(k)
    BY <2>1 DEF Distinct
  <2> QED
    BY <2>2, <2>3
<1>7. ASSUME NEW x, In(x, d) PROVE In(x, s) /\ x # s[i]
  <2>1. PICK j \in 1 .. (Len(s) - 1) : d[j] = x
    BY <1>5, <1>7 DEF In
  <2>2. \E k \in DOMAIN s : k # i /\ s[k] = x
    BY <1>1, <1>3, <2>1
  <2> QED
    BY <2>2 DEF In, Distinct
<1>8. ASSUME NEW x, In(x, s), x # s[i] PROVE In(x, d)
  <2>1. PICK j \in DOMAIN s : s[j] = x
    BY <1>8 DEF In
  <2>2. j < i \/ j > i
    BY <1>1, <1>8, <2>1
  <2>3. CASE j < i
    BY <1>1, <1>3, <1>5, <2>1, <2>3 DEF In
  <2>4. CASE j > i
    <3>1. j - 1 \in 1 .. (Len(s) - 1) /\ ~(j - 1 < i) /\ (j - 1) + 1 = j
      BY <1>1, <2>1, <2>4
    <3> QED
      BY <1>3, <1>5, <2>1, <3>1 DEF In
  <2> QED
    BY <2>2, <2>3, <2>4
<1> HIDE DEF d
<1>9. \A x : In(x, d) <=> In(x, s) /\ x # s[i]
  BY <1>7, <1>8
<1> QED
  BY <1>5, <1>6, <1>9 DEF d

\* Adding a new element at the end adds it and nothing else.
LEMMA AppendFacts ==
  ASSUME NEW S, NEW s \in Seq(S), Distinct(s), NEW x \in S, ~In(x, s)
  PROVE  /\ Append(s, x) \in Seq(S)
         /\ Distinct(Append(s, x))
         /\ \A y : In(y, Append(s, x)) <=> In(y, s) \/ y = x
<1> DEFINE a == Append(s, x)
<1>1. /\ a \in Seq(S) /\ DOMAIN a = 1 .. (Len(s) + 1) /\ DOMAIN s = 1 .. Len(s)
      /\ Len(s) \in Nat /\ a[Len(s) + 1] = x
      /\ \A j \in 1 .. Len(s) : a[j] = s[j]
  OBVIOUS
<1> HIDE DEF a
<1>2. Distinct(a)
  BY <1>1 DEF Distinct, In
<1>3. ASSUME NEW y PROVE In(y, a) <=> In(y, s) \/ y = x
  BY <1>1 DEF In
<1> QED
  BY <1>1, <1>2, <1>3 DEF a

\* So does taking the head of the queue.
LEMMA TailFacts ==
  ASSUME NEW S, NEW s \in Seq(S), Distinct(s), s # <<>>
  PROVE  /\ Head(s) \in S /\ In(Head(s), s)
         /\ Tail(s) \in Seq(S) /\ Distinct(Tail(s))
         /\ \A x : In(x, Tail(s)) <=> In(x, s) /\ x # Head(s)
<1> DEFINE d == Tail(s)
           n == Len(s) - 1
<1>1. Len(s) \in Nat /\ DOMAIN s = 1 .. Len(s) /\ n \in Nat /\ Len(s) = n + 1 /\ Head(s) = s[1] /\ s[1] \in S
  OBVIOUS
<1>2. d \in Seq(S) /\ DOMAIN d = 1 .. n /\ \A j \in 1 .. n : d[j] = s[j + 1]
  BY HeadTailProperties
<1>3. \A j \in 1 .. n : j + 1 \in DOMAIN s /\ j + 1 # 1
  BY <1>1
<1> HIDE DEF d, n
<1>4. Distinct(d)
  <2> SUFFICES ASSUME NEW j \in 1 .. n, NEW k \in 1 .. n, d[j] = d[k]
               PROVE  j = k
    BY <1>2 DEF Distinct
  <2>1. j + 1 = k + 1
    BY <1>2, <1>3 DEF Distinct
  <2> QED
    BY <1>1, <2>1
<1>5. ASSUME NEW x, In(x, d) PROVE In(x, s) /\ x # s[1]
  BY <1>1, <1>2, <1>3, <1>5 DEF In, Distinct
<1>6. ASSUME NEW x, In(x, s), x # s[1] PROVE In(x, d)
  <2>1. PICK i \in DOMAIN s : s[i] = x
    BY <1>6 DEF In
  <2>2. i - 1 \in 1 .. n /\ (i - 1) + 1 = i
    BY <1>1, <1>6, <2>1
  <2> QED
    BY <1>2, <2>1, <2>2 DEF In
<1>7. \A x : In(x, d) <=> In(x, s) /\ x # s[1]
  BY <1>5, <1>6
<1> QED
  BY <1>1, <1>2, <1>4, <1>7 DEF d, In

\* Giving up a slot touches the flight and the first waiter.
LEMMA Released ==
  ASSUME TypeOK, QueueInv, NEW f \in Callers, NEW s \in {"resolved", "failed"},
         stage[f] \in {"granted", "running", "reserved"}, ReleaseSlot(f, s)
  PROVE  /\ stage' \in [Callers -> Stages] /\ waiters' \in Seq(Callers)
         /\ stage'[f] = s
         /\ \A g \in Callers \ {f} : stage'[g] = stage[g] \/ (stage[g] = "queued" /\ stage'[g] = "granted")
         /\ QueueInv'
<1>1. CASE waiters = <<>>
  BY <1>1 DEF TypeOK, QueueInv, ReleaseSlot, Stages
<1>2. CASE waiters # <<>>
  <2> DEFINE h == Head(waiters)
  <2>1. /\ h \in Callers /\ In(h, waiters) /\ waiters' = Tail(waiters)
        /\ waiters' \in Seq(Callers) /\ Distinct(waiters')
        /\ \A x : In(x, waiters') <=> In(x, waiters) /\ x # h
        /\ stage' = [stage EXCEPT ![f] = s, ![h] = "granted"]
    <3>1. waiters \in Seq(Callers) /\ Distinct(waiters)
      BY DEF TypeOK, QueueInv
    <3>2. waiters' = Tail(waiters) /\ stage' = [stage EXCEPT ![f] = s, ![h] = "granted"]
      BY <1>2 DEF ReleaseSlot
    <3> QED
      BY <1>2, <3>1, <3>2, TailFacts
  <2>2. stage[h] = "queued" /\ h # f
    BY <2>1 DEF QueueInv
  <2> HIDE DEF h
  <2> QED
    BY <2>1, <2>2 DEF TypeOK, QueueInv, Stages
<1> QED
  BY <1>1, <1>2

\* Cancelling a queued flight takes it out of the queue.
LEMMA Cancelled ==
  ASSUME TypeOK, QueueInv, NEW f \in Callers, Cancel(f)
  PROVE  /\ cancelled' = cancelled \cup {f}
         /\ stage' = [stage EXCEPT ![f] = IF @ = "queued" THEN "failed" ELSE @]
         /\ waiters' \in Seq(Callers)
         /\ QueueInv'
<1>1. CASE stage[f] # "queued"
  BY <1>1 DEF TypeOK, QueueInv, Cancel
<1>2. CASE stage[f] = "queued"
  <2>1. PICK i \in DOMAIN waiters : waiters[i] = f /\ waiters' = DropAt(waiters, i)
    BY <1>2 DEF Cancel
  <2>2. waiters \in Seq(Callers) /\ Distinct(waiters)
    BY DEF TypeOK, QueueInv
  <2>3. waiters' \in Seq(Callers) /\ Distinct(waiters') /\ \A x : In(x, waiters') <=> In(x, waiters) /\ x # f
    BY <2>1, <2>2, DropAtFacts
  <2> QED
    BY <1>2, <2>3 DEF Cancel, TypeOK, QueueInv
<1> QED
  BY <1>1, <1>2

\* A new flight takes a slot or queues.
LEMMA Started ==
  ASSUME TypeOK, QueueInv, NEW c \in Callers, stage[c] = "none", createAndStartFlight(c)
  PROVE  /\ stage' = [stage EXCEPT ![c] = IF Cardinality(Holding) < Slots THEN "granted" ELSE "queued"]
         /\ waiters' = IF Cardinality(Holding) < Slots THEN waiters ELSE Append(waiters, c)
         /\ waiters' \in Seq(Callers)
         /\ QueueInv'
<1>1. waiters \in Seq(Callers) /\ Distinct(waiters) /\ ~In(c, waiters)
  BY DEF TypeOK, QueueInv
<1>2. CASE Cardinality(Holding) < Slots
  BY <1>1, <1>2 DEF TypeOK, QueueInv, createAndStartFlight
<1>3. CASE ~(Cardinality(Holding) < Slots)
  <2>1. waiters' = Append(waiters, c) /\ stage' = [stage EXCEPT ![c] = "queued"]
    BY <1>3 DEF createAndStartFlight
  <2>2. waiters' \in Seq(Callers) /\ Distinct(waiters') /\ \A x : In(x, waiters') <=> In(x, waiters) \/ x = c
    BY <1>1, <2>1, AppendFacts
  <2> QED
    BY <1>3, <2>1, <2>2 DEF TypeOK, QueueInv
<1> QED
  BY <1>2, <1>3

-----------------------------------------------------------------------------
(* The invariant                                                           *)

\* Who acts: a flight in its slot, or a caller.
LEMMA Acts ==
  ASSUME [Next]_vars
  PROVE  \/ UNCHANGED vars
         \/ \E c \in Callers :
              \/ coordinateRecall(c) \/ Abort(c) \/ LateRelease(c)
              \/ Enter(c) \/ Reserve(c) \/ Resolve(c) \/ Fail(c)
              \/ LockKey(c) \/ Lookup(c) \/ GuardFails(c)
              \/ Leave(c) \/ FlightFails(c) \/ consumeFlight(c)
              \/ Deliver(c) \/ Check(c) \/ put(c) \/ Catch(c)
BY DEF Next, FlightStep, CallerStep

\* A slot changes hands only in a flight's own step.
LEMMA SlotStep ==
  ASSUME TypeOK, QueueInv, NEW f \in Callers, Enter(f) \/ Reserve(f) \/ Resolve(f) \/ Fail(f)
  PROVE  /\ stage' \in [Callers -> Stages] /\ waiters' \in Seq(Callers)
         /\ \A g \in Callers \ {f} : stage'[g] = stage[g] \/ (stage[g] = "queued" /\ stage'[g] = "granted")
         /\ stage[f] \in {"granted", "running", "reserved"}
         /\ stage'[f] \in {"running", "reserved", "resolved", "failed"}
         /\ QueueInv'
<1>1. CASE ReleaseSlot(f, "failed") \/ ReleaseSlot(f, "resolved")
  BY <1>1, Released DEF Enter, Reserve, Resolve, Fail
<1>2. CASE UNCHANGED waiters /\ \E s \in {"running", "reserved"} : stage' = [stage EXCEPT ![f] = s]
  BY <1>2 DEF TypeOK, QueueInv, Stages, Enter, Reserve, Resolve, Fail
<1> QED
  BY <1>1, <1>2 DEF Enter, Reserve, Resolve, Fail

\* A caller that joins or leads had no flight.
LEMMA Joins ==
  ASSUME IInv, NEW c \in Callers, coordinateRecall(c) \/ Lookup(c), JoinOrLead(c)
  PROVE  /\ on[c] = None /\ stage[c] = "none" /\ c \notin attached /\ c \notin captured /\ c \notin orphaned
         /\ gate[c] = "none"
         /\ QueueInv' /\ waiters' \in Seq(Callers)
<1>1. on[c] = None
  BY DEF IInv, OnInv, TypeOK, coordinateRecall, Lookup
<1>2. stage[c] = "none" /\ c \notin attached /\ c \notin captured /\ c \notin orphaned /\ gate[c] = "none"
  BY <1>1, RecallAssumption DEF IInv, OnInv, CallerInv, GateInv, TypeOK, coordinateRecall, Lookup
<1>3. CASE createAndStartFlight(c)
  BY <1>1, <1>2, <1>3, Started DEF IInv
<1>4. CASE ~createAndStartFlight(c)
  <2>1. UNCHANGED <<stage, waiters>>
    BY <1>4 DEF JoinOrLead, join, runVars
  <2> QED
    BY <1>1, <1>2, <2>1 DEF IInv, QueueInv, TypeOK
<1> QED
  BY <1>1, <1>2, <1>3, <1>4

\* The budget's entries are a flight's or a caller's.
LEMMA Entries ==
  ASSUME NEW c \in Callers
  PROVE  /\ RunEntry(c) \in {"run", "own"} \X Callers
         /\ Entry(c) \in {"run", "own"} \X Callers
BY DEF Entry, RunEntry

\* Leaving a flight keeps the budget and the registry well typed.
LEMMA DetachType ==
  ASSUME TypeOK, NEW c \in Callers, on[c] \in Callers, detach(c)
  PROVE  attached' \subseteq Callers /\ idle' \subseteq Callers /\ registry' \in [Works -> Callers \cup {None}]
BY DEF TypeOK, detach, onIdle, Unregister, Works

\* So does settling a gate.
LEMMA SettleType ==
  ASSUME TypeOK, NEW c \in Callers, NEW o \in {"ok", "failed"}, SettleGate(c, o)
  PROVE  gate' \in [Callers -> {"none", "pending", "ok", "failed"}] /\ registry' \in [Works -> Callers \cup {None}]
BY DEF TypeOK, SettleGate, Unregister, Works

\* Every step keeps the types and the queue of waiting flights.
LEMMA TypeStep == IInv /\ [Next]_vars => TypeOK' /\ QueueInv'
<1> SUFFICES ASSUME IInv, [Next]_vars PROVE TypeOK' /\ QueueInv'
  OBVIOUS
<1> USE DEF callerVars, flightVars, runVars
<1>0. TypeOK /\ QueueInv
  BY DEF IInv
<1>1. CASE UNCHANGED vars
  BY <1>0, <1>1 DEF vars, TypeOK, QueueInv, Distinct, In
<1>2. CASE \E c \in Callers : coordinateRecall(c) \/ Lookup(c)
  <2>1. PICK c \in Callers : coordinateRecall(c) \/ Lookup(c)
    BY <1>2
  <2>2. CASE JoinOrLead(c)
    <3>1. on[c] = None /\ stage[c] = "none" /\ QueueInv' /\ waiters' \in Seq(Callers)
      BY <2>1, <2>2, Joins
    <3>2. Work[c] \in Works
      BY DEF Works
    <3>3. UNCHANGED <<gone, captured, cancelled, idle, orphaned, charges, store>>
      BY <2>1, <2>2 DEF coordinateRecall, Lookup, JoinOrLead, join, createAndStartFlight
    <3>4. pc' \in [Callers -> Over \cup {"idle", "guard", "get", "await", "check", "put", "catch"}]
      BY <1>0, <2>2 DEF JoinOrLead, Goto, TypeOK
    <3>5. /\ on' \in [Callers -> Callers \cup {None}] /\ attached' \subseteq Callers
          /\ stage' \in [Callers -> {"none", "queued", "granted", "running", "reserved", "resolved", "failed"}]
          /\ gate' \in [Callers -> {"none", "pending", "ok", "failed"}]
          /\ registry' \in [Works -> Callers \cup {None}]
      BY <1>0, <2>2, <3>2 DEF JoinOrLead, join, createAndStartFlight, Joinable, TypeOK
    <3> QED
      BY <1>0, <3>1, <3>3, <3>4, <3>5 DEF TypeOK, QueueInv
  <2>3. CASE ~JoinOrLead(c)
    <3>1. UNCHANGED <<gone, on, captured, attached, idle, registry, stage, cancelled, waiters, gate, orphaned, charges, store>>
      BY <2>1, <2>3 DEF coordinateRecall, Lookup
    <3>2. pc' \in [Callers -> Over \cup {"idle", "guard", "get", "await", "check", "put", "catch"}]
      BY <1>0, <2>1, <2>3 DEF coordinateRecall, Lookup, Goto, TypeOK, Over
    <3> QED
      BY <1>0, <3>1, <3>2 DEF TypeOK, QueueInv, Distinct, In
  <2> QED
    BY <2>2, <2>3
<1>3. CASE \E c \in Callers : Abort(c)
  <2>1. PICK c \in Callers : Abort(c)
    BY <1>3
  <2>2. CASE c \notin attached
    BY <1>0, <2>1, <2>2 DEF Abort, TypeOK, QueueInv, Distinct, In
  <2>3. CASE c \in attached
    <3>1. on[c] \in Callers
      BY <1>0, <2>3 DEF IInv, CallerInv, OnInv, TypeOK
    <3>2. attached' \subseteq Callers /\ idle' \subseteq Callers /\ registry' \in [Works -> Callers \cup {None}]
      BY <1>0, <2>1, <2>3, <3>1, DetachType DEF Abort
    <3>3. /\ cancelled' \subseteq Callers /\ waiters' \in Seq(Callers) /\ QueueInv'
          /\ stage' \in [Callers -> {"none", "queued", "granted", "running", "reserved", "resolved", "failed"}]
      <4>1. CASE Cancel(on[c])
        BY <1>0, <3>1, <4>1, Cancelled DEF TypeOK
      <4>2. CASE UNCHANGED runVars
        BY <1>0, <4>2 DEF TypeOK, QueueInv, Distinct, In
      <4> QED
        BY <2>1, <2>3, <4>1, <4>2 DEF Abort
    <3>4. gone' \subseteq Callers /\ UNCHANGED <<pc, on, captured, gate, orphaned, charges, store>>
      BY <1>0, <2>1 DEF Abort, TypeOK
    <3> QED
      BY <1>0, <3>2, <3>3, <3>4 DEF TypeOK, QueueInv
  <2> QED
    BY <2>2, <2>3
<1>4. CASE \E f \in Callers : Enter(f) \/ Reserve(f) \/ Resolve(f) \/ Fail(f)
  <2>1. PICK f \in Callers : Enter(f) \/ Reserve(f) \/ Resolve(f) \/ Fail(f)
    BY <1>4
  <2>2. stage' \in [Callers -> Stages] /\ waiters' \in Seq(Callers) /\ QueueInv'
    BY <1>0, <2>1, SlotStep
  <2>3. UNCHANGED <<pc, gone, on, captured, attached, idle, registry, cancelled, gate, orphaned, store>>
    BY <2>1 DEF Enter, Reserve, Resolve, Fail
  <2>4. charges' \subseteq {"run", "own"} \X Callers
    BY <1>0, <2>1, Entries DEF Enter, Reserve, Resolve, Fail, TypeOK
  <2> QED
    BY <1>0, <2>2, <2>3, <2>4 DEF TypeOK, QueueInv, Stages
<1>5. CASE \E c \in Callers : LateRelease(c) \/ LockKey(c) \/ GuardFails(c) \/ Leave(c) \/ Deliver(c) \/ Check(c)
  <2>1. PICK c \in Callers : LateRelease(c) \/ LockKey(c) \/ GuardFails(c) \/ Leave(c) \/ Deliver(c) \/ Check(c)
    BY <1>5
  <2>2. UNCHANGED <<gone, on, captured, attached, idle, registry, stage, cancelled, waiters, gate, store>>
    BY <2>1 DEF LateRelease, LockKey, GuardFails, Leave, Deliver, Check
  <2>3. pc' \in [Callers -> Over \cup {"idle", "guard", "get", "await", "check", "put", "catch"}]
    BY <1>0, <2>1 DEF LateRelease, LockKey, GuardFails, Leave, Deliver, Check, Step, Goto, TypeOK, Over
  <2>4. orphaned' \subseteq Callers /\ charges' \subseteq {"run", "own"} \X Callers
    BY <1>0, <2>1 DEF LateRelease, LockKey, GuardFails, Leave, Deliver, Check, TypeOK
  <2> QED
    BY <1>0, <2>2, <2>3, <2>4 DEF TypeOK, QueueInv, Distinct, In
<1>6. CASE \E c \in Callers : FlightFails(c) \/ consumeFlight(c)
  <2>1. PICK c \in Callers : FlightFails(c) \/ consumeFlight(c)
    BY <1>6
  <2>2. on[c] \in Callers
    BY <1>0, <2>1 DEF IInv, OnInv, TypeOK, FlightFails, consumeFlight, Step
  <2>3. attached' \subseteq Callers /\ idle' \subseteq Callers /\ registry' \in [Works -> Callers \cup {None}]
    BY <1>0, <2>1, <2>2, DetachType DEF FlightFails, consumeFlight
  <2>4. UNCHANGED <<gone, on, stage, cancelled, waiters, gate, orphaned, store>>
    BY <2>1 DEF FlightFails, consumeFlight
  <2>5. pc' \in [Callers -> Over \cup {"idle", "guard", "get", "await", "check", "put", "catch"}]
    BY <1>0, <2>1 DEF FlightFails, consumeFlight, Charge, Step, Goto, TypeOK
  <2>6. captured' \subseteq Callers /\ charges' \subseteq {"run", "own"} \X Callers
    BY <1>0, <2>1, Entries DEF FlightFails, consumeFlight, Charge, TypeOK
  <2> QED
    BY <1>0, <2>3, <2>4, <2>5, <2>6 DEF TypeOK, QueueInv, Distinct, In
<1>7. CASE \E c \in Callers : put(c) \/ Catch(c)
  <2>1. PICK c \in Callers : put(c) \/ Catch(c)
    BY <1>7
  <2>2. UNCHANGED <<gone, on, captured, attached, idle, stage, cancelled, waiters, orphaned>>
    BY <2>1 DEF put, Catch
  <2>3. gate' \in [Callers -> {"none", "pending", "ok", "failed"}] /\ registry' \in [Works -> Callers \cup {None}]
    <3>1. CASE UNCHANGED <<gate, registry>>
      BY <1>0, <3>1 DEF TypeOK
    <3> QED
      BY <1>0, <2>1, <3>1, SettleType DEF put, Catch
  <2>4. pc' \in [Callers -> Over \cup {"idle", "guard", "get", "await", "check", "put", "catch"}]
    BY <1>0, <2>1 DEF put, Catch, Step, Goto, TypeOK, Over
  <2>5. store' \subseteq {KeyOf[d] : d \in Keyed} /\ charges' \subseteq {"run", "own"} \X Callers
    <3>1. c \in Keyed \/ store' = store
      BY <2>1 DEF IInv, CallerInv, put, Catch
    <3> QED
      BY <1>0, <2>1, <3>1 DEF put, Catch, TypeOK
  <2> QED
    BY <1>0, <2>2, <2>3, <2>4, <2>5 DEF TypeOK, QueueInv, Distinct, In
<1> QED
  BY <1>1, <1>2, <1>3, <1>4, <1>5, <1>6, <1>7, Acts

\* A flight is led, and consumed, by callers past their start.
LEMMA OnStep == IInv /\ [Next]_vars => OnInv'
<1> SUFFICES ASSUME IInv, [Next]_vars PROVE OnInv'
  OBVIOUS
<1> USE DEF callerVars, flightVars, runVars
<1>0. TypeOK /\ QueueInv /\ OnInv /\ TypeOK'
  BY TypeStep DEF IInv
<1>1. CASE UNCHANGED <<pc, on, stage>>
  BY <1>0, <1>1 DEF OnInv
<1>2. CASE \E c \in Callers : coordinateRecall(c) \/ Lookup(c)
  <2>1. PICK c \in Callers : coordinateRecall(c) \/ Lookup(c)
    BY <1>2
  <2>2. CASE JoinOrLead(c)
    <3>1. on[c] = None /\ stage[c] = "none"
      BY <2>1, <2>2, Joins
    <3>2. \A d \in Callers : on[d] # c
      BY <1>0, <3>1, RecallAssumption DEF OnInv
    <3>3. pc' = [pc EXCEPT ![c] = pc'[c]] /\ pc'[c] \in {"catch", "await"} /\ (pc'[c] = "await" => c \notin gone)
      BY <1>0, <2>2 DEF JoinOrLead, Goto, TypeOK
    <3>4. CASE c \in gone
      BY <1>0, <2>2, <3>1, <3>3, <3>4 DEF JoinOrLead, Goto, OnInv, TypeOK
    <3>5. CASE c \notin gone /\ Joinable(Work[c])
      <4>1. on' = [on EXCEPT ![c] = registry[Work[c]]] /\ UNCHANGED stage /\ pc'[c] = "await"
        BY <1>0, <2>2, <3>5 DEF JoinOrLead, join, Goto, TypeOK
      <4>2. /\ registry[Work[c]] \in Callers /\ on[registry[Work[c]]] = registry[Work[c]]
            /\ Work[registry[Work[c]]] = Work[c]
        BY <1>0, <3>5 DEF IInv, RegistryInv, Joinable, TypeOK, Works
      <4> QED
        BY <1>0, <3>1, <3>2, <3>3, <4>1, <4>2, RecallAssumption DEF OnInv, TypeOK
    <3>6. CASE c \notin gone /\ ~Joinable(Work[c])
      <4>1. createAndStartFlight(c) /\ pc'[c] = "await"
        BY <1>0, <2>2, <3>6 DEF JoinOrLead, Goto, TypeOK
      <4>2. on' = [on EXCEPT ![c] = c]
        BY <4>1 DEF createAndStartFlight
      <4>3. stage' = [stage EXCEPT ![c] = stage'[c]] /\ stage'[c] # "none"
        BY <1>0, <3>1, <4>1, Started DEF TypeOK
      <4> QED
        BY <1>0, <3>1, <3>2, <3>3, <4>1, <4>2, <4>3, RecallAssumption DEF OnInv, TypeOK
    <3> QED
      BY <3>4, <3>5, <3>6
  <2>3. CASE ~JoinOrLead(c)
    <3>1. UNCHANGED <<on, stage>>
      BY <2>1, <2>3 DEF coordinateRecall, Lookup
    <3>2. on[c] = None
      BY <1>0, <2>1 DEF OnInv, coordinateRecall, Lookup
    <3>3. pc' = [pc EXCEPT ![c] = pc'[c]] /\ pc'[c] \in {"guard", "rejected", "replayed"}
      BY <1>0, <2>1, <2>3 DEF coordinateRecall, Lookup, Goto, TypeOK
    <3> QED
      BY <1>0, <3>1, <3>2, <3>3 DEF OnInv, TypeOK
  <2> QED
    BY <2>2, <2>3
<1>3. CASE \E c \in Callers : Abort(c)
  <2>1. PICK c \in Callers : Abort(c)
    BY <1>3
  <2>2. UNCHANGED <<pc, on>>
    BY <2>1 DEF Abort
  <2>3. \A f \in Callers : stage'[f] = "none" <=> stage[f] = "none"
    <3>1. CASE UNCHANGED stage
      BY <3>1
    <3>2. CASE c \in attached /\ Cancel(on[c])
      <4>1. on[c] \in Callers
        BY <1>0, <3>2 DEF IInv, CallerInv, OnInv, TypeOK
      <4>2. stage' = [stage EXCEPT ![on[c]] = IF @ = "queued" THEN "failed" ELSE @]
        BY <1>0, <3>2, <4>1, Cancelled
      <4> QED
        BY <1>0, <4>1, <4>2 DEF TypeOK
    <3> QED
      BY <2>1, <3>1, <3>2 DEF Abort
  <2> QED
    BY <1>0, <2>2, <2>3 DEF OnInv
<1>4. CASE \E f \in Callers : Enter(f) \/ Reserve(f) \/ Resolve(f) \/ Fail(f)
  <2>1. PICK f \in Callers : Enter(f) \/ Reserve(f) \/ Resolve(f) \/ Fail(f)
    BY <1>4
  <2>2. UNCHANGED <<pc, on>>
    BY <2>1 DEF Enter, Reserve, Resolve, Fail
  <2>3. \A g \in Callers : stage'[g] = "none" <=> stage[g] = "none"
    BY <1>0, <2>1, SlotStep
  <2> QED
    BY <1>0, <2>2, <2>3 DEF OnInv
<1>5. ASSUME NEW c \in Callers,
             \/ LockKey(c) \/ GuardFails(c) \/ Leave(c) \/ FlightFails(c) \/ consumeFlight(c)
             \/ Deliver(c) \/ Check(c) \/ put(c) \/ Catch(c)
      PROVE  OnInv'
  <2>1. UNCHANGED <<on, stage>>
    BY <1>5 DEF LockKey, GuardFails, Leave, FlightFails, consumeFlight, Deliver, Check, put, Catch
  <2>2. /\ pc' = [pc EXCEPT ![c] = pc'[c]]
        /\ \/ pc[c] \in {"guard", "get"} /\ pc'[c] \in {"get", "rejected"}
           \/ pc[c] \in {"await", "check", "put", "catch"} /\ pc'[c] \in {"catch", "check", "put", "answered", "kept", "rejected"}
        /\ pc[c] = "catch" => pc'[c] = "rejected"
    BY <1>0, <1>5 DEF LockKey, GuardFails, Leave, FlightFails, consumeFlight, Charge, Deliver, Check, put, Catch, Step, Goto, TypeOK
  <2> QED
    BY <1>0, <2>1, <2>2 DEF OnInv, TypeOK
<1> QED
  BY <1>1, <1>2, <1>3, <1>4, <1>5, Acts DEF vars, LateRelease

\* A flight that is over stays over.
LEMMA StageKept ==
  ASSUME TypeOK, QueueInv, NEW g \in Callers, stage[g] \in {"resolved", "failed"},
         \E f \in Callers : Enter(f) \/ Reserve(f) \/ Resolve(f) \/ Fail(f)
  PROVE  stage'[g] = stage[g]
BY SlotStep

\* Every step keeps what a caller's place says of the sets it is in.
LEMMA CallerStepInv == IInv /\ [Next]_vars => CallerInv'
<1> SUFFICES ASSUME IInv, [Next]_vars PROVE CallerInv'
  OBVIOUS
<1> USE DEF callerVars, flightVars, runVars
<1>0. TypeOK /\ QueueInv /\ OnInv /\ CallerInv /\ TypeOK'
  BY TypeStep DEF IInv
<1>1. CASE UNCHANGED vars
  BY <1>0, <1>1 DEF CallerInv, vars
<1>2. CASE \E c \in Callers : coordinateRecall(c) \/ Lookup(c)
  <2>1. PICK c \in Callers : coordinateRecall(c) \/ Lookup(c)
    BY <1>2
  <2>2. on[c] = None /\ stage[c] = "none" /\ c \notin attached /\ c \notin captured /\ c \notin orphaned
    BY <1>0, <2>1, RecallAssumption DEF OnInv, CallerInv, TypeOK, coordinateRecall, Lookup
  <2>3. UNCHANGED <<gone, captured, orphaned>>
    BY <2>1 DEF coordinateRecall, Lookup
  <2>4. CASE JoinOrLead(c)
    <3>1. /\ pc' = [pc EXCEPT ![c] = IF c \in gone THEN "catch" ELSE "await"]
          /\ attached' = IF c \in gone THEN attached ELSE attached \cup {c}
          /\ \A d \in Callers \ {c} : on'[d] = on[d]
          /\ c \in gone => on' = on
      BY <1>0, <2>4 DEF JoinOrLead, join, createAndStartFlight, Goto, TypeOK
    <3>2. \A d \in Callers \ {c} : stage'[d] = stage[d]
      <4>1. CASE createAndStartFlight(c)
        BY <1>0, <2>2, <4>1, Started DEF TypeOK
      <4> QED
        BY <2>4, <4>1 DEF JoinOrLead, join
    <3>3. CASE c \in gone
      BY <1>0, <2>2, <2>3, <3>1, <3>2, <3>3, RecallAssumption DEF CallerInv, TypeOK
    <3>4. CASE c \notin gone
      BY <1>0, <2>2, <2>3, <3>1, <3>2, <3>4 DEF CallerInv, TypeOK
    <3> QED
      BY <3>3, <3>4
  <2>5. CASE ~JoinOrLead(c)
    <3>1. UNCHANGED <<on, stage, attached>>
      BY <2>1, <2>5 DEF coordinateRecall, Lookup
    <3>2. pc' = [pc EXCEPT ![c] = pc'[c]] /\ pc[c] # "await" /\ pc'[c] \in {"guard", "rejected", "replayed"} /\ c \in Keyed
      BY <1>0, <2>1, <2>5 DEF CallerInv, coordinateRecall, Lookup, Goto, TypeOK
    <3> QED
      BY <1>0, <2>2, <2>3, <3>1, <3>2, RecallAssumption DEF CallerInv, TypeOK
  <2> QED
    BY <2>4, <2>5
<1>3. CASE \E c \in Callers : Abort(c)
  <2>1. PICK c \in Callers : Abort(c)
    BY <1>3
  <2>2. UNCHANGED <<pc, on, captured, orphaned>> /\ gone' = gone \cup {c}
    BY <2>1 DEF Abort
  <2>3. attached' = attached \ {c}
    BY <2>1 DEF Abort, detach
  <2>4. \A f \in Callers : stage[f] \in {"resolved", "failed"} => stage'[f] = stage[f]
    <3>1. CASE c \in attached /\ Cancel(on[c])
      <4>1. on[c] \in Callers
        BY <1>0, <3>1 DEF CallerInv, OnInv, TypeOK
      <4> QED
        BY <1>0, <3>1, <4>1, Cancelled DEF TypeOK
    <3> QED
      BY <2>1, <3>1 DEF Abort
  <2> QED
    BY <1>0, <2>2, <2>3, <2>4 DEF CallerInv, TypeOK
<1>4. CASE \E f \in Callers : Enter(f) \/ Reserve(f) \/ Resolve(f) \/ Fail(f)
  <2>1. UNCHANGED <<pc, gone, on, attached, captured, orphaned>>
    BY <1>4 DEF Enter, Reserve, Resolve, Fail
  <2>2. \A g \in Callers : stage[g] \in {"resolved", "failed"} => stage'[g] = stage[g]
    BY <1>0, <1>4, StageKept
  <2> QED
    BY <1>0, <2>1, <2>2 DEF CallerInv
<1>5. CASE \E c \in Callers : LateRelease(c) \/ Leave(c)
  <2>1. PICK c \in Callers : LateRelease(c) \/ Leave(c)
    BY <1>5
  <2>2. UNCHANGED <<gone, on, attached, captured, stage>>
    BY <2>1 DEF LateRelease, Leave
  <2>3. CASE LateRelease(c)
    BY <1>0, <2>2, <2>3 DEF CallerInv, LateRelease
  <2>4. CASE Leave(c)
    BY <1>0, <2>2, <2>4 DEF CallerInv, OnInv, Leave, Leads, Step, Goto, TypeOK
  <2> QED
    BY <2>1, <2>3, <2>4
<1>6. ASSUME NEW c \in Callers, FlightFails(c) \/ consumeFlight(c)
      PROVE  CallerInv'
  <2>1. UNCHANGED <<gone, on, orphaned, stage>> /\ attached' = attached \ {c}
    BY <1>6 DEF FlightFails, consumeFlight, detach
  <2>2. /\ pc[c] = "await" /\ on[c] # None /\ stage[on[c]] \in {"resolved", "failed"} /\ c \notin captured
        /\ pc' = [pc EXCEPT ![c] = pc'[c]]
        /\ \/ pc'[c] = "catch" /\ captured' = captured
           \/ pc'[c] = "check" /\ captured' = captured \cup {c}
    BY <1>0, <1>6 DEF CallerInv, OnInv, FlightFails, consumeFlight, Charge, Step, Goto, TypeOK
  <2> QED
    BY <1>0, <2>1, <2>2 DEF CallerInv, TypeOK
<1>7. ASSUME NEW c \in Callers, LockKey(c) \/ GuardFails(c) \/ Deliver(c) \/ Check(c) \/ put(c) \/ Catch(c)
      PROVE  CallerInv'
  <2>1. UNCHANGED <<gone, on, captured, attached, orphaned, stage>>
    BY <1>7 DEF LockKey, GuardFails, Deliver, Check, put, Catch
  <2>2. /\ pc' = [pc EXCEPT ![c] = pc'[c]]
        /\ \/ pc[c] \in {"guard", "get"} /\ pc'[c] \in {"get", "rejected"} /\ c \in Keyed
           \/ pc[c] = "check" /\ pc'[c] \in {"answered", "rejected"}
           \/ pc[c] = "check" /\ c \in Keyed /\ pc'[c] \in {"put", "catch"}
           \/ pc[c] = "put" /\ c \in Keyed /\ pc'[c] \in {"answered", "kept", "catch"}
           \/ pc[c] = "catch" /\ pc'[c] = "rejected"
    BY <1>0, <1>7 DEF CallerInv, LockKey, GuardFails, Deliver, Check, put, Catch, Step, Goto, TypeOK
  <2>3. pc[c] \in {"guard", "get"} => on[c] = None
    BY <1>0 DEF OnInv
  <2> QED
    BY <1>0, <2>1, <2>2, <2>3, RecallAssumption DEF CallerInv, TypeOK
<1> QED
  BY <1>1, <1>2, <1>3, <1>4, <1>5, <1>6, <1>7, Acts

\* What settles a gate, and that a gate that opened stays open.
LEMMA Settled ==
  ASSUME TypeOK, NEW c \in Callers, NEW o \in {"ok", "failed"}, SettleGate(c, o)
  PROVE  /\ on[c] = c /\ gate[c] = "pending" => gate' = [gate EXCEPT ![c] = o]
         /\ ~(on[c] = c /\ gate[c] = "pending") => gate' = gate
BY DEF SettleGate, Leads

\* Every step keeps the gates with their leaders.
LEMMA GateStep == IInv /\ [Next]_vars => GateInv'
<1> SUFFICES ASSUME IInv, [Next]_vars PROVE GateInv'
  OBVIOUS
<1> USE DEF callerVars, flightVars, runVars
<1>0. TypeOK /\ QueueInv /\ OnInv /\ CallerInv /\ GateInv /\ TypeOK'
  BY TypeStep DEF IInv
<1>1. CASE UNCHANGED <<pc, on, gate>>
  BY <1>0, <1>1 DEF GateInv
<1>2. CASE \E c \in Callers : coordinateRecall(c) \/ Lookup(c)
  <2>1. PICK c \in Callers : coordinateRecall(c) \/ Lookup(c)
    BY <1>2
  <2>2. on[c] = None /\ gate[c] = "none" /\ \A d \in Callers : on[d] # c
    BY <1>0, <2>1, RecallAssumption DEF OnInv, GateInv, TypeOK, coordinateRecall, Lookup
  <2>3. pc' = [pc EXCEPT ![c] = pc'[c]] /\ pc'[c] \in {"guard", "catch", "await", "rejected", "replayed"}
    BY <1>0, <2>1 DEF JoinOrLead, coordinateRecall, Lookup, Goto, TypeOK
  <2>4. CASE UNCHANGED <<on, gate>>
    BY <1>0, <2>2, <2>3, <2>4, RecallAssumption DEF GateInv, TypeOK
  <2>5. CASE c \notin gone /\ Joinable(Work[c]) /\ JoinOrLead(c)
    <3>1. on' = [on EXCEPT ![c] = registry[Work[c]]] /\ gate' = gate /\ registry[Work[c]] # c /\ pc'[c] = "await"
      BY <1>0, <2>2, <2>5, RecallAssumption DEF JoinOrLead, join, Joinable, Goto, TypeOK, IInv, RegistryInv, Works
    <3> QED
      BY <1>0, <2>2, <2>3, <3>1, RecallAssumption DEF GateInv, TypeOK
  <2>6. CASE createAndStartFlight(c) /\ pc'[c] = "await"
    <3>1. on' = [on EXCEPT ![c] = c] /\ gate' = [gate EXCEPT ![c] = IF c \in Keyed THEN "pending" ELSE "none"]
      BY <2>6 DEF createAndStartFlight
    <3> QED
      BY <1>0, <2>2, <2>3, <2>6, <3>1, RecallAssumption DEF GateInv, TypeOK
  <2> QED
    BY <1>0, <2>1, <2>4, <2>5, <2>6 DEF coordinateRecall, Lookup, JoinOrLead, Goto, TypeOK
<1>3. ASSUME NEW c \in Callers, LockKey(c) \/ GuardFails(c) \/ Leave(c) \/ FlightFails(c) \/ consumeFlight(c) \/ Deliver(c)
      PROVE  GateInv'
  <2>1. UNCHANGED <<on, gate>>
    BY <1>3 DEF LockKey, GuardFails, Leave, FlightFails, consumeFlight, Deliver
  <2>2. /\ pc' = [pc EXCEPT ![c] = pc'[c]]
        /\ \/ on[c] = None /\ pc'[c] \in {"get", "rejected"}
           \/ pc[c] = "await" /\ pc'[c] \in {"check", "catch"}
           \/ c \notin Keyed /\ pc'[c] \in {"answered", "rejected"}
    BY <1>0, <1>3 DEF OnInv, LockKey, GuardFails, Leave, FlightFails, consumeFlight, Charge, Deliver, Step, Goto, TypeOK
  <2> QED
    BY <1>0, <2>1, <2>2, RecallAssumption DEF GateInv, TypeOK
<1>4. ASSUME NEW c \in Callers, Check(c)
      PROVE  GateInv'
  <2>1. UNCHANGED <<on, gate>> /\ pc[c] = "check"
    BY <1>4 DEF Check
  <2>2. /\ pc' = [pc EXCEPT ![c] = pc'[c]] /\ pc'[c] \in {"put", "catch"}
        /\ pc'[c] = "put" => on[c] = c \/ gate[on[c]] \in {"none", "ok"}
    BY <1>0, <1>4 DEF Check, Leads, Persisted, Goto, TypeOK
  <2> QED
    BY <1>0, <2>1, <2>2 DEF GateInv, TypeOK
<1>5. ASSUME NEW c \in Callers, put(c)
      PROVE  GateInv'
  <2>1. on' = on /\ pc[c] = "put" /\ pc' = [pc EXCEPT ![c] = pc'[c]] /\ c \in Keyed /\ on[c] # None
    BY <1>0, <1>5 DEF put, Goto, TypeOK, CallerInv, OnInv
  <2>2. CASE gate' = gate /\ pc'[c] = "catch"
    BY <1>0, <2>1, <2>2 DEF GateInv, TypeOK
  <2>3. CASE SettleGate(c, "ok") /\ pc'[c] \in {"kept", "answered"}
    <3>1. /\ on[c] = c => gate' = [gate EXCEPT ![c] = "ok"]
          /\ on[c] # c => gate' = gate
      BY <1>0, <2>1, <2>3, Settled DEF GateInv, TypeOK
    <3> QED
      BY <1>0, <2>1, <2>3, <3>1 DEF GateInv, TypeOK
  <2> QED
    BY <1>0, <1>5, <2>2, <2>3 DEF put, Goto, TypeOK
<1>6. ASSUME NEW c \in Callers, Catch(c)
      PROVE  GateInv'
  <2>1. on' = on /\ pc[c] = "catch" /\ pc' = [pc EXCEPT ![c] = "rejected"] /\ SettleGate(c, "failed")
    BY <1>6 DEF Catch, Step, Goto
  <2>2. /\ on[c] = c /\ gate[c] = "pending" => gate' = [gate EXCEPT ![c] = "failed"]
        /\ ~(on[c] = c /\ gate[c] = "pending") => gate' = gate
    BY <1>0, <2>1, Settled
  <2>3. \A d \in Callers : on[d] # None => on[on[d]] = on[d] /\ on[d] \in Callers
    BY <1>0 DEF OnInv, TypeOK
  <2>4. \A d \in Callers : d \in Keyed /\ on[d] \notin {None, d} /\ pc[d] \in {"put", "answered", "kept"} => on[d] # c \/ gate[c] # "pending"
    BY <1>0 DEF GateInv
  <2> QED
    BY <1>0, <2>1, <2>2, <2>3, <2>4 DEF GateInv, TypeOK
<1> QED
  BY <1>1, <1>2, <1>3, <1>4, <1>5, <1>6, Acts DEF vars, LateRelease, Abort, Enter, Reserve, Resolve, Fail

\* What leaving a flight changes, of its callers and of the registry.
LEMMA Detached ==
  ASSUME NEW c \in Callers, NEW f \in Callers, on[c] = f, detach(c), on' = on
  PROVE  /\ \A g \in Callers : g # f => Live(g)' = Live(g)
         /\ Live(f)' = Live(f) \ {c}
         /\ Live(f) # {c} => UNCHANGED <<idle, registry>>
         /\ Live(f) = {c} /\ gate[f] = "pending" => idle' = idle \cup {f} /\ registry' = registry
         /\ Live(f) = {c} /\ gate[f] # "pending" => idle' = idle /\ Unregister(f)
<1>1. attached' = attached \ {c}
  BY DEF detach
<1>2. \A g \in Callers : Live(g)' = Live(g) \ {c}
  BY <1>1 DEF Live
<1>3. \A g \in Callers : g # f => c \notin Live(g)
  BY DEF Live
<1>4. \A g \in Callers : g # f => Live(g)' = Live(g)
  BY <1>2, <1>3
<1> QED
  BY <1>2, <1>4 DEF detach, onIdle

\* A keyed flight whose gate is settled is not under way any more.
LEMMA SettledIsOver ==
  ASSUME CallerInv, GateInv, TypeOK, NEW f \in Callers, gate[f] \in {"ok", "failed"}
  PROVE  stage[f] \in {"resolved", "failed"} /\ ~Underway(f)
BY DEF CallerInv, GateInv, TypeOK, Underway

\* The registry after a caller has left the flight f, which is over or cancelled
\* unless its gate is pending or others are left.
LEMMA RegistryDetached ==
  ASSUME TypeOK, OnInv, RegistryInv, NEW c \in Callers, NEW f \in Callers, on[c] = f, detach(c),
         on' = on, gate' = gate,
         \A g \in Callers : Underway(g)' => Underway(g),
         Live(f) = {c} /\ gate[f] # "pending" => ~Underway(f)'
  PROVE  RegistryInv'
<1>0. on[f] = f /\ Work[f] \in Works /\ \A g \in Callers : Work[g] \in Works
  BY RecallAssumption DEF OnInv, Works, TypeOK
<1>1. /\ \A g \in Callers : g # f => Live(g)' = Live(g)
      /\ Live(f)' = Live(f) \ {c}
      /\ Live(f) # {c} => UNCHANGED <<idle, registry>>
      /\ Live(f) = {c} /\ gate[f] = "pending" => idle' = idle \cup {f} /\ registry' = registry
      /\ Live(f) = {c} /\ gate[f] # "pending" => idle' = idle /\ Unregister(f)
  BY Detached
<1>2. \A w \in Works : registry[w] # None => registry[w] \in Callers
  BY DEF TypeOK
<1>3. CASE Live(f) # {c}
  <2>1. Live(f) # {} => Live(f)' # {}
    BY <1>1, <1>3
  <2>2. \A g \in Callers : Live(g) # {} => Live(g)' # {}
    BY <1>1, <2>1
  <2>3. UNCHANGED <<idle, registry, on, gate>>
    BY <1>1, <1>3
  <2> QED
    BY <1>0, <1>2, <2>2, <2>3 DEF RegistryInv
<1>4. CASE Live(f) = {c} /\ gate[f] = "pending"
  <2>1. idle' = idle \cup {f} /\ UNCHANGED <<registry, on, gate>>
    BY <1>1, <1>4
  <2> QED
    BY <1>0, <1>1, <1>2, <1>4, <2>1 DEF RegistryInv
<1>5. CASE Live(f) = {c} /\ gate[f] # "pending"
  <2>1. /\ idle' = idle /\ on' = on /\ gate' = gate
        /\ registry' = IF registry[Work[f]] = f THEN [registry EXCEPT ![Work[f]] = None] ELSE registry
    BY <1>1, <1>5 DEF Unregister
  <2>2. \A w \in Works : registry'[w] # None => registry'[w] = registry[w] /\ registry[w] # f
    BY <1>0, <2>1, RecallAssumption DEF RegistryInv, TypeOK
  <2>3. \A w \in Works : registry[w] # None /\ registry[w] # f => registry'[w] = registry[w]
    BY <1>0, <2>1 DEF TypeOK
  <2>4. ASSUME NEW g \in Callers, Underway(g)'
        PROVE  registry'[Work[g]] = g
    <3>1. g # f /\ registry[Work[g]] = g
      BY <1>5, <2>4 DEF RegistryInv
    <3> QED
      BY <1>0, <2>3, <3>1, RecallAssumption
  <2> QED
    BY <1>0, <1>1, <1>2, <2>1, <2>2, <2>4 DEF RegistryInv
<1> QED
  BY <1>3, <1>4, <1>5

\* Every step keeps the registry with the flights under way.
LEMMA RegistryStep == IInv /\ [Next]_vars => RegistryInv'
<1> SUFFICES ASSUME IInv, [Next]_vars PROVE RegistryInv'
  OBVIOUS
<1> USE DEF callerVars, flightVars, runVars
<1>0. TypeOK /\ QueueInv /\ OnInv /\ CallerInv /\ GateInv /\ RegistryInv /\ TypeOK'
  BY TypeStep DEF IInv
<1>1. ASSUME UNCHANGED <<on, attached, idle, registry, gate>>, \A g \in Callers : Underway(g)' => Underway(g)
      PROVE  RegistryInv'
  <2>1. \A g \in Callers : Live(g)' = Live(g)
    BY <1>1 DEF Live
  <2> QED
    BY <1>0, <1>1, <2>1 DEF RegistryInv, TypeOK
<1>2. CASE UNCHANGED <<on, attached, idle, registry, gate, stage, cancelled>>
  BY <1>1, <1>2 DEF Underway
<1>3. CASE \E c \in Callers : coordinateRecall(c) \/ Lookup(c)
  <2>1. PICK c \in Callers : coordinateRecall(c) \/ Lookup(c)
    BY <1>3
  <2>2. CASE ~JoinOrLead(c) \/ (JoinOrLead(c) /\ c \in gone)
    BY <1>2, <2>1, <2>2 DEF coordinateRecall, Lookup, JoinOrLead
  <2>3. CASE JoinOrLead(c) /\ c \notin gone
    <3>1. on[c] = None /\ stage[c] = "none" /\ c \notin attached
      BY <2>1, <2>3, Joins
    <3>2. attached' = attached \cup {c} /\ idle' = idle /\ cancelled' = cancelled /\ on'[c] \in Callers
          /\ \A d \in Callers \ {c} : on'[d] = on[d]
      BY <1>0, <2>3 DEF JoinOrLead, join, Joinable, createAndStartFlight, TypeOK, Works
    <3>3. \A g \in Callers : Live(g) \subseteq Live(g)' /\ (on'[c] = g => c \in Live(g)')
      BY <1>0, <3>1, <3>2 DEF Live, TypeOK
    <3>4. \A w \in Works : registry[w] # None => registry[w] \in Callers \ {c}
      BY <1>0, <3>1, RecallAssumption DEF RegistryInv, TypeOK
    <3>5. CASE Joinable(Work[c])
      <4>1. UNCHANGED <<registry, gate, stage>>
        BY <2>3, <3>5 DEF JoinOrLead, join
      <4>2. \A g \in Callers : Underway(g)' => Underway(g)
        BY <3>2, <4>1 DEF Underway
      <4> QED
        BY <1>0, <3>2, <3>3, <3>4, <4>1, <4>2 DEF RegistryInv
    <3>6. CASE ~Joinable(Work[c])
      <4>1. createAndStartFlight(c)
        BY <2>3, <3>6 DEF JoinOrLead
      <4>2. /\ on'[c] = c /\ registry' = [registry EXCEPT ![Work[c]] = c] /\ Work[c] \in Works
            /\ \A g \in Callers \ {c} : gate'[g] = gate[g]
        BY <1>0, <4>1 DEF createAndStartFlight, TypeOK, Works
      <4>3. \A g \in Callers \ {c} : stage'[g] = stage[g]
        BY <1>0, <3>1, <4>1, Started DEF TypeOK
      <4>4. \A w \in Works \ {Work[c]} : registry'[w] = registry[w]
        BY <1>0, <4>2 DEF TypeOK
      <4>5. registry'[Work[c]] = c
        BY <1>0, <4>2 DEF TypeOK
      <4>6. ASSUME NEW g \in Callers, Underway(g)' PROVE registry'[Work[g]] = g
        <5>1. CASE g = c
          BY <4>5, <5>1
        <5>2. CASE g # c
          <6>1. Underway(g) /\ registry[Work[g]] = g
            BY <1>0, <3>2, <4>2, <4>3, <4>6, <5>2 DEF RegistryInv, Underway
          <6>2. Work[g] # Work[c]
            BY <3>6, <6>1, RecallAssumption DEF Joinable, Underway
          <6> QED
            BY <4>4, <6>1, <6>2 DEF Works
        <5> QED
          BY <5>1, <5>2
      <4>7. ASSUME NEW w \in Works, NEW g \in Callers, registry'[w] = g
            PROVE  on'[g] = g /\ Work[g] = w /\ (Live(g)' # {} \/ (gate'[g] = "pending" /\ g \in idle'))
        <5>1. CASE w = Work[c]
          BY <3>3, <4>2, <4>5, <4>7, <5>1
        <5>2. CASE w # Work[c]
          <6>1. registry[w] = g /\ g # c
            BY <3>4, <4>4, <4>7, <5>2, RecallAssumption
          <6>2. on[g] = g /\ Work[g] = w /\ (Live(g) # {} \/ (gate[g] = "pending" /\ g \in idle))
            BY <1>0, <4>7, <6>1, RecallAssumption DEF RegistryInv
          <6> QED
            BY <3>2, <3>3, <4>2, <4>7, <6>1, <6>2
        <5> QED
          BY <5>1, <5>2
      <4>8. \A w \in Works : registry'[w] \in Callers \cup {None}
        BY <1>0 DEF TypeOK
      <4> QED
        BY <4>6, <4>7, <4>8 DEF RegistryInv
    <3> QED
      BY <3>5, <3>6
  <2> QED
    BY <2>2, <2>3
<1>4. CASE \E c \in Callers : Abort(c)
  <2>1. PICK c \in Callers : Abort(c)
    BY <1>4
  <2>2. CASE c \notin attached
    BY <1>2, <2>1, <2>2 DEF Abort
  <2>3. CASE c \in attached
    <3>0. PICK f \in Callers : on[c] = f
      BY <1>0, <2>3 DEF CallerInv, OnInv, TypeOK
    <3>1. detach(c) /\ on' = on /\ gate' = gate
      BY <2>1, <2>3 DEF Abort
    <3>2. \/ UNCHANGED runVars
          \/ Cancel(f) /\ cancelled' = cancelled \cup {f} /\ stage' = [stage EXCEPT ![f] = IF @ = "queued" THEN "failed" ELSE @]
      BY <1>0, <2>1, <2>3, <3>0, Cancelled DEF Abort
    <3>3. \A g \in Callers : Underway(g)' => Underway(g)
      BY <1>0, <3>1, <3>2 DEF Underway, TypeOK
    <3>4. ASSUME Live(f) = {c}, gate[f] # "pending" PROVE ~Underway(f)'
      <4>1. CASE gate[f] = "none"
        <5>1. Cancel(f)
          BY <2>1, <2>3, <3>0, <3>4, <4>1 DEF Abort, Cancels
        <5> QED
          BY <5>1 DEF Cancel, Underway
      <4>2. CASE gate[f] \in {"ok", "failed"}
        BY <1>0, <3>1, <3>3, <4>2, SettledIsOver
      <4> QED
        BY <1>0, <3>1, <3>4, <4>1, <4>2 DEF TypeOK
    <3> QED
      BY <1>0, <3>0, <3>1, <3>3, <3>4, RegistryDetached
  <2> QED
    BY <2>2, <2>3
<1>5. CASE \E f \in Callers : Enter(f) \/ Reserve(f) \/ Resolve(f) \/ Fail(f)
  <2>1. PICK f \in Callers : Enter(f) \/ Reserve(f) \/ Resolve(f) \/ Fail(f)
    BY <1>5
  <2>2. UNCHANGED <<on, attached, idle, registry, gate, cancelled>>
    BY <2>1 DEF Enter, Reserve, Resolve, Fail
  <2>3. \A g \in Callers : Underway(g)' => Underway(g)
    <3>1. /\ \A g \in Callers \ {f} : stage'[g] = stage[g] \/ (stage[g] = "queued" /\ stage'[g] = "granted")
          /\ stage[f] \in {"granted", "running", "reserved"}
      BY <1>0, <2>1, SlotStep
    <3> QED
      BY <2>2, <3>1 DEF Underway
  <2> QED
    BY <1>1, <2>2, <2>3
<1>6. CASE \E c \in Callers : FlightFails(c) \/ consumeFlight(c)
  <2>1. PICK c \in Callers : FlightFails(c) \/ consumeFlight(c)
    BY <1>6
  <2>2. /\ on[c] \in Callers /\ detach(c) /\ UNCHANGED <<on, gate, stage, cancelled>>
        /\ stage[on[c]] \in {"resolved", "failed"}
    BY <1>0, <2>1 DEF FlightFails, consumeFlight, OnInv, TypeOK, Step
  <2>3. \A g \in Callers : Underway(g)' => Underway(g)
    BY <2>2 DEF Underway
  <2>4. gate[on[c]] # "pending" => ~Underway(on[c])'
    BY <2>2 DEF Underway
  <2> QED
    BY <1>0, <2>2, <2>3, <2>4, RegistryDetached
<1>7. ASSUME NEW c \in Callers, NEW o \in {"ok", "failed"}, SettleGate(c, o),
             UNCHANGED <<on, attached, idle, stage, cancelled>>, pc[c] # "await"
      PROVE  RegistryInv'
  <2>1. \A g \in Callers : Live(g)' = Live(g)
    BY <1>7 DEF Live
  <2>2. CASE ~(on[c] = c /\ gate[c] = "pending")
    BY <1>2, <1>7, <2>2 DEF SettleGate, Leads
  <2>3. CASE on[c] = c /\ gate[c] = "pending"
    <3>1. /\ gate' = [gate EXCEPT ![c] = o] /\ gate'[c] = o /\ o # "pending" /\ Work[c] \in Works
          /\ c \notin idle => registry' = registry
          /\ c \in idle => registry' = IF registry[Work[c]] = c THEN [registry EXCEPT ![Work[c]] = None] ELSE registry
      BY <1>0, <1>7, <2>3 DEF SettleGate, Leads, Unregister, TypeOK, Works
    <3>2. stage[c] \in {"resolved", "failed"}
      BY <1>0, <1>7, <2>3 DEF CallerInv, GateInv
    <3>3. ~Underway(c)' /\ \A g \in Callers \ {c} : Underway(g)' => Underway(g)
      BY <1>0, <1>7, <3>1, <3>2 DEF Underway, TypeOK
    <3>4. \A w \in Works : registry[w] # None => registry[w] \in Callers /\ Work[registry[w]] = w
      BY <1>0 DEF RegistryInv, TypeOK
    <3>5. \A w \in Works : registry'[w] # None => registry'[w] = registry[w] /\ (registry[w] = c => c \notin idle)
      BY <1>0, <3>1, <3>4, RecallAssumption DEF TypeOK
    <3>6. \A w \in Works : registry[w] # None /\ registry[w] # c => registry'[w] = registry[w]
      BY <1>0, <3>1, <3>4 DEF TypeOK
    <3>7. ASSUME NEW g \in Callers, Underway(g)' PROVE registry'[Work[g]] = g
      <4>1. g # c /\ registry[Work[g]] = g /\ Work[g] \in Works
        BY <1>0, <3>3, <3>7 DEF RegistryInv, Works
      <4> QED
        BY <3>6, <4>1, RecallAssumption
    <3>8. ASSUME NEW w \in Works, NEW g \in Callers, registry'[w] = g
          PROVE  on'[g] = g /\ Work[g] = w /\ (Live(g)' # {} \/ (gate'[g] = "pending" /\ g \in idle'))
      <4>1. registry[w] = g /\ (g = c => c \notin idle)
        BY <3>5, <3>8, RecallAssumption
      <4>2. on[g] = g /\ Work[g] = w /\ (Live(g) # {} \/ (gate[g] = "pending" /\ g \in idle))
        BY <1>0, <3>8, <4>1, RecallAssumption DEF RegistryInv
      <4>3. g # c => gate'[g] = gate[g]
        BY <1>0, <3>1 DEF TypeOK
      <4> QED
        BY <1>7, <2>1, <4>1, <4>2, <4>3
    <3>9. \A w \in Works : registry'[w] \in Callers \cup {None}
      BY <1>0 DEF TypeOK
    <3> QED
      BY <3>7, <3>8, <3>9 DEF RegistryInv
  <2> QED
    BY <2>2, <2>3
<1>8. CASE \E c \in Callers : put(c) \/ Catch(c)
  <2>1. PICK c \in Callers : put(c) \/ Catch(c)
    BY <1>8
  <2>2. UNCHANGED <<on, attached, idle, stage, cancelled>> /\ pc[c] # "await"
    BY <2>1 DEF put, Catch, Step
  <2>3. (\E o \in {"ok", "failed"} : SettleGate(c, o)) \/ UNCHANGED <<gate, registry>>
    BY <2>1 DEF put, Catch
  <2> QED
    BY <1>2, <1>7, <2>2, <2>3
<1> QED
  BY <1>2, <1>3, <1>4, <1>5, <1>6, <1>8, Acts
     DEF vars, LateRelease, LockKey, GuardFails, Leave, Deliver, Check

\* A flight nobody waits for is cancelled before it runs on.
LEMMA AbandonedStep == IInv /\ [Next]_vars => AbandonedIsCancelled'
<1> SUFFICES ASSUME IInv, [Next]_vars PROVE AbandonedIsCancelled'
  OBVIOUS
<1> USE DEF callerVars, flightVars, runVars
<1> DEFINE Unsure(f) == stage[f] \in {"queued", "granted"} \/ (stage[f] \in {"running", "reserved"} /\ gate[f] = "none")
<1>0. TypeOK /\ QueueInv /\ OnInv /\ CallerInv /\ GateInv /\ AbandonedIsCancelled /\ TypeOK'
  BY TypeStep DEF IInv
<1>1. ASSUME \A f \in Callers : Unsure(f)' /\ Live(f)' = {} /\ f \notin cancelled' => Unsure(f) /\ Live(f) = {} /\ f \notin cancelled
      PROVE  AbandonedIsCancelled'
  BY <1>0, <1>1 DEF AbandonedIsCancelled
<1>2. CASE UNCHANGED <<on, attached, gate, stage, cancelled>>
  BY <1>0, <1>2 DEF AbandonedIsCancelled, Live
<1>3. CASE \E c \in Callers : coordinateRecall(c) \/ Lookup(c)
  <2>1. PICK c \in Callers : coordinateRecall(c) \/ Lookup(c)
    BY <1>3
  <2>2. CASE ~JoinOrLead(c) \/ (JoinOrLead(c) /\ c \in gone)
    BY <1>2, <2>1, <2>2 DEF coordinateRecall, Lookup, JoinOrLead
  <2>3. CASE JoinOrLead(c) /\ c \notin gone
    <3>1. on[c] = None /\ stage[c] = "none" /\ c \notin attached
      BY <2>1, <2>3, Joins
    <3>2. attached' = attached \cup {c} /\ cancelled' = cancelled /\ \A d \in Callers \ {c} : on'[d] = on[d]
      BY <1>0, <2>3 DEF JoinOrLead, join, createAndStartFlight, TypeOK
    <3>3. \A g \in Callers : Live(g) \subseteq Live(g)' /\ (on'[c] = g => c \in Live(g)')
      BY <1>0, <3>1, <3>2 DEF Live, TypeOK
    <3>4. CASE createAndStartFlight(c)
      <4>1. on'[c] = c /\ \A g \in Callers \ {c} : gate'[g] = gate[g]
        BY <1>0, <3>4 DEF createAndStartFlight, TypeOK
      <4>2. \A g \in Callers \ {c} : stage'[g] = stage[g]
        BY <1>0, <3>1, <3>4, Started DEF TypeOK
      <4> QED
        BY <1>1, <3>2, <3>3, <4>1, <4>2
    <3>5. CASE UNCHANGED <<stage, gate>>
      BY <1>1, <3>2, <3>3, <3>5
    <3> QED
      BY <2>3, <3>4, <3>5 DEF JoinOrLead, join
  <2> QED
    BY <2>2, <2>3
<1>4. CASE \E c \in Callers : Abort(c)
  <2>1. PICK c \in Callers : Abort(c)
    BY <1>4
  <2>2. CASE c \notin attached
    BY <1>2, <2>1, <2>2 DEF Abort
  <2>3. CASE c \in attached
    <3>0. PICK f \in Callers : on[c] = f
      BY <1>0, <2>3 DEF CallerInv, OnInv, TypeOK
    <3>1. detach(c) /\ on' = on /\ gate' = gate
      BY <2>1, <2>3 DEF Abort
    <3>2. Live(f)' = Live(f) \ {c} /\ \A g \in Callers : g # f => Live(g)' = Live(g)
      BY <3>0, <3>1, Detached
    <3>3. CASE Live(f) = {c} /\ Cancels(f)
      <4>1. Cancel(f)
        BY <2>1, <2>3, <3>0, <3>3 DEF Abort
      <4>2. cancelled' = cancelled \cup {f} /\ \A g \in Callers \ {f} : stage'[g] = stage[g]
        BY <1>0, <4>1, Cancelled DEF TypeOK
      <4> QED
        BY <1>1, <3>1, <3>2, <4>2
    <3>4. CASE Live(f) # {c}
      <4>1. UNCHANGED <<stage, cancelled>> /\ (Live(f)' = {} => Live(f) = {})
        BY <2>1, <2>3, <3>0, <3>2, <3>4 DEF Abort
      <4> QED
        BY <1>1, <3>1, <3>2, <4>1
    <3>5. CASE ~Cancels(f)
      <4>1. UNCHANGED <<stage, cancelled>> /\ ~Unsure(f)
        BY <2>1, <2>3, <3>0, <3>5 DEF Abort, Cancels, Committed
      <4> QED
        BY <1>1, <3>1, <3>2, <4>1
    <3> QED
      BY <3>3, <3>4, <3>5
  <2> QED
    BY <2>2, <2>3
<1>5. CASE \E f \in Callers : Enter(f) \/ Reserve(f) \/ Resolve(f) \/ Fail(f)
  <2>1. PICK f \in Callers : Enter(f) \/ Reserve(f) \/ Resolve(f) \/ Fail(f)
    BY <1>5
  <2>2. UNCHANGED <<on, attached, gate, cancelled>>
    BY <2>1 DEF Enter, Reserve, Resolve, Fail
  <2>3. \A g \in Callers : Live(g)' = Live(g)
    BY <2>2 DEF Live
  <2>4. /\ \A g \in Callers \ {f} : stage'[g] = stage[g] \/ (stage[g] = "queued" /\ stage'[g] = "granted")
        /\ stage[f] \in {"granted", "running", "reserved"}
        /\ stage'[f] \in {"running", "reserved", "resolved", "failed"}
    BY <1>0, <2>1, SlotStep
  <2> QED
    BY <1>1, <2>2, <2>3, <2>4
<1>6. CASE \E c \in Callers : FlightFails(c) \/ consumeFlight(c)
  <2>1. PICK c \in Callers : FlightFails(c) \/ consumeFlight(c)
    BY <1>6
  <2>2. PICK f \in Callers : on[c] = f /\ stage[f] \in {"resolved", "failed"}
    BY <1>0, <2>1 DEF FlightFails, consumeFlight, OnInv, TypeOK, Step
  <2>3. detach(c) /\ UNCHANGED <<on, gate, stage, cancelled>>
    BY <2>1 DEF FlightFails, consumeFlight
  <2>4. \A g \in Callers : g # f => Live(g)' = Live(g)
    BY <2>2, <2>3, Detached
  <2> QED
    BY <1>1, <2>2, <2>3, <2>4
<1>7. CASE \E c \in Callers : put(c) \/ Catch(c)
  <2>1. PICK c \in Callers : put(c) \/ Catch(c)
    BY <1>7
  <2>2. UNCHANGED <<on, attached, stage, cancelled>>
    BY <2>1 DEF put, Catch
  <2>3. \A g \in Callers : Live(g)' = Live(g)
    BY <2>2 DEF Live
  <2>4. \A g \in Callers : gate'[g] = "none" => gate[g] = "none"
    BY <1>0, <2>1, Settled DEF put, Catch, TypeOK
  <2> QED
    BY <1>1, <2>2, <2>3, <2>4
<1> QED
  BY <1>2, <1>3, <1>4, <1>5, <1>6, <1>7, Acts
     DEF vars, LateRelease, LockKey, GuardFails, Leave, Deliver, Check

\* The entries of different flights and callers are different.
LEMMA EntriesDiffer ==
  \A c, d : /\ RunEntry(c) = RunEntry(d) <=> c = d
            /\ <<"own", c>> = <<"own", d>> <=> c = d
            /\ RunEntry(c) # <<"own", d>>
BY DEF RunEntry

\* What EntriesAreOwned says of one caller.
QuotaOf(c) ==
  /\ RunEntry(c) \in charges <=>
       stage[c] = "reserved" \/ (stage[c] = "resolved" /\ (pc[c] = "await" \/ Owns(c) \/ c \in orphaned))
  /\ <<"own", c>> \in charges <=> on[c] \notin {None, c} /\ Owns(c)

\* A caller that moves on touches nobody else's entry.
LEMMA OneQuota ==
  ASSUME TypeOK, EntriesAreOwned, NEW c \in Callers,
         UNCHANGED <<stage, on>>,
         \A d \in Callers \ {c} : pc'[d] = pc[d] /\ (d \in captured' <=> d \in captured) /\ (d \in orphaned' <=> d \in orphaned),
         charges' \in {charges, charges \cup {Entry(c)}, charges \ {Entry(c)}, charges \ {RunEntry(c)}},
         QuotaOf(c)'
  PROVE  EntriesAreOwned'
<1>1. \A d \in Callers \ {c} : QuotaOf(d)
  BY DEF EntriesAreOwned, QuotaOf
<1>2. ASSUME NEW d \in Callers \ {c} PROVE QuotaOf(d)'
  <2>1. /\ RunEntry(d) \in charges' <=> RunEntry(d) \in charges
        /\ <<"own", d>> \in charges' <=> <<"own", d>> \in charges
    BY EntriesDiffer DEF Entry
  <2>2. Owns(d)' <=> Owns(d)
    BY DEF Owns
  <2> QED
    BY <1>1, <2>1, <2>2 DEF QuotaOf
<1> QED
  BY <1>2 DEF EntriesAreOwned, QuotaOf

\* Moves of flights that neither reserve nor resolve need no entry.
LEMMA SameQuota ==
  ASSUME TypeOK, EntriesAreOwned, UNCHANGED <<pc, on, captured, orphaned, charges>>,
         \A f \in Callers : stage'[f] = stage[f] \/ {stage[f], stage'[f]} \cap {"reserved", "resolved"} = {}
  PROVE  EntriesAreOwned'
<1>1. \A c \in Callers : Owns(c)' <=> Owns(c)
  BY DEF Owns
<1> QED
  BY <1>1 DEF EntriesAreOwned

\* Every step keeps the budget's entries with their owners.
LEMMA QuotaStep == IInv /\ [Next]_vars => EntriesAreOwned'
<1> SUFFICES ASSUME IInv, [Next]_vars PROVE EntriesAreOwned'
  OBVIOUS
<1> USE DEF callerVars, flightVars, runVars
<1>0. TypeOK /\ QueueInv /\ OnInv /\ CallerInv /\ EntriesAreOwned
  BY DEF IInv
<1>1. CASE UNCHANGED vars
  BY <1>0, <1>1, SameQuota DEF vars
<1>2. CASE \E c \in Callers : coordinateRecall(c) \/ Lookup(c)
  <2>1. PICK c \in Callers : coordinateRecall(c) \/ Lookup(c)
    BY <1>2
  <2>2. on[c] = None /\ stage[c] = "none" /\ c \notin captured
    BY <1>0, <2>1, RecallAssumption DEF OnInv, CallerInv, TypeOK, coordinateRecall, Lookup
  <2>3. UNCHANGED <<captured, orphaned, charges>>
    BY <2>1 DEF coordinateRecall, Lookup
  <2>4. /\ pc[c] \in {"idle", "get"} /\ pc'[c] \in {"guard", "catch", "await", "rejected", "replayed"}
        /\ \A d \in Callers \ {c} : pc'[d] = pc[d] /\ on'[d] = on[d]
    BY <1>0, <2>1 DEF JoinOrLead, join, createAndStartFlight, coordinateRecall, Lookup, Goto, TypeOK
  <2>5. stage'[c] \notin {"reserved", "resolved"} /\ \A d \in Callers \ {c} : stage'[d] = stage[d]
    <3>1. CASE createAndStartFlight(c)
      BY <1>0, <2>2, <3>1, Started DEF TypeOK
    <3>2. CASE UNCHANGED stage
      BY <2>2, <3>2
    <3> QED
      BY <2>1, <3>1, <3>2 DEF JoinOrLead, join, coordinateRecall, Lookup
  <2>6. ~Owns(c) /\ ~Owns(c)' /\ \A d \in Callers \ {c} : Owns(d)' <=> Owns(d)
    BY <2>2, <2>3, <2>4 DEF Owns
  <2> QED
    BY <1>0, <2>2, <2>3, <2>4, <2>5, <2>6 DEF EntriesAreOwned
<1>3. CASE \E c \in Callers : Abort(c)
  <2>1. PICK c \in Callers : Abort(c)
    BY <1>3
  <2>2. UNCHANGED <<pc, on, captured, orphaned, charges>>
    BY <2>1 DEF Abort
  <2>3. \A g \in Callers : stage'[g] = stage[g] \/ (stage[g] = "queued" /\ stage'[g] = "failed")
    <3>1. CASE UNCHANGED stage
      BY <3>1
    <3>2. CASE c \in attached /\ Cancel(on[c])
      <4>1. on[c] \in Callers
        BY <1>0, <3>2 DEF CallerInv, OnInv, TypeOK
      <4> QED
        BY <1>0, <3>2, <4>1, Cancelled DEF TypeOK
    <3> QED
      BY <2>1, <3>1, <3>2 DEF Abort
  <2> QED
    BY <1>0, <2>2, <2>3, SameQuota
<1>4. CASE \E f \in Callers : Enter(f) \/ Reserve(f) \/ Resolve(f) \/ Fail(f)
  <2>1. PICK f \in Callers : Enter(f) \/ Reserve(f) \/ Resolve(f) \/ Fail(f)
    BY <1>4
  <2>2. UNCHANGED <<pc, on, captured, orphaned>> /\ \A d \in Callers : Owns(d)' <=> Owns(d)
    BY <2>1 DEF Enter, Reserve, Resolve, Fail, Owns
  <2>3. \A g \in Callers \ {f} : stage'[g] = stage[g] \/ (stage[g] = "queued" /\ stage'[g] = "granted")
    BY <1>0, <2>1, SlotStep
  <2>4. stage[f] # "none" /\ on[f] = f
    BY <1>0, <2>1 DEF OnInv, Enter, Reserve, Resolve, Fail
  <2>5. ASSUME NEW g \in Callers \ {f} PROVE QuotaOf(g)'
    <3>1. RunEntry(g) \in charges' <=> RunEntry(g) \in charges
      BY <2>1, EntriesDiffer DEF Enter, Reserve, Resolve, Fail
    <3>2. <<"own", g>> \in charges' <=> <<"own", g>> \in charges
      BY <2>1, EntriesDiffer DEF Enter, Reserve, Resolve, Fail
    <3> QED
      BY <1>0, <2>2, <2>3, <3>1, <3>2 DEF EntriesAreOwned, QuotaOf
  <2>6. <<"own", f>> \in charges' <=> <<"own", f>> \in charges
    BY <2>1, EntriesDiffer DEF Enter, Reserve, Resolve, Fail
  <2>7. RunEntry(f) \in charges <=> stage[f] = "reserved"
    BY <1>0, <2>1 DEF EntriesAreOwned, Enter, Reserve, Resolve, Fail
  <2>8. RunEntry(f) \in charges' <=>
          stage'[f] = "reserved" \/ (stage'[f] = "resolved" /\ (pc[f] = "await" \/ f \in orphaned))
    <3>1. CASE Enter(f)
      BY <1>0, <2>7, <3>1, Released DEF Enter, TypeOK
    <3>2. CASE Reserve(f)
      BY <1>0, <2>7, <3>2, Released DEF Reserve, TypeOK
    <3>3. CASE Resolve(f)
      BY <1>0, <2>4, <2>7, <3>3, Released DEF Resolve, CallerInv, TypeOK
    <3>4. CASE Fail(f)
      BY <1>0, <3>4, Released DEF Fail, TypeOK
    <3> QED
      BY <2>1, <3>1, <3>2, <3>3, <3>4
  <2>9. Owns(f) => stage[f] \in {"resolved", "failed"}
    BY <1>0, <2>4 DEF CallerInv, Owns
  <2>10. stage[f] \in {"granted", "running", "reserved"}
    BY <2>1, <1>0, SlotStep
  <2>11. QuotaOf(f)'
    BY <1>0, <2>2, <2>4, <2>6, <2>8, <2>9, <2>10 DEF EntriesAreOwned, QuotaOf
  <2> QED
    BY <2>5, <2>11 DEF EntriesAreOwned, QuotaOf
<1>5. ASSUME NEW c \in Callers, LateRelease(c) \/ Leave(c)
      PROVE  EntriesAreOwned'
  <2>1. UNCHANGED <<stage, on, captured>> /\ QuotaOf(c)
    BY <1>0, <1>5 DEF LateRelease, Leave, EntriesAreOwned, QuotaOf
  <2>2. /\ \A d \in Callers \ {c} : pc'[d] = pc[d] /\ (d \in orphaned' <=> d \in orphaned)
        /\ charges' \in {charges, charges \ {RunEntry(c)}}
    BY <1>0, <1>5 DEF LateRelease, Leave, Step, Goto, TypeOK
  <2>3. CASE LateRelease(c)
    <3>1. pc' = pc /\ stage[c] = "resolved" /\ c \notin orphaned' /\ charges' = charges \ {RunEntry(c)}
      BY <2>3 DEF LateRelease
    <3>2. pc[c] # "await" /\ ~Owns(c) /\ ~Owns(c)'
      BY <1>0, <2>1, <2>3, <3>1 DEF LateRelease, CallerInv, Owns
    <3>3. QuotaOf(c)'
      BY <2>1, <3>1, <3>2, EntriesDiffer DEF QuotaOf
    <3> QED
      BY <1>0, <2>1, <2>2, <3>3, OneQuota
  <2>4. CASE Leave(c)
    <3>1. pc[c] = "await" /\ pc'[c] = "catch" /\ charges' = charges /\ (on[c] = c => c \in orphaned') /\ (on[c] # c => orphaned' = orphaned)
      BY <1>0, <2>4 DEF Leave, Leads, Step, Goto, TypeOK
    <3>2. ~Owns(c) /\ ~Owns(c)' /\ (on[c] # c => stage[c] = "none")
      BY <1>0, <2>1, <3>1 DEF CallerInv, OnInv, Owns
    <3>3. QuotaOf(c)'
      BY <2>1, <3>1, <3>2 DEF QuotaOf
    <3> QED
      BY <1>0, <2>1, <2>2, <3>3, OneQuota
  <2> QED
    BY <1>5, <2>3, <2>4
<1>6. ASSUME NEW c \in Callers,
             \/ LockKey(c) \/ GuardFails(c) \/ FlightFails(c) \/ consumeFlight(c)
             \/ Deliver(c) \/ Check(c) \/ put(c) \/ Catch(c)
      PROVE  EntriesAreOwned'
  <2>1. UNCHANGED <<stage, on, orphaned>> /\ QuotaOf(c)
    BY <1>0, <1>6 DEF LockKey, GuardFails, FlightFails, consumeFlight, Deliver, Check, put, Catch, EntriesAreOwned, QuotaOf
  <2>2. /\ \A d \in Callers \ {c} : pc'[d] = pc[d] /\ (d \in captured' <=> d \in captured)
        /\ charges' \in {charges, charges \cup {Entry(c)}, charges \ {Entry(c)}, charges \ {RunEntry(c)}}
    BY <1>0, <1>6 DEF LockKey, GuardFails, FlightFails, consumeFlight, Charge, Deliver, Check, put, Catch, Step, Goto, TypeOK
  <2>3. CASE LockKey(c) \/ GuardFails(c)
    <3>1. on[c] = None /\ stage[c] = "none" /\ charges' = charges
      BY <1>0, <2>3, RecallAssumption DEF OnInv, LockKey, GuardFails, Step
    <3>2. QuotaOf(c)'
      BY <2>1, <3>1 DEF QuotaOf
    <3> QED
      BY <1>0, <2>1, <2>2, <3>2, OneQuota
  <2>4. CASE FlightFails(c)
    <3>1. /\ pc[c] = "await" /\ pc'[c] = "catch" /\ UNCHANGED <<charges, captured>> /\ c \notin captured
          /\ stage[c] \in {"none", "failed"}
      BY <1>0, <2>4 DEF FlightFails, CallerInv, OnInv, Step, Goto, TypeOK
    <3>2. QuotaOf(c)'
      BY <2>1, <3>1 DEF QuotaOf, Owns
    <3> QED
      BY <1>0, <2>1, <2>2, <3>2, OneQuota
  <2>5. CASE consumeFlight(c)
    <3>1. /\ pc[c] = "await" /\ c \notin captured /\ c \notin orphaned /\ on[c] \in Callers /\ ~Owns(c)
          /\ on[c] = c => stage[c] = "resolved"
          /\ on[c] # c => stage[c] = "none"
      BY <1>0, <2>5, RecallAssumption DEF consumeFlight, CallerInv, OnInv, TypeOK, Owns
    <3>2. \/ Charge(c)
          \/ pc'[c] = "catch" /\ UNCHANGED <<charges, captured>> /\ on[c] # c
          \/ pc'[c] = "catch" /\ captured' = captured /\ charges' = charges \ {Entry(c)}
      BY <1>0, <2>5 DEF consumeFlight, Goto, Leads, TypeOK
    <3>3. CASE Charge(c)
      <4>1. pc'[c] = "check" /\ charges' = charges \cup {Entry(c)} /\ Owns(c)'
        BY <1>0, <3>3 DEF Charge, Goto, TypeOK, Owns
      <4>2. QuotaOf(c)'
        BY <2>1, <3>1, <4>1, EntriesDiffer, RecallAssumption DEF QuotaOf, Entry, Leads
      <4> QED
        BY <1>0, <2>1, <2>2, <4>2, OneQuota
    <3>4. CASE pc'[c] = "catch" /\ captured' = captured /\ (charges' = charges \ {Entry(c)} \/ (charges' = charges /\ on[c] # c))
      <4>1. ~Owns(c)'
        BY <3>1, <3>4 DEF Owns
      <4>2. QuotaOf(c)'
        BY <2>1, <3>1, <3>4, <4>1, EntriesDiffer DEF QuotaOf, Entry, Leads
      <4> QED
        BY <1>0, <2>1, <2>2, <4>2, OneQuota
    <3> QED
      BY <3>2, <3>3, <3>4
  <2>6. ASSUME c \in captured, captured' = captured, stage[c] # "none" => on[c] = c,
               \/ Owns(c) /\ Owns(c)' /\ charges' = charges /\ pc'[c] # "await"
               \/ ~Owns(c)' /\ charges' = charges \ {Entry(c)} /\ pc'[c] # "await"
        PROVE  QuotaOf(c)'
    <3>1. c \notin orphaned /\ on[c] # None /\ stage[c] # "reserved" /\ pc[c] # "await"
      BY <1>0, <2>6 DEF CallerInv
    <3> QED
      BY <2>1, <2>6, <3>1, EntriesDiffer DEF QuotaOf, Entry, Leads
  <2>7. CASE Deliver(c) \/ Check(c) \/ put(c) \/ (Catch(c) /\ c \in captured)
    <3>1. c \in captured /\ captured' = captured /\ (stage[c] # "none" => on[c] = c) /\ pc'[c] # "await"
      BY <1>0, <2>7 DEF Deliver, Check, put, Catch, Step, Goto, CallerInv, OnInv, TypeOK
    <3>2. \/ Owns(c) /\ Owns(c)' /\ charges' = charges
          \/ ~Owns(c)' /\ charges' = charges \ {Entry(c)}
      BY <1>0, <2>7, <3>1 DEF Deliver, Check, put, Catch, Step, Goto, Owns, TypeOK
    <3>3. QuotaOf(c)'
      BY <2>6, <3>1, <3>2
    <3> QED
      BY <1>0, <2>1, <2>2, <3>3, OneQuota
  <2>8. CASE Catch(c) /\ c \notin captured
    <3>1. pc[c] = "catch" /\ pc'[c] = "rejected" /\ UNCHANGED <<charges, captured>>
      BY <1>0, <2>8 DEF Catch, Step, Goto, TypeOK
    <3>2. ~Owns(c) /\ ~Owns(c)'
      BY <2>8, <3>1 DEF Owns
    <3>3. QuotaOf(c)'
      BY <2>1, <3>1, <3>2 DEF QuotaOf
    <3> QED
      BY <1>0, <2>1, <2>2, <3>3, OneQuota
  <2> QED
    BY <1>6, <2>3, <2>4, <2>5, <2>7, <2>8
<1> QED
  BY <1>1, <1>2, <1>3, <1>4, <1>5, <1>6, Acts

\* A charge that is allowed, or an entry that goes, keeps the budget's limit.
LEMMA LimitKept ==
  ASSUME TypeOK, BudgetIsBounded, \/ charges' \subseteq charges
                                  \/ Allowed /\ \E e : charges' = charges \cup {e}
  PROVE  BudgetIsBounded'
<1>1. IsFiniteSet({"run", "own"})
  <2>1. IsFiniteSet({"run"}) /\ {"run"} \cup {"own"} = {"run", "own"}
    BY FS_Singleton
  <2> QED
    BY <2>1, FS_AddElement
<1>2. IsFiniteSet(charges)
  <2>1. IsFiniteSet({"run", "own"} \X Callers)
    BY <1>1, FS_Product, RecallAssumption
  <2> QED
    BY <2>1, FS_Subset DEF TypeOK
<1>3. Cardinality(charges) \in Nat
  BY <1>2, FS_CardinalityType
<1>4. CASE charges' \subseteq charges
  <2>1. Cardinality(charges') \in Nat /\ Cardinality(charges') <= Cardinality(charges)
    BY <1>2, <1>4, FS_Subset, FS_CardinalityType
  <2> QED
    BY <1>3, <1>4, <2>1, RecallAssumption DEF BudgetIsBounded
<1>5. CASE Allowed /\ \E e : charges' = charges \cup {e}
  <2>1. Cardinality(charges') = Cardinality(charges) \/ Cardinality(charges') = Cardinality(charges) + 1
    BY <1>2, <1>5, FS_AddElement
  <2> QED
    BY <1>3, <1>5, <2>1, RecallAssumption DEF BudgetIsBounded, Allowed
<1> QED
  BY <1>4, <1>5

\* The only charge made without asking is a leader's, whose entry the pipeline
\* has reserved; so no step reaches the hard limit.
LEMMA LimitStep == IInv /\ [Next]_vars => BudgetIsBounded'
<1> SUFFICES ASSUME IInv, [Next]_vars PROVE BudgetIsBounded'
  OBVIOUS
<1>1. TypeOK /\ OnInv /\ CallerInv /\ EntriesAreOwned /\ BudgetIsBounded
  BY DEF IInv
<1>2. ASSUME NEW c \in Callers, FlightStep(c) \/ LateRelease(c)
      PROVE  charges' \subseteq charges \/ (Allowed /\ \E e : charges' = charges \cup {e})
  BY <1>2 DEF FlightStep, Enter, Reserve, Resolve, Fail, LateRelease
<1>3. ASSUME NEW c \in Callers, consumeFlight(c)
      PROVE  charges' \subseteq charges \/ (Allowed /\ \E e : charges' = charges \cup {e})
  <2>1. CASE Leads(c) /\ Charge(c)
    <3>1. RunEntry(c) \in charges
      BY <1>1, <1>3, <2>1 DEF consumeFlight, Leads, EntriesAreOwned
    <3> QED
      BY <2>1, <3>1 DEF Charge, Entry
  <2>2. CASE ~(Leads(c) /\ Charge(c))
    BY <1>3, <2>2 DEF consumeFlight, Charge
  <2> QED
    BY <2>1, <2>2
<1>4. ASSUME NEW c \in Callers, CallerStep(c), ~consumeFlight(c)
      PROVE  charges' \subseteq charges
  BY <1>4 DEF CallerStep, LockKey, Lookup, GuardFails, Leave, FlightFails, Deliver, Check, put, Catch
<1>5. ASSUME NEW c \in Callers, coordinateRecall(c) \/ Abort(c)
      PROVE  charges' = charges
  BY <1>5 DEF coordinateRecall, Abort
<1>6. UNCHANGED vars => charges' = charges
  BY DEF vars
<1> QED
  BY <1>1, <1>2, <1>3, <1>4, <1>5, <1>6, LimitKept DEF Next

\* The flights with a slot are finitely many.
LEMMA HoldingFinite == IsFiniteSet(Holding) /\ Cardinality(Holding) \in Nat
<1>1. IsFiniteSet(Holding)
  BY RecallAssumption, FS_Subset DEF Holding
<1> QED
  BY <1>1, FS_CardinalityType

\* A slot that is given up is free only if nobody waits.
LEMMA SlotsReleased ==
  ASSUME TypeOK, QueueInv, SlotsAreUsed, NEW f \in Callers, NEW s \in {"resolved", "failed"},
         stage[f] \in {"granted", "running", "reserved"}, ReleaseSlot(f, s)
  PROVE  SlotsAreUsed'
<1>1. f \in Holding /\ IsFiniteSet(Holding) /\ Cardinality(Holding) \in Nat
  BY HoldingFinite DEF Holding
<1>2. Cardinality(Holding \ {f}) = Cardinality(Holding) - 1 /\ IsFiniteSet(Holding \ {f})
  BY <1>1, FS_RemoveElement
<1>3. CASE waiters = <<>>
  <2>1. Holding' = Holding \ {f} /\ waiters' = waiters
    BY <1>3 DEF TypeOK, ReleaseSlot, Holding
  <2> QED
    BY <1>1, <1>2, <1>3, <2>1, RecallAssumption DEF SlotsAreUsed
<1>4. CASE waiters # <<>>
  <2> DEFINE h == Head(waiters)
  <2>1. h \in Callers /\ stage[h] = "queued" /\ stage' = [stage EXCEPT ![f] = s, ![h] = "granted"]
    <3>1. waiters \in Seq(Callers) /\ Distinct(waiters)
      BY DEF TypeOK, QueueInv
    <3>2. Head(waiters) \in Callers /\ In(Head(waiters), waiters)
      BY <1>4, <3>1, TailFacts
    <3> QED
      BY <1>4, <3>2 DEF QueueInv, ReleaseSlot
  <2> HIDE DEF h
  <2>2. Holding' = (Holding \ {f}) \cup {h} /\ h \notin Holding \ {f}
    BY <2>1 DEF TypeOK, Holding
  <2>3. Cardinality(Holding') = Cardinality(Holding \ {f}) + 1
    BY <1>2, <2>2, FS_AddElement
  <2> QED
    BY <1>1, <1>2, <1>4, <2>3, RecallAssumption DEF SlotsAreUsed
<1> QED
  BY <1>3, <1>4

\* Every step keeps the slots in use while flights wait.
LEMMA SlotsStep == IInv /\ [Next]_vars => SlotsAreUsed'
<1> SUFFICES ASSUME IInv, [Next]_vars PROVE SlotsAreUsed'
  OBVIOUS
<1> USE DEF callerVars, flightVars, runVars
<1>0. TypeOK /\ QueueInv /\ OnInv /\ CallerInv /\ SlotsAreUsed /\ TypeOK'
  BY TypeStep DEF IInv
<1>1. CASE UNCHANGED <<stage, waiters>>
  BY <1>0, <1>1 DEF SlotsAreUsed, Holding
<1>2. CASE \E c \in Callers : (coordinateRecall(c) \/ Lookup(c)) /\ ~UNCHANGED <<stage, waiters>>
  <2>1. PICK c \in Callers : (coordinateRecall(c) \/ Lookup(c)) /\ ~UNCHANGED <<stage, waiters>>
    BY <1>2
  <2>2. JoinOrLead(c) /\ createAndStartFlight(c)
    BY <2>1 DEF coordinateRecall, Lookup, JoinOrLead, join
  <2>3. stage[c] = "none"
    BY <2>1, <2>2, Joins
  <2>4. /\ stage' = [stage EXCEPT ![c] = IF Cardinality(Holding) < Slots THEN "granted" ELSE "queued"]
        /\ waiters' = IF Cardinality(Holding) < Slots THEN waiters ELSE Append(waiters, c)
    BY <1>0, <2>2, <2>3, Started
  <2>5. CASE Cardinality(Holding) < Slots
    <3>1. Holding' = Holding \cup {c} /\ c \notin Holding /\ waiters' = waiters
      BY <1>0, <2>3, <2>4, <2>5 DEF TypeOK, Holding
    <3>2. Cardinality(Holding') = Cardinality(Holding) + 1
      BY <3>1, HoldingFinite, FS_AddElement
    <3> QED
      BY <1>0, <2>5, <3>1, <3>2, HoldingFinite, RecallAssumption DEF SlotsAreUsed
  <2>6. CASE ~(Cardinality(Holding) < Slots)
    <3>1. Holding' = Holding
      BY <1>0, <2>3, <2>4, <2>6 DEF TypeOK, Holding
    <3> QED
      BY <1>0, <2>6, <3>1, HoldingFinite, RecallAssumption DEF SlotsAreUsed
  <2> QED
    BY <2>5, <2>6
<1>3. CASE \E c \in Callers : Abort(c) /\ ~UNCHANGED <<stage, waiters>>
  <2>1. PICK c \in Callers : Abort(c) /\ ~UNCHANGED <<stage, waiters>>
    BY <1>3
  <2>2. PICK f \in Callers : Cancel(f)
    BY <1>0, <2>1 DEF Abort, CallerInv, OnInv, TypeOK
  <2>3. stage[f] = "queued"
    BY <2>1, <2>2 DEF Cancel
  <2>4. Holding' = Holding
    BY <1>0, <2>2, <2>3, Cancelled DEF TypeOK, Holding
  <2>5. waiters # <<>>
    BY <1>0, <2>3 DEF QueueInv, In
  <2> QED
    BY <1>0, <2>4, <2>5 DEF SlotsAreUsed
<1>4. CASE \E f \in Callers : Enter(f) \/ Reserve(f) \/ Resolve(f) \/ Fail(f)
  <2>1. PICK f \in Callers : Enter(f) \/ Reserve(f) \/ Resolve(f) \/ Fail(f)
    BY <1>4
  <2>2. stage[f] \in {"granted", "running", "reserved"}
    BY <2>1 DEF Enter, Reserve, Resolve, Fail
  <2>3. CASE \E s \in {"resolved", "failed"} : ReleaseSlot(f, s)
    BY <1>0, <2>2, <2>3, SlotsReleased
  <2>4. CASE waiters' = waiters /\ \E s \in {"running", "reserved"} : stage' = [stage EXCEPT ![f] = s]
    <3>1. Holding' = Holding
      BY <1>0, <2>2, <2>4 DEF TypeOK, Holding
    <3> QED
      BY <1>0, <2>4, <3>1 DEF SlotsAreUsed
  <2> QED
    BY <2>1, <2>3, <2>4 DEF Enter, Reserve, Resolve, Fail
<1> QED
  BY <1>1, <1>2, <1>3, <1>4, Acts
     DEF vars, LateRelease, LockKey, GuardFails, Leave, FlightFails, consumeFlight, Deliver, Check, put, Catch

\* Before the first recall nothing is registered, queued or charged.
LEMMA Initial == Init => IInv
<1> SUFFICES ASSUME Init PROVE IInv
  OBVIOUS
<1>1. waiters \in Seq(Callers) /\ (\A x : ~In(x, waiters)) /\ Distinct(waiters)
  BY DEF Init, In, Distinct
<1>2. TypeOK
  BY <1>1 DEF Init, TypeOK
<1>3. QueueInv /\ OnInv /\ CallerInv /\ GateInv
  BY <1>1, RecallAssumption DEF Init, QueueInv, OnInv, CallerInv, GateInv
<1>4. RegistryInv /\ AbandonedIsCancelled /\ EntriesAreOwned /\ BudgetIsBounded
  BY RecallAssumption
     DEF Init, RegistryInv, Underway, AbandonedIsCancelled, EntriesAreOwned, Owns, BudgetIsBounded
<1>5. SlotsAreUsed
  <2>1. Holding = {}
    BY DEF Init, Holding
  <2> QED
    BY <2>1, FS_EmptySet, RecallAssumption DEF Init, SlotsAreUsed
<1> QED
  BY <1>2, <1>3, <1>4, <1>5 DEF IInv

\* The recall path keeps the whole inductive invariant, whatever the callers,
\* the work they ask for and the limits.
THEOREM Inductive == Spec => []IInv
<1>1. IInv /\ [Next]_vars => IInv'
  BY TypeStep, OnStep, CallerStepInv, GateStep, RegistryStep, AbandonedStep, QuotaStep, LimitStep, SlotsStep
     DEF IInv
<1> QED
  BY Initial, <1>1, PTL DEF Spec

-----------------------------------------------------------------------------
(* The theorems                                                            *)

\* Every variable keeps the type the code gives it, and the flights that wait
\* for a slot are those in the queue.
THEOREM TypeCorrect == Spec => []TypeOK
<1>1. IInv => TypeOK
  BY DEF IInv
<1> QED
  BY Inductive, <1>1, PTL

\* Slots are neither lost nor given twice, whoever leaves while waiting.
THEOREM SlotsStayUsed == Spec => []SlotsAreUsed
<1>1. IInv => SlotsAreUsed
  BY DEF IInv
<1> QED
  BY Inductive, <1>1, PTL

\* Every budget entry has exactly one owner that was, or may yet be, answered,
\* and together they stay below the hard limit.
THEOREM QuotaStaysExact == Spec => []QuotaIsExact
<1>1. IInv => QuotaIsExact
  BY DEF IInv, QuotaIsExact
<1> QED
  BY Inductive, <1>1, PTL

\* Identical recalls share one pipeline until its result is stored.
THEOREM FlightsAreShared == Spec => []OneFlightPerWork
<1>1. IInv => OneFlightPerWork
  BY DEF IInv, RegistryInv, OneFlightPerWork
<1> QED
  BY Inductive, <1>1, PTL

\* A flight is registered only while somebody waits for it or its put is due.
THEOREM RegistryIsCurrent == Spec => []RegisteredIsCurrent
<1>1. IInv => RegisteredIsCurrent
  BY DEF IInv, RegistryInv, RegisteredIsCurrent
<1> QED
  BY Inductive, <1>1, PTL

\* Nobody is answered on the strength of a put that failed.
THEOREM SuccessIsStored == Spec => []NoPhantomSuccess
<1>1. IInv => NoPhantomSuccess
  <2> SUFFICES ASSUME IInv, NEW c \in Keyed, on[c] # None, gate[on[c]] = "failed",
                      pc[c] \in {"put", "answered", "kept"}
               PROVE  FALSE
    BY DEF NoPhantomSuccess
  <2>1. c \in Callers
    BY DEF Keyed
  <2>2. GateInv
    BY DEF IInv
  <2>3. CASE on[c] = c
    BY <2>1, <2>2, <2>3 DEF GateInv
  <2>4. CASE on[c] # c
    <3>1. gate[on[c]] \in {"none", "ok"}
      BY <2>1, <2>2, <2>4 DEF GateInv
    <3> QED
      BY <3>1
  <2> QED
    BY <2>3, <2>4
<1> QED
  BY Inductive, <1>1, PTL

\* When the last caller of a recall has left, its flight is cancelled (onIdle), if
\* it has not started or is unkeyed: its signal has fired.  What a pipeline that
\* is already running does with the signal is not part of it.
THEOREM AbandonedRecallsAreCancelled == Spec => []AbandonedIsCancelled
<1>1. IInv => AbandonedIsCancelled
  BY DEF IInv
<1> QED
  BY Inductive, <1>1, PTL
=============================================================================
