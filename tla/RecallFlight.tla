---------------------------- MODULE RecallFlight ----------------------------
(***************************************************************************)
(* Coalesced recalls of one principal (access-recall-concurrency): callers  *)
(* asking for the same work share one flight, flights share a bounded       *)
(* number of slots, every answered caller is charged to the cross-namespace *)
(* budget, and a caller with an idempotency key stores the answer.          *)
(*                                                                         *)
(* One action is one synchronous stretch of the single JavaScript thread;   *)
(* a caller may disconnect between any two.  A caller starts at most one    *)
(* flight, so a flight is named by the caller that leads it.  The budget    *)
(* window does not slide: entries leave it only by release.  The store      *)
(* behind the key (module AccessIdempotency) is the set of stored keys.     *)
(***************************************************************************)
EXTENDS Naturals, Sequences, FiniteSets

CONSTANTS Callers,
          Work,         \* the recall each caller asks for (its flightKey)
          KeyOf,        \* the idempotency key of each caller, or None
          Slots,        \* recallMaxConcurrentPerPrincipal
          HardLimit,    \* of the cross-namespace budget
          None

ASSUME RecallAssumption ==
  /\ Callers \subseteq DOMAIN Work /\ Callers \subseteq DOMAIN KeyOf
  /\ None \notin Callers /\ IsFiniteSet(Callers)
  /\ Slots \in Nat \ {0} /\ HardLimit \in Nat

VARIABLES
  pc,           \* of each caller
  gone,         \* callers whose abortSignal has fired
  on,           \* of each caller: the flight it consumes, or None
  attached,     \* callers counted in their flight's live
  captured,     \* callers that own a budget entry (capturedReservation)
  stage,        \* of each flight
  cancelled,    \* flights whose controller was aborted
  gate,         \* of each flight: its persisted promise, none for an unkeyed one
  idle,         \* flights that unregister when their gate settles
  orphaned,     \* flights whose entry is released when they resolve
  registry,     \* recallInFlight: of each work
  waiters,      \* flights queued for a slot
  charges,      \* the budget's entries: of a flight's run, or a caller's own
  store         \* keys with a stored response

callerVars == <<pc, gone, on, captured>>
flightVars == <<attached, idle, registry>>
runVars == <<stage, cancelled, waiters>>
vars == <<callerVars, flightVars, runVars, gate, orphaned, charges, store>>

Works == {Work[c] : c \in Callers}
Keyed == {c \in Callers : KeyOf[c] # None}

Init ==
  /\ pc = [c \in Callers |-> "idle"]
  /\ gone = {} /\ attached = {} /\ captured = {}
  /\ on = [c \in Callers |-> None]
  /\ stage = [f \in Callers |-> "none"]
  /\ cancelled = {} /\ idle = {} /\ orphaned = {}
  /\ gate = [f \in Callers |-> "none"]
  /\ registry = [w \in Works |-> None]
  /\ waiters = <<>>
  /\ charges = {} /\ store = {}

Over == {"rejected", "answered", "replayed", "kept"}
Pending(c) == pc[c] \notin Over \cup {"idle"}
Goto(c, to) == pc' = [pc EXCEPT ![c] = to]
Step(c, from, to) == pc[c] = from /\ Goto(c, to)

Leads(c) == on[c] = c
RunEntry(f) == <<"run", f>>
Entry(c) == IF Leads(c) THEN RunEntry(c) ELSE <<"own", c>>

\* record: the call that would reach the hard limit is denied.
Allowed == Cardinality(charges) + 1 < HardLimit

-----------------------------------------------------------------------------
(* The slots of the principal                                              *)

Holding == {f \in Callers : stage[f] \in {"granted", "running", "reserved"}}

\* Mutant: a freed slot is not handed to the first waiter.
ReleaseSlotSilently(f, s) ==
  stage' = [stage EXCEPT ![f] = s] /\ UNCHANGED waiters

\* The flight gives up its slot, to the first waiter if there is one.
ReleaseSlot(f, s) ==
  IF waiters = <<>>
    THEN stage' = [stage EXCEPT ![f] = s] /\ UNCHANGED waiters
    ELSE /\ stage' = [stage EXCEPT ![f] = s, ![Head(waiters)] = "granted"]
         /\ waiters' = Tail(waiters)

-----------------------------------------------------------------------------
(* Leaving a flight                                                        *)

Live(f) == {c \in attached : on[c] = f}

Unregister(f) ==
  registry' = IF registry[Work[f]] = f THEN [registry EXCEPT ![Work[f]] = None] ELSE registry

\* Mutant: a flight unregisters as soon as it has no callers.
onIdleAtOnce(f) == Unregister(f) /\ UNCHANGED idle

\* A keyed flight stays registered until its gate has settled.
onIdle(f) ==
  IF gate[f] = "pending"
    THEN idle' = idle \cup {f} /\ UNCHANGED registry
    ELSE Unregister(f) /\ UNCHANGED idle

detach(c) ==
  /\ attached' = attached \ {c}
  /\ IF Live(on[c]) = {c} THEN onIdle(on[c]) ELSE UNCHANGED <<idle, registry>>

\* A keyed flight whose pipeline has started is never cancelled.
Committed(f) == stage[f] \notin {"none", "queued", "granted"}

\* Mutant: the last caller to leave does not cancel a keyed flight.
CancelsUnkeyed(f) == gate[f] = "none"

Cancels(f) == gate[f] = "none" \/ ~Committed(f)

In(x, s) == \E i \in DOMAIN s : s[i] = x
DropAt(s, i) == [j \in 1 .. Len(s) - 1 |-> IF j < i THEN s[j] ELSE s[j + 1]]

\* Mutant: a cancelled flight fails without leaving the queue.
CancelKeepsWaiting(f) ==
  /\ cancelled' = cancelled \cup {f}
  /\ stage' = [stage EXCEPT ![f] = IF stage[f] = "queued" THEN "failed" ELSE stage[f]]
  /\ UNCHANGED waiters

\* controller.abort(): a queued flight leaves the queue and fails at once.
Cancel(f) ==
  /\ cancelled' = cancelled \cup {f}
  /\ IF stage[f] = "queued"
       THEN /\ stage' = [stage EXCEPT ![f] = "failed"]
            /\ \E i \in DOMAIN waiters : waiters[i] = f /\ waiters' = DropAt(waiters, i)
       ELSE UNCHANGED <<stage, waiters>>

\* The caller disconnects; its abort is counted in the flight it is attached to.
Abort(c) ==
  /\ pc[c] \notin Over /\ c \notin gone
  /\ gone' = gone \cup {c}
  /\ IF c \in attached
       THEN /\ detach(c)
            /\ IF Live(on[c]) = {c} /\ Cancels(on[c]) THEN Cancel(on[c]) ELSE UNCHANGED runVars
       ELSE UNCHANGED <<flightVars, runVars>>
  /\ UNCHANGED <<pc, on, captured, gate, orphaned, charges, store>>

-----------------------------------------------------------------------------
(* Admission                                                               *)

\* A registered flight that was not cancelled.
Joinable(w) == registry[w] # None /\ registry[w] \notin cancelled

join(c) ==
  /\ on' = [on EXCEPT ![c] = registry[Work[c]]]
  /\ UNCHANGED <<runVars, gate, registry>>

\* The flight takes a free slot or queues for one in the same turn.
createAndStartFlight(c) ==
  /\ on' = [on EXCEPT ![c] = c]
  /\ registry' = [registry EXCEPT ![Work[c]] = c]
  /\ gate' = [gate EXCEPT ![c] = IF c \in Keyed THEN "pending" ELSE "none"]
  /\ IF Cardinality(Holding) < Slots
       THEN stage' = [stage EXCEPT ![c] = "granted"] /\ UNCHANGED waiters
       ELSE stage' = [stage EXCEPT ![c] = "queued"] /\ waiters' = Append(waiters, c)
  /\ UNCHANGED cancelled

\* A caller that is gone already starts and joins nothing.
JoinOrLead(c) ==
  \/ /\ c \in gone
     /\ Goto(c, "catch")
     /\ UNCHANGED <<on, flightVars, runVars, gate>>
  \/ /\ c \notin gone
     /\ Goto(c, "await")
     /\ attached' = attached \cup {c}
     /\ IF Joinable(Work[c]) THEN join(c) ELSE createAndStartFlight(c)
     /\ UNCHANGED idle

\* Callers without a key go straight to the flight, the others to the guard.
coordinateRecall(c) ==
  /\ pc[c] = "idle"
  /\ \/ /\ c \in Keyed
        /\ Goto(c, "guard")
        /\ UNCHANGED <<on, flightVars, runVars, gate>>
     \/ c \notin Keyed /\ JoinOrLead(c)
  /\ UNCHANGED <<gone, captured, orphaned, charges, store>>

Guarded == {"get", "await", "check", "put", "catch"}

LockKey(c) ==
  /\ Step(c, "guard", "get")
  /\ \A d \in Keyed \ {c} : KeyOf[d] = KeyOf[c] => pc[d] \notin Guarded
  /\ UNCHANGED <<gone, on, captured, flightVars, runVars, gate, orphaned, charges, store>>

\* A stored response is replayed, without a flight and without a charge.
Lookup(c) ==
  /\ pc[c] = "get"
  /\ \/ /\ KeyOf[c] \in store
        /\ Goto(c, IF c \in gone THEN "rejected" ELSE "replayed")
        /\ UNCHANGED <<on, flightVars, runVars, gate>>
     \/ KeyOf[c] \notin store /\ JoinOrLead(c)
  /\ UNCHANGED <<gone, captured, orphaned, charges, store>>

\* The locks or the store fail, or the key was used for another request.
GuardFails(c) ==
  /\ Step(c, "guard", "rejected") \/ Step(c, "get", "rejected")
  /\ UNCHANGED <<gone, on, captured, flightVars, runVars, gate, orphaned, charges, store>>

-----------------------------------------------------------------------------
(* The shared pipeline                                                     *)

\* The slot is granted; the flight's signal is checked once more.
Enter(f) ==
  /\ stage[f] = "granted"
  /\ IF f \in cancelled
       THEN ReleaseSlot(f, "failed")
       ELSE stage' = [stage EXCEPT ![f] = "running"] /\ UNCHANGED waiters
  /\ UNCHANGED <<callerVars, flightVars, cancelled, gate, orphaned, charges, store>>

\* executeRecall reserves budget at admission, or is denied.
Reserve(f) ==
  /\ stage[f] = "running"
  /\ IF Allowed
       THEN /\ stage' = [stage EXCEPT ![f] = "reserved"]
            /\ charges' = charges \cup {RunEntry(f)}
            /\ UNCHANGED waiters
       ELSE ReleaseSlot(f, "failed") /\ UNCHANGED charges
  /\ UNCHANGED <<callerVars, flightVars, cancelled, gate, orphaned, store>>

Resolve(f) ==
  /\ stage[f] = "reserved"
  /\ ReleaseSlot(f, "resolved")
  /\ UNCHANGED <<callerVars, flightVars, cancelled, gate, orphaned, charges, store>>

\* The pipeline fails, of itself or because its signal fired, and rolls back.
Fail(f) ==
  /\ stage[f] \in {"running", "reserved"}
  /\ ReleaseSlot(f, "failed")
  /\ charges' = charges \ {RunEntry(f)}
  /\ UNCHANGED <<callerVars, flightVars, cancelled, gate, orphaned, store>>

\* The leader left before it saw the result: the entry goes when it comes.
LateRelease(f) ==
  /\ f \in orphaned /\ stage[f] = "resolved"
  /\ orphaned' = orphaned \ {f}
  /\ charges' = charges \ {RunEntry(f)}
  /\ UNCHANGED <<callerVars, flightVars, runVars, gate, store>>

-----------------------------------------------------------------------------
(* Consuming a flight                                                      *)

\* Mutant: a leader that leaves early forgets the pipeline's entry.
LeaveForgets(c) ==
  /\ c \notin Keyed /\ c \in gone
  /\ Step(c, "await", "catch")
  /\ UNCHANGED <<gone, on, captured, flightVars, runVars, gate, orphaned, charges, store>>

\* Only a caller without a key races its own signal.
Leave(c) ==
  /\ c \notin Keyed /\ c \in gone
  /\ Step(c, "await", "catch")
  /\ orphaned' = IF Leads(c) THEN orphaned \cup {c} ELSE orphaned
  /\ UNCHANGED <<gone, on, captured, flightVars, runVars, gate, charges, store>>

FlightFails(c) ==
  /\ Step(c, "await", "catch")
  /\ stage[on[c]] = "failed"
  /\ detach(c)
  /\ UNCHANGED <<gone, on, captured, runVars, gate, orphaned, charges, store>>

\* The leader inherits the pipeline's entry, a coalesced caller records its own.
Charge(c) ==
  /\ charges' = charges \cup {Entry(c)}
  /\ captured' = captured \cup {c}
  /\ Goto(c, "check")

consumeFlight(c) ==
  /\ pc[c] = "await" /\ stage[on[c]] = "resolved"
  /\ c \in Keyed \/ c \notin gone
  /\ detach(c)
  /\ \/ (Leads(c) \/ Allowed) /\ Charge(c)
     \/ ~Leads(c) /\ ~Allowed /\ Goto(c, "catch") /\ UNCHANGED <<charges, captured>>
     \/ \* structuredClone throws
        /\ Goto(c, "catch")
        /\ charges' = charges \ {Entry(c)}
        /\ UNCHANGED captured
  /\ UNCHANGED <<gone, on, runVars, gate, orphaned, store>>

\* A caller without a key is answered, unless it left after it was charged.
Deliver(c) ==
  /\ pc[c] = "check" /\ c \notin Keyed
  /\ Goto(c, IF c \in gone THEN "rejected" ELSE "answered")
  /\ charges' = IF c \in gone THEN charges \ {Entry(c)} ELSE charges
  /\ UNCHANGED <<gone, on, captured, flightVars, runVars, gate, orphaned, store>>

\* Mutant: a coalesced caller does not wait for the leader's put.
PersistedUnawaited(c) == TRUE

\* The gate of another's keyed flight has opened.
Persisted(c) == gate[on[c]] \in {"none", "ok"}

\* A keyed caller goes on to its put: a leader at once, another when the gate
\* is open and it is still there; it fails with the gate, or when it is gone.
Check(c) ==
  /\ pc[c] = "check" /\ c \in Keyed
  /\ \/ Leads(c) /\ Goto(c, "put")
     \/ ~Leads(c) /\ Persisted(c) /\ (c \in gone => gate[on[c]] # "none") /\ Goto(c, "put")
     \/ ~Leads(c) /\ (c \in gone \/ gate[on[c]] = "failed") /\ Goto(c, "catch")
  /\ UNCHANGED <<gone, on, captured, flightVars, runVars, gate, orphaned, charges, store>>

\* Mutant: a flight that was idle before its gate settled stays registered.
SettleGateOnly(c, outcome) ==
  /\ gate' = IF Leads(c) /\ gate[c] = "pending" THEN [gate EXCEPT ![c] = outcome] ELSE gate
  /\ UNCHANGED registry

\* The leader's outcome settles its flight's gate.
SettleGate(c, outcome) ==
  IF Leads(c) /\ gate[c] = "pending"
    THEN /\ gate' = [gate EXCEPT ![c] = outcome]
         /\ IF c \in idle THEN Unregister(c) ELSE UNCHANGED registry
    ELSE UNCHANGED <<gate, registry>>

put(c) ==
  /\ pc[c] = "put"
  /\ \/ /\ store' = store \cup {KeyOf[c]}
        /\ SettleGate(c, "ok")
        /\ Goto(c, IF c \in gone THEN "kept" ELSE "answered")
     \/ /\ store' \in {store, store \cup {KeyOf[c]}}
        /\ Goto(c, "catch")
        /\ UNCHANGED <<gate, registry>>
  /\ UNCHANGED <<gone, on, captured, attached, idle, runVars, orphaned, charges>>

\* Mutant: a leader that fails leaves its gate pending.
CatchKeepsGate(c) ==
  /\ Step(c, "catch", "rejected")
  /\ charges' = IF c \in captured THEN charges \ {Entry(c)} ELSE charges
  /\ UNCHANGED <<gone, on, captured, flightVars, runVars, gate, orphaned, store>>

\* leadRecallFlight's catch: a captured entry is rolled back.
Catch(c) ==
  /\ Step(c, "catch", "rejected")
  /\ charges' = IF c \in captured THEN charges \ {Entry(c)} ELSE charges
  /\ SettleGate(c, "failed")
  /\ UNCHANGED <<gone, on, captured, attached, idle, runVars, orphaned, store>>

-----------------------------------------------------------------------------
FlightStep(f) == Enter(f) \/ Reserve(f) \/ Resolve(f) \/ Fail(f)
CallerStep(c) ==
  \/ LockKey(c) \/ Lookup(c) \/ GuardFails(c)
  \/ Leave(c) \/ FlightFails(c) \/ consumeFlight(c)
  \/ Deliver(c) \/ Check(c) \/ put(c) \/ Catch(c)

Next ==
  \E c \in Callers :
    coordinateRecall(c) \/ Abort(c) \/ FlightStep(c) \/ LateRelease(c) \/ CallerStep(c)

Spec == Init /\ [][Next]_vars

\* Callbacks that are due run, pipelines and puts end, and a key's lock is
\* handed to whoever waits for it.
Fairness ==
  \A c \in Callers : WF_vars(FlightStep(c)) /\ WF_vars(LateRelease(c)) /\ SF_vars(CallerStep(c))

FairSpec == Spec /\ Fairness

-----------------------------------------------------------------------------
(* Properties                                                              *)

\* The variables' types; a flight waits for a slot exactly while it is queued.
TypeOK ==
  /\ pc \in [Callers -> Over \cup {"idle", "guard", "get", "await", "check", "put", "catch"}]
  /\ on \in [Callers -> Callers \cup {None}]
  /\ gone \subseteq Callers /\ attached \subseteq Callers /\ captured \subseteq Callers
  /\ cancelled \subseteq Callers /\ idle \subseteq Callers /\ orphaned \subseteq Callers
  /\ stage \in [Callers -> {"none", "queued", "granted", "running", "reserved", "resolved", "failed"}]
  /\ gate \in [Callers -> {"none", "pending", "ok", "failed"}]
  /\ registry \in [Works -> Callers \cup {None}]
  /\ waiters \in Seq(Callers)
  /\ charges \subseteq {"run", "own"} \X Callers
  /\ store \subseteq {KeyOf[c] : c \in Keyed}
  /\ \A f \in Callers : stage[f] = "queued" <=> In(f, waiters)

\* No more than Slots recalls run at once, and none waits while a slot is free.
SlotsAreUsed ==
  /\ Cardinality(Holding) <= Slots
  /\ waiters # <<>> => Cardinality(Holding) = Slots

\* The caller's entry is its own by now and not rolled back.
Owns(c) == pc[c] \in {"check", "put", "answered", "kept"} \/ (pc[c] = "catch" /\ c \in captured)

\* An entry belongs to a running pipeline, to a caller on its way to an answer,
\* to one that was answered, or to one whose stored answer a retry will replay.
EntriesAreOwned ==
  \A c \in Callers :
    /\ RunEntry(c) \in charges <=>
         stage[c] = "reserved" \/ (stage[c] = "resolved" /\ (pc[c] = "await" \/ Owns(c) \/ c \in orphaned))
    /\ <<"own", c>> \in charges <=> on[c] \notin {None, c} /\ Owns(c)

\* The hard limit is never reached, though a leader is charged unconditionally.
BudgetIsBounded == charges # {} => Cardinality(charges) < HardLimit

\* The budget is exact: a recall that failed, or whose caller left before it
\* was answered or stored, gives its entry back, nobody is answered for free,
\* and what is reserved and answered together stays below the hard limit.
QuotaIsExact == EntriesAreOwned /\ BudgetIsBounded

\* Identical recalls share one pipeline: from its start until its result is
\* stored, no second flight for the same work is under way.
Underway(f) ==
  /\ f \notin cancelled
  /\ stage[f] \in {"queued", "granted", "running", "reserved"} \/ (stage[f] = "resolved" /\ gate[f] = "pending")

OneFlightPerWork ==
  \A f, g \in Callers : Underway(f) /\ Underway(g) /\ Work[f] = Work[g] => f = g

\* A recall nobody waits for is cancelled: when the last caller leaves, a flight
\* that has not started (which then never does) and any unkeyed one; a keyed one
\* that has started goes on.  Cancelled means that its abort signal has fired: a
\* pipeline that is running may still end, its result is nobody's (detach, onIdle).
AbandonedIsCancelled ==
  \A f \in Callers :
    /\ stage[f] \in {"queued", "granted"} \/ (stage[f] \in {"running", "reserved"} /\ gate[f] = "none")
    /\ Live(f) = {}
    => f \in cancelled

\* A flight is not joined after its time: it is registered only while a caller
\* is attached or its leader's put is pending.
RegisteredIsCurrent ==
  \A w \in Works : registry[w] # None => Live(registry[w]) # {} \/ gate[registry[w]] = "pending"

\* No phantom success: a caller that joined a keyed flight is not answered, and
\* stores nothing, when the leader's put failed.
NoPhantomSuccess ==
  \A c \in Keyed :
    on[c] # None /\ gate[on[c]] = "failed" => pc[c] \notin {"put", "answered", "kept"}

\* Every caller is answered or rejected in the end.
CallersEnd == \A c \in Callers : Pending(c) ~> pc[c] \in Over
=============================================================================
