--------------------------- MODULE ExtractionQueue ---------------------------
(***************************************************************************)
(* The extraction queue (ExtractionQueueCoordinator): bounded-parallel      *)
(* draining with at most one task per buffer key, key reservations that     *)
(* fence a claim decision, and preemption of armed work by a front task.    *)
(*                                                                         *)
(* One action is one synchronous stretch of the single JavaScript thread.   *)
(* The drain loop runs synchronously up to its next park, so while it       *)
(* scans nothing else happens.  A task is one enqueue call; one in          *)
(* Recurring stands for a producer that enqueues again after its task.      *)
(***************************************************************************)
EXTENDS Naturals, Sequences, FiniteSets

CONSTANTS Tasks,
          KeyOf,         \* the buffer key of each task
          Front,         \* fail-closed flushes: they jump the queue and preempt
          Recurring,
          Reservers,     \* keys the backlog scheduler may reserve
          Concurrency    \* extractionQueueConcurrency

ASSUME QueueAssumption ==
  /\ Tasks \subseteq DOMAIN KeyOf
  /\ Front \subseteq Tasks
  /\ Recurring \subseteq Tasks
  /\ Concurrency \in Nat \ {0}

VARIABLES
  queue,      \* the queued tasks
  status,     \* of each task: new, queued, running, settled, done or rejected
  reserved,   \* reservedKeys
  armed,      \* running tasks whose abort is registered, oldest first
  aborted,    \* running tasks that were preempted
  accepting,
  proc,       \* the drain loop: off, scan, parked, or woken and not yet resumed
  drain       \* pauseAndDrain: none, waiting, or returned (done)

queueVars == <<queue, status, reserved, armed, aborted, accepting, proc, drain>>

Keys == {KeyOf[t] : t \in Tasks} \cup Reservers

QueueInit ==
  /\ queue = <<>>
  /\ status = [t \in Tasks |-> "new"]
  /\ reserved = {}
  /\ armed = <<>>
  /\ aborted = {}
  /\ accepting = TRUE
  /\ proc = "off"
  /\ drain = "none"

\* Mutant: the entry is shifted off the front.
DropAtHead(s, i) == Tail(s)

\* The sequence without its i-th element.
DropAt(s, i) == [j \in 1 .. (Len(s) - 1) |-> IF j < i THEN s[j] ELSE s[j + 1]]
In(x, s) == \E i \in DOMAIN s : s[i] = x
Drop(s, x) == IF In(x, s) THEN DropAt(s, CHOOSE i \in DOMAIN s : s[i] = x) ELSE s

Running == {t \in Tasks : status[t] = "running"}
\* The promises the drain loop waits for: the loop forgets a task only after
\* the task has given up its key.
InFlight == {t \in Tasks : status[t] \in {"running", "settled"}}
Active(k) == \E t \in Running : KeyOf[t] = k

\* Mutants: reservations, or active keys, do not hold a task back.
BlockedByActive(t) == Active(KeyOf[t])
BlockedByReservation(t) == KeyOf[t] \in reserved

Blocked(t) == Active(KeyOf[t]) \/ KeyOf[t] \in reserved

\* No synchronous stretch is under way.
Quiet == proc # "scan"

Become(t, s) == status' = [status EXCEPT ![t] = s]

\* wake?.(): only a parked loop hears it.
Wake == proc' = IF proc = "parked" THEN "woken" ELSE proc
\* The loop is started synchronously.
Start == proc' = "scan"
StartOrWake == IF proc = "off" THEN Start ELSE Wake

-----------------------------------------------------------------------------
(* Producers                                                               *)

\* The armed task of the flush's own key, else the one armed last.
Preempted(k) ==
  IF \E i \in DOMAIN armed : KeyOf[armed[i]] = k
    THEN armed[CHOOSE i \in DOMAIN armed : KeyOf[armed[i]] = k]
    ELSE armed[Len(armed)]

preemptRunning(k) ==
  IF armed = <<>>
    THEN UNCHANGED <<armed, aborted>>
    ELSE /\ aborted' = aborted \cup {Preempted(k)}
         /\ armed' = Drop(armed, Preempted(k))

\* Mutant: a producer starts the loop and never wakes it.
enqueueStartsOnly(t) ==
  /\ Quiet
  /\ accepting /\ status[t] = "new"
  /\ Become(t, "queued")
  /\ IF t \in Front
       THEN queue' = <<t>> \o queue /\ preemptRunning(KeyOf[t])
       ELSE queue' = Append(queue, t) /\ UNCHANGED <<armed, aborted>>
  /\ IF proc = "off" THEN Start ELSE UNCHANGED proc
  /\ UNCHANGED <<reserved, accepting, drain>>

enqueue(t) ==
  /\ Quiet
  /\ accepting /\ status[t] = "new"
  /\ Become(t, "queued")
  /\ IF t \in Front
       THEN queue' = <<t>> \o queue /\ preemptRunning(KeyOf[t])
       ELSE queue' = Append(queue, t) /\ UNCHANGED <<armed, aborted>>
  /\ StartOrWake
  /\ UNCHANGED <<reserved, accepting, drain>>

enqueueRejected(t) ==
  /\ Quiet
  /\ ~accepting /\ status[t] = "new"
  /\ Become(t, IF t \in Recurring THEN "new" ELSE "rejected")
  /\ UNCHANGED <<queue, reserved, armed, aborted, accepting, proc, drain>>

stopAccepting ==
  /\ Quiet
  /\ accepting' = FALSE
  /\ UNCHANGED <<queue, status, reserved, armed, aborted, proc, drain>>

\* A new life of the orchestrator; the return of an old drain means nothing to it.
resumeAccepting ==
  /\ Quiet
  /\ accepting' = TRUE
  /\ drain' = IF drain = "done" THEN "none" ELSE drain
  /\ UNCHANGED <<queue, status, reserved, armed, aborted, proc>>

pauseAndDrain ==
  /\ Quiet /\ drain = "none"
  /\ accepting' = FALSE
  /\ drain' = "waiting"
  /\ UNCHANGED <<queue, status, reserved, armed, aborted, proc>>

\* Mutant: the wait looks at the queue and not at the loop.
IdleQueue == queue = <<>>

Idle == proc = "off" /\ queue = <<>>

\* A poll of waitForIdle, of which pauseAndDrain makes as many as it takes.
drained ==
  /\ Quiet
  /\ drain = "waiting" /\ Idle
  /\ drain' = IF accepting THEN "none" ELSE "done"
  /\ UNCHANGED <<queue, status, reserved, armed, aborted, accepting, proc>>

-----------------------------------------------------------------------------
(* Key reservations                                                        *)

Queued(k) == \E i \in DOMAIN queue : KeyOf[queue[i]] = k

\* Mutant: a key with queued work can be reserved.
ReservableQueued(k) == ~Active(k) /\ k \notin reserved

Reservable(k) == ~Active(k) /\ k \notin reserved /\ ~Queued(k)

tryReserveKey(k) ==
  /\ Quiet
  /\ Reservable(k)
  /\ reserved' = reserved \cup {k}
  /\ IF proc = "off" /\ queue # <<>> THEN Start ELSE UNCHANGED proc
  /\ UNCHANGED <<queue, status, armed, aborted, accepting, drain>>

\* Mutant: the release wakes a parked loop and never starts one.
releaseWakesOnly(k) ==
  /\ Quiet
  /\ k \in reserved
  /\ reserved' = reserved \ {k}
  /\ Wake
  /\ UNCHANGED <<queue, status, armed, aborted, accepting, drain>>

releaseKeyReservation(k) ==
  /\ Quiet
  /\ k \in reserved
  /\ reserved' = reserved \ {k}
  /\ IF queue # <<>> /\ proc = "off" THEN Start ELSE Wake
  /\ UNCHANGED <<queue, status, armed, aborted, accepting, drain>>

-----------------------------------------------------------------------------
(* processQueue                                                            *)

Room == Cardinality(InFlight) < Concurrency

\* takeRunnable and the synchronous start of the entry, which arms its abort.
take(t) ==
  /\ proc = "scan" /\ Room
  /\ \E i \in DOMAIN queue :
       /\ queue[i] = t /\ ~Blocked(t)
       /\ \A j \in 1 .. (i - 1) : Blocked(queue[j])
       /\ queue' = DropAt(queue, i)
  /\ Become(t, "running")
  /\ armed' = IF t \in Front THEN armed ELSE Append(armed, t)
  /\ UNCHANGED <<reserved, aborted, accepting, proc, drain>>

\* Nothing more to start: the loop parks while it has promises to wait for.
park ==
  /\ proc = "scan"
  /\ Room => \A i \in DOMAIN queue : Blocked(queue[i])
  /\ proc' = IF InFlight = {} THEN "off" ELSE "parked"
  /\ UNCHANGED <<queue, status, reserved, armed, aborted, accepting, drain>>

resume ==
  /\ proc = "woken"
  /\ proc' = "scan"
  /\ UNCHANGED <<queue, status, reserved, armed, aborted, accepting, drain>>

\* The task's work passes its last abortable point (onBeforePersist).
disarm(t) ==
  /\ Quiet
  /\ t \in Running /\ In(t, armed)
  /\ armed' = Drop(armed, t)
  /\ UNCHANGED <<queue, status, reserved, aborted, accepting, proc, drain>>

\* The task returns or throws, aborted or not: its key and its slot are free ...
settle(t) ==
  /\ Quiet
  /\ status[t] = "running"
  /\ Become(t, "settled")
  /\ armed' = Drop(armed, t)
  /\ aborted' = aborted \ {t}
  /\ UNCHANGED <<queue, reserved, accepting, proc, drain>>

\* ... and, a microtask later, the loop's promise for it.
forget(t) ==
  /\ Quiet
  /\ status[t] = "settled"
  /\ Become(t, IF t \in Recurring THEN "new" ELSE "done")
  /\ Wake
  /\ UNCHANGED <<queue, reserved, armed, aborted, accepting, drain>>

-----------------------------------------------------------------------------
Loop == (\E t \in Tasks : take(t)) \/ park \/ resume
TaskStep(t) == disarm(t) \/ settle(t) \/ forget(t)

QueueNext ==
  \/ Loop
  \/ \E t \in Tasks : enqueue(t) \/ enqueueRejected(t) \/ TaskStep(t)
  \/ \E k \in Reservers : tryReserveKey(k) \/ releaseKeyReservation(k)
  \/ stopAccepting \/ resumeAccepting \/ pauseAndDrain \/ drained

\* Tasks end, a claim decision settles, and the event loop runs every callback
\* that is due: strong fairness, because a scan in between is not a delay.
QueueFairness ==
  /\ WF_queueVars(Loop) /\ WF_queueVars(drained)
  /\ \A t \in Tasks : SF_queueVars(settle(t) \/ forget(t))
  /\ \A k \in Reservers : SF_queueVars(releaseKeyReservation(k))

QueueSpec == QueueInit /\ [][QueueNext]_queueVars
QueueFairSpec == QueueSpec /\ QueueFairness

-----------------------------------------------------------------------------
(* Properties                                                              *)

\* The variables' types; the queue holds exactly the queued tasks, once each,
\* and an abort, pending or delivered, is that of a task still running.
QueueTypeOK ==
  /\ queue \in Seq(Tasks)
  /\ status \in [Tasks -> {"new", "queued", "running", "settled", "done", "rejected"}]
  /\ reserved \subseteq Keys
  /\ armed \in Seq(Tasks)
  /\ aborted \subseteq Tasks
  /\ accepting \in BOOLEAN
  /\ proc \in {"off", "scan", "parked", "woken"}
  /\ drain \in {"none", "waiting", "done"}
  /\ \A t \in Tasks : status[t] = "queued" <=> In(t, queue)
  /\ \A i, j \in DOMAIN queue : queue[i] = queue[j] => i = j
  /\ \A i \in DOMAIN armed : armed[i] \in Running
  /\ \A i, j \in DOMAIN armed : armed[i] = armed[j] => i = j
  /\ aborted \subseteq Running

\* Tasks sharing a key never run concurrently, so the same buffer is never
\* extracted twice in parallel, and at most Concurrency tasks run at all.
OneTaskPerKey ==
  /\ \A t, u \in Running : KeyOf[t] = KeyOf[u] => t = u
  /\ Cardinality(Running) <= Concurrency

\* A reservation excludes the key's tasks from start to end: no task of a
\* reserved key runs, whoever reserved it when.
ReservationFences == \A k \in reserved : ~Active(k)

\* No lost wake-up: a queued task that could start is never left behind by a
\* loop that has stopped, nor by one that sleeps with room to run it, unless
\* a promise that is about to wake the loop has settled.
NotStranded ==
  \A t \in Tasks :
    status[t] = "queued" /\ proc \in {"off", "parked"}
      => \/ Blocked(t)
         \/ proc = "parked" /\ (~Room \/ InFlight # Running)

\* When pauseAndDrain has returned, the work accepted before it is over: what
\* shutdown then tears down is in nobody's use until the orchestrator is
\* initialized again.
DrainedIsIdle ==
  drain = "done" => \A t \in Tasks : status[t] # "queued" /\ t \notin InFlight

\* Every accepted task eventually starts, whatever is reserved meanwhile.
AcceptedTasksRun == \A t \in Tasks : status[t] = "queued" ~> status[t] = "running"

\* A shutdown does not hang: pauseAndDrain returns, unless the orchestrator is
\* initialized again meanwhile.
ShutdownCompletes == drain = "waiting" ~> drain # "waiting" \/ accepting
=============================================================================
