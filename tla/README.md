# TLA+ verification of Remnic

Remnic is a memory system for AI agents: hosts feed it conversation turns, it
buffers them per session, an extraction model turns them into memories, and
recall serves those memories back. This directory models the parts that must
stay correct under concurrency and crashes: the path of a turn from the live
buffer to a durable extraction verdict (buffer, drain claims, extraction queue,
backlog scheduler, circuit breaker), the lock and the metadata file below it,
and the two guards in front of the service: idempotency keys and coalesced
recalls.

Paths below are relative to `src/packages/remnic-core/src/`.

## 1. The system: inventory

| Component | State it keeps | Operations | Interacts with | What makes it correct | Module |
|---|---|---|---|---|---|
| Live buffer (`buffer.ts`, `buffer-turn-helpers.ts`) | in-memory entry per key, dirty keys, save timer | record a turn, debounced flush, clear after extraction, drop a failing chunk, retain deferred turns | session files (save), extraction queue (windows) | a recorded turn becomes durable; a failed save stays pending | `BufferDrain` (one key) |
| Session files (`storage/buffer-session-files.ts`, `buffer-persistence.ts`) | `s-<key>.json` | save (write, hand over, or consume a tombstone), load, remove | drain claims | a save never resurrects or loses claimed turns | `BufferDrain` |
| Drain claims (`storage/buffer-drain-claims.ts`) | claim, lease and lock file per key | claim, merge, adopt, progress write, heartbeat, ack, release | buffer owner and drain runs, in several processes | a kill at any point loses nothing; two drainers are safe | `BufferDrain` |
| Drain runner (`orchestration/buffer-drain-runner.ts`, CLI worker) | the run's snapshot and claim buffer | scan, claim, load, adopt, drain by chunk, settle | claims, extraction run | every claimed turn is drained in the end | `BufferDrain` |
| Extraction drain and gate (`orchestration/extraction-drain.ts`, `buffer-drain-gate.ts`) | failure counts, window | chunk loop, drop with recovery copy, gate | live buffer, extraction run | a chunk leaves the buffer only after a verdict or a recovery copy | `BufferDrain` |
| Provider breaker (`orchestration/provider-breaker.ts`) | state, cooldown, failure count, probe token | acquire, releaseProbe, failure, success | extraction runs of all sessions | one probe at a time, owned until it ends; recovers | `ProviderBreaker` |
| Extraction run (`orchestration/extraction-run.ts`) | retry state per fingerprint | gate, provider call, bookkeeping, persist, clear | breaker, buffer, storage | every exit settles or releases what it acquired | `ProviderBreaker` (its breaker side) |
| File lock, meta updates (`utils/serialize-mutations.ts`) | lock file, trash files, `meta.json`, promise chain per directory | acquire, refresh, break stale, release, load-mutate-save | claims, meta.json | mutual exclusion despite stale breaking; no lost update | `HeldFileLock`, `MetaUpdate` |
| Extraction queue (`orchestration/extraction-queue-coordinator.ts`, `extraction-task-queueing.ts`, `turn-ingestion.ts`) | queue, active and reserved keys, abort handles, wake promise | enqueue, reserve, run, preempt, pause and drain | ingestion, scheduler, shutdown | per-key exclusion, no lost wake-up, shutdown completes | `ExtractionQueue` |
| Backlog scheduler (`orchestration/backlog-scheduler.ts`) | per-key backoff, in-flight set, page cursor | tick, discover, reserve and claim, submit, apply outcome, stop | queue, claims, runner, breaker | bounded, fair, no double extraction | `BacklogScheduler` |
| Access idempotency (`access-idempotency.ts`, guard in `access-service.ts`) | key records in memory and in a file, queue of writes, lock files | get, put, reload, merge, flush; guard: lock, look up, execute, store | access surfaces, other processes | one effect per key; an answer stays stored | `AccessIdempotency` |
| Recall gate (`access-recall-concurrency.ts`) | slots and waiters per principal, flights, persistence gates | coordinate, join, lead, leave, deliver, persist | access surface, idempotency, budget | one pipeline per work; slots and waiters exact; everybody answered | `RecallFlight` |
| Cross-namespace budget (`cross-namespace-budget.ts`) | entries of a window | record, release | recall gate | an entry per answered recall, no more | `RecallFlight` |
| Revision stores, tombstones (`storage/cas-revision-store.ts`, `storage/deletion-revision-store.ts`, `lifecycle/tombstones.ts`) | revisions | compare-and-swap, delete | storage | no lost update, no resurrection | - |
| Dependency propagation (`orchestration/dependency-propagation*.ts`) | durable queue | enqueue, deliver, replay | storage | at-least-once delivery | - |

The remaining parts (recall scoring, storage layout, extraction prompts, hosts,
connectors, importers, benchmarks) have no protocol of their own; PROJECT.json
lists them with the reason they are left out.

Hard behaviours: several processes (daemon, CLI drain workers, servers) sharing
files with only advisory locks and leases; kills between any two file
operations; leases that expire under a paused run; locks that are broken as
stale while their holder still runs; checks separated from the acts they guard
by awaits; best-effort writes; attempts reporting to a shared breaker after they
were abandoned; callers that leave a shared computation at any moment.
PROJECT.json "hazards" lists each at its line, with the properties that would
catch it going wrong.

## 2. Modules

| Module | Content |
|---|---|
| `DurableCustody` | abstract specification: turns in custody leave it only by being settled |
| `BufferDrain` | the hand-over protocol of one session: live owner, drain runs, files, kills |
| `BufferDrainInv`, `BufferDrainProofs` | its inductive invariant and theorems; it implements `DurableCustody` |
| `ProviderBreaker`, `ProviderBreakerProofs` | the circuit breaker and the extraction attempts that share it |
| `HeldFileLock`, `HeldFileLockProofs` | the lock file, one file-system call at a time |
| `MetaUpdate`, `MetaUpdateProofs` | `updateMetaSerialized`, composed on `HeldFileLock` |
| `ExtractionQueue`, `ExtractionQueueProofs` | the queue and its drain loop |
| `BacklogScheduler`, `BacklogSchedulerProofs` | the scheduler, composed on `ExtractionQueue` and shown to implement it |
| `WriteOnce` | abstract specification: a key takes one entry for good, and one request is answered for it |
| `AccessIdempotency`, `AccessIdempotencyProofs` | the idempotency store and its guard, in several processes; it implements `WriteOnce` |
| `RecallFlight`, `RecallFlightProofs` | shared recalls with slots, budget and persistence |
| `MC...` | constants, functions on them and symmetry sets for TLC |

Several modules hold definitions whose comment starts with "Mutant": a variant of
the operator that follows with one plausible mistake. No specification uses
them; PROJECT.json names the property each of them breaks.

A step is everywhere the code between two awaits that another actor can tell
apart: one synchronous stretch of the JavaScript thread, or one file-system call
where other processes look at the same file.

### BufferDrain

One session key. Files, locks and leases are per key and no operation touches
the files of two keys, so one key is the whole protocol.

* Disk: `session` (`s-<key>.json`), `claim` (`drain/s-<key>.json`), `lease`,
  `lock`. The holder of a lock or lease that was killed is `Dead`.
* Owner: `mem` (the in-memory entry), `dirty`, `opc` (where the serialized
  mutation and its save are), `tomb` (drained turns read by that save), and the
  extraction task `xpc`, `xwin`, `xtodo`, `xchunk`.
* Each drain run: `pc`, `seen` (the snapshot it loaded), `local` (its claim
  buffer), `todo`, `window`, `held` (the claim read under the lock), `beat` (a
  heartbeat between its read and its write).
* History: `durable`, `settled`, `dropped`.

Actions follow the code's operations. The owner: `BufferTurn` and
`BufferAndTrigger` (recordTurnUnlocked with its two decisions),
`FlushPendingSave`, the save in steps (`SaveWrite`; `SaveLeaseRead`,
`SaveConsume`, `ReleaseClaim`, `ReleaseLease`; `SaveMerge`; `SaveFails`), the
extraction task (`ExtractGated`, `ExtractStart`, `ExtractDone`, `ExtractStops`,
`DropFailedChunk`, `RetainDeferredTurns`, `ClearAfterExtraction`), `OwnerCrash`,
`OwnerRestart`. A drain run: `Start` (scan), `ClaimRename` / `ClaimSkipped` /
`ClaimEmpty` / `ClaimTaken` (claimFromSessionFile), `LoadClaim`, `Adopt` /
`AdoptBusy`, `ExtractChunk`, `SkipDenied`, `WriteBegin` / `WriteCommit` /
`WriteSkipped` (writeEntry), `DrainStops`, `Settle` / `UnlinkLease` (ack,
releaseLease), `HeartbeatBegin` / `HeartbeatCommit`, `DrainerCrash`.

Abstractions:

* A turn is its identity (`bufferTurnsEqual`); both lists dedupe by identity, so
  they are sets. Order matters only for prefix clearing: `Matching` clears
  exactly the chunk while it is still live, and otherwise any part of it.
* An in-memory mutation and the first read of its save are one step, because
  memory is invisible to the runs. A locked section is split only where an
  unlocked step of another process can fall inside it. The claim lock excludes:
  `HeldFileLock` says how far that is true.
* Lease expiry is a matter of the clock, so adopting another run's lease is
  always possible; an adoption may also find the lease alive (`AdoptBusy`).
* "Settled" means that the extraction of the turn reached a durable verdict, or
  that the live drain gave the chunk up after writing its recovery side file. The
  retained copy of a deferred turn was part of a completed extraction: it counts
  as settled, and losing such a copy is not what `DurableNeverLost` is about.
* Kills are unbounded; a restarted run has a new owner id.
* Deferral is the judge's: `Deferrable` is `{}` unless `JudgeEnabled`.
* Chunk sizes, failure counts, policy and judge verdicts are nondeterministic.
* Eviction of other keys, legacy migration, and file corruption are left out.

`DurableCustody` is implemented under the mapping `custody <- (session, claim and
vanished hand-overs, unsettled)`, `done <- settled`. Renames, merges, tombstones,
takeovers and kills are all stutters at that level.

### ProviderBreaker

State of `ProviderCircuitBreaker` plus the position of each attempt of
`runExtraction`. The clock is reduced to `cooling` (now < openUntilMs); the
failure count saturates at the threshold, the only number it is compared with;
`probeHeld` and `probeToken` change together and are one variable. A slot of
`Attempts` is one attempt after another; each attempt has its own token, and
`Orphan` is a token whose attempt is over. `Forced` attempts bypass the gate
(forced and fail-closed callers; also a gate that failed open). `Deadlined`
attempts have a caller that passes `deadlineMs`. Stage `late` is the metadata
update that goes on after its run was aborted.

### HeldFileLock and MetaUpdate

An element of `Calls` is one `withHeldFileLock` call with its own owner id. It
creates at most one lock file, so a file is named by its call wherever it is
linked: at `path`, at the private trash path of a call that moved it aside
(`trash`), or left in a trash path (`left`). `written` are the files with
metadata, `fresh` those whose mtime is within staleMs: creating, writing and
touching a file make it fresh. `late` is history: the files whose metadata was
written when every link left to them was about to be unlinked. Actions are the
file-system calls: `Create` / `WriteMetadata` / `Undo` (acquireLock); `Stat`,
`ReadIdentity`, `Reread`, `Restat`, `Rename`, `Verify`, `MovedStat`, `Restore`,
`UnlinkRestored`, `Discard` (breakStaleLock); `Precheck`, `ReleaseRename`,
`ReleaseVerify` and the restore (releaseLock); `HeartbeatCheck` /
`HeartbeatTouch` (refresh); `Kill`; `GoesStale` (the clock). What may happen to a
call is a constant: `Killable`, `Stalling` (its event loop pauses longer than
staleMs, so its file goes stale while it runs), `Faulty` (its reads and writes
may fail, and a write may fail after it was done; renames, links and utimes do
not fail). A process whose loop does not pause refreshes its lock long before staleMs.

`MetaUpdate` adds `meta.json` as the set of updates it reflects, the copy each
task loaded, and the promise chain that orders the updates of one process
(`ChainFree`).

### ExtractionQueue

One coordinator. `queue` in order, the `status` of each task, `reserved` keys,
`armed` abort handles, `accepting`, the drain loop `proc` (off, scanning, parked
on the wake promise, or woken and not yet resumed) and `drain` (pauseAndDrain).
The loop scans synchronously: while `proc = "scan"` only `take` and `park` are
possible. `settle` is the end of a task (active key given up, loop woken), and
`forget` the loop's own bookkeeping of its promise, which comes later. A task in
`Recurring` stands for a producer that enqueues again; `Front` tasks are the
fail-closed flushes, which preempt an armed task, of their own key if there is
one (`preemptRunning`).

### BacklogScheduler

Composed on `ExtractionQueue`, whose actions it conjoins with its own. Added
state: turns in the session file and in the claim file of each key, live tasks
past the claim gate (`extracting`), the tick (listing, counting, submitting),
the page cursor, the submission of each key (`sub`), its abort, the breaker, and
the backoff of each key. `listPage` / `discovered` are the awaits of discovery,
`submitClaim` / `submitFresh` / `submitted` the synchronous submission loop,
`claimForSubmit` the asynchronous claim decision under a reservation,
`drainClaimedKey`, `queueGroups`, `drainWithout`, `drainEnds` the drain and its
outcome, `applyOutcome` the backoff. Time is counted in polls. The code keeps an
exponent and computes the wait as base times a power of two, up to a maximum; the
model keeps that wait (`delay`, doubled by `Raised` up to `RetryMax`), which is
finite without a cap. A drain is reduced to the number of turns it leaves; turns
per key are capped by `MaxTurns`. The daemon starts on any session files and
claims; a key outside `Capturing` has no live session any more, only what its
claim holds. A page is `PageLimit` claims, more than the submission bound
(`PageLimit > Concurrency`; the code's page is four times the bound and at least
16), out of at most `ScanFactor` times as many claim files read (`Scanned`), so
a tick may stop in the middle of a page and rewind the cursor.

### AccessIdempotency

Several processes with a copy of the state each (`mem`, `loaded`: the mtime of
the file it came from), a queue of writes each, one state file, one lock per key
and one for the file. A request is at one await of get, put or the guard of
`access-service.ts` (`handleIdempotentWrite`, `handleIdempotentRead`,
`peekIdempotentWrite`): `LockKey`, `WritesDone`, `Stat`, `Read`, `Assign`,
`Mtime` (get and its reload), `Execute`, `BeginPut`, `LockState`, `Merge`,
`Rename`, `Flushed`, `FlushFails`, `Release`. `Kill` ends a process with
everything it holds, `BreakStale` frees the lock of a dead holder, `LockTimeout`
is a contender's timeout. The reload's comparison of mtimes and the decision to
read are one step.
Not in the model: more than 512 keys (the store then prunes its oldest entry;
`IdempotencyAssumption` says so), a state file that cannot be read or parsed
(the store then starts empty), a lock broken while its holder is alive, and the `.reclaim`
file of the lock protocol: a lock is its holder.

Requests of one process are in flight together, as in the code:
`withIdempotencyLock` orders only those of one key, `withWriteQueue` only the
puts. A get that is at work on the process's copy while another get or put is
(`Apart` is false) can undo what the other staged or loaded. The ghost
`overlapped` remembers that this has happened, and the properties about stored
answers (`ApartKeepsAnswers`, `ApartExecutesOnce`) speak of behaviours until
then; section 3 shows what happens afterwards.

`WriteOnce` is what such a store promises: a key takes one entry, keeps it for
good, and only the request that put it is answered for it. `ImplementsWriteOnce`
reads the state file as its store and the requests in `answered` as the answered
ones, so every reload, merge, failed flush, broken lock and kill must be a stutter.

### RecallFlight

The recalls of one principal through `coordinateRecall`. A flight is named by
the caller that leads it. `pc` of each caller, `gone` (its abort signal fired),
`on` (the flight it consumes), `attached`; of each flight its `stage` (queued for
a slot, granted, running, reserved in the budget, resolved or failed), whether it
is `cancelled`, and its persistence `gate`; the `registry` of live flights, the
`waiters` for a slot, the budget's `charges`, and the `store` of answered keys. Actions:
`coordinateRecall` (join a flight or start one), `Enter`, `Reserve`, `Resolve`,
`Fail` (the run in its slot), `Abort` and `Leave` (a caller disconnects, and
notices), `consumeFlight` and `Deliver`, `Check` (a keyed follower waits for its
leader's put), `put`, `Catch`, `LateRelease` (the budget entry of a flight whose
leader left before it resolved).
Not in the model: `runRecallDirect` (single flight disabled); the sliding of the
budget's window (entries leave it only by release); recalls within one namespace
(every recall is charged). A `put` that fails may have stored its entry. The
lock of a key is that of `AccessIdempotency`, reduced to mutual exclusion.

## 3. Runs

Every run explores its instance completely; sizes are distinct states.

| Run | Instance | Shows |
|---|---|---|
| `buffer_drain_runs` | 1 turn, 2 drain runs, judge on, symmetry | progress writes are fenced by the lease and based on the current claim, and all files keep their shape |
| `buffer_drain_custody` | 2 turns, 1 drain run, judge off; 88 000 | durable turns are never lost, tombstones are extracted, `DurableCustody` is implemented, claimed turns are drained in the end |
| `buffer_drain_handover` | 2 turns, 1 drain run | a violation: a hand-over to a claim that vanished is in no file |
| `breaker` | 4 attempts (1 forced, 1 with a deadline), threshold 2; 5 800 | the probe is owned, no full failure count in a closed breaker, the breaker closes again |
| `held_lock_stalls` | a holder that may be killed or stall, another that stalls, a third; 2.3 million | only a stale lock file is destroyed, with the exception of `late` |
| `held_lock_faults` | a call that may be killed, two whose reads and writes may fail; 15 400 | a lock file nobody holds is broken in the end |
| `meta_update` | a process that may be killed, one with two chained updates, one more; 985 000 | mutual exclusion, a live lock file survives, no lost update |
| `queue` | 4 tasks of 2 keys (1 in front, 2 recurring), 2 slots, both keys reservable; 23 000 | keys exclusive, reservations fence, no lost wake-up, a drained queue is idle; accepted tasks run, a shutdown completes |
| `backlog` | 1 key with a live task and a drain; stop, breaker, queue, denial and I/O disturbances; 77 000 | a claim never coexists with live extraction; stop returns |
| `backlog_live` | 3 keys with drains (1 live), pages of 2 claims, bound 1, no disturbance; 54 000 | every claim is attempted again and again, as long as some ticks get to the end of their page |
| `idempotency` | a request of a process that may be killed; at another process, concurrently, its retry, a reuse of its key with another payload and another key; 281 000 | until a get is overlapped an answer stays stored and its key never executes again; requests end |
| `recall` | 3 callers of one work, 2 with a key, 1 slot, a budget of 2 entries; 153 000 | one pipeline, exact slots and budget, no phantom success, an abandoned recall is cancelled, everybody ends |

Bounds, and why they are enough.

* `BufferDrain` tells turns apart as "in the snapshot", "merged later" and "new
  in the owner's memory"; interference between runs needs two runs and one turn,
  loss of turns one run and two turns. The theorems cover all numbers. With the
  judge on, two turns and one run have about 3.8 million states. Kills, retries
  and lease takeovers are not bounded: the state is finite without a cap.
* `ProviderBreaker`: a threshold of 2 is the smallest at which counting differs
  from tripping at once; a straggler, a probe, a forced attempt and a deadline
  are four attempts.
* `HeldFileLock`: breaking a lock, restoring it and acquiring in between takes a
  holder and two contenders.
* `ExtractionQueue`: two keys and two slots, so that the bound, the exclusion of
  a key and a front task can each be what blocks the loop.
* `BacklogScheduler`: the fence is a matter of one key. Paging takes three: a
  page of two, so that the bound of one stops a tick in the middle of the page,
  and one claim behind it; the scan budget is that of one page, so tombstones
  use it up. Backoff is at most two polls, doubled once in `backlog`.
* `AccessIdempotency`: two requests of a key in different processes, with a kill;
  the other key makes the second process flush a copy that may be older than the
  file, and gives it gets and puts of two keys at once. With both processes
  killable the instance has 1.5 million states and was explored for the
  invariants. A request is served once, so that "eventually" is over finitely
  many requests.
* `RecallFlight`: leader, follower and a caller without a key. The instance with
  a fourth caller of other work (`u3`, so that flights queue for the slot behind
  each other) has 4.7 million states and was explored for the invariants by
  setting `Callers = {k1, k2, u1, u3}`; the theorems cover all numbers.

`Turns`, `Drainers`, and the two chained updates are symmetric; the runs that
check liveness use no symmetry. `CHECK_DEADLOCK FALSE` is set for the lock, the
metadata, idempotency and recall instances, because each call or request is
served once and the system then really stops; deadlock is checked everywhere
else. A request that hangs would violate `RequestsEnd` or `CallersEnd`.

Fairness, and why the code justifies it.

* `buffer_drain_custody`: the scheduler and the CLI keep starting runs and a
  started run proceeds (weak fairness of a run's own steps); leases expire and
  abandoned locks go stale by the clock (strong fairness of `Adopt`, weak
  fairness of `BreakStaleLock`); a heartbeat in flight lands; a turn attempted
  again and again is extracted in the end (strong fairness per turn: neither
  provider nor policy refuses it for ever). Drain runs are killed finitely often,
  the owner any number of times, but only finitely often while it holds the claim
  lock: an owner that is killed inside every hand-over keeps the lock from every
  run.
* `breaker`: cooldowns and attempts end, work whose own backoff is over keeps
  arriving, and a provider that is probed again and again answers. `Recovers`
  excepts the state of `ProviderBreakerDeadline.cfg` below.
* `held_lock_faults`: every call that is not killed goes on, and time passes.
* `queue`, `backlog`, `backlog_live`: the event loop runs every callback that is
  due, tasks and claim decisions end, the poll timer fires, file-system failures
  are transient. Strong fairness appears where a synchronous stretch of the
  thread (a scan, a submission loop) disables the callback in between, which in
  the code is no delay. `ClaimsAreAttempted` is conditional: the breaker stays
  closed and the scheduler running from some point on, and ticks get to the end
  of their page again and again. The code does not guarantee the latter: a drain
  may always take as long as the backoffs of its neighbours (`BacklogStarved.cfg`
  below).
* `idempotency`, `recall`: callbacks run, operations end, stale locks are broken,
  and a key's lock is handed to whoever waits (strong fairness, since others may
  take it first).

### What the code does not do

`buffer_drain_handover` is the listed disagreement: a save decides to merge into
a claim that is then unlinked as empty; the turns are reported as handed over
and evicted from memory, and are in no file.

`IdempotencyOnce.cfg` (`MCAccessIdempotency`, run by hand) checks on the instance
of `idempotency` what is then proved: `ImplementsWriteOnce` for the behaviours in
which no get is overlapped (`ApartSpec`), and `EntriesStay`. It passes;
`ImplementsWriteOnce` fails under `Spec`, and when a flush does not merge.

The following configurations are kept beside the project and are run by hand
(`tlc -config X.cfg M`); each finds a behaviour that a comment or a test of the code
does not expect. They are why the properties above are stated the way they are.

| Configuration (module) | Fails | What TLC finds |
|---|---|---|
| `BufferDrainStaleSnapshot` (`MCBufferDrain`) | `PendingNotDrained` | a run loads the claim before it takes the lease; turns the previous holder drained become pending again. Repeated, not lost |
| `BufferDrainRetained` (`MCBufferDrain`) | `NeverResurrected` | consuming a tombstone ignores `drainedRetained`: a drained retained turn comes back |
| `BufferDrainReextract` (`MCBufferDrain`) | `NeverReextracted` | the extraction window is copied before the save of the same mutation removes drained turns |
| `BufferDrainLateMerge` (`MCBufferDrain`) | `LateMergeStaysPending` | an absent retained list falls back to the claim's, so a late retained copy is tombstoned |
| `ProviderBreakerDeadline` (`MCProviderBreaker`) | `ProbeHasOwner` | a deadline inside the gate's passive capture leaves the probe held for ever. No caller of today combines the two; the path is latent |
| `MetaUpdateTrio` (`MCMetaUpdate`) | `NoLostUpdate` | three contenders and a killed holder: a breaker moves a fresh lock aside and links it back, but in between the path is free and a third process creates its own lock. `MutualExclusion` fails with it |
| `HeldFileLockLateWrite` (`MCHeldFileLock`) | `FreshNeverDestroyed` | a creator stalls between its create and its metadata; a breaker moves the file aside, finds it unchanged ("Still stale — we broke the right lock", `utils/serialize-mutations.ts:601`) and is about to unlink it; the creator's write makes it fresh, and the breaker unlinks a lock that is held |
| `BacklogStarved` (`MCBacklogScheduler`) | `ClaimsAreNeverStarved` | "a rotating cursor visits every claim fairly" (`storage/buffer-drain-claims.ts:587`), but when the bound stops a tick in mid-page the cursor is rewound; if an earlier claim's backoff is over by the time of the next submission, it takes the slot again, and its neighbour is never attempted |
| `BacklogDenial` (`MCBacklogScheduler`) | `DenialWaitsMax` | `backoffMs` asks whether the previous outcome was a denial: a first denial waits like a failure |
| `IdempotencyStaged` (`MCAccessIdempotency`) | `AnsweredIsStored` | a get that began before a put of another key was queued reloads the file over the staged entry; the flush then writes without it and the put reports success (`tests/access-idempotency.test.ts:351`: get waits "instead of clobbering staged state") |

## 4. Proofs

TLAPS checks every theorem for all values of the constants, under the named
assumption on them in the module that declares them. Each proof has the same
shape: the promise is not inductive alone, an invariant that is (checked by TLC
first) is proved preserved by one lemma per conjunct with one case per action,
and the promise follows from it.

| Theorems | Assumption | Inductive invariant |
|---|---|---|
| `BufferDrainProofs`: `TypeCorrect`, `DurableTurnsAreNeverLost`, `TombstonesAreExtracted`, `ProgressWritesAreFenced`, `ProgressWritesAreAtomic`, `FilesImplementCustody` | `ConstantsAssumption` | `IInv` of `BufferDrainInv`, below |
| `ProviderBreakerProofs`: `TypeCorrect`, `ProbesAreOwned`, `ClosedMeansHealthy` | `BreakerAssumption` | `BreakerInv`: a token is out only while the breaker is half open and not cooling, and only attempts past the gate own one |
| `HeldFileLockProofs`: `TypeCorrect`, `OnlyStaleLocksDestroyed` | `LockAssumption`; `Faulty = {}` for the second | `KeptInv`: a fresh file its call has not given up has a link that no pending unlink is about to remove, unless it is in `late` |
| `LiveLocksKept` | in addition `Stalling = {}` | `KeptInv`, and the file of an owning call is fresh |
| `ExclusiveInPairs`, `LiveLocksReturn` | `Steady` (`Stalling = {}`, `Faulty = {}`), and of the behaviour `[]PairedAfterKill`, `KillsSpareLive` | `LockInv`: `PairInv`, and `QuietInv` until the first kill, below |
| `MetaUpdateProofs`: `ExclusionSuffices` | of the behaviour `[]MutualExclusion` | `ReadInv`: a loaded copy is current, because its call is the only holder |
| `TriosExclude`, `TriosKeepUpdates` | `Steady`, `ThreeProcesses`; anybody may be killed | `TrioInv`, below |
| `ExtractionQueueProofs`: `QueueTypeCorrect`, `KeysAreExclusive`, `ReservationsFence`, `NothingStranded`, `DrainedQueueIsIdle` | `QueueAssumption` | `QueueInv`: types, the loop's promises within the bound, keys exclusive, no stranded task, a returned drain stays alone |
| `BacklogSchedulerProofs`: `TypeCorrect` | `BacklogAssumption` (finitely many sessions) | `ClaimTypes`, `TickTypes`, `KeyTypes`: `TypeOK` by the part of the scheduler a step belongs to |
| `UsesQueue`, `ClaimsAreFenced`, `ReservationsAreDecisions` | `BacklogAssumption` | `FenceInv`, on top of the queue's theorems, which `UsesQueue` transfers to the composition |
| `AccessIdempotencyProofs`: `TypeCorrect` | `IdempotencyAssumption` | `TypeInv`: a write that runs is the first of its process's queue, one that waits is in it |
| `EntriesNeverVanish` | `IdempotencyAssumption` | `IInv`: lock files name the requests inside, and a merged copy that is to be renamed has every key of the file |
| `AnswersStayStored`, `KeysExecuteOnce` | `IdempotencyAssumption`; the properties speak of behaviours until `overlapped` | `ApartIInv`: in addition, while no get has been overlapped, no copy is newer than the file just looked at, and what each request holds agrees with what the file stores |
| `FileIsWriteOnce` | of the behaviour: no get is overlapped (`ApartSpec`) | the same |
| `RecallFlightProofs`: `TypeCorrect`, `SlotsStayUsed`, `QuotaStaysExact`, `FlightsAreShared`, `RegistryIsCurrent`, `SuccessIsStored`, `AbandonedRecallsAreCancelled` | `RecallAssumption` (finitely many callers) | `IInv`: the queue holds each waiting flight once, who is on which flight, what a caller's place says of the sets it is in, a gate is pending until its leader is answered or rejected, a flight under way is registered |

`IInv` of `BufferDrain`:

* `LockInv`: the lock file names the only process inside a locked section, and a
  claim read under it is held exactly by that process. This gives
  `ProgressBaseIsCurrent`, and with the fence `ProgressIsFenced`.
* `ReadbackInv`, `SaveInv`, `ConsumeInv`: what a claim looks like right after
  the rename, that a save has something to save, and that a tombstone under
  consumption can only gain settled turns.
* `SettledInv`: retained copies, tombstones and attempted chunks are settled
  wherever they are kept (files, memory, snapshots, claim buffers).
* `RunInv`: a run's snapshot and buffer hold turns of the claim or settled ones,
  and what it struck off its snapshot is settled. A stale snapshot can bring
  settled turns back to the claim but can never make it forget an unsettled one.
* `OverwriteInv`: whatever the owner's next write of the session file would
  overwrite is in memory, in the claim, or settled.

The refinement of `DurableCustody` is proved from `IInv` by showing that no step
takes an unsettled turn out of the two files.

`IInv` of `RecallFlight` is proved conjunct by conjunct over the three kinds of
step: a caller that joins or leads, a flight in its slot, a caller that consumes.
The exact budget needs that entries of different flights and callers differ
(`EntriesDiffer`) and that a step touches one entry only (`OneQuota`); the exact
slots, that giving up a slot hands it to the first waiter or finds the queue
empty (`Released`). `QuotaIsExact` has two parts: every entry has one owner, and
the entries never pass the hard limit (`BudgetIsBounded`, kept by `LimitStep`).

`LockInv` of `HeldFileLock`. A killed holder's lock file is what makes others
move lock files aside, and the danger is that a breaker moves one that is alive:
until it is linked back, the path is free. `PairInv` says where the file of an
owning call is: at the path, or aside with one breaker who is about to link it
back, and in that case nothing is at the path. With two contenders the owner is
one of them and the breaker the other, so nobody can take the free path; that is
`PairedAfterKill`, and `KillsSpareLive` keeps the breaker from dying with the
live file in hand. Until the first kill nothing ever goes stale and nobody
breaks a lock (`QuietInv`): any number of calls may contend, and what excludes
them is the create alone. `LiveLocksReturn` adds that, under the same
assumptions, no live file ends in a trash path nobody looks at again, the case
`LiveLocksKept` has to admit. `TriosExclude` discharges both for meta updates of three
processes: the updates of a process are chained (`ChainInv`), so one death leaves
two contenders and a second leaves one, which needs no lock (`TrioInv`). The
number is exact: a fourth process gives `MetaUpdateTrio.cfg` its counterexample.
`ExclusionSuffices` is the other half, and holds under every fault: whatever goes
wrong with an update goes wrong through the lock.

`TypeCorrect` of the scheduler needs the listing to be a sequence. The cursor is
a `CHOOSE` of a greatest rank of a page; that a finite set of ranks has one
follows from the well-foundedness of the naturals (`LeastElement`,
`GreatestElement`), without induction over the set.

`FileIsWriteOnce`: only a rename changes the file, and by `RenameAdds` what is
renamed into place is the file plus one entry. An answer is a release
of the key by a request that has stored its entry (`AnswersAreReleases`), and no
other request of the key can have. `EntriesNeverVanish` is weaker and needs no
assumption on how requests of a process overlap: a staged entry can be lost
before it reaches the file, an entry of the file cannot.

Only model-checked:

* every liveness property: `ClaimedTurnsAreDrained`, `Recovers`, `OrphanIsBroken`,
  `AcceptedTasksRun`, `ShutdownCompletes`, `StopSettles`, `ClaimsAreAttempted`,
  `RequestsEnd`, `CallersEnd`. Fairness and leads-to are outside the prover's reach;
* `MutualExclusion` and `NoLostUpdate` where four or more processes may be killed,
  stall or fail: they have counterexamples there, so there is no theorem to
  prove. What holds for every number, with kills but without stalls and failing
  I/O, is that a live lock file stays on disk (`LiveLocksKept`);
* the by-hand configurations above.

## 5. Not modelled, and the plan

* Eviction, reconcile and the several keys of `SmartBuffer`
  (`orchestration/buffer-swap.ts`, `buffer-eviction.ts`), the next module: the
  order of debounced saves of several keys, and drain runs of the daemon that
  share one owner id with a late save timer of a finished run.
* Revision and deletion stores with tombstones: compare-and-swap against
  concurrent deletion.
* Dependency propagation: its durable queue and replay after a crash.
* The `.reclaim` protocol of the idempotency locks, at the level of detail of
  `HeldFileLock`; pruning at 512 keys.
* `runRecallDirect`, and the sliding of the budget's window.
* The persistence of extracted facts and its watermark: large, and mostly a
  transformation of data.
* Out of scope for a model checker: recall scoring, prompts and model clients,
  file formats, command lines, hosts, importers, connectors, benchmarks. Where
  they matter to a protocol they appear as its environment: an observed turn, a
  verdict, a failure, a kill. They are also most of the repository's lines, which
  is why the modelled share of it is small; the modelled components are covered
  nearly completely.
