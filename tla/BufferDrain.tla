----------------------------- MODULE BufferDrain -----------------------------
(***************************************************************************)
(* The durable hand-over of one session's buffered turns between the live   *)
(* buffer owner (SmartBuffer over BufferSessionFiles, the daemon) and the   *)
(* drain runs (BufferDrainRunner over BufferDrainClaims: CLI workers and    *)
(* the daemon's backlog scheduler).                                         *)
(*                                                                         *)
(* Files, locks and leases are all per session key, so one key is the whole *)
(* protocol.  A turn is its identity (bufferTurnsEqual); the buffers        *)
(* dedupe by identity, so an entry is a pair of sets.  Every step below is  *)
(* the code between two awaits that another process can tell apart.         *)
(***************************************************************************)
CONSTANTS Turns,        \* identities of the turns observed for the session
          Drainers,     \* drain runs; a restarted one has a new owner id
          JudgeEnabled, \* extractionJudgeEnabled: verdicts may defer facts
          Dead,         \* owner id of a process that no longer runs
          None          \* no file, no entry, no holder

ASSUME ConstantsAssumption ==
  /\ JudgeEnabled \in BOOLEAN
  /\ Dead \notin Drainers
  /\ None \notin Drainers
  /\ None # Dead
  /\ None \notin [turns : SUBSET Turns, retained : SUBSET Turns]
  /\ None \notin [turns : SUBSET Turns, retained : SUBSET Turns,
                  drained : SUBSET Turns, drainedRetained : SUBSET Turns]

VARIABLES
  session,    \* s-<key>.json of the live buffer
  claim,      \* drain/s-<key>.json
  lease,      \* owner id in drain/s-<key>.lease.json
  lock,       \* holder of drain/s-<key>.lock
  mem,        \* the owner's in-memory entry
  dirty,      \* the key awaits a save (persistence.dirty)
  opc,        \* where the owner's running mutation is
  tomb,       \* turns the owner's save read from a tombstone
  xpc,        \* where the owner's extraction task is
  xwin,       \* the turns of that task
  xtodo,      \* those of them not attempted yet
  xchunk,     \* the chunk extracted last
  pc,         \* where each drain run is
  seen,       \* the claim entry each run loaded
  local,      \* each run's claim buffer: what it has left
  todo,       \* turns of the run not attempted yet
  window,     \* turns of the scope group extracted so far
  held,       \* the claim body read under the lock by a progress write
  beat,       \* a heartbeat that read its lease and has not written it
  durable,    \* history: turns some save made durable
  settled,    \* history: turns whose extraction output (or, for a chunk the
              \* live drain gives up on, whose recovery copy) is durable
  dropped     \* history: turns handed over to a claim that had vanished

disk == <<session, claim, lease, lock>>
task == <<xpc, xwin, xtodo, xchunk>>
owner == <<mem, dirty, opc, tomb, xpc, xwin, xtodo, xchunk>>
drain == <<pc, seen, local, todo, window, held, beat>>
history == <<durable, settled, dropped>>
vars == <<session, claim, lease, lock, mem, dirty, opc, tomb,
          xpc, xwin, xtodo, xchunk,
          pc, seen, local, todo, window, held, beat,
          durable, settled, dropped>>

Entry == [turns : SUBSET Turns, retained : SUBSET Turns]
DrainClaimFile == [turns : SUBSET Turns, retained : SUBSET Turns,
                   drained : SUBSET Turns, drainedRetained : SUBSET Turns]

emptyEntry == [turns |-> {}, retained |-> {}]

\* pendingTurnCount's content: canonical and retained copies of an entry.
Pending(e) == IF e = None THEN {} ELSE e.turns \cup e.retained
\* Both tombstone lists of a claim.
Gone(c) == IF c = None THEN {} ELSE c.drained \cup c.drainedRetained

WithTurns(e, ts) == [turns |-> ts, retained |-> e.retained]
WithRetained(e, ts) == [turns |-> e.turns, retained |-> ts]
Subtract(e, ts) == [turns |-> e.turns \ ts, retained |-> e.retained \ ts]
entryFor(e) == IF e = None THEN emptyEntry ELSE e
HasLease(d) == lease = d

\* Mutant: rewrites the claim without its tombstone lists.
mergeEntriesForgetsTombstones(c, incoming) ==
  [turns |-> c.turns \cup incoming.turns,
   retained |-> c.retained \cup incoming.retained]

mergeEntries(c, incoming) ==
  LET gone == c.drained \cup c.drainedRetained
  IN  [turns |-> (c.turns \cup incoming.turns) \ gone,
       retained |-> (c.retained \cup incoming.retained) \ gone,
       drained |-> c.drained,
       drainedRetained |-> c.drainedRetained]

\* What an extracted chunk may leave to be looked at again: all of it when the
\* judge deferred a fact, else nothing.
Deferrable(chunk) == IF JudgeEnabled THEN {{}, chunk} ELSE {{}}

\* A snapshot without retained copies has no retainedTurns field, and then the
\* claim's own list stands in for it.
SeenRetained(c, snapshot) ==
  IF snapshot.retained = {} THEN c.retained ELSE snapshot.retained

\* Mutants: turns merged in after the run loaded are not carried over; they
\* are, but count as extracted.
ProgressBodyDropsLate(c, entry, snapshot) ==
  LET kept == entry.turns \cup entry.retained
      drained == c.drained \cup ((c.turns \cap snapshot.turns) \ kept)
  IN  [turns |-> entry.turns,
       retained |-> entry.retained,
       drained |-> drained,
       drainedRetained |-> c.drainedRetained
          \cup (((c.retained \cap SeenRetained(c, snapshot)) \ kept) \ drained)]

ProgressBodyTombstonesLate(c, entry, snapshot) ==
  LET kept == entry.turns \cup entry.retained
      drained == c.drained \cup (c.turns \ kept)
  IN  [turns |-> entry.turns \cup ((c.turns \ snapshot.turns) \ kept),
       retained |-> entry.retained,
       drained |-> drained,
       drainedRetained |-> c.drainedRetained
                             \cup ((c.retained \ kept) \ drained)]

\* The body writeEntry computes from the claim it read, the run's entry and
\* the snapshot it loaded.
ProgressBody(c, entry, snapshot) ==
  LET kept == entry.turns \cup entry.retained
      drained == c.drained \cup ((c.turns \cap snapshot.turns) \ kept)
      late == (c.turns \ snapshot.turns) \ kept
      seenRetained == SeenRetained(c, snapshot)
      lateRetained == (c.retained \ seenRetained) \ kept
  IN  [turns |-> entry.turns \cup late,
       retained |-> entry.retained \cup lateRetained,
       drained |-> drained,
       drainedRetained |-> c.drainedRetained
          \cup (((c.retained \cap seenRetained) \ kept) \ drained)]

-----------------------------------------------------------------------------
(* The live owner.  enqueueMutation serializes its buffer mutations: one    *)
(* starts only at opc = "idle" and its save runs to the end.               *)

Init ==
  /\ session = None /\ claim = None /\ lease = None /\ lock = None
  /\ mem = None /\ dirty = FALSE /\ opc = "idle" /\ tomb = {}
  /\ xpc = "none" /\ xwin = {} /\ xtodo = {} /\ xchunk = {}
  /\ pc = [d \in Drainers |-> "idle"]
  /\ seen = [d \in Drainers |-> emptyEntry]
  /\ local = [d \in Drainers |-> emptyEntry]
  /\ todo = [d \in Drainers |-> {}]
  /\ window = [d \in Drainers |-> {}]
  /\ held = None
  /\ beat = [d \in Drainers |-> FALSE]
  /\ durable = {} /\ settled = {} /\ dropped = {}

\* save: isClaimed, then isDrained's read of the claim body.
BeginSave ==
  opc' = IF claim = None THEN "write"
         ELSE IF Gone(claim) # {} /\ Pending(claim) = {} THEN "leaseRead"
         ELSE "merge"

\* Turns already observed: a new turn is a fresh identity.
Captured == durable \cup dropped \cup Pending(mem)

\* recordTurnUnlocked with decision keep_buffering: the save is debounced.
BufferTurn(t) ==
  /\ opc = "idle"
  /\ t \notin Captured
  /\ mem' = WithTurns(entryFor(mem), entryFor(mem).turns \cup {t})
  /\ dirty' = TRUE
  /\ UNCHANGED <<disk, opc, tomb, task, drain,
                 history>>

\* recordTurnUnlocked with an extract decision: the window is copied first,
\* the save runs in the same mutation, the task is queued after it.
BufferAndTrigger(t) ==
  /\ opc = "idle"
  /\ xpc = "none"
  /\ t \notin Captured
  /\ mem' = WithTurns(entryFor(mem), entryFor(mem).turns \cup {t})
  /\ dirty' = TRUE
  /\ BeginSave
  /\ xpc' = "saving"
  /\ xwin' = Pending(mem) \cup {t}
  /\ xtodo' = xwin'
  /\ UNCHANGED <<disk, tomb, xchunk, drain, history>>

\* flushPendingSave: the debounce timer, the staleness cap or shutdown.
FlushPendingSave ==
  /\ opc = "idle" /\ dirty
  /\ BeginSave
  /\ UNCHANGED <<disk, mem, dirty, tomb, task, drain, history>>

\* The extraction task, once the save of its own mutation is over.
AfterSave == IF xpc = "saving" THEN "queued"
             ELSE IF xpc \in {"clearing", "dropping"} THEN "running"
             ELSE xpc

TaskEnds == xpc' = "none" /\ xwin' = {} /\ xtodo' = {} /\ xchunk' = {}

\* The chunk loop goes on with the turns it has left, after the stage `next`.
NextChunk(left, next) ==
  IF left = {} THEN TaskEnds
  ELSE xpc' = next /\ xtodo' = left /\ xchunk' = {} /\ UNCHANGED xwin

\* save of an unclaimed session: the file is written without the claim lock.
SaveWrite ==
  /\ opc = "write"
  /\ session' = mem
  /\ durable' = durable \cup Pending(mem)
  /\ dirty' = FALSE
  /\ opc' = "idle"
  /\ xpc' = AfterSave
  /\ UNCHANGED <<claim, lease, lock, mem, tomb, xwin, xtodo, xchunk, drain,
                 settled, dropped>>

\* isDrained's read of the lease, then drainedTurns.
SaveLeaseRead ==
  /\ opc = "leaseRead"
  /\ IF lease = None /\ claim # None
       THEN opc' = "consume" /\ tomb' = claim.drained
       ELSE opc' = "merge" /\ UNCHANGED tomb
  /\ UNCHANGED <<disk, mem, dirty, task, drain, history>>

\* The drain finished: the fresh remainder goes back to the session file.
SaveConsume ==
  /\ opc = "consume"
  /\ session' = Subtract(mem, tomb)
  /\ durable' = durable \cup Pending(Subtract(mem, tomb))
  /\ opc' = "unlinkClaim"
  /\ UNCHANGED <<claim, lease, lock, mem, dirty, tomb, task, drain,
                 settled, dropped>>

\* release: first the claim file ...
ReleaseClaim ==
  /\ opc = "unlinkClaim"
  /\ claim' = None
  /\ opc' = "unlinkLease"
  /\ UNCHANGED <<session, lease, lock, mem, dirty, tomb, task, drain,
                 history>>

\* ... then the lease file; saveUnlocked then subtracts the tombstone.
ReleaseLease ==
  /\ opc = "unlinkLease"
  /\ lease' = None
  /\ mem' = Subtract(mem, tomb)
  /\ dirty' = FALSE
  /\ opc' = "idle"
  /\ tomb' = {}
  /\ xpc' = AfterSave
  /\ UNCHANGED <<session, claim, lock, xwin, xtodo, xchunk, drain, history>>

\* Mutant: the hand-over does not take the claim lock.
SaveMergeUnlocked ==
  /\ opc = "merge"
  /\ claim # None
  /\ claim' = mergeEntries(claim, mem)
  /\ durable' = durable \cup Pending(mem)
  /\ mem' = None
  /\ dirty' = FALSE
  /\ opc' = "idle"
  /\ xpc' = AfterSave
  /\ UNCHANGED <<session, lease, lock, tomb, xwin, xtodo, xchunk, drain,
                 settled, dropped>>

\* mergeIntoClaim under the lock; "handed_over" evicts the memory entry.
\* A claim that vanished in between is reported as handed over as well.
SaveMerge ==
  /\ opc = "merge"
  /\ lock = None
  /\ IF claim # None
       THEN /\ claim' = mergeEntries(claim, mem)
            /\ durable' = durable \cup Pending(mem)
            /\ UNCHANGED dropped
       ELSE /\ dropped' = dropped \cup Pending(mem)
            /\ UNCHANGED <<claim, durable>>
  /\ mem' = None
  /\ dirty' = FALSE
  /\ opc' = "idle"
  /\ xpc' = AfterSave
  /\ UNCHANGED <<session, lease, lock, tomb, xwin, xtodo, xchunk, drain,
                 settled>>

\* The write failed or the lock was not acquired in time: the save stays
\* pending.  A trigger does not queue its extraction and a drop ends the task;
\* the clear after an extraction is best effort.
SaveFails ==
  /\ opc \in {"write", "consume", "merge"}
  /\ opc' = "idle"
  /\ tomb' = {}
  /\ IF xpc \in {"saving", "dropping"}
       THEN TaskEnds
       ELSE xpc' = AfterSave /\ UNCHANGED <<xwin, xtodo, xchunk>>
  /\ UNCHANGED <<disk, mem, dirty, drain, history>>

\* skipClaimedSession, at the start of the queued task.
ExtractGated ==
  /\ xpc = "queued" /\ claim # None
  /\ TaskEnds
  /\ UNCHANGED <<disk, mem, dirty, opc, tomb, drain, history>>

ExtractStart ==
  /\ xpc = "queued" /\ claim = None
  /\ xpc' = "running"
  /\ UNCHANGED <<disk, mem, dirty, opc, tomb, xwin, xtodo, xchunk, drain,
                 history>>

\* runExtraction of the next chunk reached a verdict: its output is durable.
ExtractDone ==
  /\ xpc = "running"
  /\ \E chunk \in SUBSET xtodo \ {{}} :
       /\ settled' = settled \cup chunk
       /\ xtodo' = xtodo \ chunk
       /\ xchunk' = chunk
  /\ xpc' = "extracted"
  /\ UNCHANGED <<disk, mem, dirty, opc, tomb, xwin, drain,
                 durable, dropped>>

\* A chunk failed, was deferred or was aborted: the rest of the window stays in
\* the buffer.
ExtractStops ==
  /\ xpc = "running"
  /\ TaskEnds
  /\ UNCHANGED <<disk, mem, dirty, opc, tomb, drain, history>>

\* What matching `turns` as a prefix of the live turns can remove: all of them,
\* unless the live turns changed meanwhile.
Matching(turns) ==
  IF turns \subseteq entryFor(mem).turns THEN {turns} ELSE SUBSET turns

\* The chunk leaves the retained copies and, where it still matches, the turns.
dropExtractionChunk(chunk) ==
  \E gone \in Matching(chunk) :
    mem' = [turns |-> entryFor(mem).turns \ gone,
            retained |-> entryFor(mem).retained \ chunk]

\* dropFailedChunk: the side-file copy first, then dropExtractionChunk.  A drop
\* that removes nothing ends the task.
DropFailedChunk ==
  /\ xpc = "running" /\ opc = "idle"
  /\ \E chunk \in SUBSET xtodo \ {{}} :
       /\ settled' = settled \cup chunk
       /\ dropExtractionChunk(chunk)
       /\ IF mem' # entryFor(mem)
            THEN /\ dirty' = TRUE /\ BeginSave
                 /\ NextChunk(xtodo \ chunk, "dropping")
            ELSE TaskEnds /\ UNCHANGED <<dirty, opc>>
  /\ UNCHANGED <<disk, tomb, drain, durable, dropped>>

\* retainDeferredTurns: the chunk replaces the retained copies of the part of
\* the window attempted so far.
RetainDeferredTurns ==
  /\ xpc = "extracted" /\ opc = "idle"
  /\ \E deferred \in Deferrable(xchunk) :
       mem' = WithRetained(entryFor(mem),
                (entryFor(mem).retained \ (xwin \ xtodo)) \cup deferred)
  /\ dirty' = TRUE
  /\ BeginSave
  /\ xpc' = "retained"
  /\ UNCHANGED <<disk, tomb, xwin, xtodo, xchunk, drain, history>>

\* clearAfterExtraction: the chunk leaves the live turns.
ClearAfterExtraction ==
  /\ xpc \in {"extracted", "retained"} /\ opc = "idle"
  /\ \E cleared \in Matching(xchunk) :
       mem' = WithTurns(entryFor(mem), entryFor(mem).turns \ cleared)
  /\ dirty' = (dirty \/ mem' # entryFor(mem))
  /\ IF dirty' THEN BeginSave /\ NextChunk(xtodo, "clearing")
               ELSE opc' = "idle" /\ NextChunk(xtodo, "running")
  /\ UNCHANGED <<disk, tomb, drain, history>>

\* A kill loses the memory; one that waited for the claim lock may have just
\* taken it.
OwnerCrash ==
  /\ opc # "down"
  /\ mem' = None /\ dirty' = FALSE /\ opc' = "down" /\ tomb' = {}
  /\ TaskEnds
  /\ \/ UNCHANGED lock
     \/ opc = "merge" /\ lock = None /\ lock' = Dead
  /\ UNCHANGED <<session, claim, lease, drain, history>>

\* loadBuffer reads the session files; a claimed session is not loaded.
OwnerRestart ==
  /\ opc = "down"
  /\ mem' = session
  /\ opc' = "idle"
  /\ UNCHANGED <<disk, dirty, tomb, task, drain, history>>

OwnerNext ==
  \/ \E t \in Turns : BufferTurn(t) \/ BufferAndTrigger(t)
  \/ FlushPendingSave \/ SaveWrite \/ SaveLeaseRead
  \/ SaveConsume \/ ReleaseClaim \/ ReleaseLease \/ SaveMerge \/ SaveFails
  \/ ExtractGated \/ ExtractStart \/ ExtractDone \/ ExtractStops
  \/ DropFailedChunk \/ RetainDeferredTurns \/ ClearAfterExtraction
  \/ OwnerCrash \/ OwnerRestart

-----------------------------------------------------------------------------
(* A drain run d.                                                          *)

Goto(d, l) == pc' = [pc EXCEPT ![d] = l]

\* The run's snapshot and claim buffer go out of use.
Discard(d) ==
  /\ seen' = [seen EXCEPT ![d] = emptyEntry]
  /\ local' = [local EXCEPT ![d] = emptyEntry]
  /\ todo' = [todo EXCEPT ![d] = {}]
  /\ window' = [window EXCEPT ![d] = {}]

\* Mutant: the scan lists session files only, not orphan claims.
StartSessionsOnly(d) ==
  /\ pc[d] = "idle"
  /\ Pending(session) # {} /\ Goto(d, "claim")
  /\ UNCHANGED <<disk, owner, seen, local, todo, window, held, beat,
                 history>>

\* The scan and, for a session file, the advisory pre-read: only pending turns
\* make a candidate.
Start(d) ==
  /\ pc[d] = "idle"
  /\ \/ Pending(session) # {} /\ Goto(d, "claim")
     \/ Pending(claim) # {} /\ Goto(d, "load")
  /\ UNCHANGED <<disk, owner, seen, local, todo, window, held, beat,
                 history>>

\* Mutant: no isClaimed check under the lock; the rename replaces a claim.
ClaimRenameReplaces(d) ==
  /\ pc[d] = "claim"
  /\ lock = None /\ session # None
  /\ claim' = [turns |-> session.turns, retained |-> session.retained,
               drained |-> {}, drainedRetained |-> {}]
  /\ session' = None
  /\ lock' = d
  /\ Goto(d, "readback")
  /\ UNCHANGED <<lease, owner, seen, local, todo, window, held, beat,
                 history>>

\* claimFromSessionFile: under the lock, the rename is the hand-over.
ClaimRename(d) ==
  /\ pc[d] = "claim"
  /\ lock = None /\ claim = None /\ session # None
  /\ claim' = [turns |-> session.turns, retained |-> session.retained,
               drained |-> {}, drainedRetained |-> {}]
  /\ session' = None
  /\ lock' = d
  /\ Goto(d, "readback")
  /\ UNCHANGED <<lease, owner, seen, local, todo, window, held, beat,
                 history>>

\* claimFromSessionFile: "empty" or "already_claimed".
ClaimSkipped(d) ==
  /\ pc[d] = "claim"
  /\ lock # None \/ claim # None \/ Pending(session) = {}
  /\ Goto(d, "load")
  /\ UNCHANGED <<disk, owner, seen, local, todo, window, held, beat,
                 history>>

\* The moved file holds nothing: it is unlinked again.
ClaimEmpty(d) ==
  /\ pc[d] = "readback"
  /\ Pending(claim) = {}
  /\ claim' = None
  /\ lock' = None
  /\ Goto(d, "load")
  /\ UNCHANGED <<session, lease, owner, seen, local, todo, window, held,
                 beat, history>>

ClaimTaken(d) ==
  /\ pc[d] = "readback"
  /\ Pending(claim) # {}
  /\ lease' = d
  /\ lock' = None
  /\ Goto(d, "load")
  /\ UNCHANGED <<session, claim, owner, seen, local, todo, window, held,
                 beat, history>>

\* drainSession: loadClaimedSession, before the lease is taken.
LoadClaim(d) ==
  /\ pc[d] = "load"
  /\ IF claim = None
       THEN Goto(d, "idle") /\ UNCHANGED seen
       ELSE /\ Goto(d, "adopt")
            /\ seen' = [seen EXCEPT ![d] = [turns |-> claim.turns,
                                            retained |-> claim.retained]]
  /\ UNCHANGED <<disk, owner, local, todo, window, held, beat,
                 history>>

\* adopt, then the claim buffer is built from the snapshot loaded before.  A
\* lease of another run can always have expired by now: a heartbeat comes any
\* time after the previous one, and expiry is a matter of the clock alone.
Adopt(d) ==
  /\ pc[d] = "adopt"
  /\ lock = None
  /\ lease' = d
  /\ IF Pending(seen[d]) = {}
       THEN Goto(d, "settle") /\ Discard(d)
       ELSE /\ Goto(d, "drain")
            /\ local' = [local EXCEPT ![d] = seen[d]]
            /\ todo' = [todo EXCEPT ![d] = Pending(seen[d])]
            /\ UNCHANGED <<seen, window>>
  /\ UNCHANGED <<session, claim, lock, owner, held, beat,
                 history>>

\* adopt: "busy" (no lock in time, no claim, or an unexpired lease of an owner
\* not known to be dead; a dead owner on another host counts as alive).
AdoptBusy(d) ==
  /\ pc[d] = "adopt"
  /\ lock # None \/ claim = None \/ lease \notin {None, d}
  /\ Goto(d, "idle")
  /\ seen' = [seen EXCEPT ![d] = emptyEntry]
  /\ UNCHANGED <<disk, owner, local, todo, window, held, beat,
                 history>>

\* runExtraction persisted a chunk; retainDeferredTurns then replaces the
\* retained copies of the group's window (its save is the next step).
ExtractChunk(d) ==
  /\ pc[d] = "drain"
  /\ \E chunk \in SUBSET todo[d] \ {{}}, earlier \in {{}, window[d]} :
       /\ settled' = settled \cup chunk
       /\ todo' = [todo EXCEPT ![d] = @ \ chunk]
       /\ window' = [window EXCEPT ![d] = chunk \cup earlier]
       /\ \E deferred \in Deferrable(chunk) :
            local' = [local EXCEPT ![d] = WithRetained(@,
                        (@.retained \ (chunk \cup earlier)) \cup deferred)]
  /\ Goto(d, "retain")
  /\ UNCHANGED <<disk, owner, seen, held, beat,
                 durable, dropped>>

\* A scope group that current policy denies stays in the claim.
SkipDenied(d) ==
  /\ pc[d] = "drain"
  /\ \E group \in SUBSET todo[d] \ {{}} :
       todo' = [todo EXCEPT ![d] = @ \ group]
  /\ UNCHANGED <<disk, owner, pc, seen, local, window, held, beat,
                 history>>

\* Mutant: a progress write that does not check the lease.
WriteBeginUnfenced(d) ==
  /\ pc[d] \in {"retain", "clear"}
  /\ lock = None /\ claim # None
  /\ lock' = d
  /\ held' = claim
  /\ Goto(d, IF pc[d] = "retain" THEN "retainWrite" ELSE "clearWrite")
  /\ UNCHANGED <<session, claim, lease, owner, seen, local, todo, window,
                 beat, history>>

\* writeEntry: lock, lease fence and claim read ...
WriteBegin(d) ==
  /\ pc[d] \in {"retain", "clear"}
  /\ lock = None /\ HasLease(d) /\ claim # None
  /\ lock' = d
  /\ held' = claim
  /\ Goto(d, IF pc[d] = "retain" THEN "retainWrite" ELSE "clearWrite")
  /\ UNCHANGED <<session, claim, lease, owner, seen, local, todo, window,
                 beat, history>>

\* After the retention save comes clearAfterExtraction, then the next chunk or,
\* when none is left, the verdict.
AfterWrite(d, stage) ==
  IF stage \in {"retain", "retainWrite"}
    THEN /\ Goto(d, "clear")
         /\ local' = [local EXCEPT ![d] = WithTurns(@, @.turns \ window[d])]
         /\ UNCHANGED <<seen, todo, window>>
  ELSE IF todo[d] # {}
    THEN Goto(d, "drain") /\ UNCHANGED <<seen, local, todo, window>>
  ELSE Goto(d, "settle") /\ Discard(d)

\* ... then the claim is rewritten.
WriteCommit(d) ==
  /\ pc[d] \in {"retainWrite", "clearWrite"}
  /\ claim' = ProgressBody(held, local[d], seen[d])
  /\ lock' = None
  /\ held' = None
  /\ AfterWrite(d, pc[d])
  /\ UNCHANGED <<session, lease, owner, beat, history>>

\* A refused or failed progress write is non-fatal (best effort).
WriteSkipped(d) ==
  /\ pc[d] \in {"retain", "clear"}
  /\ AfterWrite(d, pc[d])
  /\ UNCHANGED <<disk, owner, held, beat, history>>

\* A chunk failed, the remaining groups were denied, or the run was aborted.
DrainStops(d) ==
  /\ pc[d] = "drain"
  /\ Goto(d, "settle")
  /\ Discard(d)
  /\ UNCHANGED <<disk, owner, held, beat, history>>

\* ack or releaseLease: the lease is read ...
Settle(d) ==
  /\ pc[d] = "settle"
  /\ Goto(d, IF HasLease(d) THEN "unlink" ELSE "idle")
  /\ UNCHANGED <<disk, owner, seen, local, todo, window, held, beat,
                 history>>

\* ... then unlinked, whoever owns it by now; the claim file stays.
UnlinkLease(d) ==
  /\ pc[d] = "unlink"
  /\ lease' = None
  /\ Goto(d, "idle")
  /\ UNCHANGED <<session, claim, lock, owner, seen, local, todo, window, held,
                 beat, history>>

\* heartbeat: lock and lease read ...
HeartbeatBegin(d) ==
  /\ pc[d] \in {"drain", "retain", "clear", "settle", "unlink"}
  /\ lock = None /\ HasLease(d)
  /\ lock' = d
  /\ beat' = [beat EXCEPT ![d] = TRUE]
  /\ UNCHANGED <<session, claim, lease, owner, pc, seen, local, todo, window,
                 held, history>>

\* ... then the lease is rewritten, even when the run released it meanwhile.
HeartbeatCommit(d) ==
  /\ beat[d]
  /\ lease' = d
  /\ lock' = None
  /\ beat' = [beat EXCEPT ![d] = FALSE]
  /\ UNCHANGED <<session, claim, owner, pc, seen, local, todo, window, held,
                 history>>

\* A kill leaves the lock and lease files behind under a dead owner id.
DrainerCrash(d) ==
  /\ pc[d] # "idle"
  /\ Goto(d, "idle")
  /\ Discard(d)
  /\ beat' = [beat EXCEPT ![d] = FALSE]
  /\ held' = IF lock = d THEN None ELSE held
  /\ lock' = IF lock = d THEN Dead ELSE lock
  /\ lease' = IF HasLease(d) THEN Dead ELSE lease
  /\ UNCHANGED <<session, claim, owner, history>>

DrainerNext(d) ==
  \/ Start(d) \/ ClaimRename(d) \/ ClaimSkipped(d) \/ ClaimEmpty(d)
  \/ ClaimTaken(d) \/ LoadClaim(d) \/ Adopt(d) \/ AdoptBusy(d)
  \/ ExtractChunk(d) \/ SkipDenied(d) \/ WriteBegin(d) \/ WriteCommit(d)
  \/ WriteSkipped(d) \/ DrainStops(d) \/ Settle(d) \/ UnlinkLease(d)
  \/ HeartbeatBegin(d) \/ HeartbeatCommit(d) \/ DrainerCrash(d)

\* withHeldFileLock: a lock nobody refreshes is broken after staleMs.
BreakStaleLock ==
  /\ lock = Dead
  /\ lock' = None
  /\ UNCHANGED <<session, claim, lease, owner, drain, history>>

Next ==
  \/ OwnerNext
  \/ \E d \in Drainers : DrainerNext(d)
  \/ BreakStaleLock

Spec == Init /\ [][Next]_vars

\* What a run does of itself: everything but being killed and the heartbeat
\* timer.
RunStep(d) ==
  \/ Start(d) \/ ClaimRename(d) \/ ClaimSkipped(d) \/ ClaimEmpty(d)
  \/ ClaimTaken(d) \/ LoadClaim(d) \/ Adopt(d) \/ AdoptBusy(d)
  \/ ExtractChunk(d) \/ SkipDenied(d) \/ WriteBegin(d) \/ WriteCommit(d)
  \/ WriteSkipped(d) \/ DrainStops(d) \/ Settle(d) \/ UnlinkLease(d)

\* The scheduler keeps starting runs and a started run proceeds; a lease ends
\* and a lock goes stale by the clock; a turn that keeps being attempted is
\* extracted in the end (provider and policy do not refuse it for ever).  A run
\* is killed finitely often; the owner may be killed again and again, but not
\* for ever while it holds the claim lock.
Fairness ==
  /\ <>[][\A d \in Drainers : ~DrainerCrash(d)]_vars
  /\ <>[][OwnerCrash => UNCHANGED lock]_vars
  /\ WF_vars(BreakStaleLock)
  /\ \A d \in Drainers :
       /\ WF_vars(RunStep(d))
       /\ WF_vars(HeartbeatCommit(d))
       /\ SF_vars(Adopt(d))
       /\ \A t \in Turns : SF_vars(ExtractChunk(d) /\ t \in todo[d] \ todo'[d])

FairSpec == Spec /\ Fairness

-----------------------------------------------------------------------------
\* The stages of a drain run.
Stages == {"idle", "claim", "readback", "load", "adopt", "drain", "retain",
           "retainWrite", "clear", "clearWrite", "settle", "unlink"}

\* Every file, memory entry and stage has a value the code gives it; a claim
\* that was merged into or rewritten by progress still has all four lists.
TypeOK ==
  /\ session \in Entry \cup {None}
  /\ claim \in DrainClaimFile \cup {None}
  /\ lease \in Drainers \cup {Dead, None}
  /\ lock \in Drainers \cup {Dead, None}
  /\ mem \in Entry \cup {None}
  /\ dirty \in BOOLEAN
  /\ opc \in {"idle", "write", "leaseRead", "consume", "unlinkClaim",
              "unlinkLease", "merge", "down"}
  /\ tomb \in SUBSET Turns
  /\ xpc \in {"none", "saving", "queued", "running", "dropping", "extracted",
              "retained", "clearing"}
  /\ xwin \in SUBSET Turns /\ xtodo \in SUBSET Turns /\ xchunk \in SUBSET Turns
  /\ pc \in [Drainers -> Stages]
  /\ seen \in [Drainers -> Entry]
  /\ local \in [Drainers -> Entry]
  /\ todo \in [Drainers -> SUBSET Turns]
  /\ window \in [Drainers -> SUBSET Turns]
  /\ held \in DrainClaimFile \cup {None}
  /\ beat \in [Drainers -> BOOLEAN]
  /\ durable \in SUBSET Turns
  /\ settled \in SUBSET Turns
  /\ dropped \in SUBSET Turns

\* A turn some save made durable is, at every later moment, still in a file
\* the system will read again, or its extraction reached a durable verdict.
\* Turns handed over to a claim that had vanished are the one exception (see
\* HandoverIsDurable).  Memory does not count: a kill takes it.
DurableNeverLost ==
  durable \subseteq Pending(session) \cup Pending(claim)
                      \cup settled \cup dropped

\* Whatever writeEntry moved to a tombstone list was extracted: turns the live
\* owner merged into the claim behind the drain's back never get there.
DrainedWasExtracted == Gone(claim) \subseteq settled

\* writeEntry's fence: while a run rewrites the claim no other run holds the
\* lease, however the adoptions, expiries, releases and kills interleave.
ProgressIsFenced ==
  \A d \in Drainers :
    pc[d] \in {"retainWrite", "clearWrite"} => lease \in {d, None}

\* Between writeEntry's read of the claim and its write nobody else rewrites
\* the claim, so a hand-over by mergeIntoClaim cannot be overwritten.
ProgressBaseIsCurrent == held # None => claim \in {held, None}

\* The files implement DurableCustody: what the session file and the claim
\* hold unsettled leaves them only by being settled.
Custody == INSTANCE DurableCustody
  WITH custody <- (Pending(session) \cup Pending(claim) \cup dropped) \ settled,
       done <- settled
ImplementsCustody == Custody!Spec

\* Turns in a claim are extracted in the end, also when the run that claimed
\* them was killed between any two steps and left its lock and lease behind:
\* scan lists orphan claims, and later runs take lock and lease over.
ClaimedTurnsAreDrained ==
  \A t \in Turns : t \in Pending(claim) ~> t \in settled

-----------------------------------------------------------------------------
(* What the comments of the code claim and the code does not keep.          *)

\* "a kill at any point loses nothing"; "without a live buffer owner
\* resurrecting or losing the turns": a handed-over turn is on disk.
HandoverIsDurable ==
  dropped \subseteq Pending(session) \cup Pending(claim) \cup settled

\* "a turn in either one left the claim for good": no pending turn of a claim
\* is also in one of its tombstone lists.
PendingNotDrained == Pending(claim) \cap Gone(claim) = {}

\* "drained turns can never be resurrected. [...] Same tombstone for turns the
\* drain extracted from retainedTurns": when the owner consumes a tombstone
\* its session file holds none of the tombstone's turns.
NeverResurrected ==
  [][opc = "unlinkClaim" /\ claim' # claim
       => Pending(session) \cap Gone(claim) = {}]_vars

\* "so a stale owner never extracts (or persists) them a second time": the
\* task queued by a save that consumed a tombstone holds none of its turns.
NeverReextracted ==
  [][opc = "unlinkLease" /\ xpc' # xpc => xwin' \cap tomb = {}]_vars

\* writeEntry: "Turns a live owner merged into the claim afterwards stay
\* pending."  A progress write keeps, as pending, every copy that was not in
\* the snapshot its run loaded.
LateMergeStaysPending ==
  [][\A d \in Drainers :
       pc[d] \in {"retainWrite", "clearWrite"} /\ pc'[d] \in {"clear", "drain", "settle"}
         => Pending(held) \ Pending(seen[d]) \subseteq Pending(claim')]_vars

=============================================================================
