-------------------------- MODULE BacklogScheduler --------------------------
(***************************************************************************)
(* The daemon's backlog scheduler (BacklogScheduler) on the extraction      *)
(* queue it shares with live extraction: each poll discovers claims and     *)
(* buffered sessions, fences a claim decision with a key reservation,       *)
(* drains the claimed key through the queue, and backs off what remains.    *)
(*                                                                         *)
(* Time is counted in polls.  A claim is a claim file with a number of      *)
(* turns, none in an acknowledged tombstone.  What a drain does to a claim  *)
(* (module BufferDrain) is reduced here to the turns it leaves.             *)
(***************************************************************************)
EXTENDS ExtractionQueue

CONSTANTS DrainTask,   \* the queue task of each key's claim drain
          Rank,        \* the place of each key's claim file in a listing
          PageLimit,   \* claims discovered per poll
          ScanFactor,  \* claim files read per claim of a page
          Capturing,    \* keys whose session is live; of the others only claims are left
          MaxTurns,    \* bound: turns of one key
          RetryBase, RetryMax,   \* retryBaseMs and retryMaxMs, in polls
          Disturbances \* of the environment: "stop", "breaker", "queue", "io", "denial"

ASSUME BacklogAssumption ==
  /\ Reservers = Keys
  /\ DrainTask \in [Keys -> Tasks]
  /\ \A k \in Keys : KeyOf[DrainTask[k]] = k /\ DrainTask[k] \in Recurring \ Front
  /\ Rank \in [Keys -> Nat \ {0}]
  /\ \A j, k \in Keys : Rank[j] = Rank[k] => j = k
  /\ Capturing \subseteq Keys
  /\ {PageLimit, MaxTurns, RetryBase, RetryMax} \subseteq Nat
  /\ PageLimit > Concurrency
  /\ ScanFactor \in Nat \ {0}
  /\ IsFiniteSet(Keys)

VARIABLES
  live,        \* turns of each key in its session file
  claimed,     \* keys with a claim file (isClaimed)
  held,        \* turns in each key's claim
  extracting,  \* running live tasks that passed the claim gate
  stopped, tick, cursor, before,   \* before: the cursor when the tick began
  page,        \* candidates that are claims, in listing order
  fresh,       \* candidates that need a claim
  sub,         \* of each key: none, claiming, claimed, draining or queued
  aborting,    \* submissions whose controller was aborted
  open,        \* the provider breaker is open and inside its window
  state, wait, remaining, delay   \* of each key: its KeyState; delay: the backoff of its exponent

claimVars == <<live, claimed, held>>
tickVars == <<tick, cursor, before, page, fresh>>
keyVars == <<state, wait, remaining, delay>>
schedVars == <<claimVars, extracting, stopped, tickVars, sub, aborting, open, keyVars>>
vars == <<queueVars, schedVars>>

DrainTasks == {DrainTask[k] : k \in Keys}
Live == Tasks \ DrainTasks

Smaller(a, b) == IF a < b THEN a ELSE b
\* The backoff of exponent zero.
Base == Smaller(RetryBase, RetryMax)

\* A daemon starts on the session files and claims it finds.
Init ==
  /\ QueueInit
  /\ claimed \in SUBSET Keys
  /\ held \in [Keys -> 0 .. MaxTurns]
  /\ live \in [Keys -> 0 .. MaxTurns]
  /\ \A k \in Keys :
       /\ live[k] + held[k] <= MaxTurns
       /\ held[k] > 0 => k \in claimed
       /\ live[k] > 0 => k \in Capturing
  /\ extracting = {}
  /\ stopped = TRUE /\ tick = "idle" /\ cursor = 0 /\ before = 0
  /\ page = <<>> /\ fresh = {}
  /\ sub = [k \in Keys |-> "none"]
  /\ aborting = {}
  /\ open = FALSE
  /\ state = [k \in Keys |-> "none"]
  /\ wait = [k \in Keys |-> 0]
  /\ remaining = [k \in Keys |-> 0]
  /\ delay = [k \in Keys |-> Base]

\* No synchronous stretch of the thread is under way.
Calm == Quiet /\ tick # "submit"

InFlightKeys == {k \in Keys : sub[k] # "none"}
Full == Cardinality(InFlightKeys) >= Concurrency

-----------------------------------------------------------------------------
(* The live side                                                           *)

\* Mutant: the task extracts the snapshot it was queued with.
PassesGateUnchecked(t) == t \in Live

\* skipClaimedSession when the task starts; a drain's own task bypasses it.
PassesGate(t) == t \in Live /\ KeyOf[t] \notin claimed

\* A captured turn is saved: into the claim if one has turns, else into the
\* session file, consuming an acknowledged tombstone.
ingress(k) ==
  /\ Calm /\ k \in Capturing /\ live[k] + held[k] < MaxTurns
  /\ IF k \in claimed /\ held[k] > 0
       THEN held' = [held EXCEPT ![k] = @ + 1] /\ UNCHANGED <<live, claimed>>
       ELSE /\ live' = [live EXCEPT ![k] = @ + 1]
            /\ claimed' = claimed \ {k}
            /\ UNCHANGED held
  /\ UNCHANGED <<queueVars, extracting, stopped, tickVars, sub, aborting, open, keyVars>>

\* queueBufferedExtraction of the live buffer; a claimed key is skipped.
liveEnqueue(t) ==
  /\ Calm /\ t \in Live
  /\ KeyOf[t] \notin claimed /\ live[KeyOf[t]] > 0
  /\ enqueue(t) \/ enqueueRejected(t)
  /\ UNCHANGED schedVars

startTask(t) ==
  /\ take(t)
  /\ extracting' = IF PassesGate(t) THEN extracting \cup {t} ELSE extracting
  /\ UNCHANGED <<claimVars, stopped, tickVars, sub, aborting, open, keyVars>>

\* A live task ends, with its turns extracted and cleared or not.
endTask(t) ==
  /\ Calm
  /\ settle(t)
  /\ extracting' = extracting \ {t}
  /\ \/ UNCHANGED live
     \/ t \in extracting /\ \E left \in 0 .. live[KeyOf[t]] : live' = [live EXCEPT ![KeyOf[t]] = left]
  /\ UNCHANGED <<claimed, held, stopped, tickVars, sub, aborting, open, keyVars>>

\* The other steps of the queue do not concern the scheduler.
parkLoop == park /\ UNCHANGED schedVars
resumeLoop == Calm /\ resume /\ UNCHANGED schedVars
forgetTask(t) == Calm /\ forget(t) /\ UNCHANGED schedVars
disarmTask(t) == Calm /\ disarm(t) /\ UNCHANGED schedVars
producers == Calm /\ "queue" \in Disturbances /\ (stopAccepting \/ resumeAccepting) /\ UNCHANGED schedVars

-----------------------------------------------------------------------------
(* Discovery                                                               *)

beginTick == IF tick = "idle" /\ ~open
               THEN tick' = "list" /\ before' = cursor
               ELSE UNCHANGED <<tick, before>>

start ==
  /\ Calm /\ stopped
  /\ stopped' = FALSE
  /\ beginTick
  /\ UNCHANGED <<queueVars, claimVars, extracting, cursor, page, fresh, sub, aborting, open, keyVars>>

\* In-flight drains are aborted, and stop waits until they have settled.
stop ==
  /\ Calm /\ ~stopped /\ "stop" \in Disturbances
  /\ stopped' = TRUE
  /\ aborting' = aborting \cup InFlightKeys
  /\ UNCHANGED <<queueVars, claimVars, extracting, tickVars, sub, open, keyVars>>

\* A poll period passes; the timer is cleared while the scheduler is stopped.
poll ==
  /\ Calm
  /\ wait' = [k \in Keys |-> IF wait[k] > 0 THEN wait[k] - 1 ELSE 0]
  /\ IF stopped THEN UNCHANGED <<tick, before>> ELSE beginTick
  /\ UNCHANGED <<queueVars, claimVars, extracting, stopped, cursor, page, fresh, sub, aborting, open, state,
                 remaining, delay>>

\* The claim files after the cursor, those the scan budget reaches, and those of
\* them that have turns; these are listed up to the limit.
After(c) == {k \in claimed : Rank[k] > c}
Scanned(c) ==
  {k \in After(c) : Cardinality({j \in After(c) : Rank[j] < Rank[k]}) < ScanFactor * PageLimit}
Pending(c) == {k \in Scanned(c) : held[k] > 0}
Listed(c) == {k \in Pending(c) : Cardinality({j \in Pending(c) : Rank[j] < Rank[k]}) < PageLimit}

\* A full page ends the listing at its last entry, else the scan is consumed.
Consumed(c) == IF Cardinality(Listed(c)) = PageLimit
                 THEN {k \in Scanned(c) : \E j \in Listed(c) : Rank[k] <= Rank[j]}
                 ELSE Scanned(c)
\* Mutant: the cursor is the first entry of the next page, which is then skipped.
NextCursorSkips(c) ==
  LET rest == After(c) \ Consumed(c)
  IN  IF rest = {} THEN 0 ELSE CHOOSE r \in {Rank[k] : k \in rest} : \A k \in rest : r <= Rank[k]

NextCursor(c) == IF Consumed(c) = {} THEN 0
                   ELSE CHOOSE r \in {Rank[k] : k \in Consumed(c)} : \A k \in Consumed(c) : Rank[k] <= r

listPage ==
  /\ Calm /\ tick = "list"
  /\ tick' = "count"
  /\ page' \in [1 .. Cardinality(Listed(cursor)) -> Listed(cursor)]
  /\ \A i, j \in DOMAIN page' : i < j => Rank[page'[i]] < Rank[page'[j]]
  /\ cursor' = NextCursor(cursor)
  /\ UNCHANGED <<queueVars, claimVars, extracting, stopped, before, fresh, sub, aborting, open, keyVars>>

endTick(c) ==
  /\ tick' = "idle"
  /\ cursor' = c
  /\ page' = <<>> /\ fresh' = {}
  /\ UNCHANGED before

\* The listing, or the load of the live buffer, fails: the next poll retries.
discoveryFails ==
  /\ Calm /\ tick \in {"list", "count"} /\ "io" \in Disturbances
  /\ endTick(before)
  /\ UNCHANGED <<queueVars, claimVars, extracting, stopped, sub, aborting, open, keyVars>>

Fresh == {k \in Keys : live[k] > 0 /\ ~In(k, page) /\ k \notin claimed}

\* The live counts arrive; a stop or an open breaker ends the tick here.
discovered ==
  /\ Calm /\ tick = "count"
  /\ \/ ~stopped /\ ~open
        /\ tick' = "submit" /\ fresh' = Fresh
        /\ UNCHANGED <<cursor, before, page>>
     \/ stopped /\ endTick(cursor)
     \/ ~stopped /\ open /\ endTick(before)
  /\ UNCHANGED <<queueVars, claimVars, extracting, stopped, sub, aborting, open, keyVars>>

-----------------------------------------------------------------------------
(* Submission                                                              *)

Eligible(k) == sub[k] = "none" /\ (state[k] = "none" \/ wait[k] = 0)

submitClaim ==
  /\ Quiet /\ tick = "submit" /\ page # <<>> /\ ~Full
  /\ sub' = IF Eligible(Head(page)) THEN [sub EXCEPT ![Head(page)] = "claimed"] ELSE sub
  /\ page' = Tail(page)
  /\ UNCHANGED <<queueVars, claimVars, extracting, stopped, tick, cursor, before, fresh, aborting, open, keyVars>>

submitFresh(k) ==
  /\ Quiet /\ tick = "submit" /\ page = <<>> /\ k \in fresh /\ ~Full
  /\ fresh' = fresh \ {k}
  /\ IF Eligible(k) /\ Reservable(k)
       THEN tryReserveKey(k) /\ sub' = [sub EXCEPT ![k] = "claiming"]
       ELSE UNCHANGED <<queueVars, sub>>
  /\ UNCHANGED <<claimVars, extracting, stopped, tick, cursor, before, page, aborting, open, keyVars>>

\* The page is submitted, or the bound was met: then it is listed again.
submitted ==
  /\ Quiet /\ tick = "submit"
  /\ \/ page = <<>> /\ fresh = {} /\ endTick(cursor)
     \/ (page # <<>> \/ fresh # {}) /\ Full /\ endTick(before)
  /\ UNCHANGED <<queueVars, claimVars, extracting, stopped, sub, aborting, open, keyVars>>

-----------------------------------------------------------------------------
(* Backoff                                                                 *)

\* min(retryBaseMs * 2 ** (exponent + 1), retryMaxMs), from that of the exponent.
Raised(k) == Smaller(2 * delay[k], RetryMax)

backoffMs(k, progressed) ==
  IF state[k] = "denied" THEN RetryMax ELSE IF progressed THEN Base ELSE Raised(k)

setKey(k, s, w, r, d) ==
  /\ state' = [state EXCEPT ![k] = s]
  /\ wait' = [wait EXCEPT ![k] = w]
  /\ remaining' = [remaining EXCEPT ![k] = r]
  /\ delay' = [delay EXCEPT ![k] = d]

forgetKey(k) == setKey(k, "none", 0, 0, Base)
\* setBackoff: what a thrown error leaves, which carries no count of turns.
setBackoff(k) == setKey(k, "backoff", backoffMs(k, FALSE), 0, Raised(k))

Progressed(k, left) == state[k] = "none" \/ left < remaining[k]

\* applyOutcome of a drain that left turns, or that met another drainer's claim.
applyOutcome(k, left, denied) ==
  setKey(k, IF denied THEN "denied" ELSE "backoff",
         backoffMs(k, Progressed(k, left) /\ ~denied), left,
         IF denied \/ ~Progressed(k, left) THEN Raised(k) ELSE Base)

\* Whether the policy denies what a drain left over.
Denials == {FALSE} \cup {"denial" \in Disturbances}

-----------------------------------------------------------------------------
(* One submission                                                          *)

\* Mutant: an aborted submission is never seen to have settled.
SettledKeepsAbort(k) == sub' = [sub EXCEPT ![k] = "none"] /\ UNCHANGED aborting

Settled(k) == sub' = [sub EXCEPT ![k] = "none"] /\ aborting' = aborting \ {k}

\* claimFromSessionFile: the session file becomes the claim, unless a claim
\* exists, the claim's lock is not to be had, the session is empty, or the
\* file system fails (before the rename or after it).
ClaimTaken(k) ==
  /\ k \notin claimed /\ live[k] > 0
  /\ claimed' = claimed \cup {k}
  /\ held' = [held EXCEPT ![k] = live[k]]
  /\ live' = [live EXCEPT ![k] = 0]

claimForSubmit(k) ==
  /\ Calm /\ sub[k] = "claiming"
  /\ releaseKeyReservation(k)
  /\ \/ /\ ClaimTaken(k) \/ UNCHANGED claimVars
        /\ sub' = [sub EXCEPT ![k] = "claimed"]
        /\ UNCHANGED <<aborting, keyVars>>
     \/ /\ live[k] = 0 /\ k \notin claimed
        /\ forgetKey(k) /\ Settled(k) /\ UNCHANGED claimVars
     \/ /\ "io" \in Disturbances
        /\ ClaimTaken(k) \/ UNCHANGED claimVars
        /\ setBackoff(k) /\ Settled(k)
  /\ UNCHANGED <<extracting, stopped, tickVars, open>>

\* After a stop the claim is left to the next start, else it is drained.
drainClaimedKey(k) ==
  /\ Calm /\ sub[k] = "claimed"
  /\ \/ stopped /\ Settled(k)
     \/ ~stopped /\ sub' = [sub EXCEPT ![k] = "draining"] /\ UNCHANGED aborting
  /\ UNCHANGED <<queueVars, claimVars, extracting, stopped, tickVars, open, keyVars>>

\* The turns go through the queue under the key: one task stands for the scope
\* groups, which the drain queues one after the other.
queueGroups(k) ==
  /\ Calm /\ sub[k] = "draining" /\ k \in claimed /\ held[k] > 0 /\ k \notin aborting
  /\ enqueue(DrainTask[k])
  /\ sub' = [sub EXCEPT ![k] = "queued"]
  /\ UNCHANGED <<claimVars, extracting, stopped, tickVars, aborting, open, keyVars>>

\* Nothing is extracted: no claim, an empty one (acknowledged), another
\* drainer's lease, an abort, a queue that is stopped, turns the policy denies,
\* or an error.
drainWithout(k) ==
  /\ Calm /\ sub[k] = "draining"
  /\ \/ k \notin claimed /\ applyOutcome(k, 0, FALSE)
     \/ k \in claimed /\ held[k] = 0 /\ forgetKey(k)
     \/ k \in claimed /\ \E denied \in Denials : applyOutcome(k, held[k], denied /\ held[k] > 0)
     \/ "io" \in Disturbances /\ setBackoff(k)
  /\ Settled(k)
  /\ UNCHANGED <<queueVars, claimVars, extracting, stopped, tickVars, open>>

\* The tasks have exited, having removed what they extracted from the claim.
\* A claim that is then empty is acknowledged; what is left over is retried.
drainEnds(k) ==
  /\ Calm /\ sub[k] = "queued" /\ status[DrainTask[k]] = "new"
  /\ \E left \in 0 .. held[k] :
       /\ held' = [held EXCEPT ![k] = left]
       /\ \/ left = 0 /\ forgetKey(k)
          \/ \E denied \in Denials : applyOutcome(k, left, denied /\ left > 0)
          \/ "io" \in Disturbances /\ setBackoff(k)
  /\ Settled(k)
  /\ UNCHANGED <<queueVars, live, claimed, extracting, stopped, tickVars, open>>

-----------------------------------------------------------------------------
\* The breaker opens on provider failures and lapses by itself.
breaker ==
  /\ Calm /\ "breaker" \in Disturbances
  /\ open' = ~open
  /\ UNCHANGED <<queueVars, claimVars, extracting, stopped, tickVars, sub, aborting, keyVars>>

Submission(k) == claimForSubmit(k) \/ drainClaimedKey(k) \/ queueGroups(k) \/ drainWithout(k) \/ drainEnds(k)
Discovery == listPage \/ discovered \/ submitClaim \/ (\E k \in Keys : submitFresh(k)) \/ submitted

Next ==
  \/ parkLoop \/ resumeLoop \/ producers \/ breaker
  \/ \E t \in Tasks : liveEnqueue(t) \/ startTask(t) \/ disarmTask(t) \/ endTask(t) \/ forgetTask(t)
  \/ \E k \in Keys : ingress(k) \/ Submission(k)
  \/ start \/ stop \/ poll \/ discoveryFails \/ Discovery

Spec == Init /\ [][Next]_vars

\* Callbacks that are due run, file-system failures are transient, tasks and
\* claim decisions end, and the timer fires.
Fairness ==
  /\ WF_vars(parkLoop \/ \E t \in Tasks : startTask(t)) /\ SF_vars(resumeLoop)
  /\ SF_vars(\E t \in Tasks : endTask(t) \/ forgetTask(t))
  /\ SF_vars(poll) /\ SF_vars(listPage)
  /\ SF_vars(discovered \/ submitClaim \/ submitted \/ \E k \in Keys : submitFresh(k))
  /\ \A k \in Keys : SF_vars(Submission(k))

FairSpec == Spec /\ Fairness

-----------------------------------------------------------------------------
(* Properties                                                              *)

\* The variables' types.
TypeOK ==
  /\ QueueTypeOK
  /\ live \in [Keys -> Nat] /\ held \in [Keys -> Nat] /\ claimed \subseteq Keys
  /\ extracting \subseteq Running
  /\ stopped \in BOOLEAN /\ open \in BOOLEAN
  /\ tick \in {"idle", "list", "count", "submit"}
  /\ cursor \in Nat /\ before \in Nat
  /\ page \in Seq(Keys) /\ fresh \subseteq Keys
  /\ sub \in [Keys -> {"none", "claiming", "claimed", "draining", "queued"}]
  /\ aborting \subseteq InFlightKeys
  /\ state \in [Keys -> {"none", "backoff", "denied"}]
  /\ wait \in [Keys -> Nat] /\ remaining \in [Keys -> Nat] /\ delay \in [Keys -> Nat]

\* No turn is extracted twice: while a live task extracts a session no claim of
\* it exists, however its start, the claim decision and the drain interleave.
ClaimFenced == \A t \in extracting : KeyOf[t] \notin claimed

\* Reservations last exactly as long as the claim decisions: none outlives its
\* decision, whatever the outcome, and none is given up before.
ReservedWhileDeciding == reserved = {k \in Keys : sub[k] = "claiming"}

\* Every candidate of a tick's page has been submitted or passed over.
PageDone == tick = "submit" /\ page = <<>> /\ fresh = {}

\* A claim with turns is attempted again and again until nothing is left of it,
\* unless the breaker opens or the scheduler is stopped for good, as long as the
\* submission bound lets some tick get to the end of its page from time to time:
\* no page boundary, no run of tombstones and no rewind of the cursor hides it
\* (listPage: "a rotating cursor visits every claim fairly").
ClaimsAreAttempted ==
  <>[](~open /\ ~stopped) /\ []<>PageDone
    => \A k \in Keys : []<>(sub[k] # "none" \/ held[k] = 0)

\* Without that condition it is false: ticks that meet the bound list the same
\* page again, and earlier claims whose backoff has ended take the slots first.
ClaimsAreNeverStarved ==
  <>[](~open /\ ~stopped)
    => \A k \in Keys : []<>(sub[k] # "none" \/ held[k] = 0)

\* A denied key waits the full maximum before it is tried again.
DenialWaitsMax ==
  [][\A k \in Keys : sub[k] \in {"draining", "queued"} /\ sub'[k] = "none" /\ state'[k] = "denied"
       => wait'[k] = RetryMax]_vars

\* stop returns: every submission it aborted settles.
StopSettles == \A k \in Keys : k \in aborting ~> k \notin aborting
=============================================================================
