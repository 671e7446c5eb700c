--------------------------- MODULE ProviderBreaker ---------------------------
(***************************************************************************)
(* The provider circuit breaker (ProviderCircuitBreaker) and the extraction *)
(* attempts that share it: several sessions' runExtraction calls, claim     *)
(* drains and forced flushes of one daemon, interleaved at their awaits.    *)
(*                                                                         *)
(* A slot of Attempts is one running attempt after the other.  A slot in    *)
(* Forced bypasses the gate (a forced or fail-closed caller, or a gate      *)
(* whose metadata read failed); the callers of a slot in Deadlined pass     *)
(* deadlineMs.  The clock is reduced to whether the cooldown still runs.    *)
(***************************************************************************)
EXTENDS Naturals

CONSTANTS Attempts,
          Forced,
          Deadlined,
          FailureThreshold,   \* extractionBreakerFailureThreshold
          Orphan,             \* the token of an attempt that is over
          None                \* no token

ASSUME BreakerAssumption ==
  /\ Forced \subseteq Attempts
  /\ Deadlined \subseteq Attempts
  /\ FailureThreshold \in Nat \ {0}
  /\ None \notin Attempts
  /\ Orphan \notin Attempts
  /\ None # Orphan

VARIABLES
  state,      \* closed, open or half_open
  cooling,    \* now < openUntilMs
  failures,   \* consecutiveFailures, up to FailureThreshold
  probe,      \* probeToken, by the attempt it was given to
  pc,         \* where each attempt is
  owned       \* extractionProbeOwned of each attempt

breaker == <<state, cooling, failures, probe>>
vars == <<state, cooling, failures, probe, pc, owned>>

Init ==
  /\ state = "closed" /\ cooling = FALSE /\ failures = 0 /\ probe = None
  /\ pc = [a \in Attempts |-> "idle"]
  /\ owned = [a \in Attempts |-> FALSE]

Owns(a) == owned[a] /\ probe = a

Goto(a, l) == pc' = [pc EXCEPT ![a] = l]
Ends(a) == Goto(a, "idle") /\ owned' = [owned EXCEPT ![a] = FALSE]

-----------------------------------------------------------------------------
(* The breaker's operations.                                               *)

Suppressed == cooling \/ (state = "half_open" /\ probe # None)

\* Mutants: the flag is cleared instead of the token; the probe is not released.
releaseProbeFlagOnly(a) == probe' = IF Owns(a) THEN FALSE ELSE probe
releaseProbeKeeps(a) == UNCHANGED probe

releaseProbe(a) == probe' = IF Owns(a) THEN None ELSE probe

\* Mutant: a failure trips at the threshold whoever holds the probe.
failureUnownedTrips(cls, own) ==
  LET count == IF failures < FailureThreshold THEN failures + 1 ELSE failures
      trip == \/ cls = "auth_config"
              \/ own /\ state = "half_open"
              \/ count >= FailureThreshold
  IN  /\ failures' = count
      /\ state' = IF trip THEN "open" ELSE state
      /\ cooling' = (cooling \/ trip)
      /\ probe' = IF own THEN None ELSE probe

failure(cls, own) ==
  LET count == IF failures < FailureThreshold THEN failures + 1 ELSE failures
      trip == \/ cls = "auth_config" /\ (state # "half_open" \/ own)
              \/ own /\ state = "half_open"
              \/ state # "half_open" /\ count >= FailureThreshold
  IN  /\ failures' = count
      /\ state' = IF trip THEN "open" ELSE state
      /\ cooling' = (cooling \/ trip)
      /\ probe' = IF own THEN None ELSE probe

\* Mutant: the count survives a success.
successKeepsCount(a) ==
  IF probe # None /\ ~Owns(a)
    THEN UNCHANGED breaker
    ELSE /\ state' = "closed" /\ cooling' = FALSE /\ probe' = None
         /\ UNCHANGED failures

success(a) ==
  IF probe # None /\ ~Owns(a)
    THEN UNCHANGED breaker
    ELSE state' = "closed" /\ cooling' = FALSE /\ failures' = 0 /\ probe' = None

-----------------------------------------------------------------------------
(* An attempt.                                                             *)

\* The retry gate: acquire.  A suppressed attempt ends without touching the
\* breaker; a fingerprint still in its own backoff goes to passive capture.
Acquire(a) ==
  /\ a \notin Forced
  /\ pc[a] = "idle" /\ ~Suppressed
  /\ Goto(a, "calling") \/ Goto(a, "backoff")
  /\ IF state = "closed"
       THEN UNCHANGED <<state, probe, owned>>
       ELSE /\ state' = "half_open"
            /\ probe' = a
            /\ owned' = [owned EXCEPT ![a] = TRUE]
  /\ UNCHANGED <<cooling, failures>>

Bypass(a) ==
  /\ a \in Forced
  /\ pc[a] = "idle"
  /\ Goto(a, "calling")
  /\ UNCHANGED <<breaker, owned>>

\* extraction_backoff: passive capture is over, the gate releases its probe.
BackoffExit(a) ==
  /\ pc[a] = "backoff"
  /\ releaseProbe(a)
  /\ Ends(a)
  /\ UNCHANGED <<state, cooling, failures>>

\* The deadline passed during that passive capture: the gate rethrows, before
\* its own release and outside the wrapper's finally.
BackoffDeadline(a) ==
  /\ pc[a] = "backoff" /\ a \in Deadlined
  /\ probe' = IF Owns(a) THEN Orphan ELSE probe
  /\ Ends(a)
  /\ UNCHANGED <<state, cooling, failures>>

ProviderSucceeds(a) ==
  /\ pc[a] = "calling"
  /\ success(a)
  /\ Ends(a)

\* The provider reported a failure; its bookkeeping waits for meta.json's lock.
ProviderFails(a) ==
  /\ pc[a] = "calling"
  /\ Goto(a, "recording")
  /\ UNCHANGED <<breaker, owned>>

\* recordExtractionFailure inside updateMeta, or in memory after a lock skip.
RecordFailure(a) ==
  /\ pc[a] = "recording"
  /\ \E cls \in {"auth_config", "provider_retryable"} : failure(cls, Owns(a))
  /\ Ends(a)

\* Abort, deadline, an unusable or a prefiltered result: the wrapper's finally.
ExitUnsettled(a) ==
  /\ pc[a] = "calling"
  /\ releaseProbe(a)
  /\ Ends(a)
  /\ UNCHANGED <<state, cooling, failures>>

\* The same while the bookkeeping waits: updateMeta goes on without the run.
AbandonRecord(a) ==
  /\ pc[a] = "recording"
  /\ releaseProbe(a)
  /\ Goto(a, "late")
  /\ owned' = [owned EXCEPT ![a] = FALSE]
  /\ UNCHANGED <<state, cooling, failures>>

\* ... and records the failure later, with a token that is no longer current,
\* or never gets the lock.
LateFailure(a) ==
  /\ pc[a] = "late"
  /\ \E cls \in {"auth_config", "provider_retryable"} : failure(cls, FALSE)
  /\ Ends(a)

LateSkipped(a) ==
  /\ pc[a] = "late"
  /\ Ends(a)
  /\ UNCHANGED breaker

CooldownEnds ==
  /\ cooling
  /\ cooling' = FALSE
  /\ UNCHANGED <<state, failures, probe, pc, owned>>

AttemptNext(a) ==
  \/ Acquire(a) \/ Bypass(a) \/ BackoffExit(a) \/ BackoffDeadline(a)
  \/ ProviderSucceeds(a) \/ ProviderFails(a) \/ RecordFailure(a)
  \/ ExitUnsettled(a) \/ AbandonRecord(a) \/ LateFailure(a) \/ LateSkipped(a)

Next == CooldownEnds \/ \E a \in Attempts : AttemptNext(a)

Spec == Init /\ [][Next]_vars

\* Cooldowns and attempts end.  Work keeps arriving whose own backoff is over,
\* and a provider that is probed again and again answers in the end.
Fairness ==
  /\ WF_vars(CooldownEnds)
  /\ \A a \in Attempts :
       /\ WF_vars(pc[a] # "idle" /\ AttemptNext(a))
       /\ SF_vars(Acquire(a) /\ pc'[a] = "calling")
       /\ SF_vars(owned[a] /\ ProviderSucceeds(a))

FairSpec == Spec /\ Fairness

-----------------------------------------------------------------------------
\* Every variable has a value the code gives it.
TypeOK ==
  /\ state \in {"closed", "open", "half_open"}
  /\ cooling \in BOOLEAN
  /\ failures \in 0 .. FailureThreshold
  /\ probe \in Attempts \cup {Orphan, None}
  /\ pc \in [Attempts -> {"idle", "backoff", "calling", "recording", "late"}]
  /\ owned \in [Attempts -> BOOLEAN]

\* "exactly one attempt holds it from the open->half_open flip until its
\* terminal failure()/success()": an attempt let through as the probe keeps the
\* breaker half open and the token its own until it ends, whatever forced
\* attempts, stragglers from before the trip and late bookkeeping report.
ProbeIsOwned ==
  \A a \in Attempts : owned[a] => probe = a /\ state = "half_open"

\* A closed breaker has seen fewer failures than the threshold since the last
\* success: failures counted while half open never leak into a closed breaker.
ClosedBelowThreshold == state = "closed" => failures < FailureThreshold

\* The breaker recovers: it cannot be pinned open or half open while the provider
\* answers probes, unless a deadline left the probe to nobody (ProbeHasOwner).
Recovers == state # "closed" ~> state = "closed" \/ probe = Orphan

\* "any early exit releases it explicitly": a held probe belongs to an attempt
\* that is still running.  The code does not keep this for attempts with a
\* deadline.
ProbeHasOwner == probe # None => \E a \in Attempts : Owns(a)

=============================================================================
