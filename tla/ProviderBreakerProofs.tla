------------------------ MODULE ProviderBreakerProofs ------------------------
(***************************************************************************)
(* The breaker's safety for every number of attempts, forced or not, with   *)
(* or without deadlines, and every threshold.                               *)
(***************************************************************************)
EXTENDS ProviderBreaker, TLAPS

\* Only an attempt between the gate and its bookkeeping has a probe, and a
\* token is out only while the breaker is half open.
TokenInv ==
  /\ \A a \in Attempts : owned[a] => pc[a] \in {"backoff", "calling", "recording"}
  /\ probe # None => state = "half_open" /\ ~cooling

\* The inductive invariant.
BreakerInv == TypeOK /\ TokenInv /\ ProbeIsOwned /\ ClosedBelowThreshold

\* failure keeps every field in its type, whoever reports it, and trips over a
\* held probe only when its owner does.
LEMMA FailureEffect ==
  ASSUME BreakerInv, NEW cls \in {"auth_config", "provider_retryable"},
         NEW own \in BOOLEAN, failure(cls, own), own => probe # None
  PROVE  /\ state' \in {"closed", "open", "half_open"}
         /\ cooling' \in BOOLEAN
         /\ failures' \in 0 .. FailureThreshold
         /\ probe' = IF own THEN None ELSE probe
         /\ ~own /\ probe # None => state' = "half_open" /\ ~cooling'
         /\ state' = "closed" => failures' < FailureThreshold
<1>1. /\ failures \in Nat /\ failures <= FailureThreshold
      /\ FailureThreshold \in Nat \ {0}
      /\ state \in {"closed", "open", "half_open"} /\ cooling \in BOOLEAN
  BY BreakerAssumption DEF BreakerInv, TypeOK
<1>2. /\ probe # None => state = "half_open" /\ ~cooling
      /\ state = "closed" => failures < FailureThreshold
  BY DEF BreakerInv, TokenInv, ClosedBelowThreshold
<1> QED
  BY <1>1, <1>2 DEF failure

\* An attempt that ends leaves the other attempts as they are.
LEMMA EndsEffect ==
  ASSUME TypeOK, NEW a \in Attempts, Ends(a)
  PROVE  /\ pc' \in [Attempts -> {"idle", "backoff", "calling", "recording", "late"}]
         /\ owned' \in [Attempts -> BOOLEAN]
         /\ ~owned'[a]
         /\ \A b \in Attempts \ {a} : owned'[b] = owned[b] /\ pc'[b] = pc[b]
  BY DEF TypeOK, Ends, Goto

\* Every step of an attempt keeps the invariant.
LEMMA AttemptStep ==
  ASSUME BreakerInv, NEW a \in Attempts, AttemptNext(a)
  PROVE  BreakerInv'
<1> USE BreakerAssumption DEF BreakerInv, TypeOK, TokenInv, ProbeIsOwned,
        ClosedBelowThreshold, breaker, Owns
<1>1. CASE Acquire(a)
  <2>1. PICK l \in {"calling", "backoff"} : pc' = [pc EXCEPT ![a] = l]
    BY <1>1 DEF Acquire, Goto
  <2>2. CASE state = "closed"
    BY <1>1, <2>1, <2>2 DEF Acquire
  <2>3. CASE state # "closed"
    <3>1. /\ state' = "half_open" /\ probe' = a
          /\ owned' = [owned EXCEPT ![a] = TRUE]
          /\ UNCHANGED <<cooling, failures>>
      BY <1>1, <2>3 DEF Acquire
    <3>2. probe = None /\ ~cooling
      BY <1>1, <2>3 DEF Acquire, Suppressed
    <3> QED
      BY <2>1, <3>1, <3>2
  <2> QED
    BY <2>2, <2>3
<1>2. CASE Bypass(a)
  BY <1>2 DEF Bypass, Goto
<1>3. CASE BackoffExit(a) \/ ExitUnsettled(a)
  BY <1>3, EndsEffect DEF BackoffExit, ExitUnsettled, releaseProbe
<1>4. CASE BackoffDeadline(a)
  BY <1>4, EndsEffect DEF BackoffDeadline
<1>5. CASE ProviderSucceeds(a)
  <2>1. CASE probe # None /\ ~Owns(a)
    BY <1>5, <2>1, EndsEffect DEF ProviderSucceeds, success
  <2>2. CASE ~(probe # None /\ ~Owns(a))
    <3>1. state' = "closed" /\ cooling' = FALSE /\ failures' = 0 /\ probe' = None
      BY <1>5, <2>2 DEF ProviderSucceeds, success
    <3>2. \A b \in Attempts \ {a} : ~owned[b]
      BY <2>2
    <3>3. 0 \in 0 .. FailureThreshold /\ 0 < FailureThreshold
      OBVIOUS
    <3> QED
      BY <1>5, <3>1, <3>2, <3>3, EndsEffect DEF ProviderSucceeds
  <2> QED
    BY <2>1, <2>2
<1>6. CASE ProviderFails(a)
  BY <1>6 DEF ProviderFails, Goto
<1>7. CASE RecordFailure(a)
  <2>1. PICK cls \in {"auth_config", "provider_retryable"} :
          failure(cls, Owns(a))
    BY <1>7 DEF RecordFailure
  <2>2. Owns(a) \in BOOLEAN /\ (Owns(a) => probe # None)
    OBVIOUS
  <2>3. /\ state' \in {"closed", "open", "half_open"}
        /\ cooling' \in BOOLEAN
        /\ failures' \in 0 .. FailureThreshold
        /\ probe' = IF Owns(a) THEN None ELSE probe
        /\ ~Owns(a) /\ probe # None => state' = "half_open" /\ ~cooling'
        /\ state' = "closed" => failures' < FailureThreshold
    BY <2>1, <2>2, FailureEffect
  <2> QED
    BY <1>7, <2>3, EndsEffect DEF RecordFailure
<1>8. CASE AbandonRecord(a)
  BY <1>8 DEF AbandonRecord, releaseProbe, Goto
<1>9. CASE LateFailure(a)
  <2>1. PICK cls \in {"auth_config", "provider_retryable"} : failure(cls, FALSE)
    BY <1>9 DEF LateFailure
  <2>2. /\ state' \in {"closed", "open", "half_open"}
        /\ cooling' \in BOOLEAN
        /\ failures' \in 0 .. FailureThreshold
        /\ probe' = probe
        /\ probe # None => state' = "half_open" /\ ~cooling'
        /\ state' = "closed" => failures' < FailureThreshold
    BY <2>1, FailureEffect
  <2> QED
    BY <1>9, <2>2, EndsEffect DEF LateFailure
<1>10. CASE LateSkipped(a)
  BY <1>10, EndsEffect DEF LateSkipped
<1> QED
  BY <1>1, <1>2, <1>3, <1>4, <1>5, <1>6, <1>7, <1>8, <1>9, <1>10
     DEF AttemptNext

\* Every reachable state satisfies the inductive invariant.
LEMMA BreakerInvariance == Spec => []BreakerInv
<1>1. Init => BreakerInv
  <2>1. 0 \in 0 .. FailureThreshold /\ 0 < FailureThreshold
    BY BreakerAssumption
  <2> QED
    BY <2>1, BreakerAssumption DEF Init, BreakerInv, TypeOK, TokenInv,
       ProbeIsOwned, ClosedBelowThreshold
<1>2. BreakerInv /\ [Next]_vars => BreakerInv'
  <2> SUFFICES ASSUME BreakerInv, [Next]_vars PROVE BreakerInv'
    OBVIOUS
  <2>1. CASE CooldownEnds
    BY <2>1 DEF CooldownEnds, BreakerInv, TypeOK, TokenInv, ProbeIsOwned,
       ClosedBelowThreshold
  <2>2. CASE UNCHANGED vars
    BY <2>2 DEF vars, BreakerInv, TypeOK, TokenInv, ProbeIsOwned,
       ClosedBelowThreshold
  <2> QED
    BY <2>1, <2>2, AttemptStep DEF Next
<1> QED
  BY <1>1, <1>2, PTL DEF Spec

\* The half-open probe is owned: an attempt let through as the probe keeps it,
\* and keeps the breaker half open, until its own settlement or exit.
THEOREM ProbesAreOwned == Spec => []ProbeIsOwned
<1>1. BreakerInv => ProbeIsOwned
  BY DEF BreakerInv
<1> QED
  BY <1>1, BreakerInvariance, PTL

\* The breaker's fields and every attempt's stage keep their types.
THEOREM TypeCorrect == Spec => []TypeOK
<1>1. BreakerInv => TypeOK
  BY DEF BreakerInv
<1> QED
  BY <1>1, BreakerInvariance, PTL

\* A closed breaker has counted fewer failures than the threshold, whatever
\* was counted while it was open or half open.
THEOREM ClosedMeansHealthy == Spec => []ClosedBelowThreshold
<1>1. BreakerInv => ClosedBelowThreshold
  BY DEF BreakerInv
<1> QED
  BY <1>1, BreakerInvariance, PTL
=============================================================================
