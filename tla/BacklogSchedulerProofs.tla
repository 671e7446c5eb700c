----------------------- MODULE BacklogSchedulerProofs -----------------------
(***************************************************************************)
(* Theorems about the scheduler on the queue, for any keys, tasks and       *)
(* bounds.  The queue's own theorems carry over, because every step of the  *)
(* composition is a step of the queue or leaves it alone; the fence then    *)
(* follows from two facts: reservations are exactly the claim decisions     *)
(* under way, and a task that extracts is a running one.                    *)
(***************************************************************************)
EXTENDS BacklogScheduler, ExtractionQueueProofs, WellFoundedInduction

SubStates == {"none", "claiming", "claimed", "draining", "queued"}

FenceInv ==
  /\ QueueInv
  /\ sub \in [Keys -> SubStates]
  /\ extracting \subseteq Running
  /\ ReservedWhileDeciding
  /\ ClaimFenced

\* A step of the composition is a step of the queue, or none.
LEMMA QueueSteps ==
  ASSUME Next PROVE [QueueNext]_queueVars
<1> USE BacklogAssumption DEF QueueNext
<1>1. CASE parkLoop          BY <1>1 DEF parkLoop, Loop
<1>2. CASE resumeLoop        BY <1>2 DEF resumeLoop, Loop
<1>3. CASE producers         BY <1>3 DEF producers
<1>4. CASE breaker           BY <1>4 DEF breaker
<1>5. ASSUME NEW t \in Tasks, liveEnqueue(t) \/ startTask(t) \/ disarmTask(t) \/ endTask(t) \/ forgetTask(t)
      PROVE  QueueNext
  BY <1>5 DEF liveEnqueue, startTask, disarmTask, endTask, forgetTask, Loop, TaskStep
<1>6. ASSUME NEW k \in Keys, ingress(k) PROVE UNCHANGED queueVars
  BY <1>6 DEF ingress
<1>7. ASSUME NEW k \in Keys, Submission(k) PROVE [QueueNext]_queueVars
  <2>1. CASE claimForSubmit(k)
    <3>1. releaseKeyReservation(k) /\ k \in Reservers
      BY <2>1 DEF claimForSubmit, BacklogAssumption
    <3> QED
      BY <3>1
  <2>2. CASE drainClaimedKey(k)  BY <2>2 DEF drainClaimedKey
  <2>3. CASE queueGroups(k)
    <3>1. enqueue(DrainTask[k]) /\ DrainTask[k] \in Tasks
      BY <2>3 DEF queueGroups, BacklogAssumption
    <3> QED
      BY <3>1
  <2>4. CASE drainWithout(k)     BY <2>4 DEF drainWithout
  <2>5. CASE drainEnds(k)        BY <2>5 DEF drainEnds
  <2> QED
    BY <1>7, <2>1, <2>2, <2>3, <2>4, <2>5 DEF Submission
<1>8. CASE start \/ stop \/ poll \/ discoveryFails
  BY <1>8 DEF start, stop, poll, discoveryFails
<1>9. CASE listPage \/ discovered \/ submitClaim \/ submitted
  BY <1>9 DEF listPage, discovered, submitClaim, submitted
<1>10. ASSUME NEW k \in Keys, submitFresh(k) PROVE [QueueNext]_queueVars
  <2>1. (tryReserveKey(k) \/ UNCHANGED queueVars) /\ k \in Reservers
    BY <1>10 DEF submitFresh, BacklogAssumption
  <2> QED
    BY <2>1
<1> HIDE DEF QueueNext
<1> QED
  BY <1>1, <1>2, <1>3, <1>4, <1>5, <1>6, <1>7, <1>8, <1>9, <1>10 DEF Next, Discovery

\* Which steps touch the submissions, the reservations, the claims and the
\* extracting tasks; all others leave the fence alone.
LEMMA FenceStep ==
  ASSUME FenceInv, Next PROVE FenceInv'
<1>1. QueueInv'
  BY QueueSteps, InvStep, QueueAssumption DEF FenceInv
<1> DEFINE Fence == sub' \in [Keys -> SubStates] /\ extracting' \subseteq Running' /\ ReservedWhileDeciding' /\ ClaimFenced'
<1>2. ASSUME UNCHANGED <<sub, extracting, reserved, claimed>>, Running \subseteq Running'
      PROVE  Fence
  BY <1>2 DEF FenceInv, ReservedWhileDeciding, ClaimFenced
<1>3. ASSUME NEW k \in Keys, NEW v \in SubStates \ {"claiming"}, sub[k] # "claiming",
             sub' = [sub EXCEPT ![k] = v],
             UNCHANGED <<extracting, reserved, claimed>>, Running \subseteq Running'
      PROVE  Fence
  BY <1>3 DEF FenceInv, ReservedWhileDeciding, ClaimFenced
<1>4. status' = status => Running' = Running
  BY DEF Running
<1>5. ASSUME \/ parkLoop \/ resumeLoop \/ producers \/ breaker
             \/ start \/ stop \/ poll \/ discoveryFails
             \/ listPage \/ discovered \/ submitted
      PROVE  Fence
  <2>1. UNCHANGED <<sub, extracting, reserved, claimed, status>>
    BY <1>5 DEF parkLoop, resumeLoop, producers, breaker, start, stop, poll, discoveryFails, listPage, discovered,
                submitted, schedVars, claimVars, queueVars, park, resume, stopAccepting, resumeAccepting
  <2> QED
    BY <1>2, <1>4, <2>1
<1>6. ASSUME NEW t \in Tasks, liveEnqueue(t) PROVE Fence
  <2>1. UNCHANGED <<sub, extracting, claimed, reserved>>
    BY <1>6 DEF liveEnqueue, schedVars, claimVars, enqueue, enqueueRejected
  <2>2. \A u \in Tasks \ {t} : status'[u] = status[u]
    BY <1>6 DEF liveEnqueue, enqueue, enqueueRejected, Become, FenceInv, QueueInv, QueueTypeOK
  <2>3. status[t] = "new"
    BY <1>6 DEF liveEnqueue, enqueue, enqueueRejected
  <2> QED
    BY <1>2, <2>1, <2>2, <2>3 DEF Running
<1>7. ASSUME NEW t \in Tasks, startTask(t) PROVE Fence
  <2>1. UNCHANGED <<sub, claimed, reserved>>
    BY <1>7 DEF startTask, claimVars, take
  <2>2. Running' = Running \cup {t}
    BY <1>7 DEF startTask, take, Become, Running, FenceInv, QueueInv, QueueTypeOK
  <2>3. extracting' = extracting \/ (extracting' = extracting \cup {t} /\ KeyOf[t] \notin claimed)
    BY <1>7 DEF startTask, PassesGate
  <2> QED
    BY <2>1, <2>2, <2>3 DEF FenceInv, ReservedWhileDeciding, ClaimFenced
<1>8. ASSUME NEW t \in Tasks, endTask(t) PROVE Fence
  <2>1. UNCHANGED <<sub, claimed, reserved>>
    BY <1>8 DEF endTask, settle
  <2>2. extracting' = extracting \ {t} /\ Running' = Running \ {t}
    BY <1>8 DEF endTask, settle, Become, Running, FenceInv, QueueInv, QueueTypeOK
  <2> QED
    BY <2>1, <2>2 DEF FenceInv, ReservedWhileDeciding, ClaimFenced
<1>9. ASSUME NEW t \in Tasks, disarmTask(t) \/ forgetTask(t) PROVE Fence
  <2>1. UNCHANGED <<sub, extracting, claimed, reserved>>
    BY <1>9 DEF disarmTask, forgetTask, schedVars, claimVars, disarm, forget
  <2>2. status' = status \/ (status[t] = "settled" /\ \A u \in Tasks \ {t} : status'[u] = status[u])
    BY <1>9 DEF disarmTask, forgetTask, disarm, forget, Become, FenceInv, QueueInv, QueueTypeOK
  <2> QED
    BY <1>2, <2>1, <2>2 DEF Running
<1>10. ASSUME NEW k \in Keys, ingress(k) PROVE Fence
  <2>1. UNCHANGED <<sub, extracting, reserved, status>> /\ claimed' \subseteq claimed
    BY <1>10 DEF ingress, queueVars
  <2> QED
    BY <1>4, <2>1 DEF FenceInv, ReservedWhileDeciding, ClaimFenced
<1>11. ASSUME submitClaim PROVE Fence
  <2>1. /\ UNCHANGED <<extracting, reserved, claimed, status>>
        /\ sub' = sub \/ (sub' = [sub EXCEPT ![Head(page)] = "claimed"] /\ sub[Head(page)] = "none")
    BY <1>11 DEF submitClaim, Eligible, queueVars, claimVars
  <2>2. CASE Head(page) \in Keys
    BY <1>2, <1>3, <1>4, <2>1, <2>2 DEF SubStates
  <2>3. CASE Head(page) \notin Keys
    <3>1. sub' = sub
      BY <2>1, <2>3 DEF FenceInv
    <3> QED
      BY <1>2, <1>4, <2>1, <3>1
  <2> QED
    BY <2>2, <2>3
<1>12. ASSUME NEW k \in Keys, submitFresh(k) PROVE Fence
  <2>1. UNCHANGED <<extracting, claimed>>
    BY <1>12 DEF submitFresh, claimVars
  <2>2. CASE Eligible(k) /\ Reservable(k)
    <3>1. sub' = [sub EXCEPT ![k] = "claiming"] /\ reserved' = reserved \cup {k} /\ status' = status
      BY <1>12, <2>2 DEF submitFresh, tryReserveKey
    <3> QED
      BY <1>4, <2>1, <3>1 DEF FenceInv, ReservedWhileDeciding, ClaimFenced, SubStates
  <2>3. CASE ~(Eligible(k) /\ Reservable(k))
    <3>1. UNCHANGED <<sub, reserved, status>>
      BY <1>12, <2>3 DEF submitFresh, queueVars
    <3> QED
      BY <1>2, <1>4, <2>1, <3>1
  <2> QED
    BY <2>2, <2>3
<1>13. ASSUME NEW k \in Keys, claimForSubmit(k) PROVE Fence
  <2>1. sub[k] = "claiming" /\ reserved' = reserved \ {k} /\ status' = status /\ extracting' = extracting
    BY <1>13 DEF claimForSubmit, releaseKeyReservation
  <2>2. sub' = [sub EXCEPT ![k] = "claimed"] \/ sub' = [sub EXCEPT ![k] = "none"]
    BY <1>13 DEF claimForSubmit, Settled
  <2>3. claimed' \subseteq claimed \cup {k}
    BY <1>13 DEF claimForSubmit, ClaimTaken, claimVars
  <2>4. ~Active(k)
    BY <2>1 DEF FenceInv, ReservedWhileDeciding, QueueInv, ReservationFences
  <2>5. ClaimFenced'
    BY <2>1, <2>3, <2>4 DEF FenceInv, ClaimFenced, Active
  <2> QED
    BY <1>4, <2>1, <2>2, <2>5 DEF FenceInv, ReservedWhileDeciding, SubStates
<1>14. ASSUME NEW k \in Keys, drainClaimedKey(k) \/ drainWithout(k) \/ drainEnds(k) PROVE Fence
  <2>1. /\ UNCHANGED <<extracting, reserved, claimed, status>> /\ sub[k] # "claiming"
        /\ sub' = [sub EXCEPT ![k] = "draining"] \/ sub' = [sub EXCEPT ![k] = "none"]
    BY <1>14 DEF drainClaimedKey, drainWithout, drainEnds, Settled, queueVars, claimVars
  <2> QED
    BY <1>3, <1>4, <2>1 DEF SubStates
<1>15. ASSUME NEW k \in Keys, queueGroups(k) PROVE Fence
  <2>1. /\ UNCHANGED <<extracting, reserved, claimed>> /\ sub[k] # "claiming"
        /\ sub' = [sub EXCEPT ![k] = "queued"]
    BY <1>15 DEF queueGroups, enqueue, claimVars
  <2>2. Running \subseteq Running'
    BY <1>15 DEF queueGroups, enqueue, Become, Running, FenceInv, QueueInv, QueueTypeOK
  <2> QED
    BY <1>3, <2>1, <2>2 DEF SubStates
<1> HIDE DEF Fence
<1>16. Fence
  BY <1>5, <1>6, <1>7, <1>8, <1>9, <1>10, <1>11, <1>12, <1>13, <1>14, <1>15 DEF Next, Submission, Discovery
<1> QED
  BY <1>1, <1>16 DEF FenceInv, Fence

\* FenceInv is an invariant of the composition.
THEOREM FenceInvariant == Spec => []FenceInv
<1>1. Init => FenceInv
  BY InvInit, QueueAssumption DEF Init, FenceInv, SubStates, ReservedWhileDeciding, ClaimFenced, QueueInit
<1>2. FenceInv /\ UNCHANGED vars => FenceInv'
  <2> SUFFICES ASSUME FenceInv, UNCHANGED vars PROVE FenceInv'
    OBVIOUS
  <2>1. QueueInv'
    BY InvStep, QueueAssumption DEF FenceInv, vars
  <2> QED
    BY <2>1 DEF FenceInv, vars, queueVars, schedVars, claimVars, ReservedWhileDeciding, ClaimFenced, Running
<1>3. FenceInv /\ [Next]_vars => FenceInv'
  BY <1>2, FenceStep
<1> QED
  BY <1>1, <1>3, PTL DEF Spec

\* The scheduler and the live side use the queue as the queue allows: all the
\* theorems about the queue hold of the composition.
THEOREM UsesQueue == Spec => QueueSpec
<1>1. Init => QueueInit
  BY DEF Init
<1>2. [Next]_vars => [QueueNext]_queueVars
  BY QueueSteps DEF vars
<1> QED
  BY <1>1, <1>2, PTL DEF Spec, QueueSpec

\* No session is extracted live while a claim of it exists.
THEOREM ClaimsAreFenced == Spec => []ClaimFenced
<1>1. FenceInv => ClaimFenced
  BY DEF FenceInv
<1> QED
  BY <1>1, FenceInvariant, PTL

\* No reservation leaks, and none is given up before its decision.
THEOREM ReservationsAreDecisions == Spec => []ReservedWhileDeciding
<1>1. FenceInv => ReservedWhileDeciding
  BY DEF FenceInv
<1> QED
  BY <1>1, FenceInvariant, PTL

-----------------------------------------------------------------------------
(* The variables' types                                                    *)

\* Every nonempty set of naturals has a least element.
LEMMA LeastElement ==
  ASSUME NEW T, T \subseteq Nat, T # {}
  PROVE  \E x \in T : \A y \in T : x <= y
<1> DEFINE R == {p \in Nat \X Nat : p[1] < p[2]}
<1>1. IsWellFoundedOn(R, Nat)
  BY NatLessThanWellFounded, Zenon DEF OpToRel
<1>2. PICK x \in T : \A y \in T : ~(<<y, x>> \in R)
  <2> HIDE DEF R
  <2> QED
    BY <1>1, WFMin
<1>3. \A y \in T : ~(y < x)
  BY <1>2
<1> QED
  BY <1>3

\* Every nonempty finite set of naturals has a greatest element: an unbounded
\* finite set of least size would be bounded without one of its elements.
LEMMA GreatestElement ==
  ASSUME NEW S, S \subseteq Nat, S # {}, IsFiniteSet(S)
  PROVE  \E m \in S : \A n \in S : n <= m
<1> DEFINE Bounds(A) == {b \in Nat : \A n \in A : n <= b}
           Unbounded == {A \in SUBSET S : Bounds(A) = {}}
           Sizes == {Cardinality(A) : A \in Unbounded}
<1>1. \A A \in SUBSET S : IsFiniteSet(A) /\ Cardinality(A) \in Nat
  BY FS_Subset, FS_CardinalityType
<1>2. Unbounded = {}
  <2> SUFFICES ASSUME Unbounded # {} PROVE FALSE
    OBVIOUS
  <2>1. Sizes \subseteq Nat /\ Sizes # {}
    BY <1>1
  <2>2. PICK A \in Unbounded : \A B \in Unbounded : Cardinality(A) <= Cardinality(B)
    <3> HIDE DEF Unbounded
    <3>1. PICK c \in Sizes : \A d \in Sizes : c <= d
      <4> HIDE DEF Sizes
      <4> QED
        BY <2>1, LeastElement
    <3> QED
      BY <3>1
  <2>3. A \subseteq S /\ Bounds(A) = {} /\ IsFiniteSet(A)
    BY <1>1
  <2>4. A # {}
    <3>1. Bounds({}) = Nat
      OBVIOUS
    <3> QED
      BY <2>3, <3>1
  <2>5. PICK x \in A : TRUE
    BY <2>4
  <2>6. A \ {x} \in SUBSET S /\ Cardinality(A \ {x}) = Cardinality(A) - 1
    BY <2>3, FS_RemoveElement
  <2>7. A \ {x} \notin Unbounded
    <3>1. Cardinality(A) \in Nat
      BY <1>1
    <3> HIDE DEF Unbounded
    <3> QED
      BY <2>2, <2>6, <3>1
  <2>8. PICK b \in Nat : \A n \in A \ {x} : n <= b
    BY <2>6, <2>7
  <2>9. x \in Nat /\ A \subseteq Nat
    BY <2>3
  <2>10. (IF x <= b THEN b ELSE x) \in Bounds(A)
    BY <2>8, <2>9
  <2> QED
    BY <2>3, <2>10
<1>3. Bounds(S) # {}
  BY <1>2
<1>4. PICK b \in Bounds(S) : \A c \in Bounds(S) : b <= c
  <2>1. Bounds(S) \subseteq Nat
    OBVIOUS
  <2> HIDE DEF Bounds
  <2> QED
    BY <1>3, <2>1, LeastElement
<1>5. b \in Nat /\ \A n \in S : n <= b
  BY <1>4
<1>6. b \in S
  <2> SUFFICES ASSUME b \notin S PROVE FALSE
    OBVIOUS
  <2>1. PICK n \in S : TRUE
    OBVIOUS
  <2>2. n \in Nat /\ n <= b /\ n # b
    BY <1>5
  <2>3. b - 1 \in Bounds(S)
    <3>1. \A m \in S : m \in Nat /\ m <= b /\ m # b
      BY <1>5
    <3>2. b - 1 \in Nat /\ \A m \in S : m <= b - 1
      BY <1>5, <2>2, <3>1
    <3> QED
      BY <3>2
  <2>4. b <= b - 1
    BY <1>4, <2>3
  <2> QED
    BY <1>5, <2>4
<1> QED
  BY <1>5, <1>6

\* The cursor after a page is the rank of a claim, or zero.
LEMMA NextCursorIsNat ==
  ASSUME NEW c \in Nat, claimed \subseteq Keys
  PROVE  NextCursor(c) \in Nat
<1> USE BacklogAssumption
<1>1. CASE Consumed(c) = {}
  BY <1>1 DEF NextCursor
<1>2. CASE Consumed(c) # {}
  <2> DEFINE S == {Rank[k] : k \in Consumed(c)}
  <2>1. Consumed(c) \subseteq Keys
    BY DEF Consumed, Scanned, After
  <2>2. IsFiniteSet(S)
    <3>1. IsFiniteSet(Consumed(c))
      BY <2>1, FS_Subset
    <3>2. [k \in Consumed(c) |-> Rank[k]] \in Surjection(Consumed(c), S)
      BY Zenon DEF Surjection
    <3> HIDE DEF S
    <3> QED
      BY <3>1, <3>2, FS_Surjection
  <2>3. S \subseteq Nat /\ S # {}
    BY <1>2, <2>1
  <2>4. \E m \in S : \A n \in S : n <= m
    <3> HIDE DEF S
    <3> QED
      BY <2>2, <2>3, GreatestElement
  <2>5. \E m \in S : \A k \in Consumed(c) : Rank[k] <= m
    BY <2>4
  <2>6. NextCursor(c) \in S
    BY <1>2, <2>5 DEF NextCursor
  <2> QED
    BY <2>3, <2>6
<1> QED
  BY <1>1, <1>2

\* A page is a sequence, the one without claims too.
LEMMA EmptyPage == <<>> \in Seq(Keys)
OBVIOUS

\* A function on the first naturals is a sequence.
LEMMA FunctionIsSequence ==
  ASSUME NEW S, NEW n \in Nat, NEW f \in [1 .. n -> S]
  PROVE  f \in Seq(S)
OBVIOUS

ClaimTypes == live \in [Keys -> Nat] /\ held \in [Keys -> Nat] /\ claimed \subseteq Keys

TickTypes ==
  /\ stopped \in BOOLEAN /\ open \in BOOLEAN
  /\ tick \in {"idle", "list", "count", "submit"}
  /\ cursor \in Nat /\ before \in Nat
  /\ page \in Seq(Keys) /\ fresh \subseteq Keys

KeyTypes ==
  /\ sub \in [Keys -> SubStates] /\ aborting \subseteq InFlightKeys
  /\ state \in [Keys -> {"none", "backoff", "denied"}]
  /\ wait \in [Keys -> Nat] /\ remaining \in [Keys -> Nat] /\ delay \in [Keys -> Nat]

\* A turn more in the claim or the session, a claim taken, or turns removed.
LEMMA ClaimTypesStep ==
  ASSUME ClaimTypes, Next PROVE ClaimTypes'
<1> USE BacklogAssumption DEF ClaimTypes, claimVars
<1>1. ASSUME NEW k \in Keys, ingress(k) PROVE ClaimTypes'
  BY <1>1 DEF ingress
<1>2. ASSUME NEW t \in Tasks, liveEnqueue(t) \/ startTask(t) \/ disarmTask(t) \/ endTask(t) \/ forgetTask(t)
      PROVE  ClaimTypes'
  <2>1. CASE endTask(t)
    <3>1. KeyOf[t] \in Keys
      BY DEF Keys
    <3> QED
      BY <2>1, <3>1 DEF endTask
  <2> QED
    BY <1>2, <2>1 DEF liveEnqueue, startTask, disarmTask, forgetTask, schedVars
<1>3. ASSUME NEW k \in Keys, Submission(k) PROVE ClaimTypes'
  <2>1. ClaimTaken(k) => ClaimTypes'
    BY DEF ClaimTaken
  <2>2. CASE claimForSubmit(k)
    BY <2>1, <2>2 DEF claimForSubmit
  <2>3. CASE drainEnds(k)
    BY <2>3 DEF drainEnds
  <2> QED
    BY <1>3, <2>2, <2>3 DEF Submission, drainClaimedKey, queueGroups, drainWithout
<1>4. CASE parkLoop \/ resumeLoop \/ producers \/ breaker \/ start \/ stop \/ poll \/ discoveryFails \/ Discovery
  BY <1>4 DEF parkLoop, resumeLoop, producers, breaker, start, stop, poll, discoveryFails, Discovery, listPage,
              discovered, submitClaim, submitFresh, submitted, schedVars
<1> QED
  BY <1>1, <1>2, <1>3, <1>4 DEF Next

\* The page is listed from the claims and consumed from its head.
LEMMA TickTypesStep ==
  ASSUME ClaimTypes, TickTypes, Next PROVE TickTypes'
<1> USE BacklogAssumption DEF TickTypes, tickVars
<1>1. CASE listPage
  <2>1. Listed(cursor) \subseteq Keys
    BY DEF Listed, Pending, Scanned, After, ClaimTypes
  <2>2. Cardinality(Listed(cursor)) \in Nat
    BY <2>1, FS_Subset, FS_CardinalityType
  <2>3. page' \in Seq(Keys)
    <3>1. page' \in [1 .. Cardinality(Listed(cursor)) -> Keys]
      BY <1>1, <2>1 DEF listPage
    <3> HIDE DEF TickTypes
    <3> QED
      BY <2>2, <3>1, FunctionIsSequence
  <2>4. cursor' \in Nat
    BY <1>1, NextCursorIsNat DEF listPage, ClaimTypes
  <2> QED
    BY <1>1, <2>3, <2>4 DEF listPage
<1>2. CASE discoveryFails \/ discovered \/ submitted
  <2>1. ASSUME NEW c \in {cursor, before}, endTick(c), UNCHANGED <<stopped, open>> PROVE TickTypes'
    BY <2>1, EmptyPage DEF endTick
  <2>2. CASE discoveryFails
    BY <2>1, <2>2 DEF discoveryFails
  <2>3. CASE discovered
    BY <2>1, <2>3 DEF discovered, Fresh
  <2>4. CASE submitted
    BY <2>1, <2>4 DEF submitted
  <2> QED
    BY <1>2, <2>2, <2>3, <2>4
<1>3. CASE submitClaim
  <2>1. Tail(page) \in Seq(Keys)
    BY <1>3 DEF submitClaim
  <2> QED
    BY <1>3, <2>1 DEF submitClaim
<1>4. CASE start \/ stop \/ poll \/ breaker
  BY <1>4 DEF start, stop, poll, breaker, beginTick
<1>5. CASE parkLoop \/ resumeLoop \/ producers
  BY <1>5 DEF parkLoop, resumeLoop, producers, schedVars
<1>6. ASSUME NEW t \in Tasks, liveEnqueue(t) \/ startTask(t) \/ disarmTask(t) \/ endTask(t) \/ forgetTask(t)
      PROVE  TickTypes'
  BY <1>6 DEF liveEnqueue, startTask, disarmTask, endTask, forgetTask, schedVars
<1>7. ASSUME NEW k \in Keys, ingress(k) \/ Submission(k) PROVE TickTypes'
  BY <1>7 DEF ingress, Submission, claimForSubmit, drainClaimedKey, queueGroups, drainWithout, drainEnds
<1>8. CASE \E k \in Keys : submitFresh(k)
  BY <1>8 DEF submitFresh
<1> QED
  BY <1>1, <1>2, <1>3, <1>4, <1>5, <1>6, <1>7, <1>8 DEF Next, Discovery

\* Whatever becomes of a submission, it is its key's state that changes.
LEMMA KeyTypesStep ==
  ASSUME ClaimTypes, TickTypes, KeyTypes, Next PROVE KeyTypes'
<1> USE BacklogAssumption DEF KeyTypes, keyVars, SubStates
<1> DEFINE Waits == /\ state' \in [Keys -> {"none", "backoff", "denied"}]
                    /\ wait' \in [Keys -> Nat] /\ remaining' \in [Keys -> Nat] /\ delay' \in [Keys -> Nat]
           Submissions == sub' \in [Keys -> SubStates] /\ aborting' \subseteq InFlightKeys'
<1>1. ASSUME NEW k \in Keys,
             \/ forgetKey(k) \/ setBackoff(k)
             \/ \E left \in Nat, denied \in BOOLEAN : applyOutcome(k, left, denied)
      PROVE  Waits
  <2>1. Base \in Nat /\ Raised(k) \in Nat /\ RetryMax \in Nat
    BY DEF Base, Raised, Smaller
  <2>2. \A progressed \in BOOLEAN : backoffMs(k, progressed) \in Nat
    BY <2>1 DEF backoffMs
  <2>3. ASSUME NEW s \in {"none", "backoff", "denied"}, NEW w \in Nat, NEW r \in Nat, NEW d \in Nat,
               setKey(k, s, w, r, d)
        PROVE  Waits
    BY <2>3 DEF setKey
  <2> HIDE DEF Waits
  <2>4. CASE forgetKey(k) \/ setBackoff(k)
    BY <2>1, <2>2, <2>3, <2>4 DEF forgetKey, setBackoff
  <2>5. ASSUME NEW left \in Nat, NEW denied \in BOOLEAN, applyOutcome(k, left, denied) PROVE Waits
    <3>1. (Progressed(k, left) /\ ~denied) \in BOOLEAN
      BY DEF Progressed
    <3> QED
      BY <2>1, <2>2, <2>3, <2>5, <3>1 DEF applyOutcome
  <2> QED
    BY <1>1, <2>4, <2>5
<1>2. ASSUME NEW k \in Keys, Settled(k) PROVE Submissions
  BY <1>2 DEF Settled, InFlightKeys
<1>3. ASSUME NEW k \in Keys, NEW v \in SubStates \ {"none"}, sub' = [sub EXCEPT ![k] = v], UNCHANGED aborting
      PROVE  Submissions
  BY <1>3 DEF InFlightKeys
<1>4. ASSUME UNCHANGED <<sub, aborting>> PROVE Submissions
  BY <1>4 DEF InFlightKeys
<1>5. ASSUME NEW k \in Keys, Submission(k) PROVE Waits /\ Submissions
  <2>1. CASE claimForSubmit(k)
    <3> HIDE DEF Waits, Submissions
    <3>1. UNCHANGED keyVars => Waits
      BY DEF Waits
    <3> QED
      BY <1>1, <1>2, <1>3, <2>1, <3>1 DEF claimForSubmit
  <2>2. CASE drainClaimedKey(k)
    <3>1. Submissions
      BY <1>2, <1>3, <2>2 DEF drainClaimedKey
    <3> QED
      BY <2>2, <3>1 DEF drainClaimedKey
  <2>3. CASE queueGroups(k)
    <3>1. Submissions
      BY <1>3, <2>3 DEF queueGroups
    <3> QED
      BY <2>3, <3>1 DEF queueGroups
  <2>4. CASE drainWithout(k)
    <3> HIDE DEF Waits, Submissions
    <3>1. held[k] \in Nat /\ 0 \in Nat
      BY DEF ClaimTypes
    <3>2. \A denied \in BOOLEAN : (denied /\ held[k] > 0) \in BOOLEAN
      OBVIOUS
    <3> QED
      BY <1>1, <1>2, <2>4, <3>1, <3>2 DEF drainWithout
  <2>5. CASE drainEnds(k)
    <3> HIDE DEF Waits, Submissions
    <3>1. 0 .. held[k] \subseteq Nat
      BY DEF ClaimTypes
    <3>2. \A denied \in BOOLEAN, left \in Nat : (denied /\ left > 0) \in BOOLEAN
      OBVIOUS
    <3> QED
      BY <1>1, <1>2, <2>5, <3>1, <3>2 DEF drainEnds
  <2> QED
    BY <1>5, <2>1, <2>2, <2>3, <2>4, <2>5 DEF Submission
<1>6. CASE submitClaim
  <2>1. page # <<>> /\ Head(page) \in Keys /\ UNCHANGED <<aborting, keyVars>>
    BY <1>6 DEF submitClaim, TickTypes
  <2>2. Submissions
    BY <1>3, <1>4, <1>6, <2>1 DEF submitClaim
  <2> QED
    BY <2>1, <2>2
<1>7. ASSUME NEW k \in Keys, submitFresh(k) PROVE KeyTypes'
  <2>1. UNCHANGED <<aborting, keyVars>>
    BY <1>7 DEF submitFresh
  <2>2. Submissions
    BY <1>3, <1>4, <1>7, <2>1 DEF submitFresh
  <2> QED
    BY <2>1, <2>2
<1>8. CASE poll
  <2>1. Submissions
    BY <1>4, <1>8 DEF poll
  <2>2. wait' \in [Keys -> Nat] /\ UNCHANGED <<state, remaining, delay>>
    BY <1>8 DEF poll
  <2> QED
    BY <2>1, <2>2
<1>9. CASE stop
  BY <1>9 DEF stop, InFlightKeys
<1>10. ASSUME NEW t \in Tasks, liveEnqueue(t) \/ startTask(t) \/ disarmTask(t) \/ endTask(t) \/ forgetTask(t)
       PROVE  KeyTypes'
  <2>1. UNCHANGED <<sub, aborting, keyVars>>
    BY <1>10 DEF liveEnqueue, startTask, disarmTask, endTask, forgetTask, schedVars
  <2> QED
    BY <1>4, <2>1
<1>11. ASSUME \/ parkLoop \/ resumeLoop \/ producers \/ breaker \/ start \/ discoveryFails
              \/ listPage \/ discovered \/ submitted \/ \E k \in Keys : ingress(k)
       PROVE  KeyTypes'
  <2>1. UNCHANGED <<sub, aborting, keyVars>>
    BY <1>11 DEF parkLoop, resumeLoop, producers, breaker, start, discoveryFails, listPage, discovered, submitted,
                 ingress, schedVars
  <2> QED
    BY <1>4, <2>1
<1> QED
  BY <1>5, <1>6, <1>7, <1>8, <1>9, <1>10, <1>11 DEF Next, Discovery

\* The types are an invariant: counts of turns, waits and delays never go
\* below zero, the cursor is always a place in the listing, and only a
\* submission that is under way has an aborted controller.
THEOREM TypeCorrect == Spec => []TypeOK
<1> DEFINE Types == ClaimTypes /\ TickTypes /\ KeyTypes
<1>1. Init => Types
  <2> SUFFICES ASSUME Init PROVE Types
    OBVIOUS
  <2>1. ClaimTypes
    BY DEF Init, ClaimTypes
  <2>2. TickTypes
    BY EmptyPage DEF Init, TickTypes
  <2>3. Base \in Nat
    BY BacklogAssumption DEF Base, Smaller
  <2>4. KeyTypes
    BY <2>3 DEF Init, KeyTypes, SubStates, InFlightKeys
  <2> QED
    BY <2>1, <2>2, <2>4
<1>2. Types /\ [Next]_vars => Types'
  <2>1. Types /\ Next => Types'
    <3> SUFFICES ASSUME Types, Next PROVE Types'
      OBVIOUS
    <3> QED
      BY ClaimTypesStep, TickTypesStep, KeyTypesStep
  <2>2. Types /\ UNCHANGED vars => Types'
    BY DEF ClaimTypes, TickTypes, KeyTypes, InFlightKeys, vars, schedVars, claimVars, tickVars, keyVars
  <2> QED
    BY <2>1, <2>2
<1>3. Types /\ FenceInv => TypeOK
  BY DEF TypeOK, ClaimTypes, TickTypes, KeyTypes, SubStates, FenceInv, QueueInv
<1> HIDE DEF Types
<1> QED
  BY <1>1, <1>2, <1>3, FenceInvariant, PTL DEF Spec
=============================================================================
