------------------------- MODULE BufferDrainProofs -------------------------
(***************************************************************************)
(* What BufferDrain keeps, for every set of turns, every number of drain    *)
(* runs and every number of kills.                                          *)
(***************************************************************************)
EXTENDS BufferDrainInv, TLAPS

\* Every step of the owner keeps every variable in its type.
LEMMA OwnerTypes ==
  ASSUME TypeOK, SaveInv, OwnerNext
  PROVE  TypeOK'
<1> USE ConstantsAssumption DEF Entry, DrainClaimFile, disk, owner, drain, history,
        emptyEntry, entryFor, Pending, WithTurns, WithRetained, Subtract,
        task, AfterSave, TaskEnds, BeginSave
<1> USE DEF TypeOK, SaveInv
<1>1. CASE \E t \in Turns : BufferTurn(t)
  BY <1>1 DEF BufferTurn
<1>2. CASE \E t \in Turns : BufferAndTrigger(t)
  BY <1>2 DEF BufferAndTrigger
<1>3. CASE FlushPendingSave
  BY <1>3 DEF FlushPendingSave
<1>4. CASE SaveWrite
  BY <1>4 DEF SaveWrite
<1>5. CASE SaveLeaseRead
  BY <1>5 DEF SaveLeaseRead
<1>6. CASE SaveConsume
  BY <1>6 DEF SaveConsume
<1>7. CASE ReleaseClaim
  BY <1>7 DEF ReleaseClaim
<1>8. CASE ReleaseLease
  BY <1>8 DEF ReleaseLease
<1>9. CASE SaveMerge
  <2>1. claim' \in DrainClaimFile \cup {None}
    BY <1>9 DEF SaveMerge, mergeEntries
  <2>2. durable' \in SUBSET Turns /\ dropped' \in SUBSET Turns
    BY <1>9 DEF SaveMerge
  <2> QED
    BY <1>9, <2>1, <2>2 DEF SaveMerge
<1>10. CASE SaveFails
  BY <1>10 DEF SaveFails
<1>11. CASE ExtractGated
  BY <1>11 DEF ExtractGated
<1>12. CASE ExtractStart
  BY <1>12 DEF ExtractStart
<1>13. CASE ExtractDone
  BY <1>13 DEF ExtractDone
<1>14. CASE ExtractStops
  BY <1>14 DEF ExtractStops
<1>15. CASE DropFailedChunk
  <2>1. PICK chunk \in SUBSET xtodo :
          /\ settled' = settled \cup chunk
          /\ \E gone \in Matching(chunk) :
               mem' = [turns |-> entryFor(mem).turns \ gone,
                       retained |-> entryFor(mem).retained \ chunk]
          /\ IF mem' # entryFor(mem)
               THEN /\ dirty' = TRUE /\ BeginSave
                    /\ NextChunk(xtodo \ chunk, "dropping")
               ELSE TaskEnds /\ UNCHANGED <<dirty, opc>>
    BY <1>15 DEF DropFailedChunk, dropExtractionChunk
  <2>2. settled' \in SUBSET Turns /\ mem' \in Entry
    BY <2>1
  <2>3. /\ dirty' \in BOOLEAN /\ opc' \in {"idle", "write", "leaseRead", "merge"}
        /\ xpc' \in {"none", "dropping"} /\ xwin' \in SUBSET Turns
        /\ xtodo' \in SUBSET Turns /\ xchunk' \in SUBSET Turns
    <3>1. opc = "idle"
      BY <1>15 DEF DropFailedChunk
    <3> QED
      BY <2>1, <3>1 DEF NextChunk
  <2> QED
    BY <1>15, <2>2, <2>3 DEF DropFailedChunk
<1>16. CASE RetainDeferredTurns
  BY <1>16 DEF RetainDeferredTurns, Deferrable
<1>17. CASE ClearAfterExtraction
  <2>1. mem' \in Entry
    BY <1>17 DEF ClearAfterExtraction
  <2>2. /\ dirty' \in BOOLEAN /\ opc' \in {"idle", "write", "leaseRead", "merge"}
        /\ xpc' \in {"none", "clearing", "running"} /\ xwin' \in SUBSET Turns
        /\ xtodo' \in SUBSET Turns /\ xchunk' \in SUBSET Turns
    BY <1>17 DEF ClearAfterExtraction, NextChunk
  <2> QED
    BY <1>17, <2>1, <2>2 DEF ClearAfterExtraction
<1>18. CASE OwnerCrash
  <2>1. lock' \in Drainers \cup {Dead, None}
    BY <1>18 DEF OwnerCrash
  <2> QED
    BY <1>18, <2>1 DEF OwnerCrash
<1>19. CASE OwnerRestart
  BY <1>19 DEF OwnerRestart
<1> QED
  BY <1>1, <1>2, <1>3, <1>4, <1>5, <1>6, <1>7, <1>8, <1>9, <1>10, <1>11, <1>12, <1>13, <1>14, <1>15, <1>16, <1>17, <1>18, <1>19 DEF OwnerNext

\* Every step of a drain run keeps every variable in its type.
LEMMA DrainerTypes ==
  ASSUME TypeOK, LockInv, NEW d \in Drainers, DrainerNext(d)
  PROVE  TypeOK'
<1> USE ConstantsAssumption DEF Entry, DrainClaimFile, disk, owner, drain, history,
        emptyEntry, Pending, WithTurns, WithRetained, Goto, Discard, HasLease
<1> USE DEF TypeOK, Stages, LockInv, Writing
<1>1. CASE Start(d)
  <2>1. Goto(d, "claim") \/ Goto(d, "load")
    BY <1>1 DEF Start
  <2>2. pc' \in [Drainers -> Stages]
    BY <2>1
  <2> QED
    BY <1>1, <2>2 DEF Start
<1>2. CASE ClaimRename(d)
  BY <1>2 DEF ClaimRename
<1>3. CASE ClaimSkipped(d)
  BY <1>3 DEF ClaimSkipped
<1>4. CASE ClaimEmpty(d)
  BY <1>4 DEF ClaimEmpty
<1>5. CASE ClaimTaken(d)
  BY <1>5 DEF ClaimTaken
<1>6. CASE LoadClaim(d)
  <2>1. CASE claim = None
    <3>1. Goto(d, "idle") /\ seen' = seen
      BY <1>6, <2>1 DEF LoadClaim
    <3>2. pc' \in [Drainers -> Stages]
      BY <3>1
    <3> QED
      BY <1>6, <3>1, <3>2 DEF LoadClaim
  <2>2. CASE claim # None
    <3>1. seen' \in [Drainers -> Entry]
      BY <1>6, <2>2 DEF LoadClaim
    <3>2. pc' \in [Drainers -> Stages]
      BY <1>6, <2>2 DEF LoadClaim
    <3> QED
      BY <1>6, <2>2, <3>1, <3>2 DEF LoadClaim
  <2> QED
    BY <2>1, <2>2
<1>7. CASE Adopt(d)
  <2>1. CASE Pending(seen[d]) = {}
    <3>1. /\ seen' \in [Drainers -> Entry] /\ local' \in [Drainers -> Entry]
          /\ todo' \in [Drainers -> SUBSET Turns]
          /\ window' \in [Drainers -> SUBSET Turns]
      <4>1. Discard(d)
        BY <1>7, <2>1 DEF Adopt
      <4> QED
        BY <4>1
    <3>2. pc' \in [Drainers -> Stages]
      BY <1>7, <2>1 DEF Adopt
    <3> QED
      BY <1>7, <2>1, <3>1, <3>2 DEF Adopt
  <2>2. CASE Pending(seen[d]) # {}
    <3>1. local' = [local EXCEPT ![d] = seen[d]]
      BY <1>7, <2>2 DEF Adopt
    <3>2. todo' = [todo EXCEPT ![d] = seen[d].turns \cup seen[d].retained]
          /\ seen[d] # None
      BY <1>7, <2>2 DEF Adopt
    <3> QED
      BY <1>7, <2>2, <3>1, <3>2 DEF Adopt
  <2> QED
    BY <2>1, <2>2
<1>8. CASE AdoptBusy(d)
  BY <1>8 DEF AdoptBusy
<1>9. CASE ExtractChunk(d)
  BY <1>9 DEF ExtractChunk, Deferrable
<1>10. CASE SkipDenied(d)
  BY <1>10 DEF SkipDenied
<1>11. CASE WriteBegin(d)
  BY <1>11 DEF WriteBegin
<1>12. CASE WriteCommit(d)
  <2>1. claim' \in DrainClaimFile
    BY <1>12 DEF WriteCommit, ProgressBody, SeenRetained
  <2>2. CASE pc[d] = "retainWrite"
    <3>1. local' \in [Drainers -> Entry]
      BY <1>12, <2>2 DEF WriteCommit, AfterWrite
    <3>2. pc' \in [Drainers -> Stages]
      BY <1>12, <2>2 DEF WriteCommit, AfterWrite
    <3> QED
      BY <1>12, <2>1, <2>2, <3>1, <3>2 DEF WriteCommit, AfterWrite
  <2>3. CASE pc[d] = "clearWrite" /\ todo[d] # {}
    BY <1>12, <2>1, <2>3 DEF WriteCommit, AfterWrite
  <2>4. CASE pc[d] = "clearWrite" /\ todo[d] = {}
    <3>1. Goto(d, "settle") /\ Discard(d)
      BY <1>12, <2>4 DEF WriteCommit, AfterWrite
    <3>2. /\ seen' \in [Drainers -> Entry] /\ local' \in [Drainers -> Entry]
          /\ todo' \in [Drainers -> SUBSET Turns]
          /\ window' \in [Drainers -> SUBSET Turns]
          /\ pc' \in [Drainers -> Stages]
      BY <3>1
    <3> QED
      BY <1>12, <2>1, <3>2 DEF WriteCommit
  <2> QED
    BY <1>12, <2>2, <2>3, <2>4 DEF WriteCommit
<1>13. CASE WriteSkipped(d)
  <2>1. CASE pc[d] = "retain"
    <3>1. local' \in [Drainers -> Entry]
      <4>1. local' = [local EXCEPT ![d] = WithTurns(@, @.turns \ window[d])]
        BY <1>13, <2>1 DEF WriteSkipped, AfterWrite
      <4> QED
        BY <4>1
    <3>2. pc' \in [Drainers -> Stages]
      BY <1>13, <2>1 DEF WriteSkipped, AfterWrite
    <3> QED
      BY <1>13, <2>1, <3>1, <3>2 DEF WriteSkipped, AfterWrite
  <2>2. CASE pc[d] = "clear" /\ todo[d] # {}
    BY <1>13, <2>2 DEF WriteSkipped, AfterWrite
  <2>3. CASE pc[d] = "clear" /\ todo[d] = {}
    <3>1. Goto(d, "settle") /\ Discard(d)
      BY <1>13, <2>3 DEF WriteSkipped, AfterWrite
    <3>2. /\ seen' \in [Drainers -> Entry] /\ local' \in [Drainers -> Entry]
          /\ todo' \in [Drainers -> SUBSET Turns]
          /\ window' \in [Drainers -> SUBSET Turns]
          /\ pc' \in [Drainers -> Stages]
      BY <3>1
    <3> QED
      BY <1>13, <3>2 DEF WriteSkipped
  <2> QED
    BY <1>13, <2>1, <2>2, <2>3 DEF WriteSkipped
<1>14. CASE DrainStops(d)
  BY <1>14 DEF DrainStops
<1>15. CASE Settle(d)
  BY <1>15 DEF Settle
<1>16. CASE UnlinkLease(d)
  BY <1>16 DEF UnlinkLease
<1>17. CASE HeartbeatBegin(d)
  BY <1>17 DEF HeartbeatBegin
<1>18. CASE HeartbeatCommit(d)
  BY <1>18 DEF HeartbeatCommit
<1>19. CASE DrainerCrash(d)
  BY <1>19 DEF DrainerCrash
<1> QED
  BY <1>1, <1>2, <1>3, <1>4, <1>5, <1>6, <1>7, <1>8, <1>9, <1>10, <1>11, <1>12, <1>13, <1>14, <1>15, <1>16, <1>17, <1>18, <1>19 DEF DrainerNext

\* What follows a progress write: the verdict, the next chunk, or the clear.
LEMMA AfterWriteCases ==
  ASSUME NEW d \in Drainers, NEW stage, AfterWrite(d, stage)
  PROVE  \/ Goto(d, "settle") /\ Discard(d)
         \/ Goto(d, "drain") /\ UNCHANGED <<seen, local, window>>
         \/ /\ Goto(d, "clear")
            /\ local' = [local EXCEPT ![d] = WithTurns(@, @.turns \ window[d])]
            /\ UNCHANGED <<seen, window>>
  BY DEF AfterWrite

\* The owner touches nothing of a drain run, and the claim lock only when it
\* is killed inside its locked section.
LEMMA OwnerFrame ==
  ASSUME OwnerNext
  PROVE  /\ UNCHANGED <<pc, seen, local, todo, window, held, beat>>
         /\ lock' = lock \/ (lock = None /\ lock' = Dead)
         /\ lease' = lease \/ lease' = None
  BY DEF OwnerNext, BufferTurn, BufferAndTrigger, FlushPendingSave, SaveWrite, SaveLeaseRead,
         SaveConsume, ReleaseClaim, ReleaseLease, SaveMerge,
         SaveFails, ExtractGated, ExtractStart, ExtractDone,
         ExtractStops, DropFailedChunk, RetainDeferredTurns, ClearAfterExtraction,
         OwnerCrash, OwnerRestart,
         disk, drain, history

\* A drain run touches nothing of the owner.
LEMMA DrainerFrame ==
  ASSUME NEW d \in Drainers, DrainerNext(d)
  PROVE  UNCHANGED <<mem, dirty, opc, tomb, xpc, xwin, xtodo, xchunk,
                      durable, dropped>>
  BY DEF DrainerNext, Start, ClaimRename, ClaimSkipped, ClaimEmpty, ClaimTaken,
         LoadClaim, Adopt, AdoptBusy, ExtractChunk, SkipDenied,
         WriteBegin, WriteCommit, WriteSkipped, DrainStops, Settle,
         UnlinkLease, HeartbeatBegin, HeartbeatCommit, DrainerCrash,
         owner, history

\* The owner's save always has something to save.
LEMMA SaveStep ==
  ASSUME TypeOK, SaveInv, OwnerNext
  PROVE  SaveInv'
<1> USE ConstantsAssumption
        DEF SaveInv, TypeOK, disk, drain, history, Entry, BeginSave
<1>1. CASE \E t \in Turns : BufferTurn(t) \/ BufferAndTrigger(t)
  BY <1>1 DEF BufferTurn, BufferAndTrigger, WithTurns, entryFor, emptyEntry
<1>2. CASE FlushPendingSave
  BY <1>2 DEF FlushPendingSave
<1>3. CASE SaveWrite
  BY <1>3 DEF SaveWrite
<1>4. CASE SaveLeaseRead
  BY <1>4 DEF SaveLeaseRead
<1>5. CASE SaveConsume
  BY <1>5 DEF SaveConsume
<1>6. CASE ReleaseClaim
  BY <1>6 DEF ReleaseClaim
<1>7. CASE ReleaseLease
  BY <1>7 DEF ReleaseLease, Subtract
<1>8. CASE SaveMerge
  BY <1>8 DEF SaveMerge
<1>9. CASE SaveFails
  BY <1>9 DEF SaveFails
<1>10. CASE ExtractGated
  BY <1>10 DEF ExtractGated
<1>11. CASE ExtractStart
  BY <1>11 DEF ExtractStart
<1>12. CASE ExtractDone
  BY <1>12 DEF ExtractDone
<1>13. CASE ExtractStops
  BY <1>13 DEF ExtractStops
<1>14. CASE DropFailedChunk
  BY <1>14 DEF DropFailedChunk, dropExtractionChunk, Subtract, entryFor, emptyEntry
<1>15. CASE RetainDeferredTurns
  BY <1>15 DEF RetainDeferredTurns, Deferrable, WithRetained, entryFor, emptyEntry
<1>16. CASE ClearAfterExtraction
  BY <1>16 DEF ClearAfterExtraction, WithTurns, entryFor, emptyEntry
<1>17. CASE OwnerCrash
  BY <1>17 DEF OwnerCrash
<1>18. CASE OwnerRestart
  BY <1>18 DEF OwnerRestart
<1> QED
  BY <1>1, <1>2, <1>3, <1>4, <1>5, <1>6, <1>7, <1>8, <1>9, <1>10, <1>11, <1>12, <1>13, <1>14, <1>15, <1>16, <1>17, <1>18 DEF OwnerNext

\* A step of a drain run keeps the lock naming the only process inside a
\* locked section.
LEMMA LockStep ==
  ASSUME TypeOK, LockInv, NEW d \in Drainers, DrainerNext(d)
  PROVE  LockInv'
<1> USE ConstantsAssumption DEF LockInv, TypeOK, Stages, Writing, Locked, disk, Goto, HasLease
<1>1. CASE Start(d)
  BY <1>1 DEF Start
<1>2. CASE ClaimRename(d)
  BY <1>2 DEF ClaimRename
<1>3. CASE ClaimSkipped(d)
  BY <1>3 DEF ClaimSkipped
<1>4. CASE ClaimEmpty(d)
  BY <1>4 DEF ClaimEmpty
<1>5. CASE ClaimTaken(d)
  BY <1>5 DEF ClaimTaken
<1>6. CASE LoadClaim(d)
  BY <1>6 DEF LoadClaim
<1>7. CASE Adopt(d)
  BY <1>7 DEF Adopt
<1>8. CASE AdoptBusy(d)
  BY <1>8 DEF AdoptBusy
<1>9. CASE ExtractChunk(d)
  BY <1>9 DEF ExtractChunk
<1>10. CASE SkipDenied(d)
  BY <1>10 DEF SkipDenied
<1>11. CASE WriteBegin(d)
  BY <1>11 DEF WriteBegin
<1>12. CASE WriteCommit(d)
  BY <1>12 DEF WriteCommit, AfterWrite
<1>13. CASE WriteSkipped(d)
  BY <1>13 DEF WriteSkipped, AfterWrite
<1>14. CASE DrainStops(d)
  BY <1>14 DEF DrainStops
<1>15. CASE Settle(d)
  BY <1>15 DEF Settle
<1>16. CASE UnlinkLease(d)
  BY <1>16 DEF UnlinkLease
<1>17. CASE HeartbeatBegin(d)
  BY <1>17 DEF HeartbeatBegin
<1>18. CASE HeartbeatCommit(d)
  BY <1>18 DEF HeartbeatCommit
<1>19. CASE DrainerCrash(d)
  BY <1>19 DEF DrainerCrash
<1> QED
  BY <1>1, <1>2, <1>3, <1>4, <1>5, <1>6, <1>7, <1>8, <1>9, <1>10, <1>11, <1>12, <1>13, <1>14, <1>15, <1>16, <1>17, <1>18, <1>19 DEF DrainerNext

\* The part of the invariant that type correctness needs: a save has an entry
\* and a progress write has read a claim.
BaseInv == TypeOK /\ SaveInv /\ LockInv

\* Every step keeps BaseInv.
LEMMA BaseStep ==
  ASSUME BaseInv, [Next]_vars
  PROVE  BaseInv'
<1>1. CASE OwnerNext
  <2>1. LockInv'
    BY <1>1, OwnerFrame, ConstantsAssumption DEF BaseInv, LockInv, TypeOK
  <2> QED
    BY <1>1, <2>1, OwnerTypes, SaveStep DEF BaseInv
<1>2. CASE \E d \in Drainers : DrainerNext(d)
  <2>1. PICK d \in Drainers : DrainerNext(d)
    BY <1>2
  <2>2. SaveInv'
    BY <2>1, DrainerFrame DEF BaseInv, SaveInv
  <2> QED
    BY <2>1, <2>2, DrainerTypes, LockStep DEF BaseInv
<1>3. CASE BreakStaleLock
  BY <1>3, ConstantsAssumption
     DEF BreakStaleLock, BaseInv, TypeOK, SaveInv, LockInv, owner, drain, history
<1>4. CASE UNCHANGED vars
  BY <1>4 DEF vars, BaseInv, TypeOK, SaveInv, LockInv
<1> QED
  BY <1>1, <1>2, <1>3, <1>4 DEF Next

\* BaseInv holds initially.
LEMMA BaseInit ==
  ASSUME Init
  PROVE  BaseInv
<1>2. emptyEntry \in Entry
  BY DEF emptyEntry, Entry
<1>3. TypeOK
  BY <1>2 DEF Init, TypeOK, Stages
<1>4. SaveInv /\ LockInv
  BY ConstantsAssumption DEF Init, SaveInv, LockInv, Writing, Locked
<1> QED
  BY <1>3, <1>4 DEF BaseInv

\* Every variable keeps its type, for any number of turns, runs and kills: in
\* particular the claim file is always complete (mergeIntoClaim and writeEntry
\* never lose a list) and a save never runs without an entry to save.
THEOREM TypeCorrect == Spec => []TypeOK
<1>1. BaseInv => TypeOK
  BY DEF BaseInv
<1>2. BaseInv /\ [Next]_vars => BaseInv'
  BY BaseStep
<1> QED
  BY <1>1, <1>2, BaseInit, PTL DEF Spec

-----------------------------------------------------------------------------
(* The fence and the lock.                                                  *)

\* A progress write and a foreign lease never meet: adoption needs the lock.
LEMMA FenceStep ==
  ASSUME TypeOK, LockInv, ProgressIsFenced, NEW d \in Drainers, DrainerNext(d)
  PROVE  ProgressIsFenced'
<1> USE ConstantsAssumption DEF ProgressIsFenced, LockInv, TypeOK, Stages,
        Writing, Locked, disk, Goto, HasLease
<1>1. CASE Start(d)
  BY <1>1 DEF Start
<1>2. CASE ClaimRename(d)
  BY <1>2 DEF ClaimRename
<1>3. CASE ClaimSkipped(d)
  BY <1>3 DEF ClaimSkipped
<1>4. CASE ClaimEmpty(d)
  BY <1>4 DEF ClaimEmpty
<1>5. CASE ClaimTaken(d)
  BY <1>5 DEF ClaimTaken
<1>6. CASE LoadClaim(d)
  BY <1>6 DEF LoadClaim
<1>7. CASE Adopt(d)
  BY <1>7 DEF Adopt
<1>8. CASE AdoptBusy(d)
  BY <1>8 DEF AdoptBusy
<1>9. CASE ExtractChunk(d)
  BY <1>9 DEF ExtractChunk
<1>10. CASE SkipDenied(d)
  BY <1>10 DEF SkipDenied
<1>11. CASE WriteBegin(d)
  BY <1>11 DEF WriteBegin
<1>12. CASE WriteCommit(d)
  BY <1>12 DEF WriteCommit, AfterWrite
<1>13. CASE WriteSkipped(d)
  BY <1>13 DEF WriteSkipped, AfterWrite
<1>14. CASE DrainStops(d)
  BY <1>14 DEF DrainStops
<1>15. CASE Settle(d)
  BY <1>15 DEF Settle
<1>16. CASE UnlinkLease(d)
  BY <1>16 DEF UnlinkLease
<1>17. CASE HeartbeatBegin(d)
  BY <1>17 DEF HeartbeatBegin
<1>18. CASE HeartbeatCommit(d)
  BY <1>18 DEF HeartbeatCommit
<1>19. CASE DrainerCrash(d)
  BY <1>19 DEF DrainerCrash
<1> QED
  BY <1>1, <1>2, <1>3, <1>4, <1>5, <1>6, <1>7, <1>8, <1>9, <1>10, <1>11, <1>12, <1>13, <1>14, <1>15, <1>16, <1>17, <1>18, <1>19 DEF DrainerNext

\* Settling is for good.
LEMMA SettledGrows ==
  ASSUME [Next]_vars
  PROVE  settled \subseteq settled' /\ dropped \subseteq dropped'
<1>1. CASE OwnerNext
  BY <1>1 DEF OwnerNext, BufferTurn, BufferAndTrigger, FlushPendingSave, SaveWrite, SaveLeaseRead,
         SaveConsume, ReleaseClaim, ReleaseLease, SaveMerge,
         SaveFails, ExtractGated, ExtractStart, ExtractDone,
         ExtractStops, DropFailedChunk, RetainDeferredTurns, ClearAfterExtraction,
         OwnerCrash, OwnerRestart,
         drain, history
<1>2. CASE \E d \in Drainers : DrainerNext(d)
  BY <1>2 DEF DrainerNext, Start, ClaimRename, ClaimSkipped, ClaimEmpty, ClaimTaken,
         LoadClaim, Adopt, AdoptBusy, ExtractChunk, SkipDenied,
         WriteBegin, WriteCommit, WriteSkipped, DrainStops, Settle,
         UnlinkLease, HeartbeatBegin, HeartbeatCommit, DrainerCrash,
         owner, history
<1>3. CASE BreakStaleLock \/ UNCHANGED vars
  BY <1>3 DEF BreakStaleLock, vars, history
<1> QED
  BY <1>1, <1>2, <1>3 DEF Next

\* What a progress write does to the claim it read: tombstones only grow and
\* hold settled turns, and a turn leaves the claim only when it is settled.
LEMMA ProgressSound ==
  ASSUME TypeOK, LockInv, SettledInv, RunInv,
         NEW d \in Drainers, WriteCommit(d)
  PROVE  /\ held # None /\ claim' \in DrainClaimFile /\ claim' # None
         /\ Gone(held) \subseteq Gone(claim')
         /\ Gone(claim') \subseteq settled
         /\ RetainedOf(claim') \subseteq settled
         /\ Pending(held) \ Pending(claim') \subseteq settled
         /\ Pending(claim') \subseteq Pending(held) \cup settled \cup local[d].turns
<1>1. pc[d] \in Writing /\ claim' = ProgressBody(held, local[d], seen[d])
  BY DEF WriteCommit, Writing
<1>2. held # None /\ held \in DrainClaimFile
  BY <1>1 DEF LockInv, TypeOK
<1>3. local[d] \in Entry /\ seen[d] \in Entry
  BY DEF TypeOK
<1>4. claim' \in DrainClaimFile
  BY <1>1, <1>2, <1>3 DEF ProgressBody, SeenRetained, DrainClaimFile, Entry
<1>5. claim' # None
  BY <1>4, ConstantsAssumption DEF DrainClaimFile
<1>6. seen[d].turns \ local[d].turns \subseteq settled
  BY <1>1 DEF RunInv, Writing
<1>7. /\ local[d].retained \subseteq settled /\ held.retained \subseteq settled
      /\ held.drained \subseteq settled /\ held.drainedRetained \subseteq settled
  BY <1>2 DEF SettledInv, RetainedOf, Gone
<1>8. Gone(held) \subseteq Gone(claim') /\ Gone(claim') \subseteq settled
  BY <1>1, <1>2, <1>5, <1>6, <1>7 DEF ProgressBody, Gone
<1>9. RetainedOf(claim') \subseteq settled
  BY <1>1, <1>2, <1>5, <1>7 DEF ProgressBody, RetainedOf
<1>10. Pending(held) \ Pending(claim') \subseteq settled
  BY <1>1, <1>2, <1>5, <1>6, <1>7 DEF ProgressBody, Pending
<1>11. Pending(claim') \subseteq Pending(held) \cup settled \cup local[d].turns
  BY <1>1, <1>2, <1>5, <1>7 DEF ProgressBody, Pending
<1> QED
  BY <1>2, <1>4, <1>5, <1>8, <1>9, <1>10, <1>11

\* The only steps of a drain run that rewrite the claim file.
LEMMA DrainerClaimWriters ==
  ASSUME NEW d \in Drainers, DrainerNext(d)
  PROVE  claim' = claim \/ ClaimRename(d) \/ ClaimEmpty(d) \/ WriteCommit(d)
  BY DEF DrainerNext, Start, ClaimSkipped, ClaimTaken, LoadClaim, Adopt,
         AdoptBusy, ExtractChunk, SkipDenied, WriteBegin, WriteSkipped,
         DrainStops, Settle, UnlinkLease, HeartbeatBegin, HeartbeatCommit,
         DrainerCrash, disk

\* The only steps of the owner that rewrite the claim file.
LEMMA OwnerClaimWriters ==
  ASSUME OwnerNext
  PROVE  claim' = claim \/ ReleaseClaim \/ SaveMerge
  BY DEF OwnerNext, BufferTurn, BufferAndTrigger, FlushPendingSave,
         SaveWrite, SaveLeaseRead, SaveConsume, ReleaseLease, SaveFails,
         ExtractGated, ExtractStart, ExtractDone, ExtractStops,
         DropFailedChunk, RetainDeferredTurns, ClearAfterExtraction,
         OwnerCrash, OwnerRestart, disk

\* A turn leaves the claim only when it is settled, whoever writes.
LEMMA ClaimKept ==
  ASSUME IInv, [Next]_vars
  PROVE  Pending(claim) \ Pending(claim') \subseteq settled
<1>1. CASE claim' = claim
  BY <1>1
<1>2. CASE ReleaseClaim
  BY <1>2 DEF ReleaseClaim, IInv, ConsumeInv
<1>3. CASE SaveMerge
  <2>1. mem # None /\ mem \in Entry
    BY <1>3 DEF SaveMerge, IInv, SaveInv, TypeOK
  <2>2. CASE claim = None
    BY <1>3, <2>2 DEF SaveMerge, Pending
  <2>3. CASE claim # None
    <3>1. claim \in DrainClaimFile /\ claim' = mergeEntries(claim, mem)
      BY <1>3, <2>3 DEF SaveMerge, IInv, TypeOK
    <3>2. claim' \in DrainClaimFile
      BY <2>1, <3>1 DEF mergeEntries, DrainClaimFile, Entry
    <3>3. claim' # None
      BY <3>2, ConstantsAssumption DEF DrainClaimFile
    <3>4. claim.drained \cup claim.drainedRetained \subseteq settled
      BY <2>3 DEF IInv, SettledInv, Gone
    <3> QED
      BY <2>3, <3>1, <3>3, <3>4 DEF mergeEntries, Pending
  <2> QED
    BY <2>2, <2>3
<1>4. ASSUME NEW d \in Drainers, ClaimRename(d)
      PROVE  Pending(claim) \ Pending(claim') \subseteq settled
  BY <1>4 DEF ClaimRename, Pending
<1>5. ASSUME NEW d \in Drainers, ClaimEmpty(d)
      PROVE  Pending(claim) \ Pending(claim') \subseteq settled
  BY <1>5 DEF ClaimEmpty
<1>6. ASSUME NEW d \in Drainers, WriteCommit(d)
      PROVE  Pending(claim) \ Pending(claim') \subseteq settled
  <2>1. claim \in {held, None}
    BY <1>6, ProgressSound DEF IInv, ProgressBaseIsCurrent
  <2> QED
    BY <1>6, <2>1, ProgressSound DEF IInv, Pending
<1>7. BreakStaleLock \/ UNCHANGED vars => claim' = claim
  BY DEF BreakStaleLock, vars
<1> QED
  BY <1>1, <1>2, <1>3, <1>4, <1>5, <1>6, <1>7, DrainerClaimWriters,
     OwnerClaimWriters DEF Next

\* A claim just renamed into place stays there, without tombstone, until its
\* run has read it back: every other writer needs the lock.
LEMMA ReadbackStep ==
  ASSUME IInv, [Next]_vars
  PROVE  ReadbackInv'
<1> USE ConstantsAssumption
<1>1. CASE OwnerNext
  <2>1. pc' = pc
    BY <1>1, OwnerFrame
  <2>2. SUFFICES ASSUME NEW e \in Drainers, pc[e] = "readback"
                 PROVE  claim' # None /\ Gone(claim') = {}
    BY <2>1 DEF ReadbackInv
  <2>3. claim # None /\ Gone(claim) = {} /\ lock = e
    BY <2>2 DEF IInv, ReadbackInv, LockInv, Locked
  <2>4. ~ReleaseClaim
    BY <2>3 DEF ReleaseClaim, IInv, ConsumeInv
  <2>5. ~SaveMerge
    BY <2>3 DEF SaveMerge
  <2> QED
    BY <1>1, <2>3, <2>4, <2>5, OwnerClaimWriters
<1>2. ASSUME NEW d \in Drainers, DrainerNext(d)
      PROVE  ReadbackInv'
  <2>1. CASE ClaimRename(d)
    <3>1. session \in Entry
      BY <2>1 DEF ClaimRename, IInv, TypeOK
    <3>2. claim' \in DrainClaimFile
      BY <2>1, <3>1 DEF ClaimRename, DrainClaimFile, Entry
    <3>3. claim' # None
      BY <3>2 DEF DrainClaimFile
    <3> QED
      BY <2>1, <3>3 DEF ClaimRename, ReadbackInv, Gone
  <2>2. CASE ~ClaimRename(d)
    <3>1. SUFFICES ASSUME NEW e \in Drainers, pc'[e] = "readback"
                   PROVE  claim' # None /\ Gone(claim') = {}
      BY DEF ReadbackInv
    <3>2. pc[e] = "readback"
      BY <1>2, <2>2, <3>1 DEF DrainerNext, Start, ClaimSkipped, ClaimEmpty,
         ClaimTaken, LoadClaim, Adopt, AdoptBusy, ExtractChunk, SkipDenied,
         WriteBegin, WriteCommit, WriteSkipped, AfterWrite, DrainStops, Settle,
         UnlinkLease, HeartbeatBegin, HeartbeatCommit, DrainerCrash, Goto,
         IInv, TypeOK
    <3>3. claim # None /\ Gone(claim) = {} /\ lock = e
      BY <3>2 DEF IInv, ReadbackInv, LockInv, Locked
    <3>4. ~ClaimEmpty(d)
      BY <3>1, <3>3 DEF ClaimEmpty, Goto, IInv, LockInv, TypeOK, Locked
    <3>5. ~WriteCommit(d)
      BY <3>2, <3>3 DEF WriteCommit, IInv, LockInv, Locked, Writing
    <3> QED
      BY <1>2, <2>2, <3>3, <3>4, <3>5, DrainerClaimWriters
  <2> QED
    BY <2>1, <2>2
<1>3. CASE BreakStaleLock \/ UNCHANGED vars
  BY <1>3 DEF BreakStaleLock, vars, drain, IInv, ReadbackInv
<1> QED
  BY <1>1, <1>2, <1>3 DEF Next

\* A tombstone the owner is consuming stays finished: nobody adds an
\* unsettled turn to it.
LEMMA ConsumeStep ==
  ASSUME IInv, [Next]_vars
  PROVE  ConsumeInv'
<1>1. CASE OwnerNext
  <2>1. SUFFICES ASSUME opc' \in {"leaseRead", "consume", "unlinkClaim"}
                 PROVE  /\ claim' = claim /\ settled \subseteq settled'
                        /\ opc \in {"leaseRead", "consume", "unlinkClaim"}
                           \/ (claim # None /\ Gone(claim) # {} /\ Pending(claim) = {})
    BY DEF IInv, ConsumeInv
  <2>2. ~ReleaseClaim /\ ~SaveMerge
    BY <2>1 DEF ReleaseClaim, SaveMerge
  <2>3. claim' = claim /\ settled \subseteq settled'
    BY <1>1, <2>2, OwnerClaimWriters, SettledGrows DEF Next
  <2>4. ASSUME BeginSave
        PROVE  claim # None /\ Gone(claim) # {} /\ Pending(claim) = {}
    BY <2>1, <2>4 DEF BeginSave
  <2>5. opc \in {"leaseRead", "consume", "unlinkClaim"} \/ BeginSave
    BY <1>1, <2>1 DEF OwnerNext, BufferTurn, BufferAndTrigger,
       FlushPendingSave, SaveWrite, SaveLeaseRead, SaveConsume,
       ReleaseClaim, ReleaseLease, SaveMerge, SaveFails, ExtractGated,
       ExtractStart, ExtractDone, ExtractStops, DropFailedChunk,
       RetainDeferredTurns, ClearAfterExtraction, OwnerCrash, OwnerRestart
  <2> QED
    BY <2>3, <2>4, <2>5
<1>2. ASSUME NEW d \in Drainers, DrainerNext(d)
      PROVE  ConsumeInv'
  <2>1. SUFFICES ASSUME opc \in {"leaseRead", "consume", "unlinkClaim"}
                 PROVE  /\ claim' # None /\ Gone(claim') # {}
                        /\ Pending(claim') \subseteq settled'
    BY <1>2, DrainerFrame DEF ConsumeInv
  <2>2. claim # None /\ Gone(claim) # {} /\ Pending(claim) \subseteq settled
    BY <2>1 DEF IInv, ConsumeInv
  <2>3. settled \subseteq settled'
    BY <1>2, SettledGrows DEF Next
  <2>4. ~ClaimRename(d) /\ ~ClaimEmpty(d)
    BY <2>2 DEF ClaimRename, ClaimEmpty, IInv, ReadbackInv
  <2>5. CASE WriteCommit(d)
    <3>1. claim = held
      BY <2>2, <2>5, ProgressSound DEF IInv, ProgressBaseIsCurrent
    <3>2. local[d].turns \subseteq settled
      BY <2>2 DEF IInv, RunInv
    <3> QED
      BY <2>2, <2>3, <2>5, <3>1, <3>2, ProgressSound DEF IInv
  <2> QED
    BY <1>2, <2>2, <2>3, <2>4, <2>5, DrainerClaimWriters
<1>3. CASE BreakStaleLock \/ UNCHANGED vars
  BY <1>3 DEF BreakStaleLock, vars, owner, history, IInv, ConsumeInv
<1> QED
  BY <1>1, <1>2, <1>3 DEF Next

\* Whatever the claim keeps as retained or as drained is settled.
LEMMA ClaimSettled ==
  ASSUME IInv, [Next]_vars
  PROVE  RetainedOf(claim') \subseteq settled' /\ Gone(claim') \subseteq settled'
<1>1. settled \subseteq settled'
  BY SettledGrows
<1>2. RetainedOf(claim) \subseteq settled /\ Gone(claim) \subseteq settled
  BY DEF IInv, SettledInv
<1>3. CASE ReleaseClaim
  BY <1>3 DEF ReleaseClaim, RetainedOf, Gone
<1>4. CASE SaveMerge
  <2>1. CASE claim = None
    BY <1>1, <1>2, <1>4, <2>1 DEF SaveMerge
  <2>2. CASE claim # None
    <3>1. mem # None
      BY <1>4 DEF SaveMerge, IInv, SaveInv
    <3>2. claim' = mergeEntries(claim, mem)
      BY <1>4, <2>2 DEF SaveMerge
    <3>3. /\ mem.retained \subseteq settled /\ claim.retained \subseteq settled
          /\ claim.drained \cup claim.drainedRetained \subseteq settled
      BY <2>2, <3>1 DEF IInv, SettledInv, RetainedOf, Gone
    <3> QED
      BY <1>1, <3>2, <3>3 DEF mergeEntries, RetainedOf, Gone
  <2> QED
    BY <2>1, <2>2
<1>5. ASSUME NEW d \in Drainers, ClaimRename(d)
      PROVE  RetainedOf(claim') \subseteq settled' /\ Gone(claim') \subseteq settled'
  BY <1>1, <1>5 DEF ClaimRename, IInv, SettledInv, RetainedOf, Gone
<1>6. ASSUME NEW d \in Drainers, ClaimEmpty(d)
      PROVE  RetainedOf(claim') \subseteq settled' /\ Gone(claim') \subseteq settled'
  BY <1>6 DEF ClaimEmpty, RetainedOf, Gone
<1>7. ASSUME NEW d \in Drainers, WriteCommit(d)
      PROVE  RetainedOf(claim') \subseteq settled' /\ Gone(claim') \subseteq settled'
  BY <1>1, <1>7, ProgressSound DEF IInv
<1>8. BreakStaleLock \/ UNCHANGED vars => claim' = claim
  BY DEF BreakStaleLock, vars
<1> QED
  BY <1>1, <1>2, <1>3, <1>4, <1>5, <1>6, <1>7, <1>8, DrainerClaimWriters,
     OwnerClaimWriters DEF Next

\* The retained copies of the session file and of the owner's memory, the
\* tombstone it read and the window it extracted are settled.
LEMMA OwnerSettled ==
  ASSUME IInv, OwnerNext
  PROVE  /\ RetainedOf(session') \subseteq settled'
         /\ RetainedOf(mem') \subseteq settled'
         /\ tomb' \subseteq settled'
         /\ xchunk' \subseteq settled'
<1> USE ConstantsAssumption DEF RetainedOf, history, task, TaskEnds
<1>1. /\ RetainedOf(session) \subseteq settled
      /\ RetainedOf(mem) \subseteq settled
      /\ Gone(claim) \subseteq settled
      /\ tomb \subseteq settled
      /\ xchunk \subseteq settled
  BY DEF IInv, SettledInv
<1>2. mem \in Entry \cup {None} /\ (opc \notin {"idle", "down"} => mem # None)
  BY DEF IInv, TypeOK, SaveInv
<1>3. CASE \E t \in Turns : BufferTurn(t) \/ BufferAndTrigger(t)
  BY <1>1, <1>2, <1>3 DEF BufferTurn, BufferAndTrigger, WithTurns, entryFor,
     emptyEntry, disk
<1>4. CASE FlushPendingSave
  BY <1>1, <1>2, <1>4 DEF FlushPendingSave, disk
<1>5. CASE SaveWrite
  BY <1>1, <1>2, <1>5 DEF SaveWrite
<1>6. CASE SaveLeaseRead
  BY <1>1, <1>2, <1>6 DEF SaveLeaseRead, Gone, disk
<1>7. CASE SaveConsume
  BY <1>1, <1>2, <1>7 DEF SaveConsume, Subtract
<1>8. CASE ReleaseClaim
  BY <1>1, <1>2, <1>8 DEF ReleaseClaim
<1>9. CASE ReleaseLease
  BY <1>1, <1>2, <1>9 DEF ReleaseLease, Subtract
<1>10. CASE SaveMerge
  BY <1>1, <1>2, <1>10 DEF SaveMerge
<1>11. CASE SaveFails
  BY <1>1, <1>2, <1>11 DEF SaveFails, disk
<1>12. CASE ExtractGated
  BY <1>1, <1>2, <1>12 DEF ExtractGated, disk
<1>13. CASE ExtractStart
  BY <1>1, <1>2, <1>13 DEF ExtractStart, disk
<1>14. CASE ExtractDone
  BY <1>1, <1>2, <1>14 DEF ExtractDone, disk
<1>15. CASE ExtractStops
  BY <1>1, <1>2, <1>15 DEF ExtractStops, disk
<1>16. CASE DropFailedChunk
  BY <1>1, <1>2, <1>16 DEF DropFailedChunk, dropExtractionChunk, NextChunk, entryFor, emptyEntry, disk
<1>17. CASE RetainDeferredTurns
  BY <1>1, <1>2, <1>17 DEF RetainDeferredTurns, Deferrable, WithRetained, entryFor, emptyEntry, disk
<1>18. CASE ClearAfterExtraction
  BY <1>1, <1>2, <1>18 DEF ClearAfterExtraction, NextChunk, WithTurns, entryFor, emptyEntry, disk
<1>19. CASE OwnerCrash
  BY <1>1, <1>2, <1>19 DEF OwnerCrash
<1>20. CASE OwnerRestart
  BY <1>1, <1>2, <1>20 DEF OwnerRestart, disk
<1> QED
  BY <1>3, <1>4, <1>5, <1>6, <1>7, <1>8, <1>9, <1>10, <1>11, <1>12, <1>13, <1>14, <1>15, <1>16, <1>17, <1>18, <1>19, <1>20 DEF OwnerNext

\* The retained copies and windows of the runs, and the claim a progress write
\* has read, are settled.
LEMMA RunSettled ==
  ASSUME IInv, NEW d \in Drainers, DrainerNext(d)
  PROVE  /\ RetainedOf(held') \subseteq settled' /\ Gone(held') \subseteq settled'
         /\ \A e \in Drainers : /\ seen'[e].retained \subseteq settled'
                                /\ local'[e].retained \subseteq settled'
                                /\ window'[e] \subseteq settled'
<1> USE DEF TypeOK, Entry, history
<1>1. TypeOK
  BY DEF IInv
<1>2. /\ RetainedOf(claim) \subseteq settled /\ Gone(claim) \subseteq settled
      /\ RetainedOf(held) \subseteq settled /\ Gone(held) \subseteq settled
      /\ \A e \in Drainers : /\ seen[e].retained \subseteq settled
                             /\ local[e].retained \subseteq settled
                             /\ window[e] \subseteq settled
  BY DEF IInv, SettledInv
<1>3. CASE Start(d)
  BY <1>1, <1>2, <1>3 DEF Start
<1>4. CASE ClaimRename(d)
  BY <1>1, <1>2, <1>4 DEF ClaimRename
<1>5. CASE ClaimSkipped(d)
  BY <1>1, <1>2, <1>5 DEF ClaimSkipped
<1>6. CASE ClaimEmpty(d)
  BY <1>1, <1>2, <1>6 DEF ClaimEmpty
<1>7. CASE ClaimTaken(d)
  BY <1>1, <1>2, <1>7 DEF ClaimTaken
<1>8. CASE LoadClaim(d)
  BY <1>1, <1>2, <1>8 DEF LoadClaim, RetainedOf
<1>9. CASE Adopt(d)
  <2>1. CASE Pending(seen[d]) = {}
    <3>1. Discard(d) /\ held' = held /\ settled' = settled
      BY <1>9, <2>1 DEF Adopt
    <3> QED
      BY <1>1, <1>2, <3>1 DEF Discard, emptyEntry
  <2>2. CASE Pending(seen[d]) # {}
    <3>1. /\ local' = [local EXCEPT ![d] = seen[d]]
          /\ UNCHANGED <<seen, window, held, settled>>
      BY <1>9, <2>2 DEF Adopt
    <3> QED
      BY <1>1, <1>2, <3>1
  <2> QED
    BY <2>1, <2>2
<1>10. CASE AdoptBusy(d)
  BY <1>1, <1>2, <1>10 DEF AdoptBusy, emptyEntry
<1>11. CASE ExtractChunk(d)
  BY <1>1, <1>2, <1>11 DEF ExtractChunk, Deferrable, WithRetained
<1>12. CASE SkipDenied(d)
  BY <1>1, <1>2, <1>12 DEF SkipDenied
<1>13. CASE WriteBegin(d)
  BY <1>1, <1>2, <1>13 DEF WriteBegin
<1>14. CASE WriteCommit(d) \/ WriteSkipped(d)
  <2>1. AfterWrite(d, pc[d]) /\ held' \in {held, None} /\ settled' = settled
    BY <1>14 DEF WriteCommit, WriteSkipped
  <2>2. CASE Discard(d)
    BY <1>1, <1>2, <2>1, <2>2 DEF Discard, emptyEntry, RetainedOf, Gone
  <2>3. CASE UNCHANGED <<seen, local, window>>
    BY <1>1, <1>2, <2>1, <2>3 DEF RetainedOf, Gone
  <2>4. CASE /\ local' = [local EXCEPT ![d] = WithTurns(@, @.turns \ window[d])]
             /\ UNCHANGED <<seen, window>>
    <3>1. \A e \in Drainers : local'[e].retained = local[e].retained
      BY <1>1, <2>4 DEF WithTurns
    <3> QED
      BY <1>1, <1>2, <2>1, <2>4, <3>1 DEF RetainedOf, Gone
  <2> QED
    BY <2>1, <2>2, <2>3, <2>4, AfterWriteCases
<1>16. CASE DrainStops(d)
  BY <1>1, <1>2, <1>16 DEF DrainStops, Discard, emptyEntry
<1>17. CASE Settle(d)
  BY <1>1, <1>2, <1>17 DEF Settle
<1>18. CASE UnlinkLease(d)
  BY <1>1, <1>2, <1>18 DEF UnlinkLease
<1>19. CASE HeartbeatBegin(d)
  BY <1>1, <1>2, <1>19 DEF HeartbeatBegin
<1>20. CASE HeartbeatCommit(d)
  BY <1>1, <1>2, <1>20 DEF HeartbeatCommit
<1>21. CASE DrainerCrash(d)
  BY <1>1, <1>2, <1>21 DEF DrainerCrash, Discard, emptyEntry, RetainedOf, Gone
<1> QED
  BY <1>3, <1>4, <1>5, <1>6, <1>7, <1>8, <1>9, <1>10, <1>11, <1>12, <1>13, <1>14, <1>16, <1>17, <1>18, <1>19, <1>20, <1>21 DEF DrainerNext

\* Retained copies, tombstones and extracted windows stay settled.
LEMMA SettledStep ==
  ASSUME IInv, [Next]_vars
  PROVE  SettledInv'
<1>1. settled \subseteq settled'
  BY SettledGrows
<1>2. RetainedOf(claim') \subseteq settled' /\ Gone(claim') \subseteq settled'
  BY ClaimSettled
<1>3. CASE OwnerNext
  <2>1. UNCHANGED <<seen, local, window, held>>
    BY <1>3, OwnerFrame
  <2> QED
    BY <1>1, <1>2, <1>3, <2>1, OwnerSettled DEF IInv, SettledInv
<1>4. ASSUME NEW d \in Drainers, DrainerNext(d)
      PROVE  SettledInv'
  <2>1. UNCHANGED <<mem, tomb, xchunk>>
    BY <1>4, DrainerFrame
  <2>2. session' = session \/ session' = None
    BY <1>4 DEF DrainerNext, Start, ClaimRename, ClaimSkipped, ClaimEmpty,
       ClaimTaken, LoadClaim, Adopt, AdoptBusy, ExtractChunk, SkipDenied,
       WriteBegin, WriteCommit, WriteSkipped, DrainStops, Settle, UnlinkLease,
       HeartbeatBegin, HeartbeatCommit, DrainerCrash, disk
  <2>3. RetainedOf(session') \subseteq settled'
    BY <1>1, <2>2 DEF IInv, SettledInv, RetainedOf
  <2> QED
    BY <1>1, <1>2, <1>4, <2>1, <2>3, RunSettled DEF IInv, SettledInv
<1>5. CASE BreakStaleLock \/ UNCHANGED vars
  BY <1>5 DEF BreakStaleLock, vars, owner, drain, history, IInv, SettledInv
<1> QED
  BY <1>3, <1>4, <1>5 DEF Next

\* A run's snapshot and remainder stay covered by the claim and by what is
\* settled.
LEMMA RunInvStep ==
  ASSUME IInv, [Next]_vars
  PROVE  RunInv'
<1>1. settled \subseteq settled' /\ Pending(claim) \subseteq Pending(claim') \cup settled
  BY SettledGrows, ClaimKept
<1>2. CASE OwnerNext
  BY <1>1, <1>2, OwnerFrame DEF IInv, RunInv
<1>3. ASSUME NEW d \in Drainers, DrainerNext(d)
      PROVE  RunInv'
  <2>1. TypeOK /\ RunInv
    BY DEF IInv
  <2>2. window[d] \subseteq settled
    BY DEF IInv, SettledInv
  <2> USE DEF TypeOK, Entry, RunInv, Goto
  <2>3. CASE Start(d)
    BY <1>1, <2>1, <2>2, <2>3 DEF Start
  <2>4. CASE ClaimRename(d)
    BY <1>1, <2>1, <2>2, <2>4 DEF ClaimRename
  <2>5. CASE ClaimSkipped(d)
    BY <1>1, <2>1, <2>2, <2>5 DEF ClaimSkipped
  <2>6. CASE ClaimEmpty(d)
    BY <1>1, <2>1, <2>2, <2>6 DEF ClaimEmpty
  <2>7. CASE ClaimTaken(d)
    BY <1>1, <2>1, <2>2, <2>7 DEF ClaimTaken
  <2>8. CASE LoadClaim(d)
    BY <1>1, <2>1, <2>2, <2>8 DEF LoadClaim, Pending, disk
  <2>9. CASE Adopt(d)
    <3>1. CASE Pending(seen[d]) = {}
      <4>1. Discard(d) /\ Goto(d, "settle")
        BY <2>9, <3>1 DEF Adopt
      <4> QED
        BY <1>1, <2>1, <4>1 DEF Discard, emptyEntry
    <3>2. CASE Pending(seen[d]) # {}
      <4>1. local' = [local EXCEPT ![d] = seen[d]] /\ seen' = seen /\ Goto(d, "drain")
        BY <2>9, <3>2 DEF Adopt
      <4> QED
        BY <1>1, <2>1, <4>1
    <3> QED
      BY <3>1, <3>2
  <2>10. CASE AdoptBusy(d)
    BY <1>1, <2>1, <2>2, <2>10 DEF AdoptBusy, emptyEntry
  <2>11. CASE ExtractChunk(d)
    BY <1>1, <2>1, <2>2, <2>11 DEF ExtractChunk, WithRetained
  <2>12. CASE SkipDenied(d)
    BY <1>1, <2>1, <2>2, <2>12 DEF SkipDenied
  <2>13. CASE WriteBegin(d)
    BY <1>1, <2>1, <2>2, <2>13 DEF WriteBegin
  <2>14. CASE WriteCommit(d) \/ WriteSkipped(d)
    <3>1. AfterWrite(d, pc[d]) /\ pc[d] # "adopt"
      BY <2>14 DEF WriteCommit, WriteSkipped
    <3>2. CASE Discard(d) /\ Goto(d, "settle")
      BY <1>1, <2>1, <2>2, <3>2 DEF Discard, emptyEntry, Goto
    <3>3. CASE UNCHANGED <<seen, local>> /\ Goto(d, "drain")
      BY <1>1, <2>1, <2>2, <3>1, <3>3 DEF Goto
    <3>4. CASE /\ local' = [local EXCEPT ![d] = WithTurns(@, @.turns \ window[d])]
               /\ seen' = seen /\ Goto(d, "clear")
      BY <1>1, <2>1, <2>2, <3>1, <3>4 DEF WithTurns, Goto
    <3> QED
      BY <3>1, <3>2, <3>3, <3>4, AfterWriteCases
  <2>16. CASE DrainStops(d)
    BY <1>1, <2>1, <2>2, <2>16 DEF DrainStops, Discard, emptyEntry
  <2>17. CASE Settle(d)
    BY <1>1, <2>1, <2>2, <2>17 DEF Settle
  <2>18. CASE UnlinkLease(d)
    BY <1>1, <2>1, <2>2, <2>18 DEF UnlinkLease
  <2>19. CASE HeartbeatBegin(d)
    BY <1>1, <2>1, <2>2, <2>19 DEF HeartbeatBegin
  <2>20. CASE HeartbeatCommit(d)
    BY <1>1, <2>1, <2>2, <2>20 DEF HeartbeatCommit
  <2>21. CASE DrainerCrash(d)
    BY <1>1, <2>1, <2>2, <2>21 DEF DrainerCrash, Discard, emptyEntry
  <2> QED
    BY <1>3, <2>3, <2>4, <2>5, <2>6, <2>7, <2>8, <2>9, <2>10, <2>11, <2>12, <2>13, <2>14, <2>16, <2>17, <2>18, <2>19, <2>20, <2>21 DEF DrainerNext
<1>4. CASE BreakStaleLock \/ UNCHANGED vars
  BY <1>4 DEF BreakStaleLock, vars, drain, history, IInv, RunInv
<1> QED
  BY <1>2, <1>3, <1>4 DEF Next

\* While a progress write is between its read and its write, the claim it read
\* is the claim on disk unless the owner unlinked that.
LEMMA BaseCurrentStep ==
  ASSUME IInv, [Next]_vars
  PROVE  ProgressBaseIsCurrent'
<1> USE ConstantsAssumption DEF ProgressBaseIsCurrent
<1>1. CASE OwnerNext
  <2>1. held' = held
    BY <1>1, OwnerFrame
  <2>2. held # None => ~SaveMerge
    BY DEF SaveMerge, IInv, LockInv
  <2>3. ReleaseClaim => claim' = None
    BY DEF ReleaseClaim
  <2> QED
    BY <1>1, <2>1, <2>2, <2>3, OwnerClaimWriters DEF IInv
<1>2. ASSUME NEW d \in Drainers, DrainerNext(d)
      PROVE  ProgressBaseIsCurrent'
  <2>1. CASE ClaimRename(d) \/ ClaimEmpty(d) \/ WriteCommit(d)
    BY <2>1 DEF ClaimRename, ClaimEmpty, WriteCommit, IInv, LockInv, Locked, Writing
  <2>2. CASE WriteBegin(d)
    BY <2>2 DEF WriteBegin
  <2>3. CASE claim' = claim /\ ~WriteBegin(d)
    <3>1. held' = held \/ held' = None
      BY <1>2, <2>3 DEF DrainerNext, Start, ClaimRename, ClaimSkipped, ClaimEmpty,
         ClaimTaken, LoadClaim, Adopt, AdoptBusy, ExtractChunk, SkipDenied,
         WriteCommit, WriteSkipped, DrainStops, Settle, UnlinkLease,
         HeartbeatBegin, HeartbeatCommit, DrainerCrash
    <3> QED
      BY <2>3, <3>1 DEF IInv
  <2> QED
    BY <1>2, <2>1, <2>2, <2>3, DrainerClaimWriters
<1>3. CASE BreakStaleLock \/ UNCHANGED vars
  BY <1>3 DEF BreakStaleLock, vars, drain, IInv
<1> QED
  BY <1>1, <1>2, <1>3 DEF Next

\* What a hand-over leaves of the memory entry: all of it is in the claim or
\* settled, or, when the claim had vanished, recorded as dropped.
LEMMA HandOver ==
  ASSUME IInv, SaveMerge
  PROVE  /\ Pending(mem) \subseteq Pending(claim') \cup settled \cup dropped'
         /\ durable' = durable \/ (durable' = durable \cup Pending(mem)
                                  /\ Pending(mem) \subseteq Pending(claim') \cup settled)
<1>1. mem # None /\ mem \in Entry
  BY DEF SaveMerge, IInv, SaveInv, TypeOK
<1>2. CASE claim = None
  BY <1>2 DEF SaveMerge
<1>3. CASE claim # None
  <2>1. claim \in DrainClaimFile /\ claim' = mergeEntries(claim, mem)
    BY <1>3 DEF SaveMerge, IInv, TypeOK
  <2>2. claim' \in DrainClaimFile
    BY <1>1, <2>1 DEF mergeEntries, DrainClaimFile, Entry
  <2>3. claim' # None
    BY <2>2, ConstantsAssumption DEF DrainClaimFile
  <2>4. claim.drained \cup claim.drainedRetained \subseteq settled
    BY <1>3 DEF IInv, SettledInv, Gone
  <2>5. Pending(mem) \subseteq Pending(claim') \cup settled
    BY <1>1, <2>1, <2>3, <2>4 DEF mergeEntries, Pending
  <2> QED
    BY <1>3, <2>5 DEF SaveMerge
<1> QED
  BY <1>2, <1>3

\* A turn leaves the owner's memory only when it is settled or handed over.
LEMMA MemKept ==
  ASSUME IInv, OwnerNext, opc # "down", opc' # "down"
  PROVE  Pending(mem) \subseteq Pending(mem') \cup Pending(claim') \cup settled' \cup dropped'
<1> USE ConstantsAssumption DEF Pending, Entry
<1>1. mem \in Entry \cup {None} /\ (opc \notin {"idle", "down"} => mem # None)
  BY DEF IInv, TypeOK, SaveInv
<1>2. /\ RetainedOf(mem) \subseteq settled /\ tomb \subseteq settled
      /\ xchunk \subseteq settled
  BY DEF IInv, SettledInv
<1>3. settled \subseteq settled'
  BY SettledGrows DEF Next
<1>4. CASE \E t \in Turns : BufferTurn(t) \/ BufferAndTrigger(t)
  <2>1. PICK t \in Turns : mem' = WithTurns(entryFor(mem), entryFor(mem).turns \cup {t})
    BY <1>4 DEF BufferTurn, BufferAndTrigger
  <2>2. mem' \in Entry
    BY <1>1, <2>1 DEF WithTurns, entryFor, emptyEntry
  <2> QED
    BY <1>1, <2>1, <2>2 DEF WithTurns, entryFor, emptyEntry
<1>5. CASE ReleaseLease
  <2>1. mem' = Subtract(mem, tomb) /\ mem \in Entry /\ mem # None
    BY <1>1, <1>5 DEF ReleaseLease
  <2>2. mem' \in Entry
    BY <2>1 DEF Subtract
  <2> QED
    BY <1>2, <1>3, <2>1, <2>2 DEF Subtract
<1>6. CASE SaveMerge
  BY <1>3, <1>6, HandOver
<1>7. CASE DropFailedChunk
  <2>1. PICK chunk \in SUBSET xtodo, gone \in SUBSET xtodo :
          /\ gone \subseteq chunk
          /\ settled' = settled \cup chunk
          /\ mem' = [turns |-> entryFor(mem).turns \ gone,
                     retained |-> entryFor(mem).retained \ chunk]
    BY <1>7 DEF DropFailedChunk, dropExtractionChunk, Matching
  <2>2. mem' \in Entry
    BY <1>1, <2>1 DEF entryFor, emptyEntry
  <2> QED
    BY <1>1, <2>1, <2>2 DEF entryFor, emptyEntry
<1>8. CASE RetainDeferredTurns
  <2>1. PICK r \in SUBSET (Pending(mem) \cup xchunk) : mem' = WithRetained(entryFor(mem), r)
    <3>1. PICK deferred \in {{}, xchunk} :
            mem' = WithRetained(entryFor(mem),
                     (entryFor(mem).retained \ (xwin \ xtodo)) \cup deferred)
      BY <1>8 DEF RetainDeferredTurns, Deferrable
    <3> QED
      BY <1>1, <3>1 DEF entryFor, emptyEntry
  <2>2. mem' # None
    <3>1. xchunk \in SUBSET Turns
      BY DEF IInv, TypeOK
    <3>2. mem' \in Entry
      BY <1>1, <2>1, <3>1 DEF WithRetained, entryFor, emptyEntry
    <3> QED
      BY <3>2
  <2> QED
    BY <1>1, <1>2, <1>3, <2>1, <2>2 DEF WithRetained, entryFor, emptyEntry, RetainedOf
<1>9. CASE ClearAfterExtraction
  <2>1. PICK cleared \in SUBSET xchunk :
          mem' = WithTurns(entryFor(mem), entryFor(mem).turns \ cleared)
    BY <1>9 DEF ClearAfterExtraction, Matching
  <2>2. mem' \in Entry
    BY <1>1, <2>1 DEF WithTurns, entryFor, emptyEntry
  <2> QED
    BY <1>1, <1>2, <1>3, <2>1, <2>2 DEF WithTurns, entryFor, emptyEntry
<1>10. CASE mem' = mem
  BY <1>10
<1>11. \/ mem' = mem \/ ReleaseLease \/ SaveMerge \/ DropFailedChunk
       \/ RetainDeferredTurns \/ ClearAfterExtraction
       \/ \E t \in Turns : BufferTurn(t) \/ BufferAndTrigger(t)
  BY DEF OwnerNext, FlushPendingSave, SaveWrite, SaveLeaseRead,
     SaveConsume, ReleaseClaim, SaveFails, ExtractGated, ExtractStart,
     ExtractDone, ExtractStops, OwnerCrash, OwnerRestart
<1> QED
  BY <1>4, <1>5, <1>6, <1>7, <1>8, <1>9, <1>10, <1>11

\* The only steps that rewrite the session file.
LEMMA SessionWriters ==
  ASSUME [Next]_vars
  PROVE  \/ session' = session \/ SaveWrite \/ SaveConsume
         \/ \E d \in Drainers : ClaimRename(d)
<1>1. CASE OwnerNext
  BY <1>1 DEF OwnerNext, BufferTurn, BufferAndTrigger, FlushPendingSave,
     SaveLeaseRead, ReleaseClaim, ReleaseLease, SaveMerge, SaveFails,
     ExtractGated, ExtractStart, ExtractDone, ExtractStops, DropFailedChunk,
     RetainDeferredTurns, ClearAfterExtraction, OwnerCrash, OwnerRestart, disk
<1>2. CASE \E d \in Drainers : DrainerNext(d)
  BY <1>2 DEF DrainerNext, Start, ClaimSkipped, ClaimEmpty, ClaimTaken,
     LoadClaim, Adopt, AdoptBusy, ExtractChunk, SkipDenied, WriteBegin,
     WriteCommit, WriteSkipped, DrainStops, Settle, UnlinkLease,
     HeartbeatBegin, HeartbeatCommit, DrainerCrash, disk
<1>3. CASE BreakStaleLock \/ UNCHANGED vars
  BY <1>3 DEF BreakStaleLock, vars
<1> QED
  BY <1>1, <1>2, <1>3 DEF Next

\* A save of an unclaimed or drained session writes the memory entry, up to
\* settled turns.
LEMMA SavedSession ==
  ASSUME IInv, SaveWrite \/ SaveConsume
  PROVE  /\ Pending(session') \subseteq Pending(mem)
         /\ Pending(mem) \subseteq Pending(session') \cup settled
         /\ durable' = durable \cup Pending(session')
         /\ UNCHANGED <<mem, claim, settled, dropped>>
<1>1. CASE SaveWrite
  BY <1>1 DEF SaveWrite
<1>2. CASE SaveConsume
  <2>1. mem # None /\ mem \in Entry /\ tomb \subseteq settled
    BY <1>2 DEF SaveConsume, IInv, TypeOK, SaveInv, SettledInv
  <2>2. session' = Subtract(mem, tomb) /\ durable' = durable \cup Pending(session')
    BY <1>2 DEF SaveConsume
  <2>3. session' \in Entry
    BY <2>1, <2>2 DEF Subtract, Entry
  <2>4. session' # None
    BY <2>3, ConstantsAssumption DEF Entry
  <2>5. /\ Pending(session') \subseteq Pending(mem)
        /\ Pending(mem) \subseteq Pending(session') \cup settled
    BY <2>1, <2>2, <2>4 DEF Subtract, Pending
  <2> QED
    BY <1>2, <2>2, <2>5 DEF SaveConsume
<1> QED
  BY <1>1, <1>2

\* The rename moves the whole session file into the claim.
LEMMA RenamedSession ==
  ASSUME IInv, NEW d \in Drainers, ClaimRename(d)
  PROVE  Pending(claim') = Pending(session) /\ Pending(session') = {}
<1>1. session \in Entry /\ session # None
  BY DEF ClaimRename, IInv, TypeOK
<1>2. claim' \in DrainClaimFile
  BY <1>1 DEF ClaimRename, DrainClaimFile, Entry
<1>3. claim' # None
  BY <1>2, ConstantsAssumption DEF DrainClaimFile
<1> QED
  BY <1>1, <1>3 DEF ClaimRename, Pending

\* A turn leaves the files only when it is settled.
LEMMA FilesKept ==
  ASSUME IInv, [Next]_vars
  PROVE  Pending(session) \cup Pending(claim) \cup dropped
           \subseteq Pending(session') \cup Pending(claim') \cup dropped' \cup settled
<1>1. Pending(claim) \subseteq Pending(claim') \cup settled /\ dropped \subseteq dropped'
  BY ClaimKept, SettledGrows
<1>2. CASE SaveWrite \/ SaveConsume
  <2>1. Pending(session) \subseteq Pending(mem) \cup Pending(claim) \cup settled \cup dropped
    BY <1>2 DEF SaveWrite, SaveConsume, IInv, OverwriteInv
  <2> QED
    BY <1>1, <1>2, <2>1, SavedSession
<1>3. CASE \E d \in Drainers : ClaimRename(d)
  BY <1>1, <1>3, RenamedSession
<1>4. CASE session' = session
  BY <1>1, <1>4
<1> QED
  BY <1>2, <1>3, <1>4, SessionWriters

\* The owner's next overwrite of its session file loses nothing.
LEMMA OverwriteStep ==
  ASSUME IInv, [Next]_vars
  PROVE  OverwriteInv'
<1>1. SUFFICES ASSUME opc' # "down"
      PROVE  Pending(session') \subseteq Pending(mem') \cup Pending(claim')
                                           \cup settled' \cup dropped'
  BY DEF OverwriteInv
<1>2. /\ Pending(claim) \subseteq Pending(claim') \cup settled
      /\ dropped \subseteq dropped' /\ settled \subseteq settled'
  BY ClaimKept, SettledGrows
<1>3. CASE opc = "down"
  <2>1. CASE OwnerRestart
    BY <2>1 DEF OwnerRestart, disk
  <2>2. CASE ~OwnerRestart
    <3>1. opc' = "down"
      <4>1. CASE OwnerNext
        BY <1>3, <2>2, <4>1 DEF OwnerNext, BufferTurn, BufferAndTrigger,
           FlushPendingSave, SaveWrite, SaveLeaseRead, SaveConsume,
           ReleaseClaim, ReleaseLease, SaveMerge, SaveFails, ExtractGated,
           ExtractStart, ExtractDone, ExtractStops, DropFailedChunk,
           RetainDeferredTurns, ClearAfterExtraction, OwnerCrash
      <4>2. CASE \E d \in Drainers : DrainerNext(d)
        BY <1>3, <4>2, DrainerFrame
      <4>3. CASE BreakStaleLock \/ UNCHANGED vars
        BY <1>3, <4>3 DEF BreakStaleLock, vars, owner
      <4> QED
        BY <4>1, <4>2, <4>3 DEF Next
    <3> QED
      BY <1>1, <3>1
  <2> QED
    BY <2>1, <2>2
<1>4. CASE opc # "down"
  <2>1. Pending(session) \subseteq Pending(mem) \cup Pending(claim) \cup settled \cup dropped
    BY <1>4 DEF IInv, OverwriteInv
  <2>2. Pending(mem) \subseteq Pending(mem') \cup Pending(claim') \cup settled' \cup dropped'
    <3>1. CASE OwnerNext
      BY <1>1, <1>4, <3>1, MemKept
    <3>2. CASE \E d \in Drainers : DrainerNext(d)
      BY <3>2, DrainerFrame
    <3>3. CASE BreakStaleLock \/ UNCHANGED vars
      BY <3>3 DEF BreakStaleLock, vars, owner
    <3> QED
      BY <3>1, <3>2, <3>3 DEF Next
  <2>3. CASE SaveWrite \/ SaveConsume
    BY <2>2, <2>3, SavedSession
  <2>4. CASE \E d \in Drainers : ClaimRename(d)
    BY <2>4, RenamedSession
  <2>5. CASE session' = session
    BY <1>2, <2>1, <2>2, <2>5
  <2> QED
    BY <2>3, <2>4, <2>5, SessionWriters
<1> QED
  BY <1>3, <1>4

\* No step loses a durable turn.
LEMMA DurableStep ==
  ASSUME IInv, [Next]_vars
  PROVE  DurableNeverLost'
<1>1. durable' \subseteq durable \cup Pending(session') \cup Pending(claim') \cup settled
  <2>1. CASE SaveWrite \/ SaveConsume
    BY <2>1, SavedSession
  <2>2. CASE SaveMerge
    BY <2>2, HandOver
  <2>3. CASE OwnerNext /\ ~(SaveWrite \/ SaveConsume \/ SaveMerge)
    BY <2>3 DEF OwnerNext, BufferTurn, BufferAndTrigger, FlushPendingSave,
       SaveLeaseRead, ReleaseClaim, ReleaseLease, SaveFails,
       ExtractGated, ExtractStart, ExtractDone, ExtractStops, DropFailedChunk,
       RetainDeferredTurns, ClearAfterExtraction, OwnerCrash, OwnerRestart, history
  <2>4. CASE \E d \in Drainers : DrainerNext(d)
    BY <2>4, DrainerFrame
  <2>5. CASE BreakStaleLock \/ UNCHANGED vars
    BY <2>5 DEF BreakStaleLock, vars, history
  <2> QED
    BY <2>1, <2>2, <2>3, <2>4, <2>5 DEF Next
<1>2. settled \subseteq settled'
  BY SettledGrows
<1>3. durable \subseteq Pending(session) \cup Pending(claim) \cup settled \cup dropped
  BY DEF IInv, DurableNeverLost
<1>4. Pending(session) \cup Pending(claim) \cup dropped
        \subseteq Pending(session') \cup Pending(claim') \cup dropped' \cup settled
  BY FilesKept
<1> QED
  BY <1>1, <1>2, <1>3, <1>4 DEF DurableNeverLost

-----------------------------------------------------------------------------
(* The inductive invariant and what follows from it.                        *)

\* Every step keeps the inductive invariant.
LEMMA InductiveStep ==
  ASSUME IInv, [Next]_vars
  PROVE  IInv'
<1>1. TypeOK' /\ SaveInv' /\ LockInv'
  BY BaseStep DEF IInv, BaseInv
<1>2. ProgressIsFenced'
  <2>1. CASE OwnerNext
    BY <2>1, OwnerFrame DEF IInv, ProgressIsFenced
  <2>2. CASE \E d \in Drainers : DrainerNext(d)
    BY <2>2, FenceStep DEF IInv
  <2>3. CASE BreakStaleLock \/ UNCHANGED vars
    BY <2>3 DEF BreakStaleLock, vars, drain, IInv, ProgressIsFenced
  <2> QED
    BY <2>1, <2>2, <2>3 DEF Next
<1> QED
  BY <1>1, <1>2, ReadbackStep, ConsumeStep, SettledStep, RunInvStep,
     OverwriteStep, BaseCurrentStep, DurableStep DEF IInv

\* The inductive invariant holds initially.
LEMMA InductiveInit ==
  ASSUME Init
  PROVE  IInv
<1>1. TypeOK /\ SaveInv /\ LockInv
  BY BaseInit DEF BaseInv
<1>2. ReadbackInv /\ ConsumeInv /\ ProgressIsFenced /\ ProgressBaseIsCurrent
  BY DEF Init, ReadbackInv, ConsumeInv, ProgressIsFenced, ProgressBaseIsCurrent
<1>3. SettledInv /\ RunInv
  BY DEF Init, SettledInv, RunInv, RetainedOf, Gone, Pending, emptyEntry
<1>4. OverwriteInv /\ DurableNeverLost
  BY DEF Init, OverwriteInv, DurableNeverLost, Pending
<1> QED
  BY <1>1, <1>2, <1>3, <1>4 DEF IInv

\* The inductive invariant holds of every reachable state.
LEMMA Invariance == Spec => []IInv
<1>1. IInv /\ [Next]_vars => IInv'
  BY InductiveStep
<1> QED
  BY <1>1, InductiveInit, PTL DEF Spec

\* No turn a save made durable is ever lost by the hand-over protocol: not by
\* a kill, a takeover, a stale progress write or a consumed tombstone.  (What
\* mergeIntoClaim drops when the claim has vanished is in `dropped`.)
THEOREM DurableTurnsAreNeverLost == Spec => []DurableNeverLost
<1>1. IInv => DurableNeverLost
  BY DEF IInv
<1> QED
  BY <1>1, Invariance, PTL

\* writeEntry never tombstones a turn that was not extracted.
THEOREM TombstonesAreExtracted == Spec => []DrainedWasExtracted
<1>1. IInv => DrainedWasExtracted
  BY DEF IInv, SettledInv, DrainedWasExtracted
<1> QED
  BY <1>1, Invariance, PTL

\* The lease fence of writeEntry holds for any number of concurrent runs: while
\* a run rewrites the claim, no other run's lease has taken its place.
THEOREM ProgressWritesAreFenced == Spec => []ProgressIsFenced
<1>1. IInv => ProgressIsFenced
  BY DEF IInv
<1> QED
  BY <1>1, Invariance, PTL

\* The claim lock of writeEntry and mergeIntoClaim makes the rewrite atomic:
\* nobody changes the claim between a progress write's read and its write.
THEOREM ProgressWritesAreAtomic == Spec => []ProgressBaseIsCurrent
<1>1. IInv => ProgressBaseIsCurrent
  BY DEF IInv
<1> QED
  BY <1>1, Invariance, PTL

-----------------------------------------------------------------------------
(* The files implement DurableCustody.                                      *)

\* The steps that settle turns leave the files alone.
LEMMA SettlersLeaveFiles ==
  ASSUME [Next]_vars
  PROVE  settled' = settled \/ UNCHANGED <<session, claim, dropped>>
<1>1. CASE OwnerNext
  BY <1>1 DEF OwnerNext, BufferTurn, BufferAndTrigger, FlushPendingSave,
     SaveWrite, SaveLeaseRead, SaveConsume, ReleaseClaim,
     ReleaseLease, SaveMerge, SaveFails, ExtractGated, ExtractStart,
     ExtractDone, ExtractStops, DropFailedChunk, RetainDeferredTurns,
     ClearAfterExtraction, OwnerCrash, OwnerRestart, disk, history
<1>2. CASE \E d \in Drainers : DrainerNext(d)
  BY <1>2 DEF DrainerNext, Start, ClaimRename, ClaimSkipped, ClaimEmpty,
     ClaimTaken, LoadClaim, Adopt, AdoptBusy, ExtractChunk, SkipDenied,
     WriteBegin, WriteCommit, WriteSkipped, DrainStops, Settle, UnlinkLease,
     HeartbeatBegin, HeartbeatCommit, DrainerCrash, disk, history
<1>3. CASE BreakStaleLock \/ UNCHANGED vars
  BY <1>3 DEF BreakStaleLock, vars, history
<1> QED
  BY <1>1, <1>2, <1>3 DEF Next

\* Every step is a step, or a stutter, of the abstract custody.
LEMMA CustodyStep ==
  ASSUME IInv, IInv', [Next]_vars
  PROVE  [Custody!Next]_(Custody!vars)
<1> DEFINE files == Pending(session) \cup Pending(claim) \cup dropped
<1>1. files \subseteq Turns /\ files' \subseteq Turns
  BY DEF IInv, TypeOK, Pending, Entry, DrainClaimFile
<1>2. settled \subseteq settled' /\ settled' \subseteq Turns
  BY SettledGrows DEF IInv, TypeOK
<1>3. files \subseteq files' \cup settled
  BY FilesKept
<1>4. CASE settled' = settled
  BY <1>1, <1>3, <1>4 DEF Custody!Next, Custody!Take
<1>5. CASE UNCHANGED <<session, claim, dropped>>
  <2>1. files' = files
    BY <1>5 DEF Pending
  <2> QED
    BY <1>2, <2>1 DEF Custody!Next, Custody!Settle
<1> QED
  BY <1>4, <1>5, SettlersLeaveFiles

\* Session files, claims and tombstones implement DurableCustody: seen from
\* outside, renames, merges, progress writes, releases and kills only move
\* turns about; a turn goes away only by being settled.
THEOREM FilesImplementCustody == Spec => ImplementsCustody
<1>1. Init => Custody!Init
  BY DEF Init, Custody!Init, Pending
<1>2. IInv /\ IInv' /\ [Next]_vars => [Custody!Next]_(Custody!vars)
  BY CustodyStep
<1> QED
  BY <1>1, <1>2, Invariance, PTL DEF Spec, ImplementsCustody, Custody!Spec
=============================================================================
