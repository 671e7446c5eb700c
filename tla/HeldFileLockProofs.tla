------------------------- MODULE HeldFileLockProofs -------------------------
(***************************************************************************)
(* Theorems about the held file lock, for any number of calls.             *)
(*                                                                         *)
(* What the replacement-safe protocol gives without I/O errors is that a    *)
(* fresh lock file is not given up for stale (KeptInv); what the exclusive  *)
(* create gives until the first kill is mutual exclusion (QuietInv).       *)
(***************************************************************************)
EXTENDS HeldFileLock, TLAPS

\* A fresh lock file that its call has not given up has a link that no pending
\* unlink is about to remove, unless its metadata came too late.
KeptInv ==
  /\ TypeOK
  /\ \A c \in Calls : pc[c] # "undo"
  /\ \A i \in Calls : pc[i] \in Owning /\ i \in fresh => Safe(i) \/ i \in late

\* Only a call that stalls lets its lock file go stale while it owns it.
OwnedFresh == \A i \in Calls : pc[i] \in Owning => i \in fresh

\* The types are right initially.
LEMMA TypeInit == Init => TypeOK
  BY LockAssumption DEF Init, TypeOK, TrashPc

\* Acquisition keeps the types.
LEMMA TypeAcquire ==
  ASSUME TypeOK, NEW c \in Calls, Begin(c) \/ AcquireStep(c) \/ EndTask(c)
  PROVE  TypeOK'
<1> USE LockAssumption
<1> USE DEF TypeOK, Step, Goto, files, metadata, Owning, BreakPc, TrashPc, Over
<1>1. CASE Begin(c)         BY <1>1 DEF Begin
<1>2. CASE AcquireError(c)  BY <1>2 DEF AcquireError
<1>3. CASE Create(c)        BY <1>3 DEF Create
<1>4. CASE WriteMetadata(c) BY <1>4 DEF WriteMetadata
<1>5. CASE Undo(c)          BY <1>5 DEF Undo
<1>6. CASE Exists(c)        BY <1>6 DEF Exists
<1>7. CASE Poll(c)          BY <1>7 DEF Poll
<1>8. CASE EndTask(c)       BY <1>8 DEF EndTask
<1> QED
  BY <1>1, <1>2, <1>3, <1>4, <1>5, <1>6, <1>7, <1>8 DEF AcquireStep

\* Renaming, linking back and unlinking a trash path keep the types.
LEMMA TypeTrash ==
  ASSUME TypeOK, NEW c \in Calls,
         \/ Rename(c) \/ ReleaseRename(c)
         \/ Restore(c) \/ ReleaseRestore(c)
         \/ UnlinkRestored(c) \/ Discard(c)
         \/ ReleaseUnlinkRestored(c) \/ ReleaseDiscard(c)
  PROVE  TypeOK'
<1> USE LockAssumption
<1> USE DEF TypeOK, Step, Goto, metadata, Owning, BreakPc, TrashPc, Over
<1>1. CASE Rename(c)                BY <1>1 DEF Rename, MoveAside
<1>2. CASE ReleaseRename(c)         BY <1>2 DEF ReleaseRename, MoveAside
<1>3. CASE Restore(c)               BY <1>3 DEF Restore, LinkBack
<1>4. CASE ReleaseRestore(c)        BY <1>4 DEF ReleaseRestore, LinkBack
<1>5. CASE UnlinkRestored(c)        BY <1>5 DEF UnlinkRestored, DropTrash
<1>6. CASE Discard(c)               BY <1>6 DEF Discard, DropTrash
<1>7. CASE ReleaseUnlinkRestored(c) BY <1>7 DEF ReleaseUnlinkRestored, DropTrash
<1>8. CASE ReleaseDiscard(c)        BY <1>8 DEF ReleaseDiscard, DropTrash
<1> QED
  BY <1>1, <1>2, <1>3, <1>4, <1>5, <1>6, <1>7, <1>8

\* The checks of breakStaleLock and releaseLock, heartbeats, kills and the
\* passing of time keep the types.
LEMMA TypeRest ==
  ASSUME TypeOK, NEW c \in Calls,
         \/ Stat(c) \/ ReadIdentity(c) \/ Reread(c) \/ Restat(c)
         \/ Verify(c) \/ MovedStat(c) \/ Precheck(c) \/ ReleaseVerify(c)
         \/ HeartbeatStep(c) \/ Kill(c) \/ GoesStale(c)
  PROVE  TypeOK'
<1> USE LockAssumption
<1> USE DEF TypeOK, Step, Goto, files, metadata, Owning, BreakPc, TrashPc, Over
<1>1. CASE Stat(c)           BY <1>1 DEF Stat
<1>2. CASE ReadIdentity(c)   BY <1>2 DEF ReadIdentity, Content
<1>3. CASE Reread(c)         BY <1>3 DEF Reread
<1>4. CASE Restat(c)         BY <1>4 DEF Restat
<1>5. CASE Verify(c)         BY <1>5 DEF Verify
<1>6. CASE MovedStat(c)      BY <1>6 DEF MovedStat
<1>7. CASE Precheck(c)       BY <1>7 DEF Precheck
<1>8. CASE ReleaseVerify(c)  BY <1>8 DEF ReleaseVerify
<1>9. CASE HeartbeatCheck(c) BY <1>9 DEF HeartbeatCheck
<1>10. CASE HeartbeatTouch(c) BY <1>10 DEF HeartbeatTouch
<1>11. CASE Kill(c)          BY <1>11 DEF Kill
<1>12. CASE GoesStale(c)     BY <1>12 DEF GoesStale
<1> QED
  BY <1>1, <1>2, <1>3, <1>4, <1>5, <1>6, <1>7, <1>8, <1>9, <1>10, <1>11, <1>12
     DEF HeartbeatStep

\* Every step keeps the types.
LEMMA TypeStep == TypeOK /\ [Next]_lockVars => TypeOK'
<1> SUFFICES ASSUME TypeOK, [Next]_lockVars PROVE TypeOK'
  OBVIOUS
<1>1. CASE UNCHANGED lockVars
  BY <1>1 DEF lockVars, TypeOK
<1>2. ASSUME NEW c \in Calls,
             Begin(c) \/ LockStep(c) \/ EndTask(c) \/ Kill(c) \/ GoesStale(c)
      PROVE  TypeOK'
  BY <1>2, TypeAcquire, TypeTrash, TypeRest DEF LockStep, BreakStep, ReleaseStep
<1> QED
  BY <1>1, <1>2 DEF Next

\* The variables keep their types, and a trash path is occupied exactly between
\* its rename and its unlink.
THEOREM TypeCorrect == Spec => []TypeOK
  BY TypeInit, TypeStep, PTL DEF Spec

-----------------------------------------------------------------------------
\* The step of one call, its kill, or its file going stale.
OneStep(c) ==
  Begin(c) \/ LockStep(c) \/ EndTask(c) \/ Kill(c) \/ GoesStale(c)

\* Without I/O errors no call undoes its create.
LEMMA NoUndoStep ==
  ASSUME Faulty = {}, TypeOK, \A c \in Calls : pc[c] # "undo",
         NEW c \in Calls, OneStep(c)
  PROVE  \A d \in Calls : (pc[d] # "undo")'
<1> USE DEF TypeOK, Step, Goto
<1>1. CASE Begin(c) \/ AcquireStep(c)
  BY <1>1 DEF Begin, AcquireStep, AcquireError, Create, WriteMetadata, Undo,
     Exists, Poll
<1>2. CASE BreakStep(c)
  BY <1>2 DEF BreakStep, Stat, ReadIdentity, Reread, Restat, Rename, MoveAside,
     Verify, MovedStat, Restore, LinkBack, UnlinkRestored, Discard, DropTrash
<1>3. CASE ReleaseStep(c) \/ EndTask(c)
  BY <1>3 DEF EndTask, ReleaseStep, Precheck, ReleaseRename, MoveAside,
     ReleaseVerify, ReleaseRestore, LinkBack, ReleaseUnlinkRestored,
     ReleaseDiscard, DropTrash
<1>4. CASE HeartbeatStep(c) \/ Kill(c) \/ GoesStale(c)
  BY <1>4 DEF HeartbeatStep, HeartbeatCheck, HeartbeatTouch, Kill, GoesStale
<1> QED
  BY <1>1, <1>2, <1>3, <1>4 DEF OneStep, LockStep

\* One step keeps a safe link to every fresh lock file its call still owns.
LEMMA KeptStep ==
  ASSUME Faulty = {}, KeptInv, NEW c \in Calls, OneStep(c),
         NEW i \in Calls, pc'[i] \in Owning, i \in fresh'
  PROVE  Safe(i)' \/ i \in late'
<1> USE LockAssumption
<1> USE DEF metadata, KeptInv, TypeOK, Step, Goto, Owning, Over, SafePc, TrashPc, BreakPc
<1>1. CASE Begin(c) \/ AcquireError(c) \/ WriteMetadata(c) \/ Exists(c) \/ Poll(c)
           \/ EndTask(c)
  BY <1>1 DEF Begin, AcquireError, WriteMetadata, Exists, Poll, EndTask, Safe, files
<1>2. CASE Create(c)
  BY <1>2 DEF Create, Safe
<1>3. CASE Undo(c)
  BY <1>3 DEF Undo
<1>4. CASE Stat(c) \/ ReadIdentity(c) \/ Reread(c) \/ Restat(c)
  BY <1>4 DEF Stat, ReadIdentity, Reread, Restat, Safe, files
<1>5. CASE Rename(c) \/ ReleaseRename(c)
  BY <1>5 DEF Rename, ReleaseRename, MoveAside, Safe
<1>6. CASE Verify(c)
  BY <1>6 DEF Verify, Safe, files
<1>7. CASE MovedStat(c)
  BY <1>7 DEF MovedStat, Safe, files
<1>8. CASE Restore(c) \/ ReleaseRestore(c)
  BY <1>8 DEF Restore, ReleaseRestore, LinkBack, Safe
<1>9. CASE UnlinkRestored(c) \/ Discard(c) \/ ReleaseUnlinkRestored(c)
           \/ ReleaseDiscard(c)
  BY <1>9 DEF UnlinkRestored, Discard, ReleaseUnlinkRestored, ReleaseDiscard,
     DropTrash, Safe
<1>10. CASE Precheck(c)
  BY <1>10 DEF Precheck, Safe, files
<1>11. CASE ReleaseVerify(c)
  BY <1>11 DEF ReleaseVerify, Content, Safe, files
<1>12. CASE HeartbeatCheck(c)
  BY <1>12 DEF HeartbeatCheck, Safe, files
<1>13. CASE HeartbeatTouch(c)
  BY <1>13 DEF HeartbeatTouch, Safe, files
<1>14. CASE Kill(c)
  BY <1>14 DEF Kill, Safe
<1>15. CASE GoesStale(c)
  BY <1>15 DEF GoesStale, Safe, files
<1> QED
  BY <1>1, <1>2, <1>3, <1>4, <1>5, <1>6, <1>7, <1>8, <1>9, <1>10, <1>11,
     <1>12, <1>13, <1>14, <1>15
     DEF OneStep, LockStep, AcquireStep, BreakStep, ReleaseStep, HeartbeatStep

\* Without I/O errors every reachable state keeps every fresh owned lock safe.
LEMMA KeptInvariance == Faulty = {} /\ Spec => []KeptInv
<1> SUFFICES ASSUME Faulty = {} PROVE Spec => []KeptInv
  OBVIOUS
<1>1. Init => KeptInv
  BY TypeInit DEF Init, KeptInv, Owning
<1>2. KeptInv /\ [Next]_lockVars => KeptInv'
  <2> SUFFICES ASSUME KeptInv, [Next]_lockVars PROVE KeptInv'
    OBVIOUS
  <2>1. TypeOK'
    BY TypeStep DEF KeptInv
  <2>2. CASE UNCHANGED lockVars
    BY <2>1, <2>2 DEF lockVars, KeptInv, Safe
  <2>3. ASSUME NEW c \in Calls, OneStep(c) PROVE KeptInv'
    <3>1. \A d \in Calls : (pc[d] # "undo")'
      BY <2>3, NoUndoStep DEF KeptInv
    <3>2. \A i \in Calls : (pc[i] \in Owning)' /\ (i \in fresh)' => Safe(i)' \/ i \in late'
      BY <2>3, KeptStep DEF Owning
    <3> QED
      BY <2>1, <3>1, <3>2 DEF KeptInv
  <2> QED
    BY <2>2, <2>3 DEF Next, OneStep
<1> QED
  BY <1>1, <1>2, PTL DEF Spec

\* Without stalls a call's lock file stays fresh for as long as it owns it.
LEMMA OwnedFreshStep ==
  ASSUME Stalling = {}, TypeOK, OwnedFresh, NEW c \in Calls, OneStep(c)
  PROVE  OwnedFresh'
<1> USE DEF TypeOK, OwnedFresh, Step, Goto, Owning, Over
<1>1. CASE Begin(c) \/ AcquireStep(c)
  BY <1>1 DEF Begin, AcquireStep, AcquireError, Create, WriteMetadata, Undo,
     Exists, Poll
<1>2. CASE BreakStep(c)
  BY <1>2 DEF BreakStep, Stat, ReadIdentity, Reread, Restat, Rename, MoveAside,
     Verify, MovedStat, Restore, LinkBack, UnlinkRestored, Discard, DropTrash
<1>3. CASE ReleaseStep(c) \/ EndTask(c)
  BY <1>3 DEF EndTask, ReleaseStep, Precheck, ReleaseRename, MoveAside,
     ReleaseVerify, ReleaseRestore, LinkBack, ReleaseUnlinkRestored,
     ReleaseDiscard, DropTrash
<1>4. CASE HeartbeatStep(c) \/ Kill(c)
  BY <1>4 DEF HeartbeatStep, HeartbeatCheck, HeartbeatTouch, Kill
<1>5. CASE GoesStale(c)
  BY <1>5 DEF GoesStale, Running
<1> QED
  BY <1>1, <1>2, <1>3, <1>4, <1>5 DEF OneStep, LockStep

\* However many contenders break, restore and release around it, and whoever is
\* killed when, the lock file of a call that has not given it up leaves the disk
\* only while it is stale (breakStaleLock, releaseLock), as long as no read or
\* write fails, unless its metadata was written when every link left to it was
\* about to be unlinked.
THEOREM OnlyStaleLocksDestroyed == Faulty = {} /\ Spec => OnlyStaleDestroyed
<1> SUFFICES ASSUME Faulty = {} PROVE Spec => OnlyStaleDestroyed
  OBVIOUS
<1>1. KeptInv /\ KeptInv' /\ [Next]_lockVars
        => [\A i \in Calls : OnDisk(i) /\ ~OnDisk(i)'
              => i \notin fresh \/ pc[i] \notin Owning \/ i \in late]_lockVars
  <2> SUFFICES ASSUME KeptInv, KeptInv', NEW c \in Calls, OneStep(c),
                      NEW i \in Calls, ~OnDisk(i)', i \in fresh, pc[i] \in Owning,
                      i \notin late
               PROVE  FALSE
    BY DEF Next, OneStep
  <2>1. Safe(i)
    BY DEF KeptInv
  <2>2. path' # i /\ i \notin left' /\ \A b \in Calls : trash'[b] # i
    BY DEF OnDisk
  <2> USE DEF KeptInv, TypeOK, Step, Goto, Safe, SafePc
  <2>3. CASE Begin(c) \/ AcquireStep(c)
    <3>1. CASE Create(c)
      BY <2>1, <2>2, <3>1, LockAssumption DEF Create
    <3>3. CASE Undo(c)
      BY <3>3 DEF Undo
    <3>2. CASE Begin(c) \/ AcquireError(c) \/ WriteMetadata(c) \/ Exists(c) \/ Poll(c)
      <4>1. UNCHANGED files
        BY <3>2 DEF Begin, AcquireError, WriteMetadata, Exists, Poll
      <4> QED
        BY <4>1, <2>1, <2>2 DEF files
    <3> QED
      BY <2>3, <3>1, <3>2, <3>3 DEF AcquireStep
  <2>4. CASE \/ Stat(c) \/ ReadIdentity(c) \/ Reread(c) \/ Restat(c) \/ Verify(c)
             \/ MovedStat(c) \/ Precheck(c) \/ ReleaseVerify(c) \/ EndTask(c)
    <3>1. UNCHANGED files
      BY <2>4 DEF Stat, ReadIdentity, Reread, Restat, Verify, MovedStat, Precheck,
         ReleaseVerify, EndTask
    <3> QED
      BY <3>1, <2>1, <2>2 DEF files
  <2>5. CASE Rename(c) \/ ReleaseRename(c) \/ Restore(c) \/ ReleaseRestore(c)
    BY <2>1, <2>2, <2>5, LockAssumption DEF Rename, ReleaseRename, Restore,
       ReleaseRestore, MoveAside, LinkBack, TrashPc
  <2>6. CASE UnlinkRestored(c) \/ Discard(c) \/ ReleaseUnlinkRestored(c)
             \/ ReleaseDiscard(c)
    BY <2>1, <2>2, <2>6 DEF UnlinkRestored, Discard, ReleaseUnlinkRestored,
       ReleaseDiscard, DropTrash
  <2>7. CASE HeartbeatStep(c) \/ Kill(c) \/ GoesStale(c)
    BY <2>1, <2>2, <2>7 DEF HeartbeatStep, HeartbeatCheck, HeartbeatTouch, Kill,
       GoesStale, files
  <2> QED
    BY <2>3, <2>4, <2>5, <2>6, <2>7 DEF OneStep, LockStep, BreakStep, ReleaseStep
<1> QED
  BY <1>1, KeptInvariance, PTL DEF Spec, OnlyStaleDestroyed

\* So its metadata is never late: its file still has a safe link.
LEMMA NoneLateStep ==
  ASSUME KeptInv, OwnedFresh, late = {}, NEW c \in Calls, OneStep(c)
  PROVE  late' = {}
<1>1. CASE WriteMetadata(c)
  BY <1>1 DEF WriteMetadata, metadata, Step, KeptInv, OwnedFresh, Owning
<1>2. CASE ~WriteMetadata(c)
  <2>1. UNCHANGED late
    BY <1>2 DEF OneStep, LockStep, AcquireStep, BreakStep, ReleaseStep, HeartbeatStep, metadata,
       Begin, AcquireError, Create, Undo, Exists, Poll, EndTask, Stat, ReadIdentity, Reread, Restat,
       Rename, MoveAside, Verify, MovedStat, Restore, LinkBack, UnlinkRestored, Discard, DropTrash,
       Precheck, ReleaseRename, ReleaseVerify, ReleaseRestore, ReleaseUnlinkRestored, ReleaseDiscard,
       HeartbeatCheck, HeartbeatTouch, Kill, GoesStale
  <2> QED
    BY <2>1
<1> QED
  BY <1>1, <1>2

\* Without stalls and I/O errors, the lock file of a call between its create and
\* its release is never destroyed, whatever the other calls do and whoever is
\* killed (LiveLockKept): it is at lockPath, at the trash path of a call at work,
\* or left in a trash path by one that was killed or found lockPath taken.
THEOREM LiveLocksKept ==
  Faulty = {} /\ Stalling = {} /\ Spec => []LiveLockKept
<1> SUFFICES ASSUME Faulty = {}, Stalling = {} PROVE Spec => []LiveLockKept
  OBVIOUS
<1>1. Init => OwnedFresh /\ late = {}
  BY DEF Init, OwnedFresh, Owning
<1>2. KeptInv /\ OwnedFresh /\ late = {} /\ [Next]_lockVars => (OwnedFresh /\ late = {})'
  <2> SUFFICES ASSUME KeptInv, OwnedFresh, late = {}, [Next]_lockVars PROVE OwnedFresh' /\ late' = {}
    OBVIOUS
  <2>1. CASE UNCHANGED lockVars
    BY <2>1 DEF lockVars, OwnedFresh
  <2>2. TypeOK
    BY DEF KeptInv
  <2> QED
    BY <2>1, <2>2, OwnedFreshStep, NoneLateStep DEF Next, OneStep
<1>3. KeptInv /\ OwnedFresh /\ late = {} => LiveLockKept
  BY DEF KeptInv, OwnedFresh, LiveLockKept, Safe, OnDisk
<1> QED
  BY <1>1, <1>2, <1>3, KeptInvariance, PTL DEF Spec

-----------------------------------------------------------------------------
\* Event loops keep up and the file system works; processes may be killed.
Steady == Stalling = {} /\ Faulty = {}

\* As long as nobody has been killed either, the file at lockPath is that of
\* the one owning call, nothing ever goes stale, and nobody gets past the first
\* check of breakStaleLock.
QuietInv ==
  /\ TypeOK
  /\ \A c \in Calls :
       /\ pc[c] \in {"idle", "try", "poll", "stat", "opened", "held", "release",
                     "relrename", "relverify", "reldiscard", "done", "failed"}
       /\ pc[c] \in Owning <=> path = c
       /\ pc[c] \in {"held", "release", "relrename", "relverify"} => c \in written
       /\ trash[c] # None => trash[c] = c
  /\ path # None => path \in fresh

\* Every step but a kill keeps the lock quiet.
LEMMA QuietStep ==
  ASSUME Steady, QuietInv, [Next]_lockVars, \A c \in Calls : pc'[c] # "dead"
  PROVE  QuietInv'
<1>1. TypeOK'
  BY TypeStep DEF QuietInv
<1> USE LockAssumption
<1> USE DEF metadata, Steady, QuietInv, TypeOK, Step, Goto, Owning, Over, TrashPc, BreakPc
<1>2. CASE UNCHANGED lockVars
  BY <1>1, <1>2 DEF lockVars
<1>3. ASSUME NEW c \in Calls, OneStep(c) PROVE QuietInv'
  <2>1. CASE Begin(c) \/ Exists(c) \/ Poll(c) \/ EndTask(c)
    BY <1>1, <2>1 DEF Begin, Exists, Poll, EndTask, files
  <2>2. CASE Create(c)
    BY <1>1, <2>2 DEF Create
  <2>3. CASE WriteMetadata(c)
    BY <1>1, <2>3 DEF WriteMetadata, files
  <2>4. CASE Stat(c)
    BY <1>1, <2>4 DEF Stat, files
  <2>5. CASE Precheck(c)
    BY <1>1, <2>5 DEF Precheck, Content, files
  <2>6. CASE ReleaseRename(c)
    BY <1>1, <2>6 DEF ReleaseRename, MoveAside
  <2>7. CASE ReleaseVerify(c)
    BY <1>1, <2>7 DEF ReleaseVerify, Content, files
  <2>8. CASE ReleaseDiscard(c)
    BY <1>1, <2>8 DEF ReleaseDiscard, DropTrash
  <2>9. CASE HeartbeatStep(c)
    BY <1>1, <2>9 DEF HeartbeatStep, HeartbeatCheck, HeartbeatTouch, files
  <2>10. CASE GoesStale(c)
    BY <2>10 DEF GoesStale, Running
  <2>11. CASE \/ AcquireError(c) \/ Undo(c) \/ ReadIdentity(c) \/ Reread(c)
              \/ Restat(c) \/ Rename(c) \/ Verify(c) \/ MovedStat(c) \/ Restore(c)
              \/ UnlinkRestored(c) \/ Discard(c) \/ ReleaseRestore(c)
              \/ ReleaseUnlinkRestored(c) \/ Kill(c)
    BY <2>11 DEF AcquireError, Undo, ReadIdentity, Reread, Restat, Rename,
       MoveAside, Verify, MovedStat, Restore, LinkBack, UnlinkRestored, Discard,
       DropTrash, ReleaseRestore, ReleaseUnlinkRestored, Kill
  <2> QED
    BY <1>3, <2>1, <2>2, <2>3, <2>4, <2>5, <2>6, <2>7, <2>8, <2>9, <2>10, <2>11
       DEF OneStep, LockStep, AcquireStep, BreakStep, ReleaseStep
<1> QED
  BY <1>2, <1>3 DEF Next, OneStep

\* The quiet invariant holds initially.
LEMMA QuietInit == Init => QuietInv
  BY TypeInit, LockAssumption DEF Init, QuietInv, Owning

\* The dead stay dead.
LEMMA StaysDead ==
  ASSUME TypeOK, NEW c \in Calls, OneStep(c), NEW d \in Calls, pc[d] = "dead"
  PROVE  pc'[d] = "dead"
<1> USE DEF TypeOK, Step, Goto, Over
<1>1. CASE Begin(c) \/ AcquireStep(c)
  BY <1>1 DEF Begin, AcquireStep, AcquireError, Create, WriteMetadata, Undo,
     Exists, Poll
<1>2. CASE BreakStep(c)
  BY <1>2 DEF BreakStep, Stat, ReadIdentity, Reread, Restat, Rename, MoveAside,
     Verify, MovedStat, Restore, LinkBack, UnlinkRestored, Discard, DropTrash
<1>3. CASE ReleaseStep(c) \/ EndTask(c)
  BY <1>3 DEF EndTask, ReleaseStep, Precheck, ReleaseRename, MoveAside,
     ReleaseVerify, ReleaseRestore, LinkBack, ReleaseUnlinkRestored,
     ReleaseDiscard, DropTrash
<1>4. CASE HeartbeatStep(c) \/ GoesStale(c) \/ Kill(c)
  BY <1>4 DEF HeartbeatStep, HeartbeatCheck, HeartbeatTouch, GoesStale, Kill
<1> QED
  BY <1>1, <1>2, <1>3, <1>4 DEF OneStep, LockStep

\* Nobody was killed: nothing is dead that was not dead before.
LEMMA StillAlive ==
  ASSUME TypeOK, NEW c \in Calls, OneStep(c), ~Kill(c), NEW d \in Calls, pc[d] # "dead"
  PROVE  pc'[d] # "dead"
<1> USE DEF TypeOK, Step, Goto
<1>1. CASE Begin(c) \/ AcquireStep(c)
  BY <1>1 DEF Begin, AcquireStep, AcquireError, Create, WriteMetadata, Undo,
     Exists, Poll
<1>2. CASE BreakStep(c)
  BY <1>2 DEF BreakStep, Stat, ReadIdentity, Reread, Restat, Rename, MoveAside,
     Verify, MovedStat, Restore, LinkBack, UnlinkRestored, Discard, DropTrash
<1>3. CASE ReleaseStep(c) \/ EndTask(c)
  BY <1>3 DEF EndTask, ReleaseStep, Precheck, ReleaseRename, MoveAside,
     ReleaseVerify, ReleaseRestore, LinkBack, ReleaseUnlinkRestored,
     ReleaseDiscard, DropTrash
<1>4. CASE HeartbeatStep(c) \/ GoesStale(c)
  BY <1>4 DEF HeartbeatStep, HeartbeatCheck, HeartbeatTouch, GoesStale
<1> QED
  BY <1>1, <1>2, <1>3, <1>4 DEF OneStep, LockStep

-----------------------------------------------------------------------------
(* Mutual exclusion with kills                                             *)

Contending == {c \in Calls : pc[c] \notin Over \cup {"idle"}}
InPairs == \A a, b, d \in Contending : a = b \/ a = d \/ b = d
Killed == \E c \in Calls : pc[c] = "dead"

\* Once a process has died, at most two calls contend at a time.
PairedAfterKill == Killed => InPairs

\* No call is killed while it has a lock file aside whose owner still uses it.
KillSpares ==
  \A c \in Calls :
    pc[c] # "dead" /\ pc'[c] = "dead" /\ trash[c] # None => pc[trash[c]] \notin Owning
KillsSpareLive == [][KillSpares]_lockVars

\* A call that has not created its file has none anywhere.
Early == {"idle", "try", "poll", "verify", "movedstat", "restore", "linked", "discard"} \cup BreakPc
Unborn == \A c \in Calls : pc[c] \in Early => path # c /\ \A b \in Calls : trash[b] # c

\* The file of an owning call is at lockPath or on its way back there; while it
\* is on its way nothing else is at lockPath.
PairInv ==
  /\ TypeOK
  /\ \A c \in Calls : pc[c] # "undo"
  /\ OwnedFresh
  /\ \A i \in Calls : pc[i] \in Owning =>
       path = i \/ \E b \in Calls : trash[b] = i /\ pc[b] \in SafePc
  /\ \A i, b \in Calls : pc[i] \in Owning /\ trash[b] = i /\ pc[b] \in SafePc => path = None
  /\ Unborn

\* Before the first kill more is true.
LockInv == PairInv /\ (~Killed => QuietInv)

\* A quiet lock has no file on its way back.
LEMMA QuietIsPaired == QuietInv => PairInv
  BY LockAssumption DEF QuietInv, PairInv, TypeOK, OwnedFresh, Owning, TrashPc, SafePc, Unborn, Early, BreakPc

\* Creating a lock file is final: nobody comes back to the acquisition.
LEMMA EarlyStep ==
  ASSUME TypeOK, NEW c \in Calls, OneStep(c), NEW d \in Calls, pc'[d] \in Early
  PROVE  pc[d] \in Early
<1> USE DEF TypeOK, Step, Goto, Early, BreakPc
<1>1. CASE Begin(c) \/ AcquireStep(c)
  BY <1>1 DEF Begin, AcquireStep, AcquireError, Create, WriteMetadata, Undo,
     Exists, Poll
<1>2. CASE BreakStep(c)
  BY <1>2 DEF BreakStep, Stat, ReadIdentity, Reread, Restat, Rename, MoveAside,
     Verify, MovedStat, Restore, LinkBack, UnlinkRestored, Discard, DropTrash
<1>3. CASE ReleaseStep(c) \/ EndTask(c)
  BY <1>3 DEF EndTask, ReleaseStep, Precheck, ReleaseRename, MoveAside,
     ReleaseVerify, ReleaseRestore, LinkBack, ReleaseUnlinkRestored,
     ReleaseDiscard, DropTrash
<1>4. CASE HeartbeatStep(c) \/ Kill(c) \/ GoesStale(c)
  BY <1>4 DEF HeartbeatStep, HeartbeatCheck, HeartbeatTouch, Kill, GoesStale
<1> QED
  BY <1>1, <1>2, <1>3, <1>4 DEF OneStep, LockStep

\* Files are created by their call alone; every other link is a copy.
LEMMA UnbornStep ==
  ASSUME TypeOK, Unborn, NEW c \in Calls, OneStep(c)
  PROVE  Unborn'
<1>1. \A d \in Calls : pc'[d] \in Early => pc[d] \in Early
  BY EarlyStep
<1>2. ASSUME \A d \in Calls : path' = d => path = d \/ (\E b \in Calls : trash[b] = d) \/ pc'[d] \notin Early,
             \A b, d \in Calls : trash'[b] = d => trash[b] = d \/ path = d
      PROVE  Unborn'
  BY <1>1, <1>2 DEF Unborn
<1> USE LockAssumption DEF TypeOK, Step, Goto
<1>3. CASE Create(c)
  <2>1. path' = c /\ pc'[c] \notin Early /\ UNCHANGED trash
    BY <1>3 DEF Create, Early, BreakPc
  <2> QED
    BY <1>2, <2>1
<1>4. CASE Begin(c) \/ AcquireError(c) \/ WriteMetadata(c) \/ Undo(c) \/ Exists(c) \/ Poll(c) \/ EndTask(c)
  BY <1>2, <1>4 DEF Begin, AcquireError, WriteMetadata, Undo, Exists, Poll, EndTask, files
<1>5. CASE \/ Stat(c) \/ ReadIdentity(c) \/ Reread(c) \/ Restat(c) \/ Verify(c)
           \/ MovedStat(c) \/ Precheck(c) \/ ReleaseVerify(c) \/ HeartbeatStep(c) \/ GoesStale(c)
  BY <1>2, <1>5 DEF Stat, ReadIdentity, Reread, Restat, Verify, MovedStat, Precheck,
     ReleaseVerify, HeartbeatStep, HeartbeatCheck, HeartbeatTouch, GoesStale, files
<1>6. CASE Rename(c) \/ ReleaseRename(c)
  BY <1>2, <1>6 DEF Rename, ReleaseRename, MoveAside
<1>7. CASE Restore(c) \/ ReleaseRestore(c)
  BY <1>2, <1>7 DEF Restore, ReleaseRestore, LinkBack
<1>8. CASE \/ UnlinkRestored(c) \/ Discard(c) \/ ReleaseUnlinkRestored(c)
           \/ ReleaseDiscard(c) \/ Kill(c)
  BY <1>2, <1>8 DEF UnlinkRestored, Discard, ReleaseUnlinkRestored, ReleaseDiscard, DropTrash, Kill
<1> QED
  BY <1>3, <1>4, <1>5, <1>6, <1>7, <1>8
     DEF OneStep, LockStep, AcquireStep, BreakStep, ReleaseStep

\* The same of the next state.
LEMMA QuietStaysPaired == QuietInv' => PairInv'
<1>1. (QuietInv => PairInv)'
  BY QuietIsPaired, PTL
<1> QED
  BY <1>1

\* While two calls contend, whoever creates, renames or links back meets only
\* the other one, which cannot both own a lock and have one aside.
LEMMA PairStep ==
  ASSUME Steady, PairInv, InPairs, NEW c \in Calls, OneStep(c), ~Kill(c)
  PROVE  PairInv'
<1> USE LockAssumption
<1>1. TypeOK'
  BY TypeStep DEF Next, OneStep, PairInv
<1>2. \A d \in Calls : pc'[d] # "undo"
  BY NoUndoStep DEF Steady, PairInv
<1>3. OwnedFresh'
  BY OwnedFreshStep DEF Steady, PairInv
<1> DEFINE Aside(i, b) == trash[b] = i /\ pc[b] \in SafePc
           Safely == \A i \in Calls : pc'[i] \in Owning =>
                       path' = i \/ \E b \in Calls : trash'[b] = i /\ pc'[b] \in SafePc
           Alone == \A i, b \in Calls :
                      pc'[i] \in Owning /\ trash'[b] = i /\ pc'[b] \in SafePc => path' = None
<1>4. Unborn'
  BY UnbornStep DEF PairInv
<1> SUFFICES Safely /\ Alone
  BY <1>1, <1>2, <1>3, <1>4 DEF PairInv
<1>5. TypeOK /\ OwnedFresh
  BY DEF PairInv
<1>6. ASSUME NEW i \in Calls, pc[i] \in Owning PROVE path = i \/ \E b \in Calls : Aside(i, b)
  BY <1>6 DEF PairInv
<1>7. ASSUME NEW i \in Calls, NEW b \in Calls, pc[i] \in Owning, Aside(i, b)
      PROVE  path = None /\ i \in Contending /\ b \in Contending /\ i # b
  BY <1>7 DEF PairInv, Contending, Owning, Over, SafePc
<1>8. ASSUME NEW i \in Calls, NEW b \in Calls, pc[i] \in Owning, Aside(i, b),
             c \in Contending, c # i, c # b
      PROVE  FALSE
  BY <1>7, <1>8 DEF InPairs
<1>9. ASSUME UNCHANGED <<path, trash>>,
             \A d \in Calls : pc'[d] \in Owning => pc[d] \in Owning,
             \A d \in Calls : trash[d] # None /\ pc[trash[d]] \in Owning => (pc'[d] \in SafePc <=> pc[d] \in SafePc)
      PROVE  Safely /\ Alone
  BY <1>5, <1>6, <1>7, <1>9 DEF TypeOK, SafePc, TrashPc
<1> USE DEF Step, Goto, Over
<1>10. CASE Begin(c) \/ WriteMetadata(c) \/ Exists(c) \/ Poll(c) \/ EndTask(c) \/ Precheck(c)
           \/ Stat(c) \/ ReadIdentity(c) \/ Reread(c) \/ Restat(c)
  <2>1. /\ UNCHANGED <<path, trash>>
        /\ \A d \in Calls : pc'[d] \in Owning => pc[d] \in Owning
        /\ \A d \in Calls : pc'[d] \in SafePc <=> pc[d] \in SafePc
    BY <1>5, <1>10 DEF Begin, WriteMetadata, Exists, Poll, EndTask, Precheck, Stat, ReadIdentity, Reread, Restat,
       files, Owning, SafePc, TypeOK, Steady
  <2> QED
    BY <1>9, <2>1
<1>11. CASE Verify(c) \/ MovedStat(c) \/ ReleaseVerify(c)
  <2>1. /\ UNCHANGED <<path, trash>>
        /\ \A d \in Calls : pc'[d] \in Owning => pc[d] \in Owning
        /\ \A d \in Calls \ {c} : pc'[d] = pc[d]
        /\ pc[c] \in SafePc
    BY <1>5, <1>11 DEF Verify, MovedStat, ReleaseVerify, files, Owning, SafePc, TypeOK, Steady
  <2>2. ASSUME trash[c] # None, pc[trash[c]] \in Owning PROVE pc'[c] \in SafePc
    <3>1. trash[c] \in Calls /\ trash[c] \in fresh /\ trash[c] # c
      BY <1>5, <2>1, <2>2 DEF TypeOK, OwnedFresh, Owning, SafePc
    <3>2. Content(trash[c]) # c
      BY <3>1 DEF Content
    <3> QED
      BY <1>5, <1>11, <3>1, <3>2 DEF Verify, MovedStat, ReleaseVerify, SafePc, TypeOK, Steady
  <2> QED
    BY <1>9, <2>1, <2>2
<1>12. CASE HeartbeatStep(c) \/ GoesStale(c)
  <2>1. UNCHANGED <<path, trash, pc>>
    BY <1>12 DEF HeartbeatStep, HeartbeatCheck, HeartbeatTouch, GoesStale, files
  <2> QED
    BY <1>9, <2>1
<1>13. CASE Create(c)
  <2>1. /\ path = None /\ path' = c /\ pc[c] = "try" /\ pc'[c] = "opened" /\ UNCHANGED trash
        /\ \A d \in Calls \ {c} : pc'[d] = pc[d]
    BY <1>5, <1>13 DEF Create, TypeOK
  <2>2. c \in Contending /\ trash[c] = None
    BY <1>5, <2>1 DEF Contending, TypeOK, TrashPc
  <2>3. \A i, b \in Calls \ {c} : pc[i] \in Owning => ~Aside(i, b)
    BY <1>8, <2>2
  <2>4. \A i \in Calls \ {c} : pc[i] \notin Owning
    BY <1>5, <1>6, <2>1, <2>2, <2>3 DEF TypeOK
  <2>6. \A b \in Calls : trash[b] # c
    BY <2>1 DEF PairInv, Unborn, Early
  <2> QED
    BY <1>5, <2>1, <2>2, <2>4, <2>6 DEF TypeOK
<1>14. CASE Rename(c) \/ ReleaseRename(c)
  <2>1. CASE path = None
    <3>1. /\ UNCHANGED <<path, trash>>
          /\ \A d \in Calls : pc'[d] \in Owning => pc[d] \in Owning
          /\ \A d \in Calls : pc'[d] \in SafePc <=> pc[d] \in SafePc
      BY <1>5, <1>14, <2>1 DEF Rename, ReleaseRename, MoveAside, Owning, SafePc, TypeOK
    <3> QED
      BY <1>9, <3>1
  <2>2. CASE path # None
    <3>1. /\ path' = None /\ trash' = [trash EXCEPT ![c] = path] /\ pc'[c] \in SafePc
          /\ \A d \in Calls \ {c} : pc'[d] = pc[d]
          /\ pc'[c] \notin Owning /\ trash'[c] = path /\ pc[c] \notin SafePc
      BY <1>5, <1>14, <2>2 DEF Rename, ReleaseRename, MoveAside, Owning, SafePc, TypeOK
    <3>2. \A i, b \in Calls : pc[i] \in Owning => ~Aside(i, b)
      BY <1>7, <2>2
    <3> QED
      BY <1>5, <1>6, <3>1, <3>2 DEF TypeOK
  <2> QED
    BY <2>1, <2>2
<1>15. CASE Restore(c) \/ ReleaseRestore(c)
  <2>1. /\ pc[c] \in SafePc /\ pc'[c] \notin SafePc \cup Owning
        /\ \A d \in Calls \ {c} : pc'[d] = pc[d]
    BY <1>5, <1>15 DEF Restore, ReleaseRestore, LinkBack, Owning, SafePc, TypeOK
  <2>2. c \in Contending /\ trash[c] # None /\ trash[c] \in Calls
    BY <1>5, <2>1 DEF Contending, TypeOK, TrashPc, SafePc
  <2>3. CASE path = None
    <3>1. path' = trash[c] /\ UNCHANGED trash
      BY <1>15, <2>3 DEF Restore, ReleaseRestore, LinkBack
    <3>2. \A i, b \in Calls : pc[i] \in Owning /\ Aside(i, b) => b = c
      BY <1>8, <2>1, <2>2 DEF Owning, SafePc
    <3> QED
      BY <1>5, <1>6, <2>1, <2>2, <2>3, <3>1, <3>2 DEF TypeOK
  <2>4. CASE path # None
    <3>1. path' = path /\ trash' = [trash EXCEPT ![c] = None]
      BY <1>15, <2>4 DEF Restore, ReleaseRestore, LinkBack
    <3>2. \A i, b \in Calls : pc[i] \in Owning => ~Aside(i, b)
      BY <1>7, <2>4
    <3> QED
      BY <1>5, <1>6, <2>1, <2>2, <3>1, <3>2 DEF TypeOK
  <2> QED
    BY <2>3, <2>4
<1>16. CASE UnlinkRestored(c) \/ Discard(c) \/ ReleaseUnlinkRestored(c) \/ ReleaseDiscard(c)
  <2>1. /\ UNCHANGED path /\ trash' = [trash EXCEPT ![c] = None]
        /\ \A d \in Calls \ {c} : pc'[d] = pc[d]
        /\ {pc[c], pc'[c]} \cap (SafePc \cup Owning) = {}
    BY <1>5, <1>16 DEF UnlinkRestored, Discard, ReleaseUnlinkRestored, ReleaseDiscard, DropTrash, Owning, SafePc,
       TypeOK
  <2>2. \A d \in Calls \ {c} : trash'[d] = trash[d]
    BY <1>5, <2>1 DEF TypeOK
  <2> QED
    BY <1>5, <1>6, <1>7, <2>1, <2>2
<1>17. CASE AcquireError(c) \/ Undo(c)
  BY <1>17 DEF AcquireError, Undo, Steady, PairInv
<1> QED
  BY <1>10, <1>11, <1>12, <1>13, <1>14, <1>15, <1>16, <1>17
     DEF OneStep, LockStep, AcquireStep, BreakStep, ReleaseStep

\* A kill that spares live locks leaves the others' files where they were.
LEMMA KillStep ==
  ASSUME Steady, PairInv, NEW c \in Calls, Kill(c), KillSpares
  PROVE  PairInv' /\ Killed'
<1> USE DEF OneStep
<1>1. TypeOK /\ OwnedFresh /\ Unborn
  BY DEF PairInv
<1>2. TypeOK' /\ OwnedFresh' /\ Unborn' /\ \A d \in Calls : pc'[d] # "undo"
  BY <1>1, TypeStep, OwnedFreshStep, UnbornStep, NoUndoStep DEF Next, Steady, PairInv
<1>3. /\ pc[c] # "dead" /\ pc'[c] = "dead" /\ \A d \in Calls \ {c} : pc'[d] = pc[d]
      /\ path' = path /\ trash' = [trash EXCEPT ![c] = None]
  BY <1>1 DEF Kill, Goto, Over, TypeOK
<1>4. trash[c] # None => pc[trash[c]] \notin Owning
  BY <1>3 DEF KillSpares
<1>5. Killed'
  BY <1>3 DEF Killed
<1>6. ASSUME NEW i \in Calls, pc'[i] \in Owning
      PROVE  path' = i \/ \E b \in Calls : trash'[b] = i /\ pc'[b] \in SafePc
  <2>1. i # c /\ pc[i] \in Owning
    BY <1>3, <1>6 DEF Owning
  <2>2. path = i \/ \E b \in Calls \ {c} : trash[b] = i /\ pc[b] \in SafePc
    BY <1>4, <2>1, LockAssumption DEF PairInv
  <2> QED
    BY <1>1, <1>3, <2>2 DEF TypeOK
<1>7. ASSUME NEW i \in Calls, NEW b \in Calls, pc'[i] \in Owning, trash'[b] = i, pc'[b] \in SafePc
      PROVE  path' = None
  <2>1. i # c /\ b # c
    BY <1>3, <1>7 DEF Owning, SafePc
  <2>2. pc[i] \in Owning /\ trash[b] = i /\ pc[b] \in SafePc
    BY <1>1, <1>3, <1>7, <2>1 DEF TypeOK
  <2> QED
    BY <1>3, <2>2 DEF PairInv
<1> QED
  BY <1>2, <1>5, <1>6, <1>7 DEF PairInv

\* Every step of a lock that is used in pairs after a kill keeps the invariant.
LEMMA LockInvStep ==
  ASSUME Steady, LockInv, PairedAfterKill, [Next /\ KillSpares]_lockVars
  PROVE  LockInv'
<1>1. CASE UNCHANGED lockVars
  BY <1>1, QuietIsPaired
     DEF LockInv, PairInv, QuietInv, Killed, TypeOK, OwnedFresh, Unborn, lockVars, Content
<1>2. ASSUME NEW c \in Calls, OneStep(c), KillSpares PROVE LockInv'
  <2>1. PairInv /\ TypeOK
    BY DEF LockInv, PairInv
  <2>2. CASE Kill(c)
    BY <1>2, <2>1, <2>2, KillStep DEF LockInv
  <2>3. CASE Killed /\ ~Kill(c)
    <3>1. PairInv'
      BY <1>2, <2>1, <2>3, PairStep DEF PairedAfterKill
    <3>2. Killed'
      BY <1>2, <2>1, <2>3, StaysDead DEF Killed
    <3> QED
      BY <3>1, <3>2 DEF LockInv
  <2>4. CASE ~Killed /\ ~Kill(c)
    <3>1. \A d \in Calls : pc'[d] # "dead"
      BY <1>2, <2>1, <2>4, StillAlive DEF Killed
    <3>2. QuietInv'
      BY <1>2, <2>4, <3>1, QuietStep DEF LockInv, Next, OneStep
    <3> QED
      BY <3>2, QuietStaysPaired DEF LockInv
  <2> QED
    BY <2>2, <2>3, <2>4
<1> QED
  BY <1>1, <1>2 DEF Next, OneStep

\* In either case one call at most owns the lock.
LEMMA LockInvExcludes ==
  ASSUME LockInv, PairedAfterKill PROVE MutualExclusion
<1>1. CASE ~Killed
  BY <1>1 DEF LockInv, QuietInv, MutualExclusion, Owning
<1>2. CASE Killed
  <2> SUFFICES ASSUME NEW c \in Calls, NEW d \in Calls, pc[c] = "held", pc[d] = "held", c # d
               PROVE  FALSE
    BY DEF MutualExclusion
  <2>1. \A b \in Calls : pc[b] \in SafePc => b = c \/ b = d
    BY <1>2 DEF PairedAfterKill, InPairs, Contending, Over, SafePc
  <2>2. path = c /\ path = d
    BY <2>1 DEF LockInv, PairInv, Owning, SafePc
  <2> QED
    BY <2>2
<1> QED
  BY <1>1, <1>2

\* Processes may die at any point, and any number of calls may contend until
\* the first does; from then on, as long as at most two contend at a time and
\* nobody dies with another's live lock file aside, the lock stays a mutex
\* (withHeldFileLock, breakStaleLock). Three contenders are too many: while one
\* has a live lock aside to restore it, the third finds the path free.
THEOREM ExclusiveInPairs ==
  Steady /\ Spec /\ []PairedAfterKill /\ KillsSpareLive => []MutualExclusion
<1> SUFFICES ASSUME Steady
             PROVE  Spec /\ []PairedAfterKill /\ KillsSpareLive => []MutualExclusion
  OBVIOUS
<1>1. Init => LockInv
  BY QuietInit, QuietIsPaired DEF LockInv
<1>2. LockInv /\ PairedAfterKill /\ [Next]_lockVars /\ [KillSpares]_lockVars => LockInv'
  BY LockInvStep
<1>3. LockInv /\ PairedAfterKill => MutualExclusion
  BY LockInvExcludes
<1> QED
  BY <1>1, <1>2, <1>3, PTL DEF Spec, KillsSpareLive

\* The lock file of a call between its create and its release is at lockPath, or
\* aside with a call that has yet to judge it or to link it back.
LiveLockReturns ==
  \A i \in Calls : pc[i] \in Owning =>
    path = i \/ \E b \in Calls : trash[b] = i /\ pc[b] \in SafePc

\* Under the same assumptions no live lock file is left in a trash path, where
\* nobody would look at it again (breakStaleLock, releaseLock: the restore that
\* meets EEXIST leaves it there).
THEOREM LiveLocksReturn ==
  Steady /\ Spec /\ []PairedAfterKill /\ KillsSpareLive => []LiveLockReturns
<1> SUFFICES ASSUME Steady
             PROVE  Spec /\ []PairedAfterKill /\ KillsSpareLive => []LiveLockReturns
  OBVIOUS
<1>1. Init => LockInv
  BY QuietInit, QuietIsPaired DEF LockInv
<1>2. LockInv /\ PairedAfterKill /\ [Next]_lockVars /\ [KillSpares]_lockVars => LockInv'
  BY LockInvStep
<1>3. LockInv => LiveLockReturns
  BY DEF LockInv, PairInv, LiveLockReturns
<1> QED
  BY <1>1, <1>2, <1>3, PTL DEF Spec, KillsSpareLive
=============================================================================
