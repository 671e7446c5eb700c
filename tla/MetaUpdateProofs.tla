-------------------------- MODULE MetaUpdateProofs --------------------------
(***************************************************************************)
(* Theorems about updates of meta.json, for any number of updates.  Mutual  *)
(* exclusion of the lock is all that NoLostUpdate needs; and the promise    *)
(* chain of each process is what bounds the calls that contend for the      *)
(* lock, so three processes, dying when they like, keep it exclusive.       *)
(***************************************************************************)
EXTENDS MetaUpdate, HeldFileLockProofs

\* Where a call is before its task can start.
BeforeTask == Early \cup {"opened"}

\* A loaded copy is current for as long as its call holds the lock.
ReadInv ==
  /\ MetaTypeOK
  /\ \A c \in Calls : pc[c] \in BeforeTask => task[c] = "start"
  /\ \A c \in Calls : pc[c] = "held" /\ task[c] = "loaded" => copy[c] = meta
  /\ NoLostUpdate

\* Every step of the update is a step of the lock or leaves it alone.
LEMMA MetaNextIsLockNext ==
  [MetaNext]_vars => [Next]_lockVars
  BY DEF MetaNext, UpdateStep, BeginUpdate, Load, Save, Settle, Next, vars

\* So the lock under the updates is the lock of module HeldFileLock.
LEMMA UpdatesUseTheLock == MetaSpec => Spec
<1>1. MetaInit => Init
  BY DEF MetaInit
<1> QED
  BY <1>1, MetaNextIsLockNext, PTL DEF MetaSpec, Spec

\* A call begins when its process's chain is free, or goes on.
ChainedStep(c) ==
  (Begin(c) /\ ChainFree(c)) \/ LockStep(c) \/ EndTask(c) \/ Kill(c) \/ GoesStale(c)

\* Only a call that contends moves, and no other with it.
LEMMA OneMoves ==
  ASSUME TypeOK, NEW c \in Calls, LockStep(c) \/ EndTask(c) \/ Kill(c) \/ GoesStale(c)
  PROVE  pc' = pc \/ (c \in Contending /\ \A d \in Calls \ {c} : pc'[d] = pc[d])
<1> USE DEF TypeOK, Step, Goto, Contending, Over
<1>1. CASE AcquireStep(c)
  BY <1>1 DEF AcquireStep, AcquireError, Create, WriteMetadata, Undo,
     Exists, Poll
<1>2. CASE BreakStep(c)
  BY <1>2 DEF BreakStep, Stat, ReadIdentity, Reread, Restat, Rename, MoveAside,
     Verify, MovedStat, Restore, LinkBack, UnlinkRestored, Discard, DropTrash
<1>3. CASE ReleaseStep(c) \/ EndTask(c)
  BY <1>3 DEF EndTask, ReleaseStep, Precheck, ReleaseRename, MoveAside,
     ReleaseVerify, ReleaseRestore, LinkBack, ReleaseUnlinkRestored,
     ReleaseDiscard, DropTrash
<1>4. CASE HeartbeatStep(c) \/ GoesStale(c) \/ Kill(c)
  BY <1>4 DEF HeartbeatStep, HeartbeatCheck, HeartbeatTouch, GoesStale, Kill
<1> QED
  BY <1>1, <1>2, <1>3, <1>4 DEF LockStep

\* The task starts after the acquisition, which no call repeats.
LEMMA TaskComesAfter ==
  ASSUME TypeOK, NEW c \in Calls, OneStep(c), NEW d \in Calls
  PROVE  /\ pc'[d] \in BeforeTask => pc[d] \in BeforeTask
         /\ pc'[d] = "held" => pc[d] \in {"opened", "held"}
<1> USE DEF TypeOK, Step, Goto, BeforeTask, Early, BreakPc
<1>1. CASE Begin(c) \/ AcquireStep(c)
  BY <1>1 DEF Begin, AcquireStep, AcquireError, Create, WriteMetadata, Undo,
     Exists, Poll
<1>2. CASE BreakStep(c)
  BY <1>2 DEF BreakStep, Stat, ReadIdentity, Reread, Restat, Rename, MoveAside,
     Verify, MovedStat, Restore, LinkBack, UnlinkRestored, Discard, DropTrash
<1>3. CASE ReleaseStep(c) \/ EndTask(c)
  BY <1>3 DEF EndTask, ReleaseStep, Precheck, ReleaseRename, MoveAside,
     ReleaseVerify, ReleaseRestore, LinkBack, ReleaseUnlinkRestored,
     ReleaseDiscard, DropTrash
<1>4. CASE HeartbeatStep(c) \/ GoesStale(c) \/ Kill(c)
  BY <1>4 DEF HeartbeatStep, HeartbeatCheck, HeartbeatTouch, GoesStale, Kill
<1> QED
  BY <1>1, <1>2, <1>3, <1>4 DEF OneStep, LockStep

\* One step of an update, or of the lock under it, loses no update.
LEMMA ReadStep ==
  ASSUME ReadInv, MutualExclusion, [MetaNext]_vars
  PROVE  ReadInv'
<1>1. TypeOK /\ TypeOK'
  BY MetaNextIsLockNext, TypeStep DEF ReadInv, MetaTypeOK
<1>2. CASE UNCHANGED vars
  BY <1>1, <1>2 DEF vars, lockVars, metaVars, ReadInv, MetaTypeOK, NoLostUpdate
<1>3. ASSUME NEW c \in Calls, Load(c) PROVE ReadInv'
  BY <1>1, <1>3 DEF Load, lockVars, ReadInv, MetaTypeOK, NoLostUpdate, BeforeTask, Early, BreakPc
<1>4. ASSUME NEW c \in Calls, Save(c) PROVE ReadInv'
  <2>1. \A d \in Calls \ {c} : pc[d] # "held"
    BY <1>4 DEF Save, MutualExclusion
  <2>2. copy[c] = meta /\ pc[c] \notin BeforeTask
    BY <1>4 DEF Save, ReadInv, BeforeTask, Early, BreakPc
  <2> QED
    BY <1>1, <1>4, <2>1, <2>2
       DEF Save, lockVars, ReadInv, MetaTypeOK, NoLostUpdate
<1>5. ASSUME NEW c \in Calls, OneStep(c), UNCHANGED metaVars PROVE ReadInv'
  <2>1. \A d \in Calls : /\ pc'[d] \in BeforeTask => pc[d] \in BeforeTask
                         /\ pc'[d] = "held" => pc[d] \in {"opened", "held"}
    BY <1>1, <1>5, TaskComesAfter
  <2> QED
    BY <1>1, <1>5, <2>1 DEF metaVars, ReadInv, MetaTypeOK, NoLostUpdate, BeforeTask
<1> QED
  BY <1>2, <1>3, <1>4, <1>5
     DEF MetaNext, UpdateStep, BeginUpdate, Settle, OneStep

\* As long as the lock is exclusive, whoever is killed, stalls or meets an I/O
\* error, a saved metadata update stays, whatever updates other workers save
\* around it (updateMetaSerialized: "never a silent lost update").
THEOREM ExclusionSuffices == MetaSpec /\ []MutualExclusion => []NoLostUpdate
<1>1. MetaInit => ReadInv
  BY TypeInit DEF MetaInit, Init, ReadInv, MetaTypeOK, NoLostUpdate
<1>2. ReadInv /\ MutualExclusion /\ [MetaNext]_vars => ReadInv'
  BY ReadStep
<1>3. ReadInv => NoLostUpdate
  BY DEF ReadInv
<1> QED
  BY <1>1, <1>2, <1>3, PTL DEF MetaSpec

-----------------------------------------------------------------------------
(* Three processes                                                         *)

\* Among any four calls two are of the same process.
ThreeProcesses ==
  \A a, b, c, d \in Calls :
    Proc[a] \in {Proc[b], Proc[c], Proc[d]} \/ Proc[b] \in {Proc[c], Proc[d]} \/ Proc[c] = Proc[d]

\* While a call contends the others of its process have not begun or returned.
ChainInv ==
  \A c, d \in Calls :
    c # d /\ Proc[c] = Proc[d] /\ d \in Contending => pc[c] \in {"idle", "done", "failed"}

TwoDied == \E j, k \in Calls : pc[j] = "dead" /\ pc[k] = "dead" /\ Proc[j] # Proc[k]

\* When two processes have died, the third is alone with its chain.
TrioInv == TypeOK /\ ChainInv /\ (TwoDied \/ LockInv)

\* The calls that contend are of different, living processes.
LEMMA Contenders ==
  ASSUME TypeOK, ChainInv, NEW a \in Contending, NEW b \in Calls, a # b,
         b \in Contending \/ pc[b] = "dead"
  PROVE  Proc[a] # Proc[b]
  BY DEF ChainInv, Contending, Over

\* One death of three leaves two contenders, two deaths leave one.
LEMMA FewContend ==
  ASSUME ThreeProcesses, TypeOK, ChainInv
  PROVE  /\ PairedAfterKill
         /\ TwoDied => \A a, b \in Contending : a = b
<1>1. \A a \in Contending : a \in Calls /\ pc[a] # "dead"
  BY DEF Contending, Over
<1>2. ASSUME Killed PROVE InPairs
  <2> SUFFICES ASSUME NEW a \in Contending, NEW b \in Contending, NEW d \in Contending,
                      a # b, a # d, b # d
               PROVE  FALSE
    BY DEF InPairs
  <2>1. PICK k \in Calls : pc[k] = "dead"
    BY <1>2 DEF Killed
  <2>2. Proc[a] # Proc[b] /\ Proc[a] # Proc[d] /\ Proc[b] # Proc[d]
    BY <1>1, Contenders
  <2>3. Proc[a] # Proc[k] /\ Proc[b] # Proc[k] /\ Proc[d] # Proc[k]
    BY <1>1, <2>1, Contenders
  <2> QED
    BY <1>1, <2>2, <2>3 DEF ThreeProcesses
<1>3. ASSUME TwoDied, NEW a \in Contending, NEW b \in Contending, a # b PROVE FALSE
  <2>1. PICK j, k \in Calls : pc[j] = "dead" /\ pc[k] = "dead" /\ Proc[j] # Proc[k]
    BY <1>3 DEF TwoDied
  <2>2. Proc[a] # Proc[b]
    BY <1>1, <1>3, Contenders
  <2>3. Proc[a] # Proc[k] /\ Proc[b] # Proc[k] /\ Proc[a] # Proc[j] /\ Proc[b] # Proc[j]
    BY <1>1, <2>1, Contenders
  <2> QED
    BY <1>1, <2>1, <2>2, <2>3 DEF ThreeProcesses
<1> QED
  BY <1>2, <1>3 DEF PairedAfterKill

\* A call begins only when the chain of its process is free, and every other
\* step is that of a call that contends already.
LEMMA ChainStep ==
  ASSUME TypeOK, ChainInv, NEW c \in Calls, ChainedStep(c)
  PROVE  ChainInv'
<1>1. CASE pc' = pc
  BY <1>1 DEF ChainInv, Contending
<1>2. CASE Begin(c) /\ ChainFree(c)
  <2>1. pc[c] = "idle" /\ \A d \in Calls \ {c} : pc'[d] = pc[d]
    BY <1>2 DEF Begin, Step, TypeOK
  <2> QED
    BY <1>2, <2>1 DEF ChainInv, ChainFree, Contending, Over
<1>3. CASE c \in Contending /\ \A d \in Calls \ {c} : pc'[d] = pc[d]
  BY <1>3 DEF ChainInv, Contending, Over
<1> QED
  BY <1>1, <1>2, <1>3, OneMoves DEF ChainedStep

\* Before two processes have died a kill either is the second death, or takes
\* away a call that has nobody's live lock file aside.
LEMMA KillIsHarmless ==
  ASSUME TypeOK, ChainInv, LockInv, NEW c \in Calls, Kill(c)
  PROVE  TwoDied' \/ KillSpares
<1>1. c \in Contending /\ pc'[c] = "dead" /\ \A d \in Calls \ {c} : pc'[d] = pc[d]
  BY DEF Kill, Goto, Contending, TypeOK
<1>2. CASE Killed
  <2>1. PICK k \in Calls : pc[k] = "dead"
    BY <1>2 DEF Killed
  <2>2. k # c
    BY <1>1, <2>1 DEF Contending, Over
  <2>3. Proc[c] # Proc[k]
    BY <1>1, <2>1, <2>2, Contenders
  <2> QED
    BY <1>1, <2>1, <2>2, <2>3 DEF TwoDied
<1>3. CASE ~Killed
  <2>1. trash[c] # None => trash[c] = c /\ pc[c] \notin Owning
    BY <1>3 DEF LockInv, QuietInv, TypeOK, TrashPc, Owning
  <2> QED
    BY <1>1, <2>1 DEF KillSpares
<1> QED
  BY <1>2, <1>3

\* Every step of an update keeps the chains and the lock.
LEMMA TrioStep ==
  ASSUME Steady, ThreeProcesses, TrioInv, [MetaNext]_vars
  PROVE  TrioInv'
<1>1. TypeOK /\ TypeOK' /\ ChainInv
  BY MetaNextIsLockNext, TypeStep DEF TrioInv
<1>2. CASE UNCHANGED lockVars
  <2>1. LockInv => LockInv'
    BY <1>1, <1>2, FewContend, LockInvStep
  <2> QED
    BY <1>1, <1>2, <2>1 DEF lockVars, TrioInv, ChainInv, Contending, TwoDied
<1>3. ASSUME NEW c \in Calls, ChainedStep(c) PROVE TrioInv'
  <2> OneStep(c)
    BY <1>3 DEF ChainedStep, OneStep
  <2>1. ChainInv'
    BY <1>1, <1>3, ChainStep
  <2>2. CASE TwoDied
    <3>1. TwoDied'
      BY <1>1, <1>3, <2>2, StaysDead DEF TwoDied
    <3> QED
      BY <1>1, <2>1, <3>1 DEF TrioInv
  <2>3. CASE LockInv /\ KillSpares
    <3>1. LockInv'
      BY <1>1, <1>3, <2>3, FewContend, LockInvStep DEF Next, OneStep
    <3> QED
      BY <1>1, <2>1, <3>1 DEF TrioInv
  <2>4. CASE LockInv /\ ~KillSpares
    <3>1. Kill(c)
      BY <1>1, <1>3, <2>4, StillAlive DEF KillSpares
    <3>2. TwoDied'
      BY <1>1, <2>4, <3>1, KillIsHarmless
    <3> QED
      BY <1>1, <2>1, <3>2 DEF TrioInv
  <2> QED
    BY <2>2, <2>3, <2>4 DEF TrioInv
<1> QED
  BY <1>2, <1>3 DEF MetaNext, UpdateStep, BeginUpdate, Load, Save, Settle, ChainedStep, vars

\* Three processes with any number of updates each may die at any point: as
\* long as none stalls or meets an I/O error, the lock of their updates stays a
\* mutex. The bound is sharp: with a fourth process TLC finds two holders, and
\* an update that is lost (MetaUpdateTrio.cfg).
THEOREM TriosExclude == Steady /\ ThreeProcesses /\ MetaSpec => []MutualExclusion
<1> SUFFICES ASSUME Steady, ThreeProcesses PROVE MetaSpec => []MutualExclusion
  OBVIOUS
<1>1. MetaInit => TrioInv
  BY QuietInit, QuietIsPaired, TypeInit DEF MetaInit, Init, TrioInv, LockInv, ChainInv
<1>2. TrioInv /\ [MetaNext]_vars => TrioInv'
  BY TrioStep
<1>3. TrioInv => MutualExclusion
  <2> SUFFICES ASSUME TrioInv PROVE MutualExclusion
    OBVIOUS
  <2>1. CASE LockInv
    BY <2>1, FewContend, LockInvExcludes DEF TrioInv
  <2>2. CASE TwoDied
    BY <2>2, FewContend DEF TrioInv, MutualExclusion, Contending, Over
  <2> QED
    BY <2>1, <2>2 DEF TrioInv
<1> QED
  BY <1>1, <1>2, <1>3, PTL DEF MetaSpec

\* So no update of theirs is lost, whoever dies in the middle of one.
THEOREM TriosKeepUpdates == Steady /\ ThreeProcesses /\ MetaSpec => []NoLostUpdate
  BY TriosExclude, ExclusionSuffices, PTL
=============================================================================
