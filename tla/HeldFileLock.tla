---------------------------- MODULE HeldFileLock ----------------------------
(***************************************************************************)
(* The advisory on-disk lock (withHeldFileLock) at the granularity of its   *)
(* file-system calls: exclusive create, replacement-safe breaking of a      *)
(* stale lock, heartbeat, and ownership-checked release.                    *)
(*                                                                         *)
(* An element of Calls is one withHeldFileLock call, with its own ownerId.  *)
(* A call creates at most one lock file, so a file is named by the call     *)
(* that created it, wherever it is linked: at lockPath, at the private      *)
(* trash path of a breaking or releasing call, or left behind in a trash    *)
(* path nobody will look at again.  The clock is reduced to whether a       *)
(* file's mtime is within staleMs.                                          *)
(***************************************************************************)
EXTENDS Naturals, FiniteSets

CONSTANTS Calls,
          Killable,   \* calls whose process may be killed
          Stalling,   \* calls whose event loop may pause longer than staleMs
          Faulty,     \* calls whose writes and reads may fail with an I/O error
          Empty,      \* the content of a file whose metadata is not written
          None

ASSUME LockAssumption ==
  /\ Killable \subseteq Calls
  /\ Stalling \subseteq Calls
  /\ Faulty \subseteq Calls
  /\ Empty \notin Calls
  /\ None \notin Calls
  /\ Empty # None

VARIABLES
  path,      \* the file at lockPath, or None
  trash,     \* the file at the trash path each call is working on
  left,      \* files left in a trash path
  written,   \* files whose metadata is written
  late,      \* ghost: files whose metadata was written when they were given up for stale
  fresh,     \* files whose mtime is within staleMs
  ident,     \* staleIdentity of each breaking call
  hb,        \* heartbeat (or refresh) of each call: idle, or due to touch
  pc         \* where each call is

files == <<path, trash, left>>
metadata == <<written, late>>
lockVars == <<path, trash, left, written, late, fresh, ident, hb, pc>>

Init ==
  /\ path = None
  /\ trash = [c \in Calls |-> None]
  /\ left = {}
  /\ written = {}
  /\ late = {}
  /\ fresh = {}
  /\ ident = [c \in Calls |-> None]
  /\ hb = [c \in Calls |-> "idle"]
  /\ pc = [c \in Calls |-> "idle"]

Content(i) == IF i \in written THEN i ELSE Empty
Over == {"done", "failed", "dead"}
Running(c) == pc[c] \notin Over
\* The call has created its lock file and not yet given it up.
Owning == {"opened", "held", "release", "relrename"}

\* Trash paths whose file is only ever linked back or left there.
SafePc == {"verify", "movedstat", "restore", "relverify", "relrestore"}
\* The file has a link that no pending unlink is about to remove.
Safe(i) ==
  path = i \/ i \in left \/ \E b \in Calls : trash[b] = i /\ pc[b] \in SafePc

Step(c, from, to) == pc[c] = from /\ pc' = [pc EXCEPT ![c] = to]
Goto(c, to) == pc' = [pc EXCEPT ![c] = to]

-----------------------------------------------------------------------------
(* acquireLock                                                             *)

Begin(c) ==
  /\ Step(c, "idle", "try")
  /\ UNCHANGED <<files, metadata, fresh, ident, hb>>

\* The lock directory, or the open, fails with something other than EEXIST.
AcquireError(c) ==
  /\ c \in Faulty
  /\ Step(c, "try", "failed")
  /\ UNCHANGED <<files, metadata, fresh, ident, hb>>

\* open(lockPath, "wx") creates an empty file.
Create(c) ==
  /\ path = None
  /\ Step(c, "try", "opened")
  /\ path' = c
  /\ fresh' = fresh \cup {c}
  /\ UNCHANGED <<trash, left, metadata, ident, hb>>

\* The metadata is written through the handle, wherever the file is linked by
\* now, and the write renews its mtime; a write may fail, or the close after it.
WriteMetadata(c) ==
  /\ \/ Step(c, "opened", "held")
     \/ c \in Faulty /\ Step(c, "opened", "undo")
  /\ \/ /\ written' = written \cup {c}
        /\ fresh' = fresh \cup {c}
        /\ late' = IF Safe(c) THEN late ELSE late \cup {c}
     \/ pc'[c] = "undo" /\ UNCHANGED <<metadata, fresh>>
  /\ UNCHANGED <<files, ident, hb>>

\* The exclusive create is undone by path.
Undo(c) ==
  /\ Step(c, "undo", "failed")
  /\ path' = None
  /\ UNCHANGED <<trash, left, metadata, fresh, ident, hb>>

\* EEXIST: breakStaleLock starts with a stat.
Exists(c) ==
  /\ path # None
  /\ Step(c, "try", "stat")
  /\ UNCHANGED <<files, metadata, fresh, ident, hb>>

\* After breakStaleLock: the deadline has passed, or the call sleeps and retries.
Poll(c) ==
  /\ Step(c, "poll", "try") \/ Step(c, "poll", "failed")
  /\ UNCHANGED <<files, metadata, fresh, ident, hb>>

-----------------------------------------------------------------------------
(* breakStaleLock                                                          *)

Stat(c) ==
  /\ pc[c] = "stat"
  /\ Goto(c, IF path = None \/ path \in fresh THEN "poll" ELSE "ident")
  /\ UNCHANGED <<files, metadata, fresh, ident, hb>>

\* Mutant: a lock file without metadata is taken for an unreadable one.
ReadIdentityOfOwner(c) ==
  /\ pc[c] = "ident"
  /\ IF path = None \/ path \notin written
       THEN Goto(c, "poll") /\ UNCHANGED ident
       ELSE /\ Goto(c, "reread")
            /\ ident' = [ident EXCEPT ![c] = Content(path)]
  /\ UNCHANGED <<files, metadata, fresh, hb>>

ReadIdentity(c) ==
  /\ pc[c] = "ident"
  /\ IF path = None
       THEN Goto(c, "poll") /\ UNCHANGED ident
       ELSE /\ Goto(c, "reread")
            /\ ident' = [ident EXCEPT ![c] = Content(path)]
  /\ UNCHANGED <<files, metadata, fresh, hb>>

Reread(c) ==
  /\ pc[c] = "reread"
  /\ Goto(c, IF path # None /\ Content(path) = ident[c] THEN "restat" ELSE "poll")
  /\ UNCHANGED <<files, metadata, fresh, ident, hb>>

Restat(c) ==
  /\ pc[c] = "restat"
  /\ Goto(c, IF path = None \/ path \in fresh THEN "poll" ELSE "rename")
  /\ UNCHANGED <<files, metadata, fresh, ident, hb>>

\* rename(lockPath, trashPath) moves whatever is at lockPath by now.
MoveAside(c, from, gone, moved) ==
  /\ pc[c] = from
  /\ IF path = None
       THEN Goto(c, gone) /\ UNCHANGED <<path, trash>>
       ELSE /\ Goto(c, moved)
            /\ trash' = [trash EXCEPT ![c] = path]
            /\ path' = None
  /\ UNCHANGED <<left, metadata, fresh, ident, hb>>

\* Mutant: the verified lock is unlinked by path.
RenameUnlinks(c) ==
  /\ Step(c, "rename", "poll")
  /\ path' = None
  /\ UNCHANGED <<trash, left, metadata, fresh, ident, hb>>

Rename(c) == MoveAside(c, "rename", "poll", "verify")

\* Mutant: whatever was moved is thrown away.
VerifySkipped(c) ==
  /\ Step(c, "verify", "discard")
  /\ UNCHANGED <<files, metadata, fresh, ident, hb>>

\* The moved file is read back; one that cannot be read is unlinked.
Verify(c) ==
  /\ \/ /\ pc[c] = "verify"
        /\ Goto(c, IF Content(trash[c]) = ident[c] THEN "movedstat" ELSE "restore")
     \/ c \in Faulty /\ Step(c, "verify", "discard")
  /\ UNCHANGED <<files, metadata, fresh, ident, hb>>

\* Mutant: a moved file with the judged identity is not checked for a heartbeat.
MovedStatSkipped(c) ==
  /\ Step(c, "movedstat", "discard")
  /\ UNCHANGED <<files, metadata, fresh, ident, hb>>

MovedStat(c) ==
  /\ \/ /\ pc[c] = "movedstat"
        /\ Goto(c, IF trash[c] \in fresh THEN "restore" ELSE "discard")
     \/ c \in Faulty /\ Step(c, "movedstat", "discard")
  /\ UNCHANGED <<files, metadata, fresh, ident, hb>>

\* Mutant: on EEXIST the call goes on with the file still in its trash path.
LinkBackKeepsTrash(c, from, linked, over) ==
  /\ pc[c] = from
  /\ IF path = None
       THEN Goto(c, linked) /\ path' = trash[c]
       ELSE Goto(c, over) /\ UNCHANGED path
  /\ UNCHANGED <<trash, left, metadata, fresh, ident, hb>>

\* link(trashPath, lockPath) never overwrites; on EEXIST the file stays in trash.
LinkBack(c, from, linked, over) ==
  /\ pc[c] = from
  /\ IF path = None
       THEN Goto(c, linked) /\ path' = trash[c] /\ UNCHANGED <<trash, left>>
       ELSE /\ Goto(c, over)
            /\ left' = left \cup {trash[c]}
            /\ trash' = [trash EXCEPT ![c] = None]
            /\ UNCHANGED path
  /\ UNCHANGED <<metadata, fresh, ident, hb>>

Restore(c) == LinkBack(c, "restore", "linked", "poll")

\* unlink(trashPath)
DropTrash(c, from, to) ==
  /\ Step(c, from, to)
  /\ trash' = [trash EXCEPT ![c] = None]
  /\ UNCHANGED <<path, left, metadata, fresh, ident, hb>>

UnlinkRestored(c) == DropTrash(c, "linked", "poll")
Discard(c) == DropTrash(c, "discard", "poll")

-----------------------------------------------------------------------------
(* The held lock: task, heartbeat and release                              *)

\* The task settles; the heartbeat timer is cleared, one in flight goes on.
EndTask(c) ==
  /\ Step(c, "held", "release")
  /\ UNCHANGED <<files, metadata, fresh, ident, hb>>

\* lockHeldBySelf of the heartbeat timer, or of the controller's refresh ...
HeartbeatCheck(c) ==
  /\ pc[c] = "held" /\ hb[c] = "idle"
  /\ path # None /\ Content(path) = c
  /\ hb' = [hb EXCEPT ![c] = "due"]
  /\ UNCHANGED <<files, metadata, fresh, ident, pc>>

\* ... and its utimes, which touches whatever is at lockPath by now.
HeartbeatTouch(c) ==
  /\ hb[c] = "due" /\ pc[c] # "dead"
  /\ fresh' = IF path = None THEN fresh ELSE fresh \cup {path}
  /\ hb' = [hb EXCEPT ![c] = "idle"]
  /\ UNCHANGED <<files, metadata, ident, pc>>

Precheck(c) ==
  /\ pc[c] = "release"
  /\ Goto(c, IF path # None /\ Content(path) = c THEN "relrename" ELSE "done")
  /\ UNCHANGED <<files, metadata, fresh, ident, hb>>

ReleaseRename(c) == MoveAside(c, "relrename", "done", "relverify")

ReleaseVerify(c) ==
  /\ \/ /\ pc[c] = "relverify"
        /\ Goto(c, IF Content(trash[c]) = c THEN "reldiscard" ELSE "relrestore")
     \/ c \in Faulty /\ Step(c, "relverify", "reldiscard")
  /\ UNCHANGED <<files, metadata, fresh, ident, hb>>

ReleaseRestore(c) == LinkBack(c, "relrestore", "rellinked", "done")

ReleaseUnlinkRestored(c) == DropTrash(c, "rellinked", "done")
ReleaseDiscard(c) == DropTrash(c, "reldiscard", "done")

-----------------------------------------------------------------------------
(* The environment                                                         *)

\* A kill between any two file-system calls; a trash file stays on disk.
Kill(c) ==
  /\ c \in Killable
  /\ pc[c] \notin Over \cup {"idle"}
  /\ Goto(c, "dead")
  /\ left' = IF trash[c] = None THEN left ELSE left \cup {trash[c]}
  /\ trash' = [trash EXCEPT ![c] = None]
  /\ hb' = [hb EXCEPT ![c] = "idle"]
  /\ UNCHANGED <<path, metadata, fresh, ident>>

\* staleMs pass since the file's mtime: its call is over or stalls (a running
\* one heartbeats more often, heartbeatMs < staleMs), or a stalling call sits
\* on it in its trash path.
GoesStale(i) ==
  /\ i \in fresh
  /\ path = i \/ \E b \in Calls : trash[b] = i
  /\ \/ i \in Stalling
     \/ ~Running(i)
     \/ \E b \in Stalling : trash[b] = i
  /\ fresh' = fresh \ {i}
  /\ UNCHANGED <<files, metadata, ident, hb, pc>>

-----------------------------------------------------------------------------
AcquireStep(c) ==
  \/ AcquireError(c) \/ Create(c) \/ WriteMetadata(c) \/ Undo(c)
  \/ Exists(c) \/ Poll(c)
BreakStep(c) ==
  \/ Stat(c) \/ ReadIdentity(c) \/ Reread(c) \/ Restat(c) \/ Rename(c)
  \/ Verify(c) \/ MovedStat(c) \/ Restore(c) \/ UnlinkRestored(c) \/ Discard(c)
ReleaseStep(c) ==
  \/ Precheck(c) \/ ReleaseRename(c) \/ ReleaseVerify(c) \/ ReleaseRestore(c)
  \/ ReleaseUnlinkRestored(c) \/ ReleaseDiscard(c)
HeartbeatStep(c) == HeartbeatCheck(c) \/ HeartbeatTouch(c)

\* Everything but the start of the call and its task.
LockStep(c) ==
  AcquireStep(c) \/ BreakStep(c) \/ ReleaseStep(c) \/ HeartbeatStep(c)

Next ==
  \E c \in Calls :
    Begin(c) \/ LockStep(c) \/ EndTask(c) \/ Kill(c) \/ GoesStale(c)

\* Every call that is not killed goes on, and time passes.
Fairness ==
  \A c \in Calls :
    /\ WF_lockVars(AcquireStep(c) \/ BreakStep(c) \/ ReleaseStep(c) \/ EndTask(c))
    /\ WF_lockVars(HeartbeatTouch(c))
    /\ WF_lockVars(GoesStale(c))

Spec == Init /\ [][Next]_lockVars
FairSpec == Spec /\ Fairness

-----------------------------------------------------------------------------
(* Properties                                                              *)

BreakPc == {"stat", "ident", "reread", "restat", "rename"}
TrashPc == {"verify", "movedstat", "restore", "linked", "discard",
            "relverify", "relrestore", "rellinked", "reldiscard"}

\* The variables' types; a trash path is occupied exactly between its rename
\* and its unlink (breakStaleLock, releaseLock).
TypeOK ==
  /\ path \in Calls \cup {None}
  /\ trash \in [Calls -> Calls \cup {None}]
  /\ left \subseteq Calls /\ written \subseteq Calls
  /\ late \subseteq Calls /\ fresh \subseteq Calls
  /\ ident \in [Calls -> Calls \cup {Empty, None}]
  /\ hb \in [Calls -> {"idle", "due"}]
  /\ pc \in [Calls -> {"idle", "try", "poll", "undo"} \cup Owning \cup BreakPc
                        \cup TrashPc \cup Over]
  /\ \A c \in Calls : trash[c] # None <=> pc[c] \in TrashPc

OnDisk(i) == path = i \/ i \in left \/ \E b \in Calls : trash[b] = i

\* The lock file of a call that is still between its exclusive create and its
\* release is never destroyed by anybody, however many contenders break, release
\* and restore around it: it is at lockPath or in a trash path (breakStaleLock:
\* "Destroying it would leave the holder running with no visible lock").
LiveLockKept ==
  \A c \in Calls : pc[c] \in Owning => OnDisk(c)

\* Even where event loops stall, the lock file of a call that has not given it
\* up leaves the disk only while its mtime is stale: a heartbeat that lands at
\* any point before the last check saves it, whatever was renamed meanwhile
\* (breakStaleLock).  The one exception is a creator that stalls between its
\* create and its metadata and writes it when the file is judged and condemned.
OnlyStaleDestroyed ==
  [][\A i \in Calls :
       OnDisk(i) /\ ~OnDisk(i)' =>
         i \notin fresh \/ pc[i] \notin Owning \/ i \in late]_lockVars

\* Without that exception ("Still stale" is said of the moved file) it is false.
FreshNeverDestroyed ==
  [][\A i \in Calls :
       OnDisk(i) /\ ~OnDisk(i)' => i \notin fresh \/ pc[i] \notin Owning]_lockVars

\* Run `task` under an exclusive lock: two calls never hold it at once.
MutualExclusion ==
  \A c, d \in Calls : pc[c] = "held" /\ pc[d] = "held" => c = d

\* A lock file whose call is over (killed, or its release overtaken by a
\* restore) does not block the path for good: a contender breaks it.
OrphanIsBroken ==
  \A i \in Calls :
    path = i /\ ~Running(i)
      ~> path # i \/ \A c \in Calls : pc[c] \in Over \cup {"idle"}
=============================================================================
