-------------------------- MODULE AccessIdempotency --------------------------
(***************************************************************************)
(* The access service's idempotency store (AccessIdempotencyStore) and the  *)
(* guard around every keyed request (handleIdempotentWrite, -Read, and      *)
(* peekIdempotentWrite): look the key up under its lock, replay a stored    *)
(* response, refuse a reused key, or execute and store the response.        *)
(*                                                                         *)
(* Several processes share the state file.  Each keeps a copy in memory,    *)
(* which every get and put reloads from the file, one asynchronous          *)
(* file-system call after the other.  A stored entry is its request hash.   *)
(* The lock files are reduced to their holder: a contender of another       *)
(* process may time out, and the lock of a killed process is broken as      *)
(* stale.  An mtime is the number of the write that produced the file.      *)
(***************************************************************************)
EXTENDS Naturals, Sequences, FiniteSets

CONSTANTS Requests,
          KeyOf, HashOf, ProcOf,   \* of each request
          Procs,
          Peeks,      \* requests that only ask for the status of their key
          Killable,   \* processes that may be killed
          None

Keys == {KeyOf[r] : r \in Requests}

\* With no more keys than this the store never prunes an entry.
ASSUME IdempotencyAssumption ==
  /\ Requests \subseteq DOMAIN KeyOf /\ Requests \subseteq DOMAIN HashOf
  /\ ProcOf \in [Requests -> Procs]
  /\ Peeks \subseteq Requests
  /\ None \notin Requests
  /\ \A r \in Requests : HashOf[r] # None
  /\ IsFiniteSet(Keys) /\ Cardinality(Keys) <= 512

VARIABLES
  file, ver,      \* the state file's entries and mtime (0: there is no file)
  mem, loaded,    \* of each process: state and loadedMtimeMs
  writes,         \* of each process: its queue of writes (writeQueue)
  keyLock, stateLock,
  pc, op,         \* of each request: where it is, and whether in get or put
  after,          \* of each request: the last write its get waits for
  seen, snap,     \* of each request: the mtime and the entries it read
  out,            \* of each request: what its flush is writing
  overlapped      \* ghost: whether a get has overlapped a get or put of its process

fileVars == <<file, ver>>
procVars == <<mem, loaded>>
locks == <<keyLock, stateLock>>
reads == <<op, after, seen, snap, out>>
storeVars == <<fileVars, procVars, writes, locks, pc, reads>>
vars == <<storeVars, overlapped>>

Hashes == {HashOf[r] : r \in Requests}
Empty == [k \in Keys |-> None]

Over == {"answered", "replayed", "conflict", "status", "failed", "dead"}
InFlight(r) == pc[r] \notin Over \cup {"idle"}
In(x, s) == \E i \in DOMAIN s : s[i] = x

\* The request's get or put is at work on its process's copy of the state.
InStore(r) ==
  pc[r] \in {"stat", "read", "assign", "mtime", "flush", "merge", "rename", "written"}

\* The code keeps the puts of a process from overlapping (withWriteQueue), and
\* a get from beginning while a put is queued, but no get from being overlapped.
Apart ==
  \A r, s \in Requests : InStore(r) /\ InStore(s) /\ ProcOf[r] = ProcOf[s] => r = s

Init ==
  /\ file = Empty /\ ver = 0
  /\ mem = [p \in Procs |-> Empty]
  /\ loaded = [p \in Procs |-> 0]
  /\ writes = [p \in Procs |-> <<>>]
  /\ keyLock = [k \in Keys |-> None]
  /\ stateLock = None
  /\ pc = [r \in Requests |-> "idle"]
  /\ op = [r \in Requests |-> "get"]
  /\ after = [r \in Requests |-> None]
  /\ seen = [r \in Requests |-> 0]
  /\ snap = [r \in Requests |-> Empty]
  /\ out = [r \in Requests |-> Empty]
  /\ overlapped = FALSE

Goto(r, to) == pc' = [pc EXCEPT ![r] = to]
Step(r, from, to) == pc[r] = from /\ Goto(r, to)
SetMem(r, m) == mem' = [mem EXCEPT ![ProcOf[r]] = m]

-----------------------------------------------------------------------------
(* withIdempotencyLock and withKeyLock                                     *)

Begin(r) ==
  /\ Step(r, "idle", "lock")
  /\ UNCHANGED <<fileVars, procVars, writes, locks, reads>>

\* The key is this request's; get starts by waiting for the writes queued so far.
LockKey(r) ==
  /\ keyLock[KeyOf[r]] = None
  /\ Step(r, "lock", "wait")
  /\ keyLock' = [keyLock EXCEPT ![KeyOf[r]] = r]
  /\ after' = [after EXCEPT ![r] = IF writes[ProcOf[r]] = <<>> THEN None
                                    ELSE writes[ProcOf[r]][Len(writes[ProcOf[r]])]]
  /\ UNCHANGED <<fileVars, procVars, writes, stateLock, op, seen, snap, out>>

\* A request waits for its own process without limit, for a lock file five seconds.
LockTimeout(r) ==
  /\ \E s \in Requests :
       keyLock[KeyOf[r]] = s /\ (ProcOf[s] # ProcOf[r] \/ pc[s] = "dead")
  /\ Step(r, "lock", "failed")
  /\ UNCHANGED <<fileVars, procVars, writes, locks, reads>>

\* How a request ends when its key lock is released.
Ending == [stored |-> "answered", hit |-> "replayed", mismatch |-> "conflict",
           told |-> "status", error |-> "failed"]

Release(r) ==
  /\ pc[r] \in DOMAIN Ending
  /\ Goto(r, Ending[pc[r]])
  /\ keyLock' = [keyLock EXCEPT ![KeyOf[r]] = None]
  /\ UNCHANGED <<fileVars, procVars, writes, stateLock, reads>>

-----------------------------------------------------------------------------
(* reload, the first half of get and of put                                *)

\* What get finds in the state its reload left.
Found(r, m) == IF r \in Peeks THEN "told"
                 ELSE IF m[KeyOf[r]] = None THEN "execute"
                 ELSE IF m[KeyOf[r]] = HashOf[r] THEN "hit" ELSE "mismatch"

\* get looks its key up, put stages its entry, in the state m.
Reloaded(r, m) ==
  IF op[r] = "get"
    THEN Goto(r, Found(r, m)) /\ SetMem(r, m)
    ELSE Goto(r, "flush") /\ SetMem(r, [m EXCEPT ![KeyOf[r]] = HashOf[r]])

WritesDone(r) ==
  /\ pc[r] = "wait" /\ ~In(after[r], writes[ProcOf[r]])
  /\ Goto(r, "stat")
  /\ UNCHANGED <<fileVars, procVars, writes, locks, reads>>

\* Mutant: a copy that was loaded once is not refreshed.
StatOnce(r) ==
  /\ pc[r] = "stat"
  /\ IF ver = 0 \/ loaded[ProcOf[r]] > 0
       THEN Reloaded(r, mem[ProcOf[r]]) /\ UNCHANGED <<loaded, seen>>
       ELSE /\ Goto(r, "read")
            /\ seen' = [seen EXCEPT ![r] = ver]
            /\ UNCHANGED procVars
  /\ UNCHANGED <<fileVars, writes, locks, op, after, snap, out>>

\* stat of the state file; without a file the state is empty.
Stat(r) ==
  /\ pc[r] = "stat"
  /\ IF ver = 0
       THEN /\ Reloaded(r, Empty)
            /\ loaded' = [loaded EXCEPT ![ProcOf[r]] = 0]
            /\ UNCHANGED seen
       ELSE /\ Goto(r, "read")
            /\ seen' = [seen EXCEPT ![r] = ver]
            /\ UNCHANGED procVars
  /\ UNCHANGED <<fileVars, writes, locks, op, after, snap, out>>

\* A file older than what is loaded is not read.
Read(r) ==
  /\ pc[r] = "read"
  /\ IF seen[r] < loaded[ProcOf[r]]
       THEN Reloaded(r, mem[ProcOf[r]]) /\ UNCHANGED snap
       ELSE Goto(r, "assign") /\ snap' = [snap EXCEPT ![r] = file] /\ UNCHANGED mem
  /\ UNCHANGED <<fileVars, loaded, writes, locks, op, after, seen, out>>

Assign(r) ==
  /\ Step(r, "assign", "mtime")
  /\ SetMem(r, snap[r])
  /\ UNCHANGED <<fileVars, loaded, writes, locks, reads>>

Mtime(r) ==
  /\ pc[r] = "mtime"
  /\ loaded' = [loaded EXCEPT ![ProcOf[r]] = ver]
  /\ Reloaded(r, mem[ProcOf[r]])
  /\ UNCHANGED <<fileVars, writes, locks, reads>>

-----------------------------------------------------------------------------
(* execute and put                                                         *)

Execute(r) ==
  /\ pc[r] = "execute"
  /\ \/ /\ Goto(r, "queued")
        /\ writes' = [writes EXCEPT ![ProcOf[r]] = Append(@, r)]
     \/ Goto(r, "error") /\ UNCHANGED writes
  /\ UNCHANGED <<fileVars, procVars, locks, reads>>

\* Mutant: the next write may begin when this one does, not when it is over.
BeginPutDequeues(r) ==
  /\ Step(r, "queued", "stat")
  /\ Head(writes[ProcOf[r]]) = r
  /\ op' = [op EXCEPT ![r] = "put"]
  /\ writes' = [writes EXCEPT ![ProcOf[r]] = Tail(@)]
  /\ UNCHANGED <<fileVars, procVars, locks, after, seen, snap, out>>

\* withWriteQueue: the writes of one process follow each other.
BeginPut(r) ==
  /\ Step(r, "queued", "stat")
  /\ Head(writes[ProcOf[r]]) = r
  /\ op' = [op EXCEPT ![r] = "put"]
  /\ UNCHANGED <<fileVars, procVars, writes, locks, after, seen, snap, out>>

LockState(r) ==
  /\ stateLock = None
  /\ Step(r, "flush", "merge")
  /\ stateLock' = r
  /\ UNCHANGED <<fileVars, procVars, writes, keyLock, reads>>

\* Mutant: the flush writes the process's copy as it is.
MergedCopy(f, m) == m

\* { ...parsed, ...this.state }
Merged(f, m) == [k \in Keys |-> IF m[k] # None THEN m[k] ELSE f[k]]

\* Under the lock the file is read again, merged and serialized ...
Merge(r) ==
  /\ Step(r, "merge", "rename")
  /\ SetMem(r, Merged(file, mem[ProcOf[r]]))
  /\ out' = [out EXCEPT ![r] = Merged(file, mem[ProcOf[r]])]
  /\ UNCHANGED <<fileVars, loaded, writes, locks, op, after, seen, snap>>

\* ... to a temporary file that replaces it.
Rename(r) ==
  /\ Step(r, "rename", "written")
  /\ file' = out[r] /\ ver' = ver + 1
  /\ UNCHANGED <<procVars, writes, locks, reads>>

Dequeue(r) == writes' = [writes EXCEPT ![ProcOf[r]] = Tail(@)]

Flushed(r) ==
  /\ Step(r, "written", "stored")
  /\ loaded' = [loaded EXCEPT ![ProcOf[r]] = ver]
  /\ stateLock' = None
  /\ Dequeue(r)
  /\ UNCHANGED <<fileVars, mem, keyLock, reads>>

\* Mutant: the queue goes on only after a write that succeeded.
FlushFailsKeepsQueue(r) ==
  /\ pc[r] = "rename" \/ (pc[r] = "flush" /\ stateLock # None)
  /\ Goto(r, "error")
  /\ stateLock' = IF stateLock = r THEN None ELSE stateLock
  /\ UNCHANGED <<fileVars, procVars, writes, keyLock, reads>>

\* The lock is not to be had in time, or the file cannot be written.
FlushFails(r) ==
  /\ pc[r] = "rename" \/ (pc[r] = "flush" /\ stateLock # None)
  /\ Goto(r, "error")
  /\ stateLock' = IF stateLock = r THEN None ELSE stateLock
  /\ Dequeue(r)
  /\ UNCHANGED <<fileVars, procVars, keyLock, reads>>

-----------------------------------------------------------------------------
\* A process is killed and starts again without memory; its lock files stay.
Kill(p) ==
  /\ p \in Killable
  /\ \E r \in Requests : ProcOf[r] = p /\ InFlight(r)
  /\ pc' = [r \in Requests |-> IF ProcOf[r] = p /\ InFlight(r) THEN "dead" ELSE pc[r]]
  /\ mem' = [mem EXCEPT ![p] = Empty]
  /\ loaded' = [loaded EXCEPT ![p] = 0]
  /\ writes' = [writes EXCEPT ![p] = <<>>]
  /\ UNCHANGED <<fileVars, locks, reads>>

\* A dead holder's lock file, no longer touched, is unlinked as stale.
BreakStale(r) ==
  /\ pc[r] = "dead"
  /\ \/ /\ keyLock[KeyOf[r]] = r
        /\ keyLock' = [keyLock EXCEPT ![KeyOf[r]] = None]
        /\ UNCHANGED stateLock
     \/ stateLock = r /\ stateLock' = None /\ UNCHANGED keyLock
  /\ UNCHANGED <<fileVars, procVars, writes, pc, reads>>

GetStep(r) == WritesDone(r) \/ Stat(r) \/ Read(r) \/ Assign(r) \/ Mtime(r)
PutStep(r) ==
  Execute(r) \/ BeginPut(r) \/ LockState(r) \/ Merge(r) \/ Rename(r) \/ Flushed(r) \/ FlushFails(r)
RequestStep(r) == LockKey(r) \/ LockTimeout(r) \/ Release(r) \/ GetStep(r) \/ PutStep(r)

Next ==
  /\ \/ \E r \in Requests : Begin(r) \/ RequestStep(r) \/ BreakStale(r)
     \/ \E p \in Procs : Kill(p)
  /\ overlapped' = (overlapped \/ ~Apart')

Spec == Init /\ [][Next]_vars

\* Every callback that is due runs, operations end, and stale locks are broken.
Fairness == \A r \in Requests : SF_storeVars(RequestStep(r)) /\ WF_storeVars(BreakStale(r))

FairSpec == Spec /\ Fairness

-----------------------------------------------------------------------------
(* Properties                                                              *)

Entries == [Keys -> Hashes \cup {None}]

\* The variables' types; what the store holds was put by a request, and a
\* process writes only while it is first in its queue.
TypeOK ==
  /\ file \in Entries /\ ver \in Nat
  /\ mem \in [Procs -> Entries] /\ loaded \in [Procs -> Nat]
  /\ writes \in [Procs -> Seq(Requests)]
  /\ keyLock \in [Keys -> Requests \cup {None}]
  /\ stateLock \in Requests \cup {None}
  /\ pc \in [Requests -> Over \cup
       {"idle", "lock", "wait", "stat", "read", "assign", "mtime", "execute", "queued",
        "flush", "merge", "rename", "written", "stored", "hit", "mismatch", "told", "error"}]
  /\ op \in [Requests -> {"get", "put"}]
  /\ after \in [Requests -> Requests \cup {None}]
  /\ seen \in [Requests -> Nat]
  /\ snap \in [Requests -> Entries] /\ out \in [Requests -> Entries]
  /\ overlapped \in BOOLEAN
  /\ \A r \in Requests :
       pc[r] \in {"flush", "merge", "rename", "written"}
         => writes[ProcOf[r]] # <<>> /\ Head(writes[ProcOf[r]]) = r

\* A request that executed and was answered is in the store.
AnsweredIsStored ==
  \A r \in Requests : pc[r] \in {"stored", "answered"} => file[KeyOf[r]] = HashOf[r]

\* A key's request takes effect once: a retry after an answer never executes
\* again, and a reused key with another payload never executes at all.
ExecutesOnce ==
  \A r, s \in Requests :
    /\ KeyOf[r] = KeyOf[s] /\ r # s
    /\ pc[r] \in {"stored", "answered"}
    => pc[s] \notin {"execute", "queued", "stored", "answered"}

\* As long as no get has overlapped another get or put of its process, neither a
\* reload of an older copy, nor a flush of another key by the same process or by
\* another, nor a kill takes an answered request out of the store (put, flush).
\* Requests of one process may be in flight together, on one key or on many;
\* without the premise the claim is false (AnsweredIsStored): a get that began
\* before a put was queued assigns its copy over the staged entry (reload).
ApartKeepsAnswers == ~overlapped => AnsweredIsStored

\* As long as no get has overlapped another get or put of its process, a retry
\* at any process never executes again after an answer (handleIdempotentWrite).
ApartExecutesOnce == ~overlapped => ExecutesOnce

\* Whatever overlaps, an entry never vanishes from the state file: a flush
\* merges what the file holds at that moment, under the lock (flush).
EntriesStay == [][\A k \in Keys : file[k] # None => file'[k] # None]_vars

\* The state file, with the requests that were answered, implements WriteOnce in
\* the behaviours where no get is overlapped: reloads, merges, failed flushes and
\* kills are invisible, and of a key's requests only the one that put the entry
\* is answered.
Once == INSTANCE WriteOnce WITH
  store <- file,
  answered <- {r \in Requests : pc[r] = "answered"}

ImplementsWriteOnce == Once!Spec

\* The behaviours in which no get is overlapped.
ApartSpec == Init /\ [][Next /\ Apart']_vars

\* Every keyed request ends, whoever else is served, times out or is killed
\* (withIdempotencyLock, withKeyLock): none is in flight for good.
RequestsEnd == <>[](\A r \in Requests : ~InFlight(r))
=============================================================================
