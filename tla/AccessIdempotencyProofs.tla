----------------------- MODULE AccessIdempotencyProofs -----------------------
(***************************************************************************)
(* Theorems about AccessIdempotency: type correctness; that an entry never  *)
(* vanishes from the state file; and, as long as no get has overlapped      *)
(* another get or put of its process, that an answer stays stored and its   *)
(* key never executes again.                                                *)
(***************************************************************************)
EXTENDS AccessIdempotency, SequenceTheorems, TLAPS

Reloading == {"stat", "read", "assign", "mtime"}
Flushing == {"flush", "merge", "rename", "written"}

\* A write that runs is the first of its process's queue, one that waits is in it.
QueueInv ==
  \A r \in Requests :
    /\ pc[r] \in {"idle", "lock", "wait"} => op[r] = "get"
    /\ pc[r] = "queued" => In(r, writes[ProcOf[r]])
    /\ pc[r] \in Flushing \/ (pc[r] \in Reloading /\ op[r] = "put")
         => writes[ProcOf[r]] # <<>> /\ Head(writes[ProcOf[r]]) = r

Stages == Over \cup Reloading \cup Flushing \cup
  {"idle", "lock", "wait", "execute", "queued", "stored", "hit", "mismatch", "told", "error"}

Types ==
  /\ file \in Entries /\ ver \in Nat
  /\ mem \in [Procs -> Entries] /\ loaded \in [Procs -> Nat]
  /\ writes \in [Procs -> Seq(Requests)]
  /\ keyLock \in [Keys -> Requests \cup {None}]
  /\ stateLock \in Requests \cup {None}
  /\ pc \in [Requests -> Stages]
  /\ op \in [Requests -> {"get", "put"}]
  /\ after \in [Requests -> Requests \cup {None}]
  /\ seen \in [Requests -> Nat]
  /\ snap \in [Requests -> Entries] /\ out \in [Requests -> Entries]
  /\ overlapped \in BOOLEAN

TypeInv == Types /\ QueueInv

-----------------------------------------------------------------------------
(* Type correctness                                                        *)

LEMMA KeyOfRequest == \A r \in Requests : KeyOf[r] \in Keys /\ HashOf[r] \in Hashes
  BY DEF Keys, Hashes

LEMMA EmptyIsEntries == Empty \in Entries
  BY DEF Empty, Entries

LEMMA TypeInit == Init => TypeInv
<1> SUFFICES ASSUME Init PROVE TypeInv
  OBVIOUS
<1> USE IdempotencyAssumption, EmptyIsEntries DEF Init
<1>0. overlapped \in BOOLEAN
  OBVIOUS
<1>1. Types
  <2>1. pc \in [Requests -> Stages]
    BY DEF Stages
  <2> QED
    BY <1>0, <2>1 DEF Types
<1>2. QueueInv
  BY DEF QueueInv, Flushing, Reloading
<1> QED
  BY <1>1, <1>2 DEF TypeInv

\* Appending to a queue of writes keeps its head and its members.
LEMMA AppendKeeps ==
  ASSUME NEW w \in Seq(Requests), NEW r \in Requests
  PROVE  /\ Append(w, r) \in Seq(Requests)
         /\ In(r, Append(w, r))
         /\ \A s \in Requests : In(s, w) => In(s, Append(w, r))
         /\ w # <<>> => Append(w, r) # <<>> /\ Head(Append(w, r)) = Head(w)
<1>1. In(r, Append(w, r))
  <2>1. Len(w) + 1 \in DOMAIN Append(w, r) /\ Append(w, r)[Len(w) + 1] = r
    OBVIOUS
  <2> QED
    BY <2>1 DEF In
<1>2. ASSUME NEW s \in Requests, In(s, w) PROVE In(s, Append(w, r))
  <2>1. PICK i \in DOMAIN w : w[i] = s
    BY <1>2 DEF In
  <2>2. i \in DOMAIN Append(w, r) /\ Append(w, r)[i] = s
    BY <2>1
  <2> QED
    BY <2>2 DEF In
<1>3. ASSUME w # <<>> PROVE Append(w, r) # <<>> /\ Head(Append(w, r)) = Head(w)
  BY <1>3
<1> QED
  BY <1>1, <1>2, <1>3

\* Taking the head off keeps the others.
LEMMA TailKeeps ==
  ASSUME NEW w \in Seq(Requests), w # <<>>
  PROVE  /\ Tail(w) \in Seq(Requests)
         /\ \A s \in Requests : In(s, w) /\ s # Head(w) => In(s, Tail(w))
<1>1. ASSUME NEW s \in Requests, In(s, w), s # Head(w) PROVE In(s, Tail(w))
  <2>1. PICK i \in DOMAIN w : w[i] = s
    BY <1>1 DEF In
  <2>2. i \in 2 .. Len(w)
    BY <1>1, <2>1
  <2>3. i - 1 \in DOMAIN Tail(w) /\ Tail(w)[i - 1] = s
    BY <2>1, <2>2
  <2> QED
    BY <2>3 DEF In
<1> QED
  BY <1>1

\* The steps of a request that leave the queues of writes alone.
Other(r) ==
  \/ Begin(r) \/ LockKey(r) \/ LockTimeout(r) \/ Release(r) \/ BreakStale(r)
  \/ GetStep(r) \/ BeginPut(r) \/ LockState(r) \/ Merge(r) \/ Rename(r)

\* The steps that end a write.
Ends(r) == Flushed(r) \/ FlushFails(r)

LEMMA Steps ==
  ASSUME [Next]_vars
  PROVE  \/ UNCHANGED vars
         \/ \E p \in Procs : Kill(p)
         \/ \E r \in Requests : Other(r) \/ Execute(r) \/ Ends(r)
<1>2. ASSUME NEW r \in Requests, Begin(r) \/ RequestStep(r) \/ BreakStale(r)
      PROVE  Other(r) \/ Execute(r) \/ Ends(r)
  BY <1>2 DEF RequestStep, PutStep, Other, Ends
<1> QED
  BY <1>2 DEF Next

\* What has overlapped stays so, and calls that have not are apart.
LEMMA GhostStep ==
  ASSUME overlapped \in BOOLEAN, [Next]_vars
  PROVE  /\ overlapped' \in BOOLEAN
         /\ ~overlapped' => ~overlapped /\ (Apart => Apart')
<1>1. CASE UNCHANGED vars
  BY <1>1 DEF vars, storeVars, Apart, InStore
<1>2. CASE Next
  BY <1>2 DEF Next
<1> QED
  BY <1>1, <1>2

\* What get and put do once their reload has ended keeps the types.
LEMMA ReloadedTypes ==
  ASSUME NEW r \in Requests, NEW m \in Entries, Reloaded(r, m),
         pc \in [Requests -> Stages], mem \in [Procs -> Entries]
  PROVE  mem' \in [Procs -> Entries] /\ pc' \in [Requests -> Stages]
<1>1. CASE op[r] = "get"
  <2>1. Found(r, m) \in Stages
    BY DEF Found, Stages
  <2> QED
    BY <1>1, <2>1 DEF Reloaded, Goto, SetMem
<1>2. CASE op[r] # "get"
  <2>1. [m EXCEPT ![KeyOf[r]] = HashOf[r]] \in Entries
    BY KeyOfRequest DEF Entries
  <2>2. "flush" \in Stages
    BY DEF Stages, Flushing
  <2> QED
    BY <1>2, <2>1, <2>2 DEF Reloaded, Goto, SetMem
<1> QED
  BY <1>1, <1>2

LEMMA TypesStep ==
  ASSUME TypeInv, [Next]_vars
  PROVE  Types'
<1>0. overlapped' \in BOOLEAN
  BY GhostStep DEF TypeInv, Types
<1> USE <1>0
<1> USE IdempotencyAssumption, KeyOfRequest, EmptyIsEntries
<1> USE DEF TypeInv, Types, fileVars, procVars, locks, reads, Goto, Step, SetMem
<1>1. CASE UNCHANGED vars
  BY <1>1 DEF vars, storeVars
<1>2. ASSUME NEW p \in Procs, Kill(p) PROVE Types'
  BY <1>2 DEF Kill, Over, Stages
<1>3. ASSUME NEW r \in Requests, Other(r) PROVE Types'
  <2>3. \A m \in Entries : Reloaded(r, m) => mem' \in [Procs -> Entries] /\ pc' \in [Requests -> Stages]
    BY ReloadedTypes
  <2>4. CASE Begin(r) \/ LockTimeout(r) \/ WritesDone(r)
    <3>1. pc' \in {[pc EXCEPT ![r] = "lock"], [pc EXCEPT ![r] = "failed"], [pc EXCEPT ![r] = "stat"]}
      BY <2>4 DEF Begin, LockTimeout, WritesDone
    <3>2. pc' \in [Requests -> Stages]
      BY <3>1 DEF Stages, Over, Reloading
    <3> QED
      BY <2>4, <3>2 DEF Begin, LockTimeout, WritesDone
  <2>5. CASE BreakStale(r)
    BY <2>5 DEF BreakStale
  <2>6. CASE LockKey(r)
    <3>1. writes[ProcOf[r]] \in Seq(Requests)
      OBVIOUS
    <3>2. writes[ProcOf[r]] # <<>> => writes[ProcOf[r]][Len(writes[ProcOf[r]])] \in Requests
      BY <3>1
    <3> QED
      BY <2>6, <3>2 DEF LockKey, Stages
  <2>7. CASE Release(r)
    <3>1. Ending[pc[r]] \in Stages
      BY <2>7 DEF Release, Ending, Over, Stages
    <3> QED
      BY <2>7, <3>1 DEF Release
  <2>8. CASE Stat(r)
    <3>1. CASE ver = 0
      <4>1. Reloaded(r, Empty) /\ loaded' = [loaded EXCEPT ![ProcOf[r]] = 0]
        BY <2>8, <3>1 DEF Stat
      <4>2. loaded' \in [Procs -> Nat]
        BY <4>1
      <4> QED
        BY <2>3, <2>8, <3>1, <4>1, <4>2 DEF Stat
    <3>2. CASE ver # 0
      <4>1. pc' = [pc EXCEPT ![r] = "read"] /\ seen' = [seen EXCEPT ![r] = ver]
        BY <2>8, <3>2 DEF Stat
      <4>2. pc' \in [Requests -> Stages] /\ seen' \in [Requests -> Nat]
        BY <4>1 DEF Stages, Reloading
      <4> QED
        BY <2>8, <3>2, <4>2 DEF Stat
    <3> QED
      BY <3>1, <3>2
  <2>9. CASE Read(r)
    <3>1. CASE seen[r] < loaded[ProcOf[r]]
      BY <2>3, <2>9, <3>1 DEF Read, Flushing
    <3>2. CASE ~(seen[r] < loaded[ProcOf[r]])
      <4>1. pc' = [pc EXCEPT ![r] = "assign"] /\ snap' = [snap EXCEPT ![r] = file]
        BY <2>9, <3>2 DEF Read
      <4>2. pc' \in [Requests -> Stages] /\ snap' \in [Requests -> Entries]
        BY <4>1 DEF Stages, Reloading
      <4> QED
        BY <2>9, <3>2, <4>2 DEF Read
    <3> QED
      BY <3>1, <3>2
  <2>10. CASE Assign(r)
    BY <2>10 DEF Assign, Stages, Reloading
  <2>11. CASE Mtime(r)
    BY <2>3, <2>11 DEF Mtime
  <2>12. CASE BeginPut(r)
    BY <2>12 DEF BeginPut, Stages, Reloading
  <2>13. CASE LockState(r)
    BY <2>13 DEF LockState, Stages, Flushing
  <2>14. CASE Rename(r)
    BY <2>14 DEF Rename, Stages, Flushing
  <2>15. CASE Merge(r)
    <3>1. Merged(file, mem[ProcOf[r]]) \in Entries
      BY DEF Merged, Entries
    <3> QED
      BY <2>15, <3>1 DEF Merge, Stages, Flushing
  <2> QED
    BY <1>3, <2>4, <2>5, <2>6, <2>7, <2>8, <2>9, <2>10, <2>11, <2>12, <2>13, <2>14, <2>15
       DEF Other, GetStep
<1>4. ASSUME NEW r \in Requests, Execute(r) PROVE Types'
  <2>1. Append(writes[ProcOf[r]], r) \in Seq(Requests)
    OBVIOUS
  <2>2. CASE Goto(r, "queued") /\ writes' = [writes EXCEPT ![ProcOf[r]] = Append(@, r)]
    BY <1>4, <2>1, <2>2 DEF Execute, Stages
  <2>3. CASE Goto(r, "error") /\ UNCHANGED writes
    BY <1>4, <2>3 DEF Execute, Stages
  <2> QED
    BY <1>4, <2>2, <2>3 DEF Execute
<1>5. ASSUME NEW r \in Requests, Ends(r) PROVE Types'
  <2>1. pc[r] \in Flushing
    BY <1>5 DEF Ends, Flushed, FlushFails, Flushing
  <2>2. writes[ProcOf[r]] \in Seq(Requests) /\ writes[ProcOf[r]] # <<>>
    BY <2>1 DEF QueueInv
  <2>3. Tail(writes[ProcOf[r]]) \in Seq(Requests)
    BY <2>2
  <2>4. CASE Flushed(r)
    BY <2>3, <2>4 DEF Flushed, Dequeue, Stages
  <2>5. CASE FlushFails(r)
    BY <2>3, <2>5 DEF FlushFails, Dequeue, Stages
  <2> QED
    BY <1>5, <2>4, <2>5 DEF Ends
<1> QED
  BY <1>1, <1>2, <1>3, <1>4, <1>5, Steps

LEMMA QueueStep ==
  ASSUME TypeInv, [Next]_vars
  PROVE  QueueInv'
<1> USE IdempotencyAssumption
<1> DEFINE w(s) == writes[ProcOf[s]]
<1>0. Types /\ QueueInv
  BY DEF TypeInv
<1>1. CASE UNCHANGED vars
  BY <1>0, <1>1 DEF vars, storeVars, QueueInv, reads
<1>2. ASSUME NEW p \in Procs, Kill(p) PROVE QueueInv'
  <2> SUFFICES ASSUME NEW s \in Requests
               PROVE  /\ pc'[s] \in {"idle", "lock", "wait"} => op'[s] = "get"
                      /\ pc'[s] = "queued" => In(s, writes'[ProcOf[s]])
                      /\ pc'[s] \in Flushing \/ (pc'[s] \in Reloading /\ op'[s] = "put")
                           => writes'[ProcOf[s]] # <<>> /\ Head(writes'[ProcOf[s]]) = s
    BY DEF QueueInv
  <2>1. pc'[s] = IF ProcOf[s] = p /\ InFlight(s) THEN "dead" ELSE pc[s]
    BY <1>2 DEF Kill
  <2>2. op' = op /\ (ProcOf[s] # p => writes'[ProcOf[s]] = writes[ProcOf[s]])
    BY <1>0, <1>2 DEF Kill, reads, Types
  <2>3. CASE ProcOf[s] # p
    BY <1>0, <2>1, <2>2, <2>3 DEF QueueInv
  <2>4. CASE ProcOf[s] = p
    BY <1>0, <2>1, <2>2, <2>4 DEF QueueInv, InFlight, Over, Flushing, Reloading
  <2> QED
    BY <2>3, <2>4
<1>3. ASSUME NEW r \in Requests, Other(r) PROVE QueueInv'
  <2>1. writes' = writes
    BY <1>3 DEF Other, GetStep, Begin, LockKey, LockTimeout, Release, BreakStale, WritesDone, Stat, Read,
       Assign, Mtime, BeginPut, LockState, Merge, Rename
  <2>2. \A s \in Requests \ {r} : pc'[s] = pc[s] /\ op'[s] = op[s]
    BY <1>0, <1>3 DEF Other, GetStep, Begin, LockKey, LockTimeout, Release, BreakStale, WritesDone, Stat,
       Read, Assign, Mtime, Reloaded, BeginPut, LockState, Merge, Rename, Step, Goto, reads, Types
  <2>3. ASSUME op' = op, pc'[r] \in {"stored", "answered", "replayed", "conflict", "status", "failed",
                                     "told", "execute", "hit", "mismatch", "dead"}
        PROVE  QueueInv'
    BY <1>0, <2>1, <2>2, <2>3 DEF QueueInv, Flushing, Reloading
  <2>4. ASSUME op' = op, op[r] = "get", pc'[r] \in {"lock", "wait"} \cup Reloading
        PROVE  QueueInv'
    BY <1>0, <2>1, <2>2, <2>4 DEF QueueInv, Flushing, Reloading
  <2>5. ASSUME op' = op, w(r) # <<>> /\ Head(w(r)) = r, pc'[r] \in Flushing \cup Reloading
        PROVE  QueueInv'
    BY <1>0, <2>1, <2>2, <2>5 DEF QueueInv, Flushing, Reloading
  <2>6. \A m \in Entries : Found(r, m) \in {"told", "execute", "hit", "mismatch"}
    BY DEF Found
  <2>7. CASE Begin(r) \/ LockTimeout(r) \/ WritesDone(r) \/ LockKey(r)
    <3>1. op' = op /\ op[r] = "get" /\ pc'[r] \in {"lock", "wait", "stat", "failed"}
      BY <1>0, <2>7 DEF Begin, LockTimeout, WritesDone, LockKey, Step, Goto, reads, Types, QueueInv
    <3> QED
      BY <2>3, <2>4, <3>1 DEF Reloading
  <2>8. CASE BreakStale(r)
    BY <1>0, <2>1, <2>8 DEF BreakStale, QueueInv, reads
  <2>9. CASE Release(r)
    <3>1. op' = op /\ pc'[r] \in {"answered", "replayed", "conflict", "status", "failed"}
      BY <1>0, <2>9 DEF Release, Ending, Goto, reads, Types
    <3> QED
      BY <2>3, <3>1
  <2>10. CASE Stat(r) \/ Read(r) \/ Assign(r) \/ Mtime(r)
    <3>1. op' = op /\ pc[r] \in Reloading
      BY <2>10 DEF Stat, Read, Assign, Mtime, Step, reads, Reloading
    <3>2. CASE op[r] = "put"
      <4>1. w(r) # <<>> /\ Head(w(r)) = r
        BY <1>0, <3>1, <3>2 DEF QueueInv
      <4>2. pc'[r] \in Flushing \cup Reloading
        BY <1>0, <2>10, <3>2 DEF Stat, Read, Assign, Mtime, Step, Goto, Reloaded, Flushing, Reloading, Types
      <4> QED
        BY <2>5, <3>1, <4>1, <4>2
    <3>3. CASE op[r] = "get"
      <4>1. ASSUME NEW m \in Entries, Reloaded(r, m) PROVE pc'[r] \in {"told", "execute", "hit", "mismatch"}
        BY <1>0, <2>6, <3>3, <4>1 DEF Reloaded, Goto, Types
      <4>2. Empty \in Entries /\ mem[ProcOf[r]] \in Entries
        BY <1>0, EmptyIsEntries DEF Types
      <4>3. pc'[r] \in {"told", "execute", "hit", "mismatch"} \cup Reloading
        BY <1>0, <2>10, <4>1, <4>2 DEF Stat, Read, Assign, Mtime, Step, Goto, Reloading, Types
      <4> QED
        BY <2>3, <2>4, <3>1, <3>3, <4>3
    <3> QED
      BY <1>0, <3>2, <3>3 DEF Types
  <2>11. CASE BeginPut(r)
    <3>1. pc[r] = "queued" /\ pc'[r] = "stat" /\ Head(w(r)) = r
      BY <1>0, <2>11 DEF BeginPut, Step, Goto, Types
    <3>2. w(r) # <<>>
      BY <1>0, <3>1 DEF QueueInv, In
    <3> QED
      BY <1>0, <2>1, <2>2, <3>1, <3>2 DEF QueueInv, Flushing, Reloading
  <2>12. CASE LockState(r) \/ Merge(r) \/ Rename(r)
    <3>1. op' = op /\ pc[r] \in Flushing /\ pc'[r] \in Flushing
      BY <1>0, <2>12 DEF LockState, Merge, Rename, Step, Goto, reads, Flushing, Types
    <3> QED
      BY <1>0, <2>5, <3>1 DEF QueueInv
  <2> QED
    BY <1>3, <2>7, <2>8, <2>9, <2>10, <2>11, <2>12 DEF Other, GetStep
<1>4. ASSUME NEW r \in Requests, Execute(r) PROVE QueueInv'
  <2>1. op' = op /\ pc'[r] \in {"queued", "error"} /\ \A s \in Requests \ {r} : pc'[s] = pc[s]
    BY <1>0, <1>4 DEF Execute, Goto, reads, Types
  <2>2. CASE writes' = writes /\ pc'[r] = "error"
    BY <1>0, <2>1, <2>2 DEF QueueInv, Flushing, Reloading
  <2>3. CASE writes' = [writes EXCEPT ![ProcOf[r]] = Append(@, r)]
    <3>1. \A s \in Requests : w(s) \in Seq(Requests) /\ ProcOf[s] \in Procs
      BY <1>0 DEF Types
    <3>2. \A s \in Requests : writes'[ProcOf[s]] = IF ProcOf[s] = ProcOf[r] THEN Append(w(s), r) ELSE w(s)
      BY <1>0, <2>3, <3>1 DEF Types
    <3> DEFINE a(s) == Append(w(s), r)
    <3>3. \A s \in Requests :
            /\ In(s, w(s)) => In(s, a(s))
            /\ w(s) # <<>> => a(s) # <<>> /\ Head(a(s)) = Head(w(s))
      BY <3>1, AppendKeeps
    <3>4. In(r, a(r))
      BY <3>1, AppendKeeps
    <3>8. \A s \in Requests : writes'[ProcOf[s]] = a(s) \/ writes'[ProcOf[s]] = w(s)
      BY <3>2
    <3>9. writes'[ProcOf[r]] = a(r)
      BY <3>2
    <3> HIDE DEF a, w
    <3>5. ASSUME NEW s \in Requests \ {r}
          PROVE  /\ In(s, w(s)) => In(s, writes'[ProcOf[s]])
                 /\ w(s) # <<>> => writes'[ProcOf[s]] # <<>> /\ Head(writes'[ProcOf[s]]) = Head(w(s))
      <4>1. CASE writes'[ProcOf[s]] = w(s)
        BY <4>1
      <4>2. CASE writes'[ProcOf[s]] = a(s)
        BY <3>3, <4>2
      <4> QED
        BY <3>8, <4>1, <4>2
    <3>6. In(r, writes'[ProcOf[r]])
      BY <3>4, <3>9
    <3>7. pc'[r] \notin {"idle", "lock", "wait"} \cup Flushing \cup Reloading
      BY <2>1 DEF Flushing, Reloading
    <3> QED
      BY <1>0, <2>1, <3>5, <3>6, <3>7 DEF QueueInv, w
  <2> QED
    BY <1>0, <1>4, <2>2, <2>3 DEF Execute, Goto, Types
<1>5. ASSUME NEW r \in Requests, Ends(r) PROVE QueueInv'
  <2>1. op' = op /\ pc[r] \in Flushing /\ pc'[r] \in {"stored", "error"} /\ \A s \in Requests \ {r} : pc'[s] = pc[s]
    BY <1>0, <1>5 DEF Ends, Flushed, FlushFails, Step, Goto, reads, Flushing, Types
  <2>2. \A s \in Requests : w(s) \in Seq(Requests) /\ ProcOf[s] \in Procs
    BY <1>0 DEF Types
  <2>3. w(r) # <<>> /\ Head(w(r)) = r
    BY <1>0, <2>1 DEF QueueInv
  <2>4. \A s \in Requests : writes'[ProcOf[s]] = IF ProcOf[s] = ProcOf[r] THEN Tail(w(s)) ELSE w(s)
    BY <1>0, <1>5, <2>2 DEF Types, Ends, Flushed, FlushFails, Dequeue
  <2>5. \A s \in Requests \ {r} : ProcOf[s] = ProcOf[r] /\ In(s, w(s)) => In(s, Tail(w(s)))
    BY <2>2, <2>3, TailKeeps
  <2>6. \A s \in Requests \ {r} : ProcOf[s] = ProcOf[r] => ~(pc[s] \in Flushing \/ (pc[s] \in Reloading /\ op[s] = "put"))
    BY <1>0, <2>3 DEF QueueInv
  <2> QED
    BY <1>0, <2>1, <2>4, <2>5, <2>6 DEF QueueInv, Flushing, Reloading
<1> QED
  BY <1>1, <1>2, <1>3, <1>4, <1>5, Steps

LEMMA TypeInvariant == Spec => []TypeInv
<1>1. TypeInv /\ [Next]_vars => TypeInv'
  BY TypesStep, QueueStep DEF TypeInv
<1> QED
  BY <1>1, TypeInit, PTL DEF Spec

\* The store's memory, files, queues and locks keep the values the code gives
\* them, and a process writes only while it is first in its queue, for any
\* number of concurrent requests, processes and kills (withWriteQueue).
THEOREM TypeCorrect == Spec => []TypeOK
<1>1. TypeInv => TypeOK
  BY DEF TypeInv, Types, Stages, QueueInv, TypeOK, Reloading, Flushing
<1> QED
  BY <1>1, TypeInvariant, PTL

-----------------------------------------------------------------------------
(* An answer is stored for good, as long as no get is overlapped            *)

Locked == Reloading \cup Flushing \cup
  {"wait", "execute", "queued", "stored", "hit", "mismatch", "told", "error"}

\* The lock files name the requests inside the locked sections.
LockInv ==
  \A r \in Requests :
    /\ pc[r] \in Locked => keyLock[KeyOf[r]] = r
    /\ pc[r] \in {"merge", "rename", "written"} => stateLock = r

\* A process never holds a copy newer than the file it has just looked at.
VerInv ==
  /\ ver = 0 => file = Empty
  /\ \A p \in Procs : loaded[p] <= ver
  /\ \A r \in Requests : pc[r] = "read" => loaded[ProcOf[r]] <= seen[r]

\* The copy m lags behind the file at most on keys the request does not hold.
Agrees(m, r) ==
  /\ m[KeyOf[r]] = file[KeyOf[r]]
  /\ \A k \in Keys : m[k] \in {None, file[k]}

\* The request found its key missing and has not stored it yet.
Unstored(r) ==
  \/ pc[r] \in {"execute", "queued", "flush", "merge", "rename"}
  \/ pc[r] \in Reloading /\ op[r] = "put"

Stored(r) == pc[r] \in {"written", "stored", "answered"}

\* What a request has read, staged or written, against the file.
Copy(r) ==
  /\ pc[r] = "assign" => Agrees(snap[r], r)
  /\ pc[r] = "mtime" => Agrees(mem[ProcOf[r]], r)
  /\ pc[r] \in {"flush", "merge"} =>
       /\ mem[ProcOf[r]][KeyOf[r]] = HashOf[r]
       /\ \A k \in Keys \ {KeyOf[r]} : mem[ProcOf[r]][k] \in {None, file[k]}
  /\ pc[r] = "rename" =>
       /\ out[r][KeyOf[r]] = HashOf[r]
       /\ \A k \in Keys \ {KeyOf[r]} : out[r][k] = file[k]
  /\ Stored(r) => file[KeyOf[r]] = HashOf[r]
  /\ Unstored(r) => file[KeyOf[r]] = None

CopyInv == \A r \in Requests : Copy(r)

OnceInv == \A r, s \in Requests : Stored(r) /\ Stored(s) /\ KeyOf[r] = KeyOf[s] => r = s

\* A flush that is to be renamed holds an entry for every key the file has.
OutInv ==
  \A r \in Requests : pc[r] = "rename" =>
    \A k \in Keys : file[k] # None => out[r][k] # None

\* What holds whatever overlaps ...
IInv == TypeInv /\ LockInv /\ OutInv

\* ... and what as long as no get is overlapped.
ApartInv == Apart /\ VerInv /\ CopyInv /\ OnceInv

ApartIInv == IInv /\ (~overlapped => ApartInv)

Acts(c) == Other(c) \/ Execute(c) \/ Ends(c)

LEMMA StoreInit == Init => LockInv /\ OutInv /\ ApartInv
  BY IdempotencyAssumption DEF Init, LockInv, OutInv, ApartInv, Apart, InStore, VerInv, CopyInv, Copy,
     OnceInv, Stored, Unstored, Locked, Reloading, Flushing

\* A step leaves the other requests where they are, and what they have read.
LEMMA OthersStay ==
  ASSUME Types, NEW c \in Requests, Acts(c), NEW r \in Requests \ {c}
  PROVE  pc'[r] = pc[r] /\ op'[r] = op[r] /\ seen'[r] = seen[r] /\ snap'[r] = snap[r] /\ out'[r] = out[r]
<1> USE DEF Types, reads, Goto, Step
<1>1. CASE Execute(c)
  BY <1>1 DEF Execute
<1>2. CASE Ends(c)
  BY <1>2 DEF Ends, Flushed, FlushFails
<1>3. CASE Begin(c) \/ LockKey(c) \/ LockTimeout(c) \/ Release(c) \/ BreakStale(c)
  BY <1>3 DEF Begin, LockKey, LockTimeout, Release, BreakStale
<1>4. CASE GetStep(c)
  BY <1>4 DEF GetStep, WritesDone, Stat, Read, Assign, Mtime, Reloaded
<1>5. CASE BeginPut(c) \/ LockState(c) \/ Merge(c) \/ Rename(c)
  BY <1>5 DEF BeginPut, LockState, Merge, Rename
<1> QED
  BY <1>1, <1>2, <1>3, <1>4, <1>5 DEF Acts, Other

\* A request changes only its own process's copy, and that only while its get or
\* put is at work on it.
LEMMA OwnCopy ==
  ASSUME Types, NEW c \in Requests, Acts(c), NEW p \in Procs
  PROVE  /\ (mem'[p] = mem[p] /\ loaded'[p] = loaded[p]) \/ (p = ProcOf[c] /\ InStore(c))
         /\ loaded'[p] \in {loaded[p], 0, ver}
<1> USE IdempotencyAssumption DEF Types, procVars, SetMem
<1>1. CASE Execute(c)
  BY <1>1 DEF Execute
<1>2. CASE Ends(c)
  BY <1>2 DEF Ends, Flushed, FlushFails, InStore, Step
<1>3. CASE Begin(c) \/ LockKey(c) \/ LockTimeout(c) \/ Release(c) \/ BreakStale(c)
  BY <1>3 DEF Begin, LockKey, LockTimeout, Release, BreakStale
<1>4. CASE WritesDone(c) \/ BeginPut(c) \/ LockState(c) \/ Rename(c)
  BY <1>4 DEF WritesDone, BeginPut, LockState, Rename
<1>5. CASE Stat(c) \/ Read(c) \/ Assign(c) \/ Mtime(c) \/ Merge(c)
  <2>1. InStore(c)
    BY <1>5 DEF Stat, Read, Assign, Mtime, Merge, Step, InStore
  <2>2. CASE p # ProcOf[c]
    BY <1>5, <2>2 DEF Stat, Read, Assign, Mtime, Merge, Reloaded
  <2>3. CASE p = ProcOf[c]
    BY <1>5, <2>1, <2>3 DEF Stat, Read, Assign, Mtime, Merge
  <2> QED
    BY <2>2, <2>3
<1> QED
  BY <1>1, <1>2, <1>3, <1>4, <1>5 DEF Acts, Other, GetStep

\* Only the rename of a flush changes the file.
LEMMA FileChanges ==
  ASSUME NEW c \in Requests, Acts(c)
  PROVE  UNCHANGED fileVars \/ Rename(c)
<1>1. CASE Execute(c) \/ Ends(c)
  BY <1>1 DEF Execute, Ends, Flushed, FlushFails
<1>2. CASE Begin(c) \/ LockKey(c) \/ LockTimeout(c) \/ Release(c) \/ BreakStale(c)
  BY <1>2 DEF Begin, LockKey, LockTimeout, Release, BreakStale
<1>3. CASE GetStep(c)
  BY <1>3 DEF GetStep, WritesDone, Stat, Read, Assign, Mtime
<1>4. CASE BeginPut(c) \/ LockState(c) \/ Merge(c) \/ Rename(c)
  BY <1>4 DEF BeginPut, LockState, Merge
<1> QED
  BY <1>1, <1>2, <1>3, <1>4 DEF Acts, Other

LEMMA LockStep ==
  ASSUME TypeInv, LockInv, [Next]_vars
  PROVE  LockInv'
<1> USE DEF TypeInv, Types
<1>1. CASE UNCHANGED vars
  BY <1>1 DEF vars, storeVars, locks, LockInv
<1>2. ASSUME NEW p \in Procs, Kill(p) PROVE LockInv'
  BY <1>2 DEF Kill, locks, LockInv, Locked, Reloading, Flushing
<1>3. ASSUME NEW c \in Requests, Acts(c) PROVE LockInv'
  <2> SUFFICES ASSUME NEW r \in Requests
               PROVE  /\ pc'[r] \in Locked => keyLock'[KeyOf[r]] = r
                      /\ pc'[r] \in {"merge", "rename", "written"} => stateLock' = r
    BY DEF LockInv
  <2>1. KeyOf[r] \in Keys /\ KeyOf[c] \in Keys
    BY KeyOfRequest
  <2>2. r # c => pc'[r] = pc[r]
    BY <1>3, OthersStay
  <2>3. CASE LockKey(c)
    BY <2>1, <2>2, <2>3, IdempotencyAssumption
       DEF LockKey, Step, Goto, LockInv, Locked, Reloading, Flushing
  <2>4. CASE Release(c)
    <3>1. pc'[c] \in {"answered", "replayed", "conflict", "status", "failed"}
      BY <2>4 DEF Release, Ending, Goto
    <3>2. pc[c] \in Locked
      BY <2>4 DEF Release, Ending, Locked
    <3> QED
      BY <2>1, <2>2, <2>4, <3>1, <3>2 DEF Release, LockInv, Locked, Reloading, Flushing
  <2>5. CASE BreakStale(c)
    BY <2>1, <2>5 DEF BreakStale, LockInv, Locked, Reloading, Flushing
  <2>6. CASE Begin(c) \/ LockTimeout(c)
    BY <2>2, <2>6 DEF Begin, LockTimeout, Step, Goto, LockInv, Locked, Reloading, Flushing, locks
  <2>7. CASE WritesDone(c) \/ Assign(c) \/ BeginPut(c) \/ Execute(c)
    BY <2>2, <2>7 DEF WritesDone, Assign, BeginPut, Execute, Step, Goto, LockInv, Locked, Reloading, Flushing, locks
  <2>8. CASE Stat(c) \/ Read(c) \/ Mtime(c)
    <3>1. ASSUME NEW m, Reloaded(c, m) PROVE pc'[c] \in {"told", "execute", "hit", "mismatch", "flush"}
      BY <3>1 DEF Reloaded, Found, Goto
    <3>2. pc'[c] \in {"told", "execute", "hit", "mismatch", "flush", "read", "assign"}
      BY <2>8, <3>1 DEF Stat, Read, Mtime, Goto
    <3>3. pc[c] \in Locked /\ UNCHANGED locks
      BY <2>8 DEF Stat, Read, Mtime, Locked, Reloading
    <3> QED
      BY <2>2, <3>2, <3>3 DEF LockInv, Locked, Reloading, Flushing, locks
  <2>9. CASE LockState(c)
    BY <2>2, <2>9, IdempotencyAssumption DEF LockState, Step, Goto, LockInv, Locked, Flushing
  <2>10. CASE Merge(c) \/ Rename(c)
    BY <2>2, <2>10 DEF Merge, Rename, Step, Goto, LockInv, Locked, Flushing, locks
  <2>11. CASE Ends(c)
    BY <2>2, <2>11 DEF Ends, Flushed, FlushFails, Step, Goto, LockInv, Locked, Flushing
  <2> QED
    BY <1>3, <2>3, <2>4, <2>5, <2>6, <2>7, <2>8, <2>9, <2>10, <2>11 DEF Acts, Other, GetStep
<1> QED
  BY <1>1, <1>2, <1>3, Steps DEF Acts

\* Only the holder of the state lock renames, and what it writes it merged with
\* the file as it still is.
LEMMA OutStep ==
  ASSUME TypeInv, LockInv, OutInv, [Next]_vars
  PROVE  OutInv'
<1> USE DEF TypeInv, Types
<1>1. CASE UNCHANGED vars
  BY <1>1 DEF vars, storeVars, fileVars, reads, OutInv
<1>2. ASSUME NEW p \in Procs, Kill(p) PROVE OutInv'
  BY <1>2 DEF Kill, fileVars, reads, OutInv
<1>3. ASSUME NEW c \in Requests, Acts(c) PROVE OutInv'
  <2>1. \A r \in Requests \ {c} : pc'[r] = pc[r] /\ out'[r] = out[r]
    BY <1>3, OthersStay
  <2>2. ASSUME pc'[c] = "rename" PROVE Merge(c) \/ BreakStale(c)
    <3>1. CASE Stat(c) \/ Read(c) \/ Mtime(c)
      BY <2>2, <3>1 DEF Stat, Read, Mtime, Reloaded, Found, Goto
    <3>2. CASE Execute(c) \/ Ends(c)
      BY <2>2, <3>2 DEF Execute, Ends, Flushed, FlushFails, Step, Goto
    <3>3. CASE LockKey(c) \/ LockTimeout(c) \/ Begin(c) \/ WritesDone(c) \/ Assign(c)
      BY <2>2, <3>3 DEF LockKey, LockTimeout, Begin, WritesDone, Assign, Step, Goto
    <3>4. CASE Release(c)
      BY <2>2, <3>4 DEF Release, Ending, Goto
    <3>5. CASE BeginPut(c) \/ LockState(c) \/ Rename(c)
      BY <2>2, <3>5 DEF BeginPut, LockState, Rename, Step, Goto
    <3> QED
      BY <1>3, <3>1, <3>2, <3>3, <3>4, <3>5 DEF Acts, Other, GetStep
  <2>3. CASE Rename(c)
    <3>1. pc[c] = "rename" /\ pc'[c] = "written"
      BY <2>3 DEF Rename, Step, Goto
    <3>2. \A r \in Requests \ {c} : pc[r] # "rename"
      BY <3>1 DEF LockInv
    <3> QED
      BY <2>1, <3>1, <3>2 DEF OutInv
  <2>4. CASE Merge(c)
    <3>1. file' = file /\ out'[c] = Merged(file, mem[ProcOf[c]])
      BY <2>4 DEF Merge, fileVars
    <3>2. \A k \in Keys : file[k] # None => out'[c][k] # None
      BY <3>1 DEF Merged
    <3> QED
      BY <2>1, <3>1, <3>2 DEF OutInv
  <2>5. CASE BreakStale(c)
    BY <2>5 DEF BreakStale, fileVars, reads, OutInv
  <2>6. CASE pc'[c] # "rename" /\ file' = file
    BY <2>1, <2>6 DEF OutInv
  <2> QED
    BY <1>3, <2>2, <2>3, <2>4, <2>5, <2>6, FileChanges DEF fileVars
<1> QED
  BY <1>1, <1>2, <1>3, Steps DEF Acts

LEMMA VerStep ==
  ASSUME TypeInv, Apart, VerInv, [Next]_vars
  PROVE  VerInv'
<1> USE IdempotencyAssumption DEF TypeInv, Types
<1>1. CASE UNCHANGED vars
  BY <1>1 DEF vars, storeVars, fileVars, procVars, reads, VerInv
<1>2. ASSUME NEW p \in Procs, Kill(p) PROVE VerInv'
  BY <1>2 DEF Kill, fileVars, reads, VerInv, Over
<1>3. ASSUME NEW c \in Requests, Acts(c) PROVE VerInv'
  <2>1. ver' >= ver /\ ver' \in Nat /\ (ver' = 0 => file' = Empty)
    <3>1. CASE UNCHANGED fileVars
      BY <3>1 DEF fileVars, VerInv
    <3>2. CASE Rename(c)
      BY <3>2 DEF Rename
    <3> QED
      BY <1>3, <3>1, <3>2, FileChanges
  <2>2. ASSUME NEW p \in Procs PROVE loaded'[p] <= ver'
    <3>1. loaded'[p] = loaded[p] \/ loaded'[p] = 0 \/ loaded'[p] = ver
      BY <1>3, OwnCopy
    <3>2. loaded[p] \in Nat /\ ver \in Nat /\ loaded[p] <= ver
      BY DEF VerInv
    <3> QED
      BY <2>1, <3>1, <3>2
  <2>3. ASSUME NEW r \in Requests \ {c}, pc'[r] = "read" PROVE loaded'[ProcOf[r]] <= seen'[r]
    <3>1. pc[r] = "read" /\ seen'[r] = seen[r]
      BY <1>3, <2>3, OthersStay
    <3>2. InStore(r)
      BY <3>1 DEF InStore
    <3>3. loaded'[ProcOf[r]] = loaded[ProcOf[r]]
      BY <1>3, <3>2, OwnCopy DEF Apart
    <3> QED
      BY <3>1, <3>3 DEF VerInv
  <2>4. ASSUME pc'[c] = "read" PROVE loaded'[ProcOf[c]] <= seen'[c]
    <3>1. CASE Stat(c)
      BY <2>4, <3>1 DEF Stat, Reloaded, Found, Goto, procVars, VerInv
    <3>2. CASE Read(c) \/ Mtime(c)
      BY <2>4, <3>2 DEF Read, Mtime, Reloaded, Found, Goto
    <3>3. CASE Execute(c) \/ Ends(c)
      BY <2>4, <3>3 DEF Execute, Ends, Flushed, FlushFails, Step, Goto
    <3>4. CASE LockKey(c) \/ LockTimeout(c) \/ BreakStale(c) \/ Begin(c)
      BY <2>4, <3>4 DEF LockKey, LockTimeout, BreakStale, Begin, Step, Goto
    <3>5. CASE Release(c)
      BY <2>4, <3>5 DEF Release, Ending, Goto
    <3>6. CASE WritesDone(c) \/ Assign(c)
      BY <2>4, <3>6 DEF WritesDone, Assign, Step, Goto
    <3>7. CASE BeginPut(c) \/ LockState(c) \/ Merge(c) \/ Rename(c)
      BY <2>4, <3>7 DEF BeginPut, LockState, Merge, Rename, Step, Goto
    <3> QED
      BY <1>3, <3>1, <3>2, <3>3, <3>4, <3>5, <3>6, <3>7 DEF Acts, Other, GetStep
  <2> QED
    BY <2>1, <2>2, <2>3, <2>4 DEF VerInv
<1> QED
  BY <1>1, <1>2, <1>3, Steps DEF Acts

\* A flush puts its own entry into the file and keeps every other one.
LEMMA RenameAdds ==
  ASSUME Types, CopyInv, NEW c \in Requests, Rename(c)
  PROVE  /\ file[KeyOf[c]] = None /\ file'[KeyOf[c]] = HashOf[c]
         /\ \A k \in Keys \ {KeyOf[c]} : file'[k] = file[k]
<1>1. pc[c] = "rename" /\ file' = out[c]
  BY DEF Rename, Step
<1>2. Copy(c) /\ Unstored(c)
  BY <1>1 DEF CopyInv, Unstored
<1> QED
  BY <1>1, <1>2 DEF Copy

\* The other requests' copies stay as good as they were.
LEMMA CopyOfOthers ==
  ASSUME TypeInv, LockInv, Apart, CopyInv, NEW c \in Requests, Acts(c), NEW r \in Requests \ {c}
  PROVE  Copy(r)'
<1> USE IdempotencyAssumption, KeyOfRequest
<1> DEFINE m == mem[ProcOf[r]]
<1>1. Types /\ Copy(r) /\ Copy(c)
  BY DEF TypeInv, CopyInv
<1>2. pc'[r] = pc[r] /\ op'[r] = op[r] /\ snap'[r] = snap[r] /\ out'[r] = out[r]
  BY <1>1, OthersStay
<1>3. ASSUME InStore(r) PROVE mem'[ProcOf[r]] = m
  BY <1>1, <1>3, OwnCopy DEF Apart
<1>4. pc[r] \in {"mtime", "flush", "merge"} => mem'[ProcOf[r]] = m
  BY <1>3 DEF InStore
<1>5. Unstored(r)' = Unstored(r) /\ Stored(r)' = Stored(r)
  BY <1>2 DEF Unstored, Stored
<1>6. CASE file' = file
  BY <1>1, <1>2, <1>4, <1>5, <1>6 DEF Copy, Agrees
<1>7. CASE Rename(c)
  <2>1. /\ file[KeyOf[c]] = None /\ file'[KeyOf[c]] = HashOf[c]
        /\ \A k \in Keys \ {KeyOf[c]} : file'[k] = file[k]
    BY <1>1, <1>7, RenameAdds
  <2>2. pc[c] = "rename" /\ stateLock = c /\ keyLock[KeyOf[c]] = c
    BY <1>7 DEF Rename, Step, LockInv, Locked, Flushing
  <2>3. pc[r] # "rename"
    BY <2>2 DEF LockInv
  <2>4. pc[r] \in Locked => KeyOf[r] # KeyOf[c]
    BY <2>2 DEF LockInv
  <2>5. Stored(r) => file[KeyOf[r]] = HashOf[r] /\ KeyOf[r] # KeyOf[c]
    BY <1>1, <2>1 DEF Copy
  <2>6. \A k \in Keys : file[k] # None => file'[k] = file[k]
    BY <2>1
  <2>7. pc[r] = "assign" => Agrees(snap[r], r)'
    BY <1>1, <1>2, <2>1, <2>4, <2>6 DEF Copy, Agrees, Locked, Reloading
  <2>8. pc[r] = "mtime" => Agrees(mem[ProcOf[r]], r)'
    BY <1>1, <1>2, <1>4, <2>1, <2>4, <2>6 DEF Copy, Agrees, Locked, Reloading
  <2>9. pc[r] \in {"flush", "merge"} =>
          /\ mem'[ProcOf[r]][KeyOf[r]] = HashOf[r]
          /\ \A k \in Keys \ {KeyOf[r]} : mem'[ProcOf[r]][k] \in {None, file'[k]}
    BY <1>1, <1>4, <2>6 DEF Copy
  <2>10. Stored(r) => file'[KeyOf[r]] = HashOf[r]
    BY <2>1, <2>5
  <2>11. Unstored(r) => file'[KeyOf[r]] = None
    <3>1. Unstored(r) => pc[r] \in Locked
      BY DEF Unstored, Locked, Flushing
    <3> QED
      BY <1>1, <2>1, <2>4, <3>1 DEF Copy
  <2> QED
    BY <1>2, <1>5, <2>3, <2>7, <2>8, <2>9, <2>10, <2>11 DEF Copy
<1> QED
  BY <1>6, <1>7, FileChanges DEF fileVars

\* A reload that found an up-to-date copy answers from it, or stages on it.
LEMMA CopyReloaded ==
  ASSUME Types, CopyInv, NEW c \in Requests, NEW m \in Entries, Agrees(m, c), Reloaded(c, m),
         pc[c] \in Reloading, file' = file, op' = op
  PROVE  Copy(c)'
<1> USE IdempotencyAssumption, KeyOfRequest DEF Types, Goto, SetMem
<1>1. CASE op[c] = "get"
  <2>1. pc'[c] = Found(c, m)
    BY <1>1 DEF Reloaded
  <2>2. pc'[c] \in {"told", "execute", "hit", "mismatch"} /\ (pc'[c] = "execute" => file'[KeyOf[c]] = None)
    BY <2>1 DEF Found, Agrees
  <2> QED
    BY <2>2 DEF Copy, Stored, Unstored, Reloading
<1>2. CASE op[c] # "get"
  <2>1. file[KeyOf[c]] = None
    BY <1>2 DEF CopyInv, Copy, Unstored
  <2>2. pc'[c] = "flush" /\ mem'[ProcOf[c]] = [m EXCEPT ![KeyOf[c]] = HashOf[c]]
    BY <1>2 DEF Reloaded
  <2> QED
    BY <2>1, <2>2 DEF Copy, Agrees, Stored, Unstored, Entries
<1> QED
  BY <1>1, <1>2

\* The acting request's own copy.
LEMMA CopyOfOwn ==
  ASSUME TypeInv, VerInv, CopyInv, NEW c \in Requests, Acts(c)
  PROVE  Copy(c)'
<1> USE IdempotencyAssumption, KeyOfRequest DEF Goto, Step, SetMem
<1>1. Types /\ QueueInv /\ Copy(c)
  BY DEF TypeInv, CopyInv
<1>2. pc \in [Requests -> Stages] /\ mem \in [Procs -> Entries] /\ file \in Entries /\ ProcOf[c] \in Procs
  BY <1>1 DEF Types
<1>3. ASSUME pc'[c] \in (Over \ {"answered"}) \cup {"lock", "wait", "hit", "mismatch", "told", "error"}
      PROVE  Copy(c)'
  BY <1>3 DEF Copy, Stored, Unstored, Over, Reloading
<1>4. CASE Begin(c) \/ LockKey(c) \/ LockTimeout(c)
  BY <1>2, <1>3, <1>4 DEF Begin, LockKey, LockTimeout, Over
<1>5. CASE BreakStale(c)
  BY <1>3, <1>5 DEF BreakStale, Over
<1>6. CASE Release(c)
  <2>1. CASE pc[c] = "stored"
    <3>1. pc'[c] = "answered" /\ file' = file
      BY <1>2, <1>6, <2>1 DEF Release, Ending, fileVars
    <3> QED
      BY <1>1, <2>1, <3>1 DEF Copy, Stored, Unstored, Reloading
  <2>2. CASE pc[c] # "stored"
    BY <1>2, <1>3, <1>6, <2>2 DEF Release, Ending, Over
  <2> QED
    BY <2>1, <2>2
<1>7. CASE WritesDone(c)
  <2>1. pc'[c] = "stat" /\ op'[c] = "get"
    BY <1>1, <1>2, <1>7 DEF WritesDone, QueueInv, reads
  <2> QED
    BY <2>1 DEF Copy, Stored, Unstored
<1>8. CASE Stat(c)
  <2>1. CASE ver = 0
    <3>1. file = Empty /\ Agrees(Empty, c)
      BY <2>1 DEF VerInv, Agrees, Empty
    <3> QED
      BY <1>1, <1>8, <2>1, <3>1, CopyReloaded, EmptyIsEntries DEF Stat, fileVars, Reloading
  <2>2. CASE ver # 0
    <3>1. pc'[c] = "read" /\ op' = op /\ file' = file
      BY <1>2, <1>8, <2>2 DEF Stat, fileVars
    <3> QED
      BY <1>1, <1>8, <3>1 DEF Copy, Stored, Unstored, Reloading, Stat
  <2> QED
    BY <2>1, <2>2
<1>9. CASE Read(c)
  <2>1. seen[c] \in Nat /\ loaded[ProcOf[c]] \in Nat /\ loaded[ProcOf[c]] <= seen[c]
    BY <1>1, <1>9 DEF Read, VerInv, Types
  <2>2. pc'[c] = "assign" /\ snap'[c] = file /\ op' = op /\ file' = file
    BY <1>1, <1>9, <2>1 DEF Read, fileVars, Types
  <2> QED
    BY <1>1, <1>9, <2>2 DEF Copy, Agrees, Stored, Unstored, Reloading, Read
<1>10. CASE Assign(c)
  <2>1. pc[c] = "assign" /\ pc'[c] = "mtime" /\ mem'[ProcOf[c]] = snap[c] /\ op' = op /\ file' = file
    BY <1>2, <1>10 DEF Assign, fileVars, reads
  <2> QED
    BY <1>1, <2>1 DEF Copy, Agrees, Stored, Unstored, Reloading
<1>11. CASE Mtime(c)
  <2>1. Agrees(mem[ProcOf[c]], c)
    BY <1>1, <1>11 DEF Mtime, Copy
  <2> QED
    BY <1>1, <1>2, <1>11, <2>1, CopyReloaded DEF Mtime, fileVars, reads, Reloading
<1>12. CASE Execute(c)
  <2>1. pc[c] = "execute" /\ pc'[c] \in {"queued", "error"} /\ file' = file
    BY <1>2, <1>12 DEF Execute, fileVars
  <2> QED
    BY <1>1, <2>1 DEF Copy, Stored, Unstored, Reloading
<1>13. CASE BeginPut(c)
  <2>1. pc[c] = "queued" /\ pc'[c] = "stat" /\ file' = file
    BY <1>2, <1>13 DEF BeginPut, fileVars
  <2> QED
    BY <1>1, <2>1 DEF Copy, Stored, Unstored
<1>14. CASE LockState(c)
  <2>1. pc[c] = "flush" /\ pc'[c] = "merge" /\ file' = file /\ mem' = mem
    BY <1>2, <1>14 DEF LockState, fileVars, procVars
  <2> QED
    BY <1>1, <2>1 DEF Copy, Stored, Unstored, Reloading
<1>15. CASE Merge(c)
  <2> DEFINE m == mem[ProcOf[c]]
  <2>1. pc[c] = "merge" /\ pc'[c] = "rename" /\ file' = file
    BY <1>2, <1>15 DEF Merge, fileVars
  <2>2. out'[c] = Merged(file, m)
    BY <1>1, <1>15 DEF Merge, Types
  <2>3. Merged(file, m)[KeyOf[c]] = HashOf[c] /\ \A k \in Keys \ {KeyOf[c]} : Merged(file, m)[k] = file[k]
    BY <1>1, <2>1 DEF Copy, Merged
  <2> QED
    BY <1>1, <2>1, <2>2, <2>3 DEF Copy, Stored, Unstored, Reloading
<1>16. CASE Rename(c)
  <2>1. pc'[c] = "written" /\ file'[KeyOf[c]] = HashOf[c]
    BY <1>1, <1>2, <1>16, RenameAdds DEF Rename
  <2> QED
    BY <2>1 DEF Copy, Stored, Unstored, Reloading
<1>17. CASE Flushed(c)
  <2>1. pc[c] = "written" /\ pc'[c] = "stored" /\ file' = file
    BY <1>2, <1>17 DEF Flushed, fileVars
  <2> QED
    BY <1>1, <2>1 DEF Copy, Stored, Unstored, Reloading
<1>18. CASE FlushFails(c)
  BY <1>2, <1>3, <1>18 DEF FlushFails
<1> QED
  BY <1>4, <1>5, <1>6, <1>7, <1>8, <1>9, <1>10, <1>11, <1>12, <1>13, <1>14, <1>15, <1>16, <1>17, <1>18
     DEF Acts, Other, GetStep, Ends

LEMMA CopyStep ==
  ASSUME TypeInv, LockInv, Apart, VerInv, CopyInv, [Next]_vars
  PROVE  CopyInv'
<1> SUFFICES ASSUME NEW r \in Requests PROVE Copy(r)'
  BY DEF CopyInv
<1>1. CASE UNCHANGED vars
  BY <1>1 DEF vars, storeVars, fileVars, procVars, reads, CopyInv, Copy, Agrees, Stored, Unstored
<1>2. ASSUME NEW p \in Procs, Kill(p) PROVE Copy(r)'
  <2>1. pc'[r] = (IF ProcOf[r] = p /\ InFlight(r) THEN "dead" ELSE pc[r])
        /\ file' = file /\ op' = op /\ snap' = snap /\ out' = out
    BY <1>2 DEF Kill, fileVars, reads
  <2>2. CASE pc'[r] = "dead"
    BY <2>2 DEF Copy, Stored, Unstored, Reloading
  <2>3. CASE pc'[r] # "dead"
    <3>1. pc'[r] = pc[r]
      BY <2>1, <2>3
    <3>2. pc[r] \in {"mtime", "flush", "merge"} => ProcOf[r] # p
      BY <2>1, <2>3 DEF InFlight, Over
    <3>3. pc[r] \in {"mtime", "flush", "merge"} => mem'[ProcOf[r]] = mem[ProcOf[r]]
      BY <1>2, <3>2, IdempotencyAssumption DEF Kill, TypeInv, Types
    <3> QED
      BY <2>1, <3>1, <3>3 DEF CopyInv, Copy, Agrees, Stored, Unstored
  <2> QED
    BY <2>2, <2>3
<1>3. ASSUME NEW c \in Requests, Acts(c) PROVE Copy(r)'
  BY <1>3, CopyOfOthers, CopyOfOwn
<1> QED
  BY <1>1, <1>2, <1>3, Steps DEF Acts

LEMMA OnceStep ==
  ASSUME TypeInv, CopyInv, OnceInv, [Next]_vars
  PROVE  OnceInv'
<1> USE IdempotencyAssumption DEF TypeInv, Types
<1>1. CASE UNCHANGED vars
  BY <1>1 DEF vars, storeVars, OnceInv, Stored
<1>2. ASSUME NEW p \in Procs, Kill(p) PROVE OnceInv'
  BY <1>2 DEF Kill, OnceInv, Stored
<1>3. ASSUME NEW c \in Requests, Acts(c) PROVE OnceInv'
  <2>1. \A r \in Requests \ {c} : Stored(r)' = Stored(r)
    BY <1>3, OthersStay DEF Stored
  <2>2. CASE Rename(c)
    <3>1. file[KeyOf[c]] = None
      BY <2>2, RenameAdds
    <3>2. \A r \in Requests \ {c} : Stored(r) => KeyOf[r] # KeyOf[c]
      BY <3>1 DEF CopyInv, Copy
    <3> QED
      BY <2>1, <3>2 DEF OnceInv
  <2>3. ASSUME Stored(c)' PROVE Stored(c) \/ Rename(c)
    <3>1. CASE Execute(c) \/ Ends(c)
      BY <2>3, <3>1 DEF Execute, Ends, Flushed, FlushFails, Step, Goto, Stored
    <3>2. CASE Begin(c) \/ LockKey(c) \/ LockTimeout(c) \/ BreakStale(c)
      BY <2>3, <3>2 DEF Begin, LockKey, LockTimeout, BreakStale, Step, Goto, Stored
    <3>3. CASE Release(c)
      BY <2>3, <3>3 DEF Release, Ending, Goto, Stored
    <3>4. CASE WritesDone(c) \/ Assign(c) \/ BeginPut(c) \/ LockState(c) \/ Merge(c)
      BY <2>3, <3>4 DEF WritesDone, Assign, BeginPut, LockState, Merge, Step, Goto, Stored
    <3>5. CASE Stat(c) \/ Read(c) \/ Mtime(c)
      BY <2>3, <3>5 DEF Stat, Read, Mtime, Reloaded, Found, Goto, Stored
    <3> QED
      BY <1>3, <3>1, <3>2, <3>3, <3>4, <3>5 DEF Acts, Other, GetStep
  <2> QED
    BY <2>1, <2>2, <2>3 DEF OnceInv
<1> QED
  BY <1>1, <1>2, <1>3, Steps DEF Acts

LEMMA ApartStep ==
  ASSUME IInv, ApartInv, [Next]_vars, ~overlapped'
  PROVE  ApartInv'
<1>1. TypeInv /\ LockInv /\ Apart /\ VerInv /\ CopyInv /\ OnceInv
  BY DEF IInv, ApartInv
<1>2. Apart'
  BY <1>1, GhostStep DEF TypeInv, Types
<1> QED
  BY <1>1, <1>2, VerStep, CopyStep, OnceStep DEF ApartInv

LEMMA Invariant == Spec => []IInv
<1>1. Init => IInv
  BY TypeInit, StoreInit DEF IInv
<1>2. IInv /\ [Next]_vars => IInv'
  BY TypesStep, QueueStep, LockStep, OutStep DEF IInv, TypeInv
<1> QED
  BY <1>1, <1>2, PTL DEF Spec

LEMMA ApartInvariant == Spec => []ApartIInv
<1>1. Init => ApartIInv
  BY TypeInit, StoreInit DEF ApartIInv, IInv
<1>2. ApartIInv /\ [Next]_vars => ApartIInv'
  <2> SUFFICES ASSUME ApartIInv, [Next]_vars PROVE ApartIInv'
    OBVIOUS
  <2>1. IInv'
    BY TypesStep, QueueStep, LockStep, OutStep DEF ApartIInv, IInv, TypeInv
  <2>2. ASSUME ~overlapped' PROVE ApartInv'
    BY <2>2, GhostStep, ApartStep DEF ApartIInv, IInv, TypeInv, Types
  <2> QED
    BY <2>1, <2>2 DEF ApartIInv
<1> QED
  BY <1>1, <1>2, PTL DEF Spec

\* As long as no get has overlapped another get or put of its process, an answer
\* that was given stays in the state file: no reload, merge, failed flush, kill
\* or broken lock takes it out, however many processes share the file and
\* however many requests each has in flight (put, flush).
THEOREM AnswersStayStored == Spec => []ApartKeepsAnswers
<1>1. ApartIInv => ApartKeepsAnswers
  BY DEF ApartIInv, ApartInv, CopyInv, Copy, Stored, AnsweredIsStored, ApartKeepsAnswers
<1> QED
  BY <1>1, ApartInvariant, PTL

\* As long as no get has overlapped another get or put of its process, a key whose
\* request was answered never executes again, for a retry or for another payload
\* (handleIdempotentWrite).
THEOREM KeysExecuteOnce == Spec => []ApartExecutesOnce
<1>1. ASSUME ApartInv, NEW r \in Requests, NEW s \in Requests,
             KeyOf[r] = KeyOf[s], r # s, pc[r] \in {"stored", "answered"}
      PROVE  pc[s] \notin {"execute", "queued", "stored", "answered"}
  <2>1. file[KeyOf[s]] = HashOf[r] /\ HashOf[r] # None
    BY <1>1, IdempotencyAssumption DEF ApartInv, CopyInv, Copy, Stored
  <2>2. ~Unstored(s)
    BY <1>1, <2>1 DEF ApartInv, CopyInv, Copy
  <2>3. ~Stored(s)
    BY <1>1 DEF ApartInv, OnceInv, Stored
  <2> QED
    BY <2>2, <2>3 DEF Unstored, Stored
<1>2. ApartIInv => ApartExecutesOnce
  BY <1>1 DEF ApartIInv, ExecutesOnce, ApartExecutesOnce
<1> QED
  BY <1>2, ApartInvariant, PTL

\* Whatever gets and puts overlap, and whoever is killed, an entry never vanishes
\* from the state file: only the holder of the state lock replaces it, by what it
\* merged with the file under that lock (flush).  Its hash may still change.
THEOREM EntriesNeverVanish == Spec => EntriesStay
<1>1. ASSUME IInv, [Next]_vars, NEW k \in Keys, file[k] # None PROVE file'[k] # None
  <2>1. CASE UNCHANGED vars
    BY <1>1, <2>1 DEF vars, storeVars, fileVars
  <2>2. ASSUME NEW p \in Procs, Kill(p) PROVE file'[k] # None
    BY <1>1, <2>2 DEF Kill, fileVars
  <2>3. ASSUME NEW c \in Requests, Acts(c) PROVE file'[k] # None
    <3>1. CASE Rename(c)
      BY <1>1, <3>1 DEF Rename, Step, IInv, OutInv
    <3>2. CASE UNCHANGED fileVars
      BY <1>1, <3>2 DEF fileVars
    <3> QED
      BY <2>3, <3>1, <3>2, FileChanges
  <2> QED
    BY <1>1, <2>1, <2>2, <2>3, Steps DEF Acts
<1>2. IInv /\ [Next]_vars => [\A k \in Keys : file[k] # None => file'[k] # None]_vars
  BY <1>1
<1> QED
  BY <1>2, Invariant, PTL DEF Spec, EntriesStay

Answered == {r \in Requests : pc[r] = "answered"}

\* A request is answered when it releases its key after it stored its entry,
\* and what was answered stays so.
LEMMA AnswersAreReleases ==
  ASSUME Types, NEW c \in Requests, Acts(c)
  PROVE  \/ Answered' = Answered
         \/ pc[c] = "stored" /\ Answered' = Answered \cup {c} /\ UNCHANGED fileVars
<1> USE DEF Types, Goto, Step
<1>1. \A r \in Requests \ {c} : pc'[r] = pc[r]
  BY OthersStay
<1>2. ASSUME pc[c] # "answered", pc'[c] # "answered" PROVE Answered' = Answered
  BY <1>1, <1>2 DEF Answered
<1>3. CASE Begin(c) \/ LockKey(c) \/ LockTimeout(c)
  BY <1>2, <1>3 DEF Begin, LockKey, LockTimeout
<1>4. CASE BreakStale(c)
  BY <1>2, <1>4 DEF BreakStale
<1>5. CASE Release(c)
  <2>1. CASE pc[c] = "stored"
    <3>1. pc'[c] = "answered" /\ UNCHANGED fileVars
      BY <1>5, <2>1 DEF Release, Ending
    <3> QED
      BY <1>1, <2>1, <3>1 DEF Answered
  <2>2. CASE pc[c] # "stored"
    BY <1>2, <1>5, <2>2 DEF Release, Ending
  <2> QED
    BY <2>1, <2>2
<1>6. CASE WritesDone(c) \/ Assign(c)
  BY <1>2, <1>6 DEF WritesDone, Assign
<1>7. CASE Stat(c) \/ Read(c) \/ Mtime(c)
  BY <1>2, <1>7 DEF Stat, Read, Mtime, Reloaded, Found
<1>8. CASE Execute(c) \/ Ends(c)
  BY <1>2, <1>8 DEF Execute, Ends, Flushed, FlushFails
<1>9. CASE BeginPut(c) \/ LockState(c) \/ Merge(c) \/ Rename(c)
  BY <1>2, <1>9 DEF BeginPut, LockState, Merge, Rename
<1> QED
  BY <1>3, <1>4, <1>5, <1>6, <1>7, <1>8, <1>9 DEF Acts, Other, GetStep

\* Every step puts an entry where there is none, answers the request that put
\* its key's entry, or is invisible to WriteOnce.
LEMMA WriteOnceStep ==
  ASSUME IInv, ApartInv, [Next]_vars
  PROVE  [Once!Next]_(Once!vars)
<1> USE IdempotencyAssumption, KeyOfRequest
<1>1. TypeInv /\ Types /\ CopyInv /\ OnceInv
  BY DEF IInv, ApartInv, TypeInv
<1>2. ASSUME file' = file, Answered' = Answered PROVE UNCHANGED Once!vars
  BY <1>2 DEF Once!vars, Answered
<1>3. CASE UNCHANGED vars
  BY <1>2, <1>3 DEF vars, storeVars, fileVars, Answered
<1>4. ASSUME NEW p \in Procs, Kill(p) PROVE UNCHANGED Once!vars
  <2>1. file' = file /\ Answered' = Answered
    BY <1>4 DEF Kill, fileVars, Answered, InFlight, Over
  <2> QED
    BY <1>2, <2>1
<1>5. ASSUME NEW c \in Requests, Acts(c) PROVE [Once!Next]_(Once!vars)
  <2>1. CASE Rename(c)
    <3>1. Answered' = Answered
      BY <1>1, <1>5, <2>1, AnswersAreReleases DEF Rename, Step
    <3>2. file[KeyOf[c]] = None /\ file'[KeyOf[c]] = HashOf[c]
          /\ \A k \in Keys \ {KeyOf[c]} : file'[k] = file[k]
      BY <1>1, <2>1, RenameAdds
    <3>3. file \in Entries /\ file' \in Entries
      BY <1>1, <2>1 DEF Types, Rename
    <3>4. file' = [file EXCEPT ![KeyOf[c]] = HashOf[c]]
      BY <3>2, <3>3 DEF Entries
    <3>5. Once!Put(c)
      BY <3>1, <3>2, <3>4 DEF Once!Put, Answered
    <3> QED
      BY <3>5 DEF Once!Next
  <2>2. CASE file' = file /\ Answered' = Answered
    BY <1>2, <2>2
  <2>3. CASE pc[c] = "stored" /\ Answered' = Answered \cup {c} /\ file' = file
    <3>1. file[KeyOf[c]] = HashOf[c]
      BY <1>1, <2>3 DEF CopyInv, Copy, Stored
    <3>2. \A s \in Answered : KeyOf[s] # KeyOf[c]
      BY <1>1, <2>3 DEF OnceInv, Stored, Answered
    <3>3. Once!Answer(c)
      BY <2>3, <3>1, <3>2 DEF Once!Answer, Answered
    <3> QED
      BY <3>3 DEF Once!Next
  <2> QED
    BY <1>1, <1>5, <2>1, <2>2, <2>3, FileChanges, AnswersAreReleases DEF fileVars
<1> QED
  BY <1>3, <1>4, <1>5, Steps DEF Acts

\* Where no get overlaps another get or put of its process, the state file is
\* write-once: seen from outside, reloads, merges, failed flushes, broken locks
\* and kills do nothing, a flush adds one entry where there was none, and only
\* the request that put the entry is answered for it (flush, handleIdempotentWrite).
THEOREM FileIsWriteOnce == ApartSpec => ImplementsWriteOnce
<1>1. Init => Once!Init /\ IInv /\ ApartInv
  BY TypeInit, StoreInit DEF Init, Once!Init, Empty, Keys, IInv
<1>2. IInv /\ ApartInv /\ [Next /\ Apart']_vars => IInv' /\ ApartInv'
  <2> SUFFICES ASSUME IInv, ApartInv, [Next /\ Apart']_vars PROVE IInv' /\ ApartInv'
    OBVIOUS
  <2>1. [Next]_vars
    OBVIOUS
  <2>2. IInv'
    BY <2>1, TypesStep, QueueStep, LockStep, OutStep DEF IInv, TypeInv
  <2>3. Apart'
    BY DEF ApartInv, Apart, InStore, vars, storeVars
  <2> QED
    BY <2>1, <2>2, <2>3, VerStep, CopyStep, OnceStep DEF IInv, ApartInv
<1>3. IInv /\ ApartInv /\ [Next /\ Apart']_vars => [Once!Next]_(Once!vars)
  BY WriteOnceStep
<1> QED
  BY <1>1, <1>2, <1>3, PTL DEF ApartSpec, ImplementsWriteOnce, Once!Spec

=============================================================================
