----------------------------- MODULE MetaUpdate -----------------------------
(***************************************************************************)
(* updateMetaSerialized: the read-modify-write of one state directory's     *)
(* meta.json, run as the task of a held file lock.  Updates of one process  *)
(* follow each other on the directory's promise chain; updates of different *)
(* processes are ordered by meta.json.lock alone.                           *)
(*                                                                         *)
(* The metadata is the set of updates it reflects.                          *)
(***************************************************************************)
EXTENDS HeldFileLock

CONSTANT Proc     \* the process of each call

ASSUME ProcAssumption == Calls \subseteq DOMAIN Proc

VARIABLES
  meta,     \* the updates meta.json reflects
  copy,     \* what each call's loadMeta returned
  task      \* the task of each call: start, loaded, saved or skipped

metaVars == <<meta, copy, task>>
vars == <<lockVars, metaVars>>

MetaInit ==
  /\ Init
  /\ meta = {}
  /\ copy = [c \in Calls |-> {}]
  /\ task = [c \in Calls |-> "start"]

\* metaUpdateChains: the previous update of the same, still living process settled.
ChainFree(c) ==
  \A d \in Calls \ {c} :
    Proc[d] = Proc[c] => pc[d] \in {"idle", "done", "failed"}

BeginUpdate(c) == ChainFree(c) /\ Begin(c) /\ UNCHANGED metaVars

\* Mutant: the metadata is loaded before the lock is taken.
LoadEarly(c) ==
  /\ pc[c] \in {"try", "held"} /\ task[c] = "start"
  /\ copy' = [copy EXCEPT ![c] = meta]
  /\ task' = [task EXCEPT ![c] = "loaded"]
  /\ UNCHANGED <<lockVars, meta>>

\* task(true): loadMeta ...; a call that did not acquire throws instead.
Load(c) ==
  /\ pc[c] = "held" /\ task[c] = "start"
  /\ copy' = [copy EXCEPT ![c] = meta]
  /\ task' = [task EXCEPT ![c] = "loaded"]
  /\ UNCHANGED <<lockVars, meta>>

\* ... mutate, which may ask for no save, and saveMeta.
Save(c) ==
  /\ pc[c] = "held" /\ task[c] = "loaded"
  /\ \/ /\ meta' = copy[c] \cup {c}
        /\ task' = [task EXCEPT ![c] = "saved"]
     \/ /\ task' = [task EXCEPT ![c] = "skipped"]
        /\ UNCHANGED meta
  /\ UNCHANGED <<lockVars, copy>>

\* The task settles: saved, skipped, or loadMeta or saveMeta threw.
Settle(c) ==
  /\ task[c] \in {"saved", "skipped"} \/ c \in Faulty
  /\ EndTask(c)
  /\ UNCHANGED metaVars

UpdateStep(c) ==
  \/ BeginUpdate(c) \/ Load(c) \/ Save(c) \/ Settle(c)
  \/ LockStep(c) /\ UNCHANGED metaVars

MetaNext ==
  \E c \in Calls :
    \/ UpdateStep(c)
    \/ (Kill(c) \/ GoesStale(c)) /\ UNCHANGED metaVars

MetaSpec == MetaInit /\ [][MetaNext]_vars

-----------------------------------------------------------------------------
\* The task's progress has its type.
MetaTypeOK ==
  /\ TypeOK
  /\ meta \subseteq Calls
  /\ copy \in [Calls -> SUBSET Calls]
  /\ task \in [Calls -> {"start", "loaded", "saved", "skipped"}]

\* A saved update stays: no other worker's save reverts it
\* (updateMetaSerialized: "never a silent lost update").
NoLostUpdate == \A c \in Calls : task[c] = "saved" => c \in meta
=============================================================================
