------------------------- MODULE MCBacklogScheduler -------------------------
EXTENDS BacklogScheduler, TLC

CONSTANTS t1, f1, da, db, dc, ka, kb, kc

\* A live task and a flush of one key, and the drain tasks of three.
MCKeyOf == t1 :> ka @@ f1 :> ka @@ da :> ka @@ db :> kb @@ dc :> kc
MCDrainTask == [k \in Keys |-> CASE k = ka -> da [] k = kb -> db [] k = kc -> dc]
MCRank == [k \in Keys |-> CASE k = ka -> 1 [] k = kb -> 2 [] k = kc -> 3]
=============================================================================
