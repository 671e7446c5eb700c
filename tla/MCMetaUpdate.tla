---------------------------- MODULE MCMetaUpdate ----------------------------
EXTENDS MetaUpdate, TLC

CONSTANTS k, a1, a2, b, d

\* One process that may be killed, one with two chained updates, two with one each.
MCProc == k :> "p0" @@ a1 :> "p1" @@ a2 :> "p1" @@ b :> "p2" @@ d :> "p3"
MCSymmetry == Permutations({a1, a2})
=============================================================================
