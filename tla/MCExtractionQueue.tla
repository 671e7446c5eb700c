-------------------------- MODULE MCExtractionQueue --------------------------
EXTENDS ExtractionQueue, TLC

CONSTANTS t1, t2, u1, u2, f1, ka, kb

\* Two tasks of one key, two of another, and a flush of the first.
MCKeyOf == t1 :> ka @@ t2 :> ka @@ u1 :> kb @@ u2 :> kb @@ f1 :> ka
=============================================================================
