--------------------------- MODULE MCRecallFlight ---------------------------
EXTENDS RecallFlight, TLC

CONSTANTS k1, k2, u1, u3, wa, wb, key1, key2

\* Two callers with keys and one without for one recall, one for another.
MCWork == k1 :> wa @@ k2 :> wa @@ u1 :> wa @@ u3 :> wb
MCKeyOf == k1 :> key1 @@ k2 :> key2 @@ u1 :> None @@ u3 :> None
=============================================================================
