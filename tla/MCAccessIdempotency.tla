------------------------- MODULE MCAccessIdempotency -------------------------
EXTENDS AccessIdempotency, TLC

CONSTANTS a1, a2, a3, b1, s1, ka, kb, h1, h2, p1, p2

\* A request, its retry at the other process, another payload under the same
\* key, a request under another key, and a status query.
MCKeyOf == a1 :> ka @@ a2 :> ka @@ a3 :> ka @@ b1 :> kb @@ s1 :> ka
MCHashOf == a1 :> h1 @@ a2 :> h1 @@ a3 :> h2 @@ b1 :> h1 @@ s1 :> h1
MCProcOf == [r \in Requests |-> IF r = a1 \/ Procs = {p1} THEN p1 ELSE p2]
=============================================================================
