----------------------------- MODULE WriteOnce -----------------------------
(***************************************************************************)
(* What the idempotency store promises, without files, copies and locks: a  *)
(* key takes one entry and keeps it for good, and one request of the key,   *)
(* the one whose entry it is, is answered with a response of its own.  What *)
(* a process has in memory, and every kill, must be invisible here.         *)
(***************************************************************************)
CONSTANTS Requests, KeyOf, HashOf, None

VARIABLES
  store,     \* the entry of each key: a request's hash, or None
  answered   \* requests that executed and were answered

vars == <<store, answered>>

Init ==
  /\ store = [k \in {KeyOf[r] : r \in Requests} |-> None]
  /\ answered = {}

Put(r) ==
  /\ store[KeyOf[r]] = None
  /\ store' = [store EXCEPT ![KeyOf[r]] = HashOf[r]]
  /\ UNCHANGED answered

Answer(r) ==
  /\ store[KeyOf[r]] = HashOf[r]
  /\ \A s \in answered : KeyOf[s] # KeyOf[r]
  /\ answered' = answered \cup {r}
  /\ UNCHANGED store

Next == \E r \in Requests : Put(r) \/ Answer(r)

Spec == Init /\ [][Next]_vars
=============================================================================
