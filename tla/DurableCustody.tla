--------------------------- MODULE DurableCustody ---------------------------
(***************************************************************************)
(* What the buffer's files promise, without files: once the system has a    *)
(* turn in custody it lets go of it only by settling it (its extraction     *)
(* reached a durable verdict).  Moving turns between session files, claims  *)
(* and tombstones, and every crash, must be invisible at this level.        *)
(***************************************************************************)
CONSTANT Turns

VARIABLES
  custody,   \* turns the system durably holds and has not settled
  done       \* turns whose extraction reached a durable verdict

vars == <<custody, done>>

Init ==
  /\ custody = {}
  /\ done = {}

\* Turns not settled before come into custody; none leaves it.
Take ==
  /\ custody \subseteq custody'
  /\ custody' \subseteq Turns \ done
  /\ UNCHANGED done

\* What leaves custody is settled from then on.
Settle ==
  /\ done \subseteq done'
  /\ done' \subseteq Turns
  /\ custody' = custody \ done'

Next == Take \/ Settle

Spec == Init /\ [][Next]_vars
=============================================================================
