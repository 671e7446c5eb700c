--------------------------- MODULE BufferDrainInv ---------------------------
(***************************************************************************)
(* The inductive invariant of BufferDrain, in named parts.  None of them is *)
(* a promise of the code by itself; together they are what every step keeps *)
(* and what the promises follow from (BufferDrainProofs).                   *)
(***************************************************************************)
EXTENDS BufferDrain

Writing == {"retainWrite", "clearWrite"}
Locked == Writing \cup {"readback"}

\* The lock file names the only process inside a locked section.
LockInv ==
  /\ \A d \in Drainers : pc[d] \in Locked \/ beat[d] => lock = d
  /\ \A d \in Drainers : ~(pc[d] \in Locked /\ beat[d])
  /\ \A d \in Drainers : pc[d] \in Writing <=> (held # None /\ lock = d)
  /\ held # None => lock \in Drainers

\* A claim just renamed into place has no tombstone yet.
ReadbackInv ==
  \A d \in Drainers : pc[d] = "readback" => claim # None /\ Gone(claim) = {}

\* A mutation that saves has an entry to save.
SaveInv ==
  /\ dirty => mem # None
  /\ opc \notin {"idle", "down"} => dirty
  /\ opc = "down" => ~dirty

\* A tombstone being consumed is finished, and no run can undo that.
ConsumeInv ==
  opc \in {"leaseRead", "consume", "unlinkClaim"} =>
    claim # None /\ Gone(claim) # {} /\ Pending(claim) \subseteq settled

\* Retained copies, tombstones, and what an extraction has dealt with, are
\* settled, wherever they are kept.
RetainedOf(e) == IF e = None THEN {} ELSE e.retained
SettledInv ==
  /\ RetainedOf(session) \subseteq settled
  /\ RetainedOf(mem) \subseteq settled
  /\ RetainedOf(claim) \subseteq settled /\ Gone(claim) \subseteq settled
  /\ RetainedOf(held) \subseteq settled /\ Gone(held) \subseteq settled
  /\ tomb \subseteq settled
  /\ xchunk \subseteq settled
  /\ \A d \in Drainers : /\ seen[d].retained \subseteq settled
                         /\ local[d].retained \subseteq settled
                         /\ window[d] \subseteq settled

\* A run works on turns of the claim, and what it has struck off its snapshot
\* is settled.
RunInv ==
  \A d \in Drainers :
    /\ seen[d].turns \subseteq Pending(claim) \cup settled
    /\ local[d].turns \subseteq Pending(claim) \cup settled
    /\ pc[d] # "adopt" => seen[d].turns \ local[d].turns \subseteq settled

\* The next overwrite of the session file by its owner loses nothing.
OverwriteInv ==
  opc # "down" =>
    Pending(session) \subseteq Pending(mem) \cup Pending(claim)
                                 \cup settled \cup dropped

IInv ==
  /\ TypeOK
  /\ LockInv
  /\ ReadbackInv
  /\ SaveInv
  /\ ConsumeInv
  /\ SettledInv
  /\ RunInv
  /\ OverwriteInv
  /\ ProgressIsFenced
  /\ ProgressBaseIsCurrent
  /\ DurableNeverLost
=============================================================================
