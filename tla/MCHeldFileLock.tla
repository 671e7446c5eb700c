--------------------------- MODULE MCHeldFileLock ---------------------------
EXTENDS HeldFileLock, TLC

\* Calls of the same kind are interchangeable.
MCSymmetry ==
  Permutations(Calls \ (Killable \cup Stalling \cup Faulty))
=============================================================================
