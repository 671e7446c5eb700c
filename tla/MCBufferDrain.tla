--------------------------- MODULE MCBufferDrain ---------------------------
EXTENDS BufferDrain, TLC

MCSymmetry == Permutations(Turns) \cup Permutations(Drainers)
=============================================================================
