------------------------- MODULE MCProviderBreaker -------------------------
EXTENDS ProviderBreaker, TLC

MCSymmetry == Permutations(Attempts \ (Forced \cup Deadlined))
=============================================================================
