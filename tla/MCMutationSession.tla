------------------------- MODULE MCMutationSession -------------------------
EXTENDS MutationSession, TLC

CallSymmetry == Permutations(Calls)
=============================================================================
