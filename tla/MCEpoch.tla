------------------------------- MODULE MCEpoch -------------------------------
EXTENDS Epoch, TLC
Symmetry == Permutations(Threads) \cup Permutations(Ptrs)
=============================================================================
