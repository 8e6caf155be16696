---------------------- MODULE MCIncrementalCheckpoint ----------------------
EXTENDS IncrementalCheckpoint, TLC

Symmetry == Permutations(Keys) \cup Permutations(Workers)
=============================================================================
