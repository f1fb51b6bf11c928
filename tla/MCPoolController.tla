--------------------------- MODULE MCPoolController ---------------------------
EXTENDS PoolController, TLC

Symmetry == Permutations(Pods) \cup Permutations(Sandboxes)
=============================================================================
