---------------------------- MODULE MCTaskExecutor ----------------------------
EXTENDS TaskExecutor, TLC

Symmetry == Permutations(Names)
=============================================================================
