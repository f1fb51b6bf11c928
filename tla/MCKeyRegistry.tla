----------------------------- MODULE MCKeyRegistry -----------------------------
(* Instances of KeyRegistry for TLC: replicas are interchangeable.         *)
EXTENDS KeyRegistry, TLC

CONSTANTS u1, r1, r2

Symmetry == Permutations(Replicas)
=============================================================================
