-------------------------- MODULE MCMetadataBudget --------------------------
(* Small instances of MetadataBudget for TLC.                              *)
EXTENDS MetadataBudget, TLC

Lengths == {-1, 1, 2, 4}
Symmetry == Permutations(Body) \cup Permutations(Limiter)
=============================================================================
