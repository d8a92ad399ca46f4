---------------------------- MODULE MCArtifacts -----------------------------
(* Small instances of Artifacts for TLC: every artifact has a blob of its  *)
(* own and one that it shares with the others of its kind, or only bases   *)
(* have any.                                                               *)
EXTENDS Artifacts, TLC

CONSTANT shared

OwnAndShared == [a \in Artifact |-> {a, shared}]
OnlyBases == [a \in Artifact |-> IF a \in Base THEN {a, shared} ELSE {}]
Symmetry == Permutations(Worker)
=============================================================================
