---------------------------- MODULE MCLifecycle ----------------------------
(* Instances of Lifecycle for TLC. *)
EXTENDS LifecycleView, TLC
CONSTANTS s1, s2, v1, n1

\* Every sandbox mounts the one volume.
SharedVolume == [s \in Sandbox |-> {v1}]
NoVolumes == [s \in Sandbox |-> {}]
NoClaims == [s \in Sandbox |-> {}]
\* s1 and s2 ask for the same name, the others for none.
SameName == [s \in Sandbox |-> IF s \in {s1, s2} THEN {n1} ELSE {}]
Symmetry == Permutations(Worker) \cup Permutations(Sandbox)
WorkerSymmetry == Permutations(Worker)
=============================================================================
