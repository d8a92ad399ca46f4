---------------------------- MODULE MCGuestAgent ----------------------------
(* Small instances of GuestAgent for TLC.                                  *)
EXTENDS GuestAgent, TLC

Symmetry == Permutations(Caller) \cup Permutations(Op) \cup Permutations(ExecID)
=============================================================================
