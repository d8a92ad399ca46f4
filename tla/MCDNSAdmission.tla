--------------------------- MODULE MCDNSAdmission ---------------------------
(* Small instances of DNSAdmission for TLC.                                *)
EXTENDS DNSAdmission, TLC

Symmetry == Permutations(Sandbox) \cup Permutations(Job)
=============================================================================
