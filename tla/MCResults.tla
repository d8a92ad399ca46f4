----------------------------- MODULE MCResults ------------------------------
(* Small instances of Results for TLC: IDs, a name that was used twice and a *)
(* prefix of two IDs.                                                        *)
EXTENDS Results

CONSTANTS s1, s2, name, prefix

ByID == [k \in Key |-> IF k \in Sandbox THEN {k} ELSE IF k = name THEN {s1, s2} ELSE {}]
ByPrefix == [k \in Key |-> IF k \in Sandbox THEN {k} ELSE IF k = prefix THEN {s1, s2} ELSE {}]
LogSizes == [s \in Sandbox |-> IF s = s1 THEN {0, 2} ELSE {1}]
=============================================================================
