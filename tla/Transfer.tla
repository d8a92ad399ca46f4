------------------------------ MODULE Transfer ------------------------------
(***************************************************************************)
(* What a session promises about the data it carries: it is taken in the   *)
(* order in which it was given, none of it twice and none left out except  *)
(* what is reported missing, and a transfer that is reported as complete   *)
(* has come to the end of what there was and carries no more.  A transfer  *)
(* may break at any time; then part of the data was taken.                 *)
(***************************************************************************)
EXTENDS Naturals

VARIABLES given, taken,  \* how many pieces the source has given and the sink is past
          missed,        \* how many of the latter it was told are missing
          end            \* what the client was told

vars == <<given, taken, missed, end>>

Init == given \in Nat /\ taken = 0 /\ missed = 0 /\ end = "open"

Give ==
  /\ end # "complete" /\ given' \in Nat /\ given' > given
  /\ UNCHANGED <<taken, missed, end>>

Take ==
  /\ end # "complete" /\ taken < given /\ taken' = taken + 1
  /\ UNCHANGED <<given, missed, end>>

Skip ==
  /\ end # "complete" /\ taken' \in taken + 1 .. given
  /\ missed' = missed + taken' - taken
  /\ UNCHANGED <<given, end>>

Finish ==
  /\ end = "open" /\ taken = given /\ end' = "complete"
  /\ UNCHANGED <<given, taken, missed>>

Break == end = "open" /\ end' = "broken" /\ UNCHANGED <<given, taken, missed>>

Next == Give \/ Take \/ Skip \/ Finish \/ Break

Spec == Init /\ [][Next]_vars
=============================================================================
