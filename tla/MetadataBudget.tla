--------------------------- MODULE MetadataBudget ---------------------------
(***************************************************************************)
(* MetadataTransport of internal/oci/metadata.go: the HTTP transport that  *)
(* bounds what a pull reads of registry metadata.  While a limit is active *)
(* every response is counted, and its body reads through a budget per      *)
(* response and one for all of them together.                              *)
(*                                                                         *)
(* A read has two steps: it reserves what it may at most return, waits for *)
(* the network without a lock, and then gives back what did not arrive.    *)
(* Reads of different bodies interleave; one body has one read at a time   *)
(* (metadataBody.mu).  Bytes are counted, their content is opaque.  A read *)
(* that is refused at once changes nothing and is left out.                *)
(***************************************************************************)
EXTENDS Integers, FiniteSets

CONSTANTS Body,          \* the responses of a pull
          Limiter,       \* callers of Limit
          Max, Total,    \* the budget of a response, and of all of them
          MaxResponses,  \* maxMetadataResponses
          Length,        \* what a Content-Length may be, -1 if absent
          Chunk          \* the lengths of the buffers passed to Read

ASSUME BudgetAssumption ==
  /\ IsFiniteSet(Body) /\ IsFiniteSet(Limiter)
  /\ Max \in Nat /\ Total \in Nat /\ MaxResponses \in Nat
  /\ Length \subseteq Int /\ Chunk \subseteq Nat \ {0}

VARIABLES
  limiter, active,    \* calls of Limit not stopped yet, and their number
  responses, used,    \* MetadataTransport.responses and .used
  mode,               \* of a response: none yet, free, limited or refused
  read, reserved,     \* metadataBody.read, and the allowed of a read under way
  delivered,          \* history: bytes that limited bodies returned
  passed              \* history: those returned without an error

calls == <<limiter, active>>
vars == <<calls, responses, used, mode, read, reserved, delivered, passed>>

Init ==
  /\ limiter = [k \in Limiter |-> FALSE] /\ active = 0
  /\ responses = 0 /\ used = 0
  /\ mode = [b \in Body |-> "none"]
  /\ read = [b \in Body |-> 0] /\ reserved = [b \in Body |-> 0]
  /\ delivered = 0 /\ passed = 0

Limit(k) ==
  /\ ~limiter[k]
  /\ limiter' = [limiter EXCEPT ![k] = TRUE] /\ active' = active + 1
  /\ UNCHANGED <<responses, used, mode, read, reserved, delivered, passed>>

(* The function Limit returned; a second call of it does nothing.          *)
Stop(k) ==
  /\ limiter[k]
  /\ limiter' = [limiter EXCEPT ![k] = FALSE] /\ active' = active - 1
  /\ UNCHANGED <<responses, used, mode, read, reserved, delivered, passed>>

Refused(n) == responses + 1 > MaxResponses \/ n > Max \/ (n >= 0 /\ n > Total - used)

(* RoundTrip, once the response with Content-Length n is there.            *)
RoundTrip(b, n) ==
  /\ mode[b] = "none"
  /\ responses' = IF active > 0 THEN responses + 1 ELSE responses
  /\ mode' = [mode EXCEPT ![b] = IF active = 0 THEN "free"
                                 ELSE IF Refused(n) THEN "refused" ELSE "limited"]
  /\ UNCHANGED <<calls, used, read, reserved, delivered, passed>>

Least(m, n) == IF m < n THEN m ELSE n

(* allowed: one byte more than is left tells an excess from an end.        *)
Allowed(b, n) == Least(Least(n, Max - read[b] + 1), Total - used + 1)

(* Read up to the unlock before the network: n is the buffer's length.     *)
Reserve(b, n) ==
  /\ mode[b] = "limited" /\ reserved[b] = 0
  /\ Max - read[b] >= 0 /\ Total - used >= 0
  /\ used' = used + Allowed(b, n)
  /\ reserved' = [reserved EXCEPT ![b] = Allowed(b, n)]
  /\ UNCHANGED <<calls, responses, mode, read, delivered, passed>>

(* A read that looks at the response's own budget only, once it is over.   *)
ArriveOwn(b, n) ==
  /\ reserved[b] > 0 /\ n <= reserved[b]
  /\ used' = used - (reserved[b] - n)
  /\ reserved' = [reserved EXCEPT ![b] = 0]
  /\ read' = [read EXCEPT ![b] = @ + n]
  /\ delivered' = delivered + n
  /\ passed' = IF read[b] + n > Max THEN passed ELSE passed + n
  /\ UNCHANGED <<calls, responses, mode>>

(* The rest of Read: n bytes arrived.                                      *)
Arrive(b, n) ==
  /\ reserved[b] > 0 /\ n <= reserved[b]
  /\ used' = used - (reserved[b] - n)
  /\ reserved' = [reserved EXCEPT ![b] = 0]
  /\ read' = [read EXCEPT ![b] = @ + n]
  /\ delivered' = delivered + n
  /\ passed' = IF read[b] + n > Max \/ used' > Total THEN passed ELSE passed + n
  /\ UNCHANGED <<calls, responses, mode>>

Next ==
  \/ \E k \in Limiter : Limit(k) \/ Stop(k)
  \/ \E b \in Body : \/ \E n \in Length : RoundTrip(b, n)
                     \/ \E n \in Chunk : Reserve(b, n)
                     \/ \E n \in 0 .. Max + 1 : Arrive(b, n)

Spec == Init /\ [][Next]_vars

-----------------------------------------------------------------------------
(* Type invariant.  A body never returns more than one byte above its own  *)
(* budget, nor reserves more than the transport's.                         *)
TypeOK ==
  /\ limiter \in [Limiter -> BOOLEAN] /\ active \in Nat
  /\ responses \in Nat /\ used \in Int
  /\ mode \in [Body -> {"none", "free", "limited", "refused"}]
  /\ read \in [Body -> 0 .. Max + 1] /\ reserved \in [Body -> 0 .. Total + 1]
  /\ delivered \in Nat /\ passed \in Nat

(* What the bodies have returned and what they may still return is at most *)
(* one byte above the budget, however their reads interleave (Read         *)
(* reserves before it waits for the network).                              *)
WithinBudget == used <= Total + 1 /\ delivered <= Total + 1

(* What the callers are given without an error stays in the budget: "so    *)
(* concurrent responses cannot collectively exceed the aggregate budget".  *)
PassedBudget == passed <= Total

(* At most maxMetadataResponses bodies are ever admitted under a limit,    *)
(* however calls of Limit nest and overlap (RoundTrip).                    *)
ResponsesBounded == Cardinality({b \in Body : mode[b] = "limited"}) <= MaxResponses

-----------------------------------------------------------------------------
(* The inductive invariant: used is what was returned and the reservations *)
(* of the reads under way, counted as the pairs of a body and a byte.      *)

Bytes(f) == {x \in Body \X (1 .. Total + 1) : x[2] <= f[x[1]]}
Outstanding == Bytes(reserved)
Limited == {b \in Body : mode[b] = "limited"}
Active == {k \in Limiter : limiter[k]}

BudgetInv ==
  /\ TypeOK
  /\ active = Cardinality(Active)
  /\ used <= Total + 1
  /\ used = delivered + Cardinality(Outstanding)
  /\ passed <= delivered /\ passed <= Total
  /\ \A b \in Body : read[b] + reserved[b] <= Max + 1
  /\ Cardinality(Limited) <= responses /\ Cardinality(Limited) <= MaxResponses
=============================================================================
