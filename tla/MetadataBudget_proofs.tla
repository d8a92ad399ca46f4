------------------------ MODULE MetadataBudget_proofs ------------------------
(***************************************************************************)
(* The budget of MetadataBudget holds for any number of responses and any  *)
(* limits.  The argument: used is exactly what has been returned and what  *)
(* the reads under way have reserved (BudgetInv), so a read that finds     *)
(* used within the budget after the network knows that nothing the others  *)
(* returned meanwhile was left out.                                        *)
(***************************************************************************)
EXTENDS MetadataBudget, FiniteSetTheorems, TLAPS

(* The bytes reserved by finitely many bodies are finitely many.           *)
LEMMA BytesFinite ==
  ASSUME NEW f
  PROVE  IsFiniteSet(Bytes(f)) /\ Cardinality(Bytes(f)) \in Nat
<1>1. IsFiniteSet(Body) /\ IsFiniteSet(1 .. Total + 1)
  BY BudgetAssumption, FS_Interval DEF BudgetAssumption
<1>2. IsFiniteSet(Body \X (1 .. Total + 1))
  BY <1>1, FS_Product
<1>3. Bytes(f) \in SUBSET (Body \X (1 .. Total + 1))
  BY DEF Bytes
<1> QED
  BY <1>2, <1>3, FS_Subset, FS_CardinalityType

(* A body that had none and reserves a adds a to the bytes reserved.       *)
LEMMA BytesAdded ==
  ASSUME NEW f \in [Body -> 0 .. Total + 1], NEW b \in Body, f[b] = 0,
         NEW a \in 0 .. Total + 1
  PROVE  Cardinality(Bytes([f EXCEPT ![b] = a])) = Cardinality(Bytes(f)) + a
<1> DEFINE P == {b} \X (1 .. a)
           g == [f EXCEPT ![b] = a]
<1>1. IsFiniteSet(P) /\ Cardinality(P) = a
  <2>1. IsFiniteSet({b}) /\ Cardinality({b}) = 1
    BY FS_Singleton
  <2>2. IsFiniteSet(1 .. a) /\ Cardinality(1 .. a) = a
    <3>1. a \in Int /\ a >= 0
      BY BudgetAssumption DEF BudgetAssumption
    <3>2. /\ IsFiniteSet(1 .. a)
          /\ Cardinality(1 .. a) = IF 1 > a THEN 0 ELSE a - 1 + 1
      BY <3>1, FS_Interval
    <3> QED
      BY <3>1, <3>2
  <2>3. IsFiniteSet(P) /\ Cardinality(P) = Cardinality({b}) * Cardinality(1 .. a)
    BY <2>1, <2>2, FS_Product
  <2>4. Cardinality(P) = 1 * a
    BY <2>1, <2>2, <2>3
  <2> QED
    BY <2>3, <2>4
<1>2. Bytes(g) = Bytes(f) \cup P
  BY BudgetAssumption DEF Bytes, BudgetAssumption
<1>3. Bytes(f) \cap P = {}
  BY BudgetAssumption DEF Bytes, BudgetAssumption
<1>4. Cardinality(Bytes(f) \cup P) = Cardinality(Bytes(f)) + a - Cardinality(Bytes(f) \cap P)
  BY <1>1, BytesFinite, FS_Union
<1>5. Cardinality(Bytes(f)) \in Nat /\ Cardinality({}) = 0
  BY BytesFinite, FS_EmptySet
<1> HIDE DEF P, g
<1>6. Cardinality(Bytes(g)) = Cardinality(Bytes(f)) + a - 0
  BY <1>2, <1>3, <1>4, <1>5
<1> QED
  BY <1>5, <1>6, BudgetAssumption DEF g, BudgetAssumption

(* The bytes of a body are among those reserved.                           *)
LEMMA BytesRemoved ==
  ASSUME NEW f \in [Body -> 0 .. Total + 1], NEW b \in Body
  PROVE  Cardinality(Bytes([f EXCEPT ![b] = 0])) = Cardinality(Bytes(f)) - f[b]
<1> DEFINE g == [f EXCEPT ![b] = 0]
<1>1. g \in [Body -> 0 .. Total + 1] /\ g[b] = 0 /\ f[b] \in 0 .. Total + 1
  BY BudgetAssumption DEF BudgetAssumption
<1>2. f = [g EXCEPT ![b] = f[b]]
  OBVIOUS
<1>3. Cardinality(Bytes(g)) \in Nat /\ f[b] \in Int
  BY <1>1, BytesFinite, BudgetAssumption DEF BudgetAssumption
<1> HIDE DEF g
<1>4. Cardinality(Bytes([g EXCEPT ![b] = f[b]])) = Cardinality(Bytes(g)) + f[b]
  BY <1>1, BytesAdded
<1>5. Cardinality(Bytes(f)) = Cardinality(Bytes(g)) + f[b]
  BY <1>2, <1>4
<1>6. Cardinality(Bytes(g)) = Cardinality(Bytes(f)) - f[b]
  BY <1>3, <1>5
<1> QED
  BY <1>6 DEF g

(* Before the first response nothing is reserved and none is admitted.     *)
LEMMA InitBudget == Init => BudgetInv
<1> SUFFICES ASSUME Init PROVE BudgetInv
  OBVIOUS
<1> USE BudgetAssumption DEF BudgetAssumption
<1>1. TypeOK
  BY DEF Init, TypeOK
<1>2. Outstanding = {} /\ Limited = {} /\ Active = {}
  BY DEF Init, Outstanding, Bytes, Limited, Active
<1>3. Cardinality(Outstanding) = 0 /\ Cardinality(Limited) = 0 /\ Cardinality(Active) = 0
  BY <1>2, FS_EmptySet
<1> QED
  BY <1>1, <1>3 DEF Init, BudgetInv

(* Calls of Limit and of what it returned touch no count but their own:    *)
(* the number of active calls never falls below zero.                      *)
LEMMA ActiveCounts ==
  ASSUME BudgetInv, NEW k \in Limiter, Limit(k) \/ Stop(k)
  PROVE  BudgetInv'
<1> USE BudgetAssumption DEF BudgetAssumption
<1>1. IsFiniteSet(Active) /\ Cardinality(Active) \in Nat
  <2>1. Active \in SUBSET Limiter
    BY DEF Active
  <2> QED
    BY <2>1, FS_Subset, FS_CardinalityType
<1>2. active' = Cardinality(Active')
  <2>1. CASE Limit(k)
    <3>1. Active' = Active \cup {k} /\ k \notin Active
      BY <2>1 DEF Limit, Active, BudgetInv, TypeOK
    <3> QED
      BY <1>1, <2>1, <3>1, FS_AddElement DEF Limit, BudgetInv
  <2>2. CASE Stop(k)
    <3>1. Active' = Active \ {k} /\ k \in Active
      BY <2>2 DEF Stop, Active, BudgetInv, TypeOK
    <3> QED
      BY <1>1, <2>2, <3>1, FS_RemoveElement DEF Stop, BudgetInv
  <2> QED
    BY <2>1, <2>2
<1>3. active' \in Nat
  <2>1. Active' \in SUBSET Limiter
    BY DEF Active
  <2> QED
    BY <1>2, <2>1, FS_Subset, FS_CardinalityType
<1>4. UNCHANGED <<responses, used, mode, read, reserved, delivered, passed>>
  BY DEF Limit, Stop
<1>5. TypeOK'
  <2>1. limiter' \in [Limiter -> BOOLEAN]
    BY DEF Limit, Stop, BudgetInv, TypeOK
  <2> QED
    BY <1>3, <1>4, <2>1 DEF BudgetInv, TypeOK
<1> QED
  BY <1>2, <1>4, <1>5 DEF BudgetInv, Outstanding, Bytes, Limited

(* A response is counted before it is admitted (RoundTrip).                *)
LEMMA RoundTripBudget ==
  ASSUME BudgetInv, NEW b \in Body, NEW n \in Length, RoundTrip(b, n)
  PROVE  BudgetInv'
<1> USE BudgetAssumption DEF BudgetAssumption
<1>1. TypeOK'
  BY DEF BudgetInv, TypeOK, RoundTrip, calls
<1>2. IsFiniteSet(Limited) /\ Cardinality(Limited) \in Nat
  <2>1. Limited \in SUBSET Body
    BY DEF Limited
  <2> QED
    BY <2>1, FS_Subset, FS_CardinalityType
<1>3. CASE mode'[b] = "limited"
  <2>1. Limited' = Limited \cup {b} /\ b \notin Limited
    BY <1>3 DEF BudgetInv, TypeOK, RoundTrip, Limited
  <2>2. Cardinality(Limited') = Cardinality(Limited) + 1
    BY <1>2, <2>1, FS_AddElement
  <2>3. responses' = responses + 1 /\ ~Refused(n)
    BY <1>3 DEF BudgetInv, TypeOK, RoundTrip
  <2>4. responses + 1 <= MaxResponses
    BY <2>3 DEF Refused, BudgetInv, TypeOK
  <2>5. Cardinality(Limited') <= responses' /\ Cardinality(Limited') <= MaxResponses
    BY <1>2, <2>2, <2>3, <2>4 DEF BudgetInv, TypeOK
  <2> QED
    BY <1>1, <2>5 DEF BudgetInv, RoundTrip, calls, Outstanding, Bytes, Active
<1>4. CASE mode'[b] # "limited"
  <2>1. Limited' = Limited
    BY <1>4 DEF BudgetInv, TypeOK, RoundTrip, Limited
  <2>2. responses' >= responses
    BY DEF BudgetInv, TypeOK, RoundTrip
  <2>3. Cardinality(Limited') <= responses' /\ Cardinality(Limited') <= MaxResponses
    BY <1>2, <2>1, <2>2, <1>1 DEF BudgetInv, TypeOK
  <2> QED
    BY <1>1, <2>3 DEF BudgetInv, RoundTrip, calls, Outstanding, Bytes, Active
<1> QED
  BY <1>3, <1>4

(* A reservation stays within both budgets and one byte (Read).            *)
LEMMA ReserveBudget ==
  ASSUME BudgetInv, NEW b \in Body, NEW n \in Chunk, Reserve(b, n)
  PROVE  BudgetInv'
<1> USE BudgetAssumption DEF BudgetAssumption
<1> DEFINE a == Allowed(b, n)
<1>1. /\ a \in 1 .. Total + 1 - used /\ a <= Max + 1 - read[b]
      /\ used \in Nat /\ a \in 0 .. Total + 1
  <2>1. Cardinality(Outstanding) \in Nat
    BY BytesFinite DEF Outstanding
  <2>2. used \in Nat /\ n \in Nat \ {0} /\ read[b] \in Nat
    BY <2>1 DEF BudgetInv, TypeOK
  <2> QED
    BY <2>2 DEF Allowed, Least, Reserve
<1>2. used' = used + a /\ reserved' = [reserved EXCEPT ![b] = a] /\ reserved[b] = 0
  BY DEF Reserve
<1> HIDE DEF a
<1>3. TypeOK'
  BY <1>1, <1>2 DEF BudgetInv, TypeOK, Reserve, calls
<1>4. Cardinality(Outstanding') = Cardinality(Outstanding) + a
  BY <1>1, <1>2, BytesAdded DEF Outstanding, BudgetInv, TypeOK, Bytes
<1>5. used' <= Total + 1 /\ used' = delivered' + Cardinality(Outstanding')
  <2>1. Cardinality(Outstanding) \in Nat
    BY BytesFinite DEF Outstanding
  <2> QED
    BY <1>1, <1>2, <1>4, <2>1 DEF BudgetInv, TypeOK, Reserve
<1>6. ASSUME NEW c \in Body PROVE read'[c] + reserved'[c] <= Max + 1
  BY <1>1, <1>2 DEF BudgetInv, TypeOK, Reserve
<1>7. Limited' = Limited /\ Active' = Active
  BY DEF Reserve, Limited, Active, calls
<1> QED
  BY <1>3, <1>5, <1>6, <1>7 DEF BudgetInv, Reserve, calls

(* What a read returns was reserved, and the rest is given back (Read).    *)
LEMMA ArriveBudget ==
  ASSUME BudgetInv, NEW b \in Body, NEW n \in 0 .. Max + 1, Arrive(b, n)
  PROVE  BudgetInv'
<1> USE BudgetAssumption DEF BudgetAssumption
<1>1. n \in Nat /\ reserved[b] \in Nat /\ n <= reserved[b] /\ reserved[b] \in 0 .. Total + 1
  BY DEF BudgetInv, TypeOK, Arrive
<1>2. TypeOK'
  BY <1>1 DEF BudgetInv, TypeOK, Arrive, calls
<1>3. Cardinality(Outstanding') = Cardinality(Outstanding) - reserved[b]
  BY BytesRemoved DEF Outstanding, BudgetInv, TypeOK, Arrive, Bytes
<1>4. Cardinality(Outstanding) \in Nat /\ Cardinality(Outstanding') \in Nat
  BY BytesFinite DEF Outstanding
<1>5. used' <= Total + 1 /\ used' = delivered' + Cardinality(Outstanding')
  BY <1>1, <1>3, <1>4 DEF BudgetInv, TypeOK, Arrive
<1>6. passed' <= delivered' /\ passed' <= Total
  BY <1>1, <1>4, <1>5, <1>2 DEF BudgetInv, TypeOK, Arrive
<1>7. ASSUME NEW c \in Body PROVE read'[c] + reserved'[c] <= Max + 1
  BY <1>1 DEF BudgetInv, TypeOK, Arrive
<1>8. Limited' = Limited /\ Active' = Active
  BY DEF Arrive, Limited, Active, calls
<1> QED
  BY <1>2, <1>5, <1>6, <1>7, <1>8 DEF BudgetInv, Arrive, calls

(* The accounting of used, the bounds per response and the bound on their  *)
(* number hold in every state, for any number of concurrent reads.         *)
THEOREM Accounting == Spec => []BudgetInv
<1>1. BudgetInv /\ [Next]_vars => BudgetInv'
  <2> SUFFICES ASSUME BudgetInv, [Next]_vars PROVE BudgetInv'
    OBVIOUS
  <2>1. CASE UNCHANGED vars
    BY <2>1 DEF vars, calls, BudgetInv, TypeOK, Outstanding, Bytes, Limited, Active
  <2>2. CASE Next
    BY <2>2, ActiveCounts, RoundTripBudget, ReserveBudget, ArriveBudget DEF Next
  <2> QED
    BY <2>1, <2>2
<1> QED
  BY <1>1, InitBudget, PTL DEF Spec

(* used never exceeds the budget by more than the byte that shows the      *)
(* excess, and neither does what was returned.                             *)
THEOREM Bounded == Spec => []WithinBudget
<1>1. BudgetInv => WithinBudget
  BY BytesFinite, BudgetAssumption DEF BudgetInv, TypeOK, WithinBudget, Outstanding, BudgetAssumption
<1> QED
  BY <1>1, Accounting, PTL

(* The bytes returned without an error stay in the aggregate budget.       *)
THEOREM Passed == Spec => []PassedBudget
<1>1. BudgetInv => PassedBudget
  BY DEF BudgetInv, PassedBudget
<1> QED
  BY <1>1, Accounting, PTL

(* No more than MaxResponses bodies are admitted under a limit.            *)
THEOREM Admitted == Spec => []ResponsesBounded
<1>1. BudgetInv => ResponsesBounded
  BY DEF BudgetInv, ResponsesBounded, Limited
<1> QED
  BY <1>1, Accounting, PTL
=============================================================================
