------------------------- MODULE Lifecycle_proofs ---------------------------
(***************************************************************************)
(* The theorems about Lifecycle.  Invariance combines the lemmas of all    *)
(* actions; the exclusive use of volumes and the memory budget follow from *)
(* it with the checks Start makes under the allocations lock.              *)
(* ViewInv then gives exclusive allocations, and that Lifecycle implements *)
(* SandboxView.                                                            *)
(***************************************************************************)
EXTENDS LifecycleCreate_proofs, LifecycleEnd_proofs, LifecycleRows_proofs, FiniteSetTheorems

-----------------------------------------------------------------------------
(* The invariant. *)

(* The initial state satisfies IInv. *)
LEMMA InitInv == Init => IInv
  <1> SUFFICES ASSUME Init PROVE IInv
    OBVIOUS
  <1>1. StoreType
    BY UnbornType, Constants DEF Init, StoreType
  <1>2. HostType
    BY Bounds DEF Init, HostType
  <1>3. DaemonType
    BY DEF Init, DaemonType
  <1>4. GoroutineType
    <2>1. 0 \in 0 .. MaxFailures - 1 /\ "nil" \in Exit /\ "idle" \in Label
      BY Bounds, Constants DEF Label
    <2> QED BY <2>1, UnbornType DEF Init, GoroutineType
  <1>5. \A p \in Process : pc[p] = "idle" /\ released[p] = FALSE
    BY DEF Init
  <1>6. \A p \in Process : LocalsOK(p) /\ Role(p) /\ Holds(p) /\ Cleared(p)
    BY Zenon, <1>5 DEF LocalsOK, Role, Holds, Cleared, Critical, BootLabel, Init
  <1>7. \A s \in Sandbox : ~Claims(s)
    <2>1. \A s \in Sandbox : ~Physical(s)
      BY DEF Init, Physical, HasVMM
    <2> QED BY <1>5, <2>1, Processes DEF Claims, Starting
  <1> QED BY <1>1, <1>2, <1>3, <1>4, <1>6, <1>7
          DEF IInv, TypeOK, LocalsInv, RoleInv, LockInv, ClaimInv, Init

(* A stuttering step keeps IInv. *)
LEMMA StutterInv == ASSUME IInv, UNCHANGED vars PROVE Kept
  <1>1. HostType /\ UNCHANGED host /\ UNCHANGED <<durable, memory>>
    BY DEF IInv, TypeOK, vars
  <1> QED BY <1>1, OutsideFrame, HostTypeFrame, HostFrame

(* Every step keeps IInv and makes no VMM claim the reservation does not
   cover. *)
LEMMA NextInv ==
  ASSUME IInv, Next
  PROVE  Kept \/ \E w \in Worker : IInv' /\ (Checked(w) \/ Admitted(w))
  <1>1. ASSUME NEW w \in Worker, NEW s \in Sandbox, NewRequest(w, s) PROVE Kept
    BY <1>1, CreateLockStep, StartGetStep, StopGetStep, RemoveGetStep DEF NewRequest
  <1>2. ASSUME NEW w \in Worker, WorkerStep(w)
        PROVE  Kept \/ (IInv' /\ (Checked(w) \/ Admitted(w)))
    <2>1. CASE CreateStep(w)
      BY <2>1, CreateListStep, CreateInsertStep, CreateDoneStep, CreateFailStep DEF CreateStep
    <2>2. CASE StartStep(w)
      BY <2>2, StartLockStep, StartAllocStep, StartAdmitStep, StartNetworkStep, StartVMMStep,
         StartPIDStep, StartReadyStep, StartGuestStep, StartRunningStep, StartFailKillStep,
         StartFailCleanStep, StartFailUpdateStep DEF StartStep
    <2>3. CASE StopStep(w)
      BY <2>3, StopMarkStep, StopCallStep, StopWaitStep DEF StopStep
    <2>4. CASE RemoveStep(w)
      BY <2>4, RemoveLockStep, RemoveKillStep, RemoveCleanStep, RemoveMarkStep,
         RemoveDeleteStep, RemoveErrorStep DEF RemoveStep
    <2> QED BY <1>2, <2>1, <2>2, <2>3, <2>4 DEF WorkerStep
  <1>3. ASSUME NEW p \in Process, FinishStep(p) PROVE Kept
    BY <1>3, FinishLockStep, FinishKillStep, FinishCleanStep, FinishLostStep,
       FinishUpdateStep, FinishSaveStep, FinishDeleteStep DEF FinishStep
  <1>4. ASSUME NEW m \in Monitor, MonitorStep(m) PROVE Kept
    BY <1>4, MonitorGetStep, MonitorCallStep DEF MonitorStep
  <1>5. CASE RecoverStep
    BY <1>5, RecoverScanStep, RecoverKillStep, RecoverCleanStep, RecoverUpdateStep,
       RecoverDoneStep DEF RecoverStep
  <1>6. CASE Boot \/ Crash \/ HostReboot
    BY <1>6, BootStep, CrashStep, HostRebootStep
  <1>7. ASSUME NEW s \in Sandbox, NEW g \in Gen, Environment(s, g) PROVE Kept
    BY <1>7, EnvironmentStep
  <1> QED BY <1>1, <1>2, <1>3, <1>4, <1>5, <1>6, <1>7 DEF Next

\* The inductive invariant holds in every behaviour.
THEOREM Invariance == Spec => []IInv
  <1>1. IInv /\ [Next]_vars => IInv'
    BY NextInv, StutterInv DEF Kept
  <1> QED BY <1>1, InitInv, PTL DEF Spec

\* Every variable of the daemon, the store and the host keeps its type.
THEOREM TypeCorrect == Spec => []TypeOK
  <1>1. IInv => TypeOK
    BY DEF IInv
  <1> QED BY <1>1, Invariance, PTL

\* No record gives up its volumes and its memory while a VMM, a jail or a network
\* of the sandbox is left: for every number of sandboxes, workers and starts, and
\* whatever crashes, reboots and failed clean-ups happen in between.
THEOREM Reserved == Spec => []ResourcesReserved
  <1>1. IInv => ResourcesReserved
    BY DEF IInv, ClaimInv, Claims, Physical, ResourcesReserved
  <1> QED BY <1>1, Invariance, PTL

-----------------------------------------------------------------------------
(* Admission: volumes and memory. *)

\* Every step keeps the claims, checks a Start or admits the one checked.
LEMMA StepClaims ==
  ASSUME IInv, [Next]_vars
  PROVE  NoNewClaim \/ \E w \in Worker : Checked(w) \/ Admitted(w)
  BY NextInv, StutterInv DEF Kept

\* Claims are reserved, so the check of a Start sees all of them.
LEMMA ClaimsReserved == ASSUME IInv PROVE \A s \in Sandbox : Claims(s) => s \in Reserving
  BY DEF IInv, ClaimInv, Reserving

(* Every step keeps volumes exclusive among reserving sandboxes. *)
LEMMA VolumeStep == ASSUME IInv, VolumeInv, [Next]_vars PROVE VolumeInv'
  <1>1. CASE NoNewClaim
    BY Zenon, <1>1 DEF NoNewClaim, VolumeInv
  <1>2. ASSUME NEW w \in Worker, Checked(w) PROVE VolumeInv'
    <2>1. \A t \in Sandbox \ {at[w]} :
            Claims(t) => VolumesOf[at[w]] \cap VolumesOf[t] = {}
      BY <1>2, ClaimsReserved DEF Checked
    <2> QED BY Zenon, <1>2, <2>1 DEF Checked, VolumeInv
  <1>3. ASSUME NEW w \in Worker, Admitted(w) PROVE VolumeInv'
    BY <1>3 DEF Admitted, VolumeInv
  <1> QED BY Zenon, <1>1, <1>2, <1>3, StepClaims

\* A named volume is never attached to the VMMs of two sandboxes at a time.
THEOREM VolumesExclusive == Spec => []VolumeExclusive
  <1>1. Init => VolumeInv
    <2> SUFFICES ASSUME Init PROVE VolumeInv
      OBVIOUS
    <2>1. \A s \in Sandbox : ~HasVMM(s) /\ ~jail[s] /\ ~net[s]
      BY DEF Init, HasVMM
    <2>2. \A w \in Worker : pc[w] = "idle"
      BY Processes DEF Init
    <2> QED BY <2>1, <2>2 DEF VolumeInv, Claims, Physical, Starting
  <1>2. IInv /\ VolumeInv /\ [Next]_vars => VolumeInv'
    BY VolumeStep
  <1>3. VolumeInv => VolumeExclusive
    BY DEF VolumeInv, VolumeExclusive, Claims, Physical
  <1> QED BY <1>1, <1>2, <1>3, Invariance, PTL DEF Spec

\* The sandboxes with a claim.
Claiming == {s \in Sandbox : Claims(s)}

(* The sets of sandboxes that are counted are finite. *)
LEMMA Sizes ==
  ASSUME NEW S \in SUBSET Sandbox, NEW T \in SUBSET Sandbox, S \subseteq T
  PROVE  Cardinality(S) \in Nat /\ Cardinality(T) \in Nat /\ Cardinality(S) <= Cardinality(T)
  <1>1. IsFiniteSet(T)
    BY LifecycleAssumption, FS_Subset
  <1>2. IsFiniteSet(S)
    BY <1>1, FS_Subset
  <1> QED BY <1>1, <1>2, FS_Subset, FS_CardinalityType

(* Admitting one more sandbox raises the count by at most one. *)
LEMMA OneMore ==
  ASSUME NEW S \in SUBSET Sandbox, NEW s \in Sandbox
  PROVE  Cardinality(S \cup {s}) <= Cardinality(S) + 1
  <1>1. IsFiniteSet(S)
    BY LifecycleAssumption, FS_Subset
  <1>2. Cardinality(S) \in Nat
    BY <1>1, FS_CardinalityType
  <1>3. Cardinality(S \cup {s}) = IF s \in S THEN Cardinality(S) ELSE Cardinality(S) + 1
    BY <1>1, FS_AddElement
  <1> QED BY <1>2, <1>3

\* The bound of MemoryInv carries over to fewer claims.
LEMMA MemoryStep == ASSUME IInv, MemoryInv, [Next]_vars PROVE MemoryInv'
  <1>0. Budget \in Nat /\ \A w \in Worker : pc[w] = "s_admit" => at[w] \in Sandbox
    BY LifecycleAssumption, Facts, Processes DEF LocalsOK
  <1>1. /\ Cardinality(Claiming) <= Budget
        /\ \A w \in Worker : pc[w] = "s_admit" => Cardinality(Claiming \cup {at[w]}) <= Budget
        /\ Claiming \in SUBSET Sandbox /\ Claiming' \in SUBSET Sandbox
    BY DEF MemoryInv, Claiming
  <1>2. (/\ Cardinality(Claiming') <= Budget
         /\ \A w \in Worker : pc'[w] = "s_admit" => Cardinality(Claiming' \cup {at'[w]}) <= Budget)
        => MemoryInv'
    BY DEF MemoryInv, Claiming
  <1>3. CASE NoNewClaim
    <2>1. Claiming' \subseteq Claiming
      BY <1>3 DEF NoNewClaim, Claiming
    <2>2. Cardinality(Claiming') <= Budget
      BY <1>0, <1>1, <2>1, Sizes
    <2>3. ASSUME NEW w \in Worker, pc'[w] = "s_admit"
          PROVE  Cardinality(Claiming' \cup {at'[w]}) <= Budget
      <3>1. pc[w] = "s_admit" /\ at'[w] = at[w] /\ at[w] \in Sandbox
        BY <1>0, <1>3, <2>3 DEF NoNewClaim
      <3>2. /\ Claiming' \cup {at[w]} \subseteq Claiming \cup {at[w]}
            /\ Claiming' \cup {at[w]} \in SUBSET Sandbox
            /\ Claiming \cup {at[w]} \in SUBSET Sandbox
        BY <1>1, <2>1, <3>1
      <3>3. Cardinality(Claiming' \cup {at[w]}) \in Nat
            /\ Cardinality(Claiming \cup {at[w]}) \in Nat
            /\ Cardinality(Claiming' \cup {at[w]}) <= Cardinality(Claiming \cup {at[w]})
        BY <3>2, Sizes
      <3> QED BY <1>0, <1>1, <3>1, <3>3
    <2> QED BY <1>2, <2>2, <2>3
  <1>4. ASSUME NEW w \in Worker, Checked(w) PROVE MemoryInv'
    <2>1. Claiming' \subseteq Claiming /\ Claiming \subseteq Reserving /\ Reserving \in SUBSET Sandbox
      BY Zenon, <1>4, ClaimsReserved DEF Checked, Claiming, Reserving
    <2>2. at[w] \in Sandbox /\ at'[w] = at[w] /\ Cardinality(Reserving) + 1 <= Budget
      BY <1>4 DEF Checked
    <2>3. Cardinality(Claiming') <= Budget
      BY <1>0, <1>1, <2>1, Sizes
    <2>4. Cardinality(Claiming' \cup {at[w]}) <= Budget
      <3>1. Cardinality(Reserving \cup {at[w]}) <= Cardinality(Reserving) + 1
        BY <2>1, <2>2, OneMore
      <3>2. Cardinality(Reserving) \in Nat
        BY <2>1, Sizes
      <3>3. /\ Claiming' \cup {at[w]} \subseteq Reserving \cup {at[w]}
            /\ Claiming' \cup {at[w]} \in SUBSET Sandbox
            /\ Reserving \cup {at[w]} \in SUBSET Sandbox
        BY <1>1, <2>1, <2>2
      <3>4. /\ Cardinality(Claiming' \cup {at[w]}) \in Nat
            /\ Cardinality(Reserving \cup {at[w]}) \in Nat
            /\ Cardinality(Claiming' \cup {at[w]}) <= Cardinality(Reserving \cup {at[w]})
        BY <3>3, Sizes
      <3> QED BY <1>0, <2>2, <3>1, <3>2, <3>4
    <2>5. ASSUME NEW v \in Worker, v # w, pc'[v] = "s_admit"
          PROVE  Cardinality(Claiming' \cup {at'[v]}) <= Budget
      <3>1. pc[v] = "s_admit" /\ at'[v] = at[v] /\ at[v] \in Sandbox
        BY <1>0, <1>4, <2>5 DEF Checked
      <3>2. /\ Claiming' \cup {at[v]} \subseteq Claiming \cup {at[v]}
            /\ Claiming' \cup {at[v]} \in SUBSET Sandbox
            /\ Claiming \cup {at[v]} \in SUBSET Sandbox
        BY <1>1, <2>1, <3>1
      <3>3. /\ Cardinality(Claiming' \cup {at[v]}) \in Nat
            /\ Cardinality(Claiming \cup {at[v]}) \in Nat
            /\ Cardinality(Claiming' \cup {at[v]}) <= Cardinality(Claiming \cup {at[v]})
        BY <3>2, Sizes
      <3> QED BY <1>0, <1>1, <3>1, <3>3
    <2> QED BY Zenon, <1>2, <2>2, <2>3, <2>4, <2>5
  <1>5. ASSUME NEW w \in Worker, Admitted(w) PROVE MemoryInv'
    <2>1. pc[w] = "s_admit" /\ at[w] \in Sandbox /\ \A v \in Worker : pc'[v] # "s_admit"
      BY <1>5 DEF Admitted
    <2>2. Claiming' \subseteq Claiming \cup {at[w]} /\ Claiming \cup {at[w]} \in SUBSET Sandbox
      BY <1>5, <1>1, <2>1 DEF Admitted, Claiming
    <2>3. /\ Cardinality(Claiming') \in Nat
          /\ Cardinality(Claiming \cup {at[w]}) \in Nat
          /\ Cardinality(Claiming') <= Cardinality(Claiming \cup {at[w]})
      BY <1>1, <2>2, Sizes
    <2>4. Cardinality(Claiming') <= Budget
      BY <1>0, <1>1, <2>1, <2>3
    <2> QED BY <1>2, <2>1, <2>4
  <1> QED BY <1>3, <1>4, <1>5, StepClaims

\* The VMs on the host never exceed what admission let the memory hold.
THEOREM MemoryBounded == Spec => []MemoryBudget
  <1>1. Init => MemoryInv
    <2> SUFFICES ASSUME Init PROVE MemoryInv
      OBVIOUS
    <2>1. \A s \in Sandbox : ~HasVMM(s) /\ ~jail[s] /\ ~net[s]
      BY DEF Init, HasVMM
    <2>2. \A w \in Worker : pc[w] = "idle"
      BY Processes DEF Init
    <2>3. {s \in Sandbox : Claims(s)} = {}
      BY <2>1, <2>2 DEF Claims, Physical, Starting
    <2>4. Cardinality({}) <= Budget
      BY FS_EmptySet, LifecycleAssumption
    <2> QED BY <2>2, <2>3, <2>4 DEF MemoryInv
  <1>2. IInv /\ MemoryInv /\ [Next]_vars => MemoryInv'
    BY MemoryStep
  <1>3. MemoryInv => MemoryBudget
    <2> SUFFICES ASSUME MemoryInv PROVE MemoryBudget
      OBVIOUS
    <2>1. {s \in Sandbox : HasVMM(s)} \subseteq Claiming
      BY DEF Claiming, Claims, Physical
    <2>2. Cardinality({s \in Sandbox : HasVMM(s)}) <= Cardinality(Claiming)
          /\ Cardinality({s \in Sandbox : HasVMM(s)}) \in Nat /\ Cardinality(Claiming) \in Nat
      BY <2>1, Sizes DEF Claiming
    <2>3. Cardinality(Claiming) <= Budget /\ Budget \in Nat
      BY LifecycleAssumption DEF MemoryInv, Claiming
    <2> QED BY <2>2, <2>3 DEF MemoryBudget
  <1> QED BY <1>1, <1>2, <1>3, Invariance, PTL DEF Spec

-----------------------------------------------------------------------------
(* What IInv and ViewInv together give. *)

\* The copies that goroutines write back fit the rows they replace.
THEOREM ViewInvariance == Spec => []ViewInv
  <1>1. IInv /\ ViewInv /\ [Next]_vars => ViewInv'
    BY NextSeen DEF Implemented
  <1> QED BY <1>1, InitSeen, Invariance, PTL DEF Spec

\* Names, host ports and address slots of the sandboxes in the store are distinct,
\* however Creates, failures, removals and crashes interleave.
THEOREM AllocationsExclusive == Spec => []AllocationExclusive
  <1>1. ViewInv => AllocationExclusive
    BY DEF ViewInv
  <1> QED BY <1>1, ViewInvariance, PTL

\* The lifecycle code implements what clients are promised of a sandbox.
THEOREM Implementation == Spec => SandboxesAsSeen
  <1>1. IInv /\ ViewInv /\ [Next]_vars => [V!Next]_Seen
    BY NextSeen DEF Implemented
  <1>2. Init => V!Init
    BY InitSeen
  <1> QED BY <1>1, <1>2, Invariance, ViewInvariance, PTL DEF Spec, V!Spec, SandboxesAsSeen
=============================================================================
