----------------------- MODULE LifecycleStart_proofs ------------------------
(***************************************************************************)
(* The invariants of Lifecycle: Start from the launch of the VMM to the    *)
(* running sandbox, and its failures.  The lemmas PutGuest and PutVMM say  *)
(* what an update deep in the host's state changes, and KillShape and      *)
(* CleanShape what a kill and a cleanup leave behind.                      *)
(***************************************************************************)
EXTENDS LifecycleFrame_proofs

\* A process or a guest of one generation changes its state.
LEMMA PutGuest ==
  ASSUME HostType, NEW s \in Sandbox, NEW g, NEW x \in {"none", "ready", "running", "exited"},
         guest' = [guest EXCEPT ![s][g] = x]
  PROVE  guest' \in [Sandbox -> [Gen -> {"none", "ready", "running", "exited"}]]
  <1> DEFINE V == {"none", "ready", "running", "exited"}
  <1>1. guest \in [Sandbox -> [Gen -> V]] /\ x \in V
    BY DEF HostType
  <1> HIDE DEF V
  <1>2. [guest[s] EXCEPT ![g] = x] \in [Gen -> V]
    BY Zenon, <1>1
  <1>3. guest' = [guest EXCEPT ![s] = [guest[s] EXCEPT ![g] = x]]
    BY <1>1
  <1>4. guest' \in [Sandbox -> [Gen -> V]]
    BY <1>1, <1>2, <1>3
  <1> QED BY <1>4 DEF V

(* Setting the state of one VMM keeps the type of all of them. *)
LEMMA PutVMM ==
  ASSUME HostType, NEW s \in Sandbox, NEW g,
         NEW x \in {"none", "launched", "joined", "live", "dead"},
         vmm' = [vmm EXCEPT ![s][g] = x]
  PROVE  /\ vmm' \in [Sandbox -> [Gen -> {"none", "launched", "joined", "live", "dead"}]]
         /\ \A t \in Sandbox \ {s} : vmm'[t] = vmm[t]
         /\ \A h \in Gen : vmm'[s][h] = IF h = g THEN x ELSE vmm[s][h]
  <1> DEFINE V == {"none", "launched", "joined", "live", "dead"}
  <1>1. vmm \in [Sandbox -> [Gen -> V]] /\ x \in V
    BY DEF HostType
  <1> HIDE DEF V
  <1>2. [vmm[s] EXCEPT ![g] = x] \in [Gen -> V]
    BY Zenon, <1>1
  <1>3. vmm' = [vmm EXCEPT ![s] = [vmm[s] EXCEPT ![g] = x]]
    BY <1>1
  <1>4. vmm' \in [Sandbox -> [Gen -> V]]
    BY <1>1, <1>2, <1>3
  <1>5. \A t \in Sandbox \ {s} : vmm'[t] = vmm[t]
    BY <1>1, <1>3
  <1>6. \A h \in Gen : vmm'[s][h] = IF h = g THEN x ELSE vmm[s][h]
    BY <1>1, <1>3
  <1> QED BY <1>4, <1>5, <1>6 DEF V

\* What the guest reports does not touch the resources of the host.
LEMMA GuestFrame ==
  UNCHANGED <<vmm, jail, net>> => \A s : Physical(s)' = Physical(s)
  BY DEF Physical, HasVMM

(* Start telling the guest to run keeps IInv. *)
LEMMA StartGuestStep ==
  ASSUME IInv, NEW w \in Worker, StartGuest(w)
  PROVE  Kept
  <1> USE Processes
  <1>0. /\ StoreType /\ HostType /\ DaemonType /\ GoroutineType
        /\ LocalsOK(w) /\ Holds(w) /\ Cleared(w)
    BY Facts
  <1>1. PICK l \in {"s_running", "f_kill"} : Goto(w, l)
    BY DEF StartGuest
  <1>2. /\ Others(w) /\ pc[w] = "s_guest" /\ pc'[w] = l /\ at'[w] = at[w]
        /\ released'[w] = released[w]
    BY <1>0, <1>1, GotoOthers DEF StartGuest
  <1>3. TypeOK'
    <2>1. GoroutineType'
      BY <1>0, <1>1, GotoType DEF StartGuest, Label
    <2>2. HostType'
      <3>1. at[w] \in Sandbox
        BY <1>0, <1>2 DEF LocalsOK
      <3>2. guest' \in [Sandbox -> [Gen -> {"none", "ready", "running", "exited"}]]
        <4>1. CASE UNCHANGED guest
          BY <1>0, <4>1 DEF HostType
        <4>2. CASE guest' = [guest EXCEPT ![at[w]][copy[w].gen] = "running"]
          BY Zenon, <1>0, <3>1, <4>2, PutGuest
        <4> QED BY <4>1, <4>2 DEF StartGuest
      <3> QED BY <1>0, <3>2 DEF HostType, StartGuest
    <2> QED BY <1>0, <2>1, <2>2, StoreFrame DEF TypeOK, DaemonType, StartGuest
  <1>4. LocalsOK(w)' /\ Holds(w)' /\ Cleared(w)'
    BY <1>0, <1>2, GuestFrame DEF LocalsOK, Holds, Cleared, Critical, StartGuest
  <1> QED BY <1>2, <1>3, <1>4, WorkerFrame, GuestFrame, RecFrame DEF StartGuest, durable

(* Start's failure update releases only after a confirmed cleanup, and
   keeps IInv. *)
LEMMA StartFailUpdateStep ==
  ASSUME IInv, NEW w \in Worker, StartFailUpdate(w)
  PROVE  Kept
  <1> USE Processes
  <1>0. /\ StoreType /\ HostType /\ DaemonType /\ GoroutineType
        /\ LocalsOK(w) /\ Holds(w) /\ Cleared(w)
    BY Facts
  <1>1. /\ Others(w) /\ pc[w] = "f_update" /\ pc'[w] = "idle" /\ released'[w] = FALSE
        /\ at[w] \in Sandbox /\ lock[at[w]] = w
    BY Zenon, <1>0, ReturnOthers DEF StartFailUpdate, Holds, Critical, LocalsOK
  <1>2. TypeOK'
    <2>1. [rec[at[w]] EXCEPT !.pid = copy[w].pid, !.released = released[w]] \in Record
      BY Zenon, <1>0, <1>1, PutPidReleased, RecordFields DEF StoreType, GoroutineType
    <2>2. StoreType'
      BY <1>0, <2>1, TransitionType, Constants DEF StartFailUpdate, StoreType
    <2>3. lock' \in [Sandbox -> Process \cup {Free}]
      BY <1>0, <1>1, UnlockOwn DEF StartFailUpdate
    <2> QED BY <1>0, <2>2, <2>3, ReturnType, HostTypeFrame DEF TypeOK, DaemonType, StartFailUpdate
  <1>3. LocalsOK(w)' /\ Holds(w)' /\ Cleared(w)'
    BY <1>1 DEF LocalsOK, Holds, Cleared, Critical
  <1>4. \A s \in Sandbox : lock'[s] = lock[s] \/ lock[s] \in {w, Free}
    BY <1>0, <1>1, UnlockOwn DEF StartFailUpdate
  <1>5. Physical(at[w]) => ReservesVMResources(rec'[at[w]])
    <2>1. Physical(at[w]) => ~released[w] /\ ReservesVMResources(rec[at[w]])
      BY <1>0, <1>1 DEF Cleared, IInv, ClaimInv, Claims
    <2> QED BY <1>0, <1>1, <2>1
        DEF StartFailUpdate, UpdateTransition, ReservesVMResources, StoreType, Record
  <1>6. \A t \in Sandbox \ {at[w]} : rec'[t] = rec[t]
    BY <1>0 DEF StartFailUpdate, UpdateTransition, StoreType
  <1>7. \A s \in Sandbox : Claims(s) => ReservesVMResources(rec'[s])
    BY <1>1, <1>5, <1>6, OwnerWrites DEF Critical
  <1> QED BY <1>1, <1>2, <1>3, <1>4, <1>7, WorkerFrame, HostFrame DEF StartFailUpdate

-----------------------------------------------------------------------------
(* Kill and clean-up, shared by Start, finish, Remove and Recover. *)

(* Kill changes nothing but processes, and only ends them. *)
LEMMA KillHost ==
  ASSUME HostType, NEW s \in Sandbox, NEW pid, Kill(s, pid),
         UNCHANGED <<guest, jail, pidfile, net>>
  PROVE  /\ HostType'
         /\ \A t \in Sandbox : Physical(t)' => Physical(t)
  <1>1. HostType'
    BY DEF HostType, Kill
  <1>2. \A t \in Sandbox, g \in Gen : vmm'[t][g] = vmm[t][g] \/ vmm'[t][g] = "dead"
    BY DEF HostType, Kill
  <1> QED BY <1>1, <1>2 DEF Physical, HasVMM

(* VM.Remove deletes jail and pidfile only where the cgroup is empty. *)
LEMMA RemoveHost ==
  ASSUME HostType, NEW s \in Sandbox, NEW pid, NEW ok \in BOOLEAN,
         VMRemove(s, pid, ok), UNCHANGED <<vmm, guest>>, net' \in [Sandbox -> BOOLEAN],
         \A t \in Sandbox : net'[t] => net[t]
  PROVE  /\ HostType'
         /\ \A t \in Sandbox : Physical(t)' => Physical(t)
         /\ ok /\ ~net'[s] => ~Physical(s)'
  <1>1. HostType'
    <2>1. 0 \in 0 .. MaxGen
      BY Bounds
    <2>2. jail' \in [Sandbox -> BOOLEAN] /\ pidfile' \in [Sandbox -> 0 .. MaxGen]
      BY Zenon, <2>1 DEF HostType, VMRemove
    <2> QED BY <2>2 DEF HostType
  <1>2. \A t \in Sandbox : jail'[t] => jail[t]
    BY Zenon DEF HostType, VMRemove
  <1>3. \A t \in Sandbox : Physical(t)' => Physical(t)
    BY <1>2 DEF Physical, HasVMM
  <1>4. ok /\ ~net'[s] => ~Physical(s)'
    BY DEF HostType, VMRemove, Physical, HasVMM, InCgroup
  <1> QED BY <1>1, <1>3, <1>4

(* A cleanup leaves nothing new on the host. *)
LEMMA CleanupHost ==
  ASSUME HostType, NEW s \in Sandbox, NEW pid, NEW ok \in BOOLEAN,
         Cleanup(s, pid, ok), UNCHANGED vmm
  PROVE  /\ HostType'
         /\ \A t \in Sandbox : Physical(t)' => Physical(t)
         /\ ok => ~Physical(s)'
  <1>1. PICK netOK \in BOOLEAN, vmOK \in BOOLEAN :
          NetworkRemove(s, netOK) /\ VMRemove(s, pid, vmOK) /\ ok = (netOK /\ vmOK)
    BY DEF Cleanup
  <1>2. /\ net' \in [Sandbox -> BOOLEAN]
        /\ \A t \in Sandbox : net'[t] => net[t]
        /\ netOK => ~net'[s]
    BY Zenon, <1>1 DEF NetworkRemove, HostType
  <1> QED BY <1>1, <1>2, RemoveHost DEF Cleanup

\* What every Kill step does.
LEMMA KillShape ==
  ASSUME IInv, NEW p \in Process, NEW from \in Critical \cup BootLabel,
         NEW c \in Label, NEW f \in Label, KillStep(p, from, c, f)
  PROVE  /\ TypeOK' /\ Others(p)
         /\ pc[p] = from /\ pc'[p] \in {c, f} /\ at'[p] = at[p]
         /\ released'[p] = released[p] /\ copy'[p] = copy[p]
         /\ at[p] \in Sandbox
         /\ \A s \in Sandbox : Physical(s)' => Physical(s)
         /\ rec' = rec /\ lock' = lock /\ alloc' = alloc /\ daemon' = daemon
         /\ todo' = todo
  <1>0. StoreType /\ HostType /\ DaemonType /\ GoroutineType /\ LocalsOK(p)
    BY Facts
  <1>1. pc[p] = from /\ at[p] \in Sandbox
    BY <1>0 DEF KillStep, LocalsOK, Critical, BootLabel
  <1>2. PICK l \in {c, f} : Goto(p, l)
    BY DEF KillStep
  <1>3. /\ Others(p) /\ pc'[p] = l /\ at'[p] = at[p]
        /\ released'[p] = released[p] /\ copy'[p] = copy[p]
    BY <1>0, <1>2, GotoOthers DEF KillStep
  <1>4. HostType' /\ \A s \in Sandbox : Physical(s)' => Physical(s)
    <2>1. CASE Kill(at[p], copy[p].pid)
      BY <1>0, <1>1, <2>1, KillHost DEF KillStep
    <2>2. CASE UNCHANGED vmm
      BY <1>0, <2>2, HostTypeFrame, HostFrame DEF KillStep, host
    <2> QED BY <2>1, <2>2 DEF KillStep
  <1>5. GoroutineType'
    BY <1>0, <1>2, GotoType DEF KillStep
  <1>6. TypeOK'
    BY <1>0, <1>4, <1>5, StoreFrame DEF TypeOK, DaemonType, KillStep
  <1> QED BY <1>1, <1>3, <1>4, <1>6 DEF KillStep, durable

\* What every clean-up step does.
LEMMA CleanShape ==
  ASSUME IInv, NEW p \in Process, NEW from \in Critical \cup BootLabel,
         NEW l \in Label, CleanStep(p, from, l)
  PROVE  /\ TypeOK' /\ Others(p)
         /\ pc[p] = from /\ pc'[p] = l /\ at'[p] = at[p]
         /\ copy'[p] = copy[p]
         /\ at[p] \in Sandbox
         /\ \A s \in Sandbox : Physical(s)' => Physical(s)
         /\ released'[p] => ~Physical(at[p])'
         /\ rec' = rec /\ lock' = lock /\ alloc' = alloc /\ daemon' = daemon
         /\ todo' = todo
  <1>0. StoreType /\ HostType /\ DaemonType /\ GoroutineType /\ LocalsOK(p)
    BY Facts
  <1>1. pc[p] = from /\ at[p] \in Sandbox
    BY <1>0 DEF CleanStep, LocalsOK, Critical, BootLabel
  <1>2. PICK ok \in BOOLEAN : /\ Cleanup(at[p], copy[p].pid, ok)
                              /\ released' = [released EXCEPT ![p] = ok]
    BY Zenon DEF CleanStep
  <1>3. /\ Others(p) /\ pc'[p] = l /\ at'[p] = at[p]
        /\ released'[p] = ok /\ copy'[p] = copy[p]
    BY Zenon, <1>0, <1>2 DEF CleanStep, GoroutineType, Goto, Others
  <1>4. /\ HostType'
        /\ \A s \in Sandbox : Physical(s)' => Physical(s)
        /\ ok => ~Physical(at[p])'
    BY <1>0, <1>1, <1>2, <1>3, CleanupHost DEF CleanStep
  <1>5. GoroutineType'
    BY <1>0, <1>2 DEF CleanStep, GoroutineType, Goto
  <1>6. TypeOK'
    BY Zenon, <1>0, <1>4, <1>5, StoreFrame DEF TypeOK, DaemonType, CleanStep, StopDNS
  <1> QED BY <1>1, <1>3, <1>4, <1>6 DEF CleanStep, durable

(* The kill of a failed Start keeps IInv. *)
LEMMA StartFailKillStep ==
  ASSUME IInv, NEW w \in Worker, StartFailKill(w)
  PROVE  Kept
  <1> USE Processes
  <1>0. LocalsOK(w) /\ Holds(w) /\ Cleared(w)
    BY Facts
  <1>1. /\ TypeOK' /\ Others(w)
        /\ pc[w] = "f_kill" /\ pc'[w] \in {"f_clean", "f_update"} /\ at'[w] = at[w]
        /\ released'[w] = released[w] /\ at[w] \in Sandbox
        /\ \A s \in Sandbox : Physical(s)' => Physical(s)
        /\ rec' = rec /\ lock' = lock /\ alloc' = alloc /\ UNCHANGED <<daemon, todo>>
    <2>1. KillStep(w, "f_kill", "f_clean", "f_update")
      BY DEF StartFailKill
    <2>2. "f_kill" \in Critical /\ "f_clean" \in Label /\ "f_update" \in Label
      BY DEF Critical, Label
    <2> QED BY <2>1, <2>2, KillShape
  <1>2. LocalsOK(w)' /\ Holds(w)' /\ Cleared(w)'
    BY <1>0, <1>1 DEF LocalsOK, Holds, Cleared, Critical
  <1> QED BY <1>1, <1>2, WorkerFrame, RecFrame

(* The kill of a forced Remove keeps IInv. *)
LEMMA RemoveKillStep ==
  ASSUME IInv, NEW w \in Worker, RemoveKill(w)
  PROVE  Kept
  <1> USE Processes
  <1>0. LocalsOK(w) /\ Holds(w) /\ Cleared(w)
    BY Facts
  <1>1. /\ TypeOK' /\ Others(w)
        /\ pc[w] = "r_kill" /\ pc'[w] \in {"r_clean", "r_error"} /\ at'[w] = at[w]
        /\ released'[w] = released[w] /\ at[w] \in Sandbox
        /\ \A s \in Sandbox : Physical(s)' => Physical(s)
        /\ rec' = rec /\ lock' = lock /\ alloc' = alloc /\ UNCHANGED <<daemon, todo>>
    <2>1. KillStep(w, "r_kill", "r_clean", "r_error")
      BY DEF RemoveKill
    <2>2. "r_kill" \in Critical /\ "r_clean" \in Label /\ "r_error" \in Label
      BY DEF Critical, Label
    <2> QED BY <2>1, <2>2, KillShape
  <1>2. LocalsOK(w)' /\ Holds(w)' /\ Cleared(w)'
    BY <1>0, <1>1 DEF LocalsOK, Holds, Cleared, Critical
  <1> QED BY <1>1, <1>2, WorkerFrame, RecFrame

(* The cleanup of a failed Start keeps IInv. *)
LEMMA StartFailCleanStep ==
  ASSUME IInv, NEW w \in Worker, StartFailClean(w)
  PROVE  Kept
  <1> USE Processes
  <1>0. LocalsOK(w) /\ Holds(w) /\ Cleared(w)
    BY Facts
  <1>1. /\ TypeOK' /\ Others(w)
        /\ pc[w] = "f_clean" /\ pc'[w] = "f_update" /\ at'[w] = at[w] /\ at[w] \in Sandbox
        /\ \A s \in Sandbox : Physical(s)' => Physical(s)
        /\ released'[w] => ~Physical(at[w])'
        /\ rec' = rec /\ lock' = lock /\ alloc' = alloc /\ UNCHANGED <<daemon, todo>>
    BY CleanShape DEF StartFailClean, Critical, Label
  <1>2. LocalsOK(w)' /\ Holds(w)' /\ Cleared(w)'
    BY <1>0, <1>1 DEF LocalsOK, Holds, Cleared, Critical
  <1> QED BY <1>1, <1>2, WorkerFrame, RecFrame

-----------------------------------------------------------------------------
(* Start: admission and the resources it makes. *)

\* A Start past admission makes resources for its own sandbox only.
LEMMA GrowFrame ==
  ASSUME IInv, NEW w \in Worker, pc[w] \in {"s_network", "s_vmm"}, TypeOK', Others(w),
         UNCHANGED <<daemon, todo, rec, lock, alloc>>,
         pc'[w] \in {"s_vmm", "s_pid", "f_kill"}, at'[w] = at[w],
         released'[w] = released[w],
         \A t \in Sandbox \ {at[w]} : Physical(t)' => Physical(t)
  PROVE  Kept
  <1> USE Processes
  <1>0. LocalsOK(w) /\ Holds(w) /\ Cleared(w) /\ GoroutineType
    BY Facts
  <1>1. at[w] \in Sandbox /\ released[w] = FALSE /\ Starting(at[w])
    BY <1>0 DEF LocalsOK, GoroutineType, Starting
  <1>2. LocalsInv'
    BY <1>1, LocalsFrame DEF LocalsOK
  <1>3. RoleInv'
    BY WorkerUp, WorkerRole
  <1>4. LockInv'
    <2>1. Holds(w)' BY <1>0 DEF Holds, Critical
    <2> QED BY <2>1, LockFrame
  <1>5. \A t \in Sandbox : Claims(t)' => Claims(t)
    BY <1>1 DEF Claims, Starting, Others
  <1>6. ASSUME NEW q \in Process PROVE Cleared(q)'
    <2>1. CASE q = w
      BY <1>1, <2>1 DEF Cleared
    <2>2. CASE q # w
      <3>1. pc'[q] = pc[q] /\ at'[q] = at[q] /\ released'[q] = released[q]
        BY <2>2 DEF Others
      <3>2. Cleared(q) /\ LocalsOK(q)
        BY Facts
      <3>3. released[q] \/ pc[q] \in {"r_mark", "r_delete"} => ~Physical(at[q])'
        <4>1. HAVE released[q] \/ pc[q] \in {"r_mark", "r_delete"}
        <4>2. pc[q] \in Critical \cup BootLabel /\ at[q] \in Sandbox
          BY <4>1, <3>2 DEF LocalsOK, Critical, BootLabel
        <4>3. at[q] # at[w]
          BY <2>2, <4>2, OneOwner DEF Critical
        <4>4. at[q] \in Sandbox \ {at[w]}
          BY <4>2, <4>3
        <4>5. ~Physical(at[q])
          BY <4>1, <3>2 DEF Cleared
        <4> QED BY <4>4, <4>5, <3>1
      <3>4. pc[q] \in {"c_list", "c_insert", "c_prepare"} => ~Claims(at[q])'
        BY <3>1, <3>2, <1>5 DEF Cleared, LocalsOK
      <3> QED BY <3>1, <3>3, <3>4 DEF Cleared
    <2> QED BY <2>1, <2>2
  <1>7. ClaimInv'
    BY Zenon, <1>5, <1>6, RecFrame DEF ClaimInv
  <1>8. NoNewClaim
    BY <1>5 DEF NoNewClaim, Others
  <1> QED BY <1>2, <1>3, <1>4, <1>7, <1>8 DEF IInv, Kept

(* Start's network preparation is covered by its reservation, and keeps
   IInv. *)
LEMMA StartNetworkStep ==
  ASSUME IInv, NEW w \in Worker, StartNetwork(w)
  PROVE  Kept
  <1> USE Processes
  <1>0. /\ StoreType /\ HostType /\ DaemonType /\ GoroutineType /\ LocalsOK(w)
    BY Zenon, Facts
  <1>1. PICK l \in {"s_vmm", "f_kill"} : Goto(w, l)
    BY DEF StartNetwork
  <1>2. /\ Others(w) /\ pc[w] = "s_network" /\ pc'[w] = l /\ at'[w] = at[w]
        /\ released'[w] = released[w]
    BY <1>0, <1>1, GotoOthers DEF StartNetwork
  <1>3. /\ net' \in [Sandbox -> BOOLEAN] /\ ports' \in [Sandbox -> BOOLEAN]
        /\ \A t \in Sandbox \ {at[w]} : net'[t] = net[t]
    BY Zenon, <1>0 DEF StartNetwork, HostType, DaemonType
  <1>4. TypeOK'
    <2>1. GoroutineType'
      BY <1>0, <1>1, GotoType DEF StartNetwork, Label
    <2>2. HostType'
      BY <1>0, <1>3 DEF HostType, StartNetwork
    <2> QED BY <1>0, <1>3, <2>1, <2>2, StoreFrame DEF TypeOK, DaemonType, StartNetwork
  <1>5. \A t \in Sandbox \ {at[w]} : Physical(t)' => Physical(t)
    BY <1>3 DEF Physical, HasVMM, StartNetwork
  <1> QED BY Zenon, <1>2, <1>4, <1>5, GrowFrame DEF StartNetwork, durable

(* Start's jailer launch is covered by its reservation, and keeps IInv. *)
LEMMA StartVMMStep ==
  ASSUME IInv, NEW w \in Worker, StartVMM(w)
  PROVE  Kept
  <1> USE Processes
  <1>0. /\ StoreType /\ HostType /\ DaemonType /\ GoroutineType /\ LocalsOK(w)
    BY Facts
  <1>1. pc[w] = "s_vmm" /\ at[w] \in Sandbox
    BY <1>0 DEF StartVMM, LocalsOK
  <1>2. PICK l \in {"s_pid", "f_kill"}, n \in 0 .. MaxGen :
          Goto(w, l) /\ copy' = [copy EXCEPT ![w].pid = n]
    <2>1. copy[w].gen \in 0 .. MaxGen /\ 0 \in 0 .. MaxGen
      BY <1>0, RecordFields, Bounds DEF GoroutineType
    <2> QED BY <2>1 DEF StartVMM
  <1>3. /\ Others(w) /\ pc'[w] = l /\ at'[w] = at[w] /\ released'[w] = released[w]
    BY <1>0, <1>2 DEF StartVMM, GoroutineType, Goto, Others
  <1>4. /\ jail' \in [Sandbox -> BOOLEAN]
        /\ \A t \in Sandbox \ {at[w]} : jail'[t] = jail[t]
    BY Zenon, <1>0 DEF StartVMM, HostType
  <1>5. /\ vmm' \in [Sandbox -> [Gen -> {"none", "launched", "joined", "live", "dead"}]]
        /\ \A t \in Sandbox \ {at[w]} : vmm'[t] = vmm[t]
    <2>1. CASE UNCHANGED vmm
      BY <1>0, <2>1 DEF HostType
    <2>2. CASE vmm' = [vmm EXCEPT ![at[w]][copy[w].gen] = "launched"]
      BY Zenon, <1>0, <1>1, <2>2, PutVMM
    <2> QED BY <2>1, <2>2 DEF StartVMM
  <1>6. TypeOK'
    <2>1. copy' \in [Process -> Record]
      <3>1. [copy[w] EXCEPT !.pid = n] \in Record
        BY <1>0, PutPid DEF GoroutineType
      <3> QED BY <1>0, <1>2, <3>1 DEF GoroutineType
    <2>2. GoroutineType'
      BY <1>0, <1>2, <2>1 DEF StartVMM, GoroutineType, Goto, Label
    <2>3. HostType'
      BY <1>0, <1>4, <1>5 DEF HostType, StartVMM
    <2> QED BY <1>0, <2>2, <2>3, StoreFrame DEF TypeOK, DaemonType, StartVMM
  <1>7. \A t \in Sandbox \ {at[w]} : Physical(t)' => Physical(t)
    BY <1>4, <1>5 DEF Physical, HasVMM, StartVMM
  <1> QED BY <1>1, <1>3, <1>6, <1>7, GrowFrame DEF StartVMM, durable

\* The one new claim is the admitted sandbox's.
Admitted(w) ==
  /\ pc[w] = "s_admit" /\ at[w] \in Sandbox
  /\ \A s \in Sandbox \ {at[w]} : Claims(s)' => Claims(s)
  /\ \A v \in Worker : pc'[v] # "s_admit"

(* Admission stores the reservation before anything is claimed on the host. *)
LEMMA StartAdmitStep ==
  ASSUME IInv, NEW w \in Worker, StartAdmit(w)
  PROVE  Kept \/ (IInv' /\ Admitted(w))
  <1> USE Processes
  <1> DEFINE v == [copy[w] EXCEPT !.gen = @ + 1, !.state = "starting",
                                  !.exit = "nil", !.released = FALSE]
  <1>0. /\ StoreType /\ HostType /\ DaemonType /\ GoroutineType
        /\ LocalsOK(w) /\ Holds(w) /\ Cleared(w)
    BY Facts
  <1>1. /\ pc[w] = "s_admit" /\ at[w] \in Sandbox /\ lock[at[w]] = w /\ alloc = w
        /\ released[w] = FALSE /\ copy[w].gen < MaxGen
    BY <1>0 DEF StartAdmit, LocalsOK, Holds, Critical, GoroutineType
  <1>2. CASE ~Present(at[w])
    <2>1. Unlock(w) /\ Return(w) /\ rec' = rec /\ alloc' = Free
      BY <1>2 DEF StartAdmit, Update
    <2>2. lock' \in [Sandbox -> Process \cup {Free}]
      BY <1>0, <1>1, <2>1, UnlockOwn
    <2>3. TypeOK'
      <3>1. StoreType'
        BY <1>0, <2>1 DEF StoreType, StartAdmit
      <3> QED BY <1>0, <2>1, <2>2, <3>1, ReturnType, HostTypeFrame DEF TypeOK, DaemonType, StartAdmit
    <2>4. Others(w) /\ pc'[w] = "idle" /\ released'[w] = FALSE
      BY Zenon, <1>0, <2>1, ReturnOthers
    <2>5. LocalsOK(w)' /\ Holds(w)' /\ Cleared(w)'
      BY <2>4 DEF LocalsOK, Holds, Cleared, Critical
    <2>6. \A s \in Sandbox : lock'[s] = lock[s] \/ lock[s] \in {w, Free}
      BY <1>0, <1>1, <2>1, UnlockOwn
    <2> QED BY <1>1, <2>1, <2>3, <2>4, <2>5, <2>6, WorkerFrame, HostFrame, RecFrame DEF StartAdmit
  <1>3. CASE Present(at[w])
    <2>1. v \in Record
      <3>1. copy[w] \in Record /\ copy[w].gen \in 0 .. MaxGen
        BY <1>0, RecordFields DEF GoroutineType
      <3>2. copy[w].gen + 1 \in 0 .. MaxGen
        BY <1>1, <3>1, Bounds
      <3>3. \A g \in 0 .. MaxGen : [copy[w] EXCEPT !.gen = g, !.state = "starting",
                                  !.exit = "nil", !.released = FALSE] \in Record
        BY Zenon, <3>1, PutStart, Constants
      <3> QED BY Zenon, <3>2, <3>3
    <2>2. v.state = "starting"
      BY <1>0 DEF GoroutineType, Record
    <2> HIDE DEF v
    <2>3. /\ rec' = [rec EXCEPT ![at[w]] = v] /\ copy' = [copy EXCEPT ![w] = Identity(v)]
          /\ Goto(w, "s_network") /\ UNCHANGED <<lock, at, exit, released, failures>>
          /\ alloc' = Free
      BY <1>3 DEF StartAdmit, Update, v
    <2>4. /\ Others(w) /\ pc'[w] = "s_network" /\ at'[w] = at[w] /\ released'[w] = FALSE
      BY <1>0, <1>1, <2>3 DEF GoroutineType, Goto, Others
    <2>5. TypeOK'
      <3>1. StoreType'
        BY Zenon, <1>0, <2>1, <2>3 DEF StoreType, StartAdmit
      <3>2. copy' \in [Process -> Record]
        BY <1>0, <2>1, <2>3, IdentityType DEF GoroutineType
      <3>3. GoroutineType'
        BY <1>0, <2>3, <3>2 DEF GoroutineType, Goto, Label
      <3> QED BY <1>0, <2>3, <3>1, <3>3, HostTypeFrame DEF TypeOK, DaemonType, StartAdmit
    <2>6. LocalsInv'
      BY <1>1, <2>4, LocalsFrame DEF LocalsOK
    <2>7. RoleInv'
      BY <1>1, <2>4, WorkerUp, WorkerRole DEF StartAdmit
    <2>8. LockInv'
      <3>1. Holds(w)' BY <1>1, <2>3, <2>4 DEF Holds, Critical
      <3> QED BY <1>1, <2>3, <2>4, <3>1, LockFrame
    <2>9. \A s \in Sandbox : Physical(s)' = Physical(s)
      BY HostFrame DEF StartAdmit
    <2>10. \A s \in Sandbox \ {at[w]} : Claims(s)' => Claims(s)
      BY Zenon, <2>4, <2>9 DEF Claims, Starting, Others
    <2>11. \A s \in Sandbox : Claims(s)' => ReservesVMResources(rec[s])'
      <3>1. ReservesVMResources(rec'[at[w]])
        BY <1>0, <1>1, <2>2, <2>3 DEF ReservesVMResources, StoreType
      <3>2. \A s \in Sandbox \ {at[w]} : rec'[s] = rec[s]
        BY <1>0, <2>3 DEF StoreType
      <3> QED BY <2>10, <3>1, <3>2 DEF IInv, ClaimInv
    <2>12. ASSUME NEW q \in Process PROVE Cleared(q)'
      <3>1. CASE q = w
        BY <2>4, <3>1 DEF Cleared
      <3>2. CASE q # w
        <4>1. pc'[q] = pc[q] /\ at'[q] = at[q] /\ released'[q] = released[q]
          BY <2>4, <3>2 DEF Others
        <4>2. Cleared(q) /\ LocalsOK(q) /\ Holds(q)
          BY Facts
        <4>3. pc[q] \notin {"c_list", "c_insert", "c_prepare"}
          BY Zenon, <1>1, <3>2, <4>2 DEF Holds
        <4> QED BY <2>9, <4>1, <4>2, <4>3 DEF Cleared, LocalsOK
      <3> QED BY <3>1, <3>2
    <2>13. Admitted(w)
      <3>1. \A u \in Worker \ {w} : pc[u] # "s_admit"
        BY <1>1, Facts DEF Holds
      <3> QED BY <1>1, <2>4, <2>10, <3>1 DEF Admitted, Others
    <2> QED BY <2>5, <2>6, <2>7, <2>8, <2>11, <2>12, <2>13 DEF IInv, ClaimInv
  <1> QED BY <1>2, <1>3

\* p starts the monitor m, in a step of its own.
LEMMA SpawnFrame ==
  ASSUME IInv, NEW p \in Process, NEW m, p # m, TypeOK',
         \A q \in Process \ {p, m} :
           pc'[q] = pc[q] /\ at'[q] = at[q] /\ copy'[q] = copy[q] /\ released'[q] = released[q],
         m \in Process =>
           /\ m \in Monitor /\ pc'[m] = "m_get" /\ at'[m] = m[1] /\ at'[m] \in Sandbox
           /\ released'[m] = FALSE /\ m[1] \notin todo',
         pc'[boot] \notin FinishLabel \cup BootLabel,
         daemon' = daemon, daemon # "down", todo' \subseteq todo,
         Role(p)', LocalsOK(p)', Holds(p)', Cleared(p)',
         \A s \in Sandbox : lock'[s] = lock[s] \/ lock[s] \in {p, Free},
         alloc' = alloc,
         \A s \in Sandbox : Physical(s)' => Physical(s),
         pc'[p] \notin {"s_admit", "s_network", "s_vmm"},
         \A s \in Sandbox : Claims(s) => ReservesVMResources(rec'[s])
  PROVE  Kept
  <1> USE Processes
  <1>1. ASSUME m \in Process
        PROVE  LocalsOK(m)' /\ Role(m)' /\ Holds(m)' /\ Cleared(m)'
    <2>1. m \notin Worker /\ m # boot
      BY Zenon, <1>1, Kinds
    <2> QED BY <1>1, <2>1 DEF LocalsOK, Role, Holds, Cleared, Critical
  <1>2. \A s : Starting(s)' => Starting(s)
    BY <1>1, Kinds DEF Starting
  <1>3. ASSUME NEW q \in Process, q # p, q # m
        PROVE  LocalsOK(q)' /\ Role(q)' /\ Holds(q)' /\ Cleared(q)'
    <2>1. pc'[q] = pc[q] /\ at'[q] = at[q] /\ copy'[q] = copy[q] /\ released'[q] = released[q]
      BY Zenon, <1>3
    <2>2. LocalsOK(q) /\ Role(q) /\ Holds(q) /\ Cleared(q) /\ q # Free
      BY Facts, LifecycleAssumption
    <2>3. LocalsOK(q)'
      BY Zenon, <2>1, <2>2 DEF LocalsOK
    <2>4. Role(q)'
      BY Zenon, <2>1, <2>2 DEF Role
    <2>5. Holds(q)'
      <3>1. pc[q] \in Critical => at[q] \in Sandbox
        BY Zenon, <2>2 DEF LocalsOK, Critical
      <3> QED BY Zenon, <1>3, <2>1, <2>2, <3>1 DEF Holds
    <2>6. Cleared(q)'
      BY <1>2, <2>1, <2>2 DEF Cleared, Claims, LocalsOK
    <2> QED BY <2>3, <2>4, <2>5, <2>6
  <1>4. \A q \in Process : LocalsOK(q)' /\ Role(q)' /\ Holds(q)' /\ Cleared(q)'
    BY <1>1, <1>3
  <1>5. daemon' = "up" => todo' = {}
    BY Zenon DEF IInv, RoleInv
  <1>6. \A s \in Sandbox : Claims(s)' => ReservesVMResources(rec[s])'
    BY Zenon, <1>2 DEF Claims
  <1>7. NoNewClaim
    BY Zenon, <1>1, <1>2, Kinds DEF NoNewClaim, Claims
  <1> QED BY Zenon, <1>4, <1>5, <1>6, <1>7 DEF IInv, LocalsInv, RoleInv, LockInv, ClaimInv, Kept

(* Start's last update and the launch of its monitor keep IInv. *)
LEMMA StartRunningStep ==
  ASSUME IInv, NEW w \in Worker, StartRunning(w)
  PROVE  Kept
  <1> USE Processes
  <1> DEFINE m == <<at[w], copy[w].gen>>
  <1>0. /\ StoreType /\ HostType /\ DaemonType /\ GoroutineType
        /\ LocalsOK(w) /\ Holds(w) /\ Cleared(w)
    BY Facts
  <1>1. /\ pc[w] = "s_running" /\ at[w] \in Sandbox /\ lock[at[w]] = w
        /\ released[w] = FALSE /\ daemon = "up"
    BY Zenon, <1>0, WorkerUp DEF StartRunning, LocalsOK, Holds, Critical, GoroutineType
  <1>2. StoreType'
    BY <1>0, <1>1, TransitionType, Constants DEF StartRunning, StoreType
  <1>3. \A s \in Sandbox : Claims(s) => ReservesVMResources(rec'[s])
    BY <1>0 DEF StartRunning, UpdateTransition, ReservesVMResources, StoreType, Record,
                IInv, ClaimInv
  <1>4. CASE Goto(w, "f_kill") /\ UNCHANGED <<lock, at, locals>>
    <2>1. /\ Others(w) /\ pc'[w] = "f_kill" /\ at'[w] = at[w] /\ released'[w] = FALSE
      BY <1>0, <1>1, <1>4, GotoOthers
    <2>2. TypeOK'
      <3>1. GoroutineType'
        BY Zenon, <1>0, <1>4, GotoType DEF Label
      <3> QED BY <1>0, <1>2, <1>4, <3>1, HostTypeFrame DEF TypeOK, DaemonType, StartRunning
    <2>3. LocalsOK(w)' /\ Holds(w)' /\ Cleared(w)'
      BY <1>0, <1>1, <1>4, <2>1 DEF LocalsOK, Holds, Cleared, Critical
    <2> QED BY Zenon, <1>1, <1>3, <1>4, <2>1, <2>2, <2>3, WorkerFrame, HostFrame DEF StartRunning
  <1>5. CASE /\ Unlock(w)
             /\ pc' = [pc EXCEPT ![w] = "idle", ![m] = "m_get"]
             /\ at' = [at EXCEPT ![w] = NoSandbox, ![m] = at[w]]
             /\ copy' = [copy EXCEPT ![w] = Unborn, ![m] = copy[w]]
             /\ UNCHANGED <<exit, released, failures>>
    <2>1. m \in Process => m \in Monitor
      <3>1. copy[w].gen \in 0 .. MaxGen
        BY <1>0, RecordFields DEF GoroutineType
      <3> QED BY <1>1, <3>1, Kinds
    <2>2. m[1] = at[w]
      OBVIOUS
    <2> HIDE DEF m
    <2>3. w # m
      BY Zenon, <2>1, Kinds
    <2>4. /\ \A q \in Process \ {w, m} :
               pc'[q] = pc[q] /\ at'[q] = at[q] /\ copy'[q] = copy[q] /\ released'[q] = released[q]
          /\ pc'[w] = "idle" /\ released'[w] = FALSE
          /\ m \in Process => pc'[m] = "m_get" /\ at'[m] = at[w]
      BY <1>0, <1>1, <1>5, <2>3 DEF GoroutineType
    <2>5. m \in Process => released'[m] = FALSE
      <3>1. HAVE m \in Process
      <3>2. LocalsOK(m) /\ Role(m) /\ Holds(m)
        BY <3>1, Facts
      <3>3. released[m] => pc[m] \in Critical
        BY Zenon, <2>1, <3>1, <3>2 DEF LocalsOK, Role, Critical, FinishLabel
      <3>4. pc[m] \notin Critical
        BY <1>1, <2>1, <2>2, <2>3, <3>1, <3>2 DEF Holds, Role, Critical
      <3> QED BY <1>0, <1>5, <3>1, <3>3, <3>4 DEF GoroutineType
    <2>6. /\ lock' \in [Sandbox -> Process \cup {Free}]
          /\ \A s \in Sandbox : lock'[s] = lock[s] \/ lock[s] \in {w, Free}
      BY <1>0, <1>1, <1>5, UnlockOwn
    <2>7. TypeOK'
      <3>1. GoroutineType'
        BY Zenon, <1>0, <1>1, <1>5, UnbornType DEF GoroutineType, Label
      <3> QED BY <1>0, <1>2, <2>6, <3>1, HostTypeFrame DEF TypeOK, DaemonType, StartRunning
    <2>8. Role(w)' /\ LocalsOK(w)' /\ Holds(w)' /\ Cleared(w)'
      BY Zenon, <2>4, Kinds DEF Role, LocalsOK, Holds, Cleared, Critical, BootLabel
    <2>9. todo = {} /\ pc[boot] = "idle"
      BY <1>1, Facts DEF IInv, RoleInv, Role
    <2>10. boot # m /\ boot # w
      BY Zenon, <2>1, Kinds
    <2>11. pc'[boot] \notin FinishLabel \cup BootLabel
      BY <2>4, <2>9, <2>10 DEF FinishLabel, BootLabel
    <2>12. UNCHANGED <<daemon, todo, alloc, host>>
      BY DEF StartRunning
    <2>13. m \in Process =>
             /\ m \in Monitor /\ pc'[m] = "m_get" /\ at'[m] = m[1] /\ at'[m] \in Sandbox
             /\ released'[m] = FALSE /\ m[1] \notin todo'
      BY <1>1, <2>1, <2>2, <2>4, <2>5, <2>9, <2>12
    <2>14. /\ \A s \in Sandbox : Physical(s)' => Physical(s)
           /\ daemon' = daemon /\ daemon # "down" /\ todo' \subseteq todo /\ alloc' = alloc
           /\ pc'[w] \notin {"s_admit", "s_network", "s_vmm"} /\ w \in Process
      BY Zenon, <1>1, <2>4, <2>12, HostFrame
    <2> QED BY Zenon, <1>3, <2>3, <2>4, <2>6, <2>7, <2>8, <2>11, <2>13, <2>14, SpawnFrame
  <1> QED BY <1>4, <1>5 DEF StartRunning

-----------------------------------------------------------------------------
(* Stop. *)
=============================================================================
