------------------------ MODULE LifecycleEnd_proofs -------------------------
(***************************************************************************)
(* The invariants of Lifecycle: Stop, Remove and finish, the ways in which *)
(* a sandbox ends; the monitors, Recover, crashes and the host.            *)
(***************************************************************************)
EXTENDS LifecycleStart_proofs

(* Stop's mark keeps the reservation of the sandbox, hence IInv. *)
LEMMA StopMarkStep ==
  ASSUME IInv, NEW w \in Worker, StopMark(w)
  PROVE  Kept
  <1> USE Processes
  <1>0. /\ StoreType /\ HostType /\ DaemonType /\ GoroutineType
        /\ LocalsOK(w) /\ Holds(w) /\ Cleared(w)
    BY Facts
  <1>1. /\ Others(w) /\ pc[w] = "t_mark" /\ pc'[w] = "t_call" /\ at'[w] = at[w]
        /\ released'[w] = released[w]
    BY <1>0, GotoOthers DEF StopMark
  <1>2. TypeOK'
    <2>1. StoreType'
      BY <1>0, <1>1, TransitionType, Constants DEF StopMark, StoreType, LocalsOK
    <2>2. GoroutineType'
      BY <1>0, GotoType DEF StopMark, Label
    <2> QED BY <1>0, <2>1, <2>2, HostTypeFrame DEF TypeOK, DaemonType, StopMark
  <1>3. LocalsOK(w)' /\ Holds(w)' /\ Cleared(w)'
    BY <1>0, <1>1 DEF LocalsOK, Holds, Cleared, Critical
  <1>4. \A s \in Sandbox : Claims(s) => ReservesVMResources(rec'[s])
    <2> SUFFICES ASSUME NEW s \in Sandbox, Claims(s)
                 PROVE  ReservesVMResources(rec'[s])
      OBVIOUS
    <2>1. ReservesVMResources(rec[s])
      BY Zenon DEF IInv, ClaimInv
    <2>2. rec'[s] = rec[s] \/ rec'[s] = [rec[s] EXCEPT !.state = "stopping"]
      BY Zenon, <1>0 DEF StopMark, UpdateTransition, StoreType
    <2>3. [rec[s] EXCEPT !.state = "stopping"].state = "stopping"
      BY <1>0, RecordFields DEF StoreType
    <2> QED BY Zenon, <2>1, <2>2, <2>3 DEF ReservesVMResources
  <1> QED BY <1>1, <1>2, <1>3, <1>4, WorkerFrame, HostFrame DEF StopMark

(* Stop's call to the guest keeps IInv. *)
LEMMA StopCallStep ==
  ASSUME IInv, NEW w \in Worker, StopCall(w)
  PROVE  Kept
  <1> USE Processes
  <1>0. /\ StoreType /\ HostType /\ DaemonType /\ GoroutineType
        /\ LocalsOK(w) /\ Holds(w) /\ Cleared(w)
    BY Facts
  <1>1. pc[w] = "t_call" /\ at[w] \in Sandbox /\ released[w] = FALSE
    BY Zenon, <1>0 DEF StopCall, LocalsOK, GoroutineType
  <1>2. /\ Others(w) /\ pc'[w] \in {"t_wait", "n_lock"} /\ at'[w] = at[w]
        /\ released'[w] = FALSE
    BY Zenon, <1>0, <1>1 DEF StopCall, Goto, Forget, GoroutineType, Others
  <1>3. guest' \in [Sandbox -> [Gen -> {"none", "ready", "running", "exited"}]]
    <2>1. CASE UNCHANGED guest
      BY <1>0, <2>1 DEF HostType
    <2>2. CASE /\ vmm[at[w]][rec[at[w]].gen] = "live" /\ rec[at[w]].gen # 0
               /\ guest' = [guest EXCEPT ![at[w]][rec[at[w]].gen] =
                                           IF @ = "running" THEN "exited" ELSE @]
      <3> DEFINE g == rec[at[w]].gen
      <3>1. g \in Gen
        BY <1>0, <1>1, <2>2, RecordFields, Bounds DEF StoreType, Gen
      <3>2. guest[at[w]][g] \in {"none", "ready", "running", "exited"}
        BY <1>0, <1>1, <3>1 DEF HostType
      <3> HIDE DEF g
      <3>3. PICK x \in {"none", "ready", "running", "exited"} :
              x = IF guest[at[w]][g] = "running" THEN "exited" ELSE guest[at[w]][g]
        BY <3>2
      <3>4. guest' = [guest EXCEPT ![at[w]][g] = x]
        BY Zenon, <2>2, <3>3 DEF g
      <3> QED BY Zenon, <1>0, <1>1, <3>4, PutGuest
    <2> QED BY <2>1, <2>2 DEF StopCall
  <1>4. TypeOK'
    <2>1. GoroutineType'
      <3>1. CASE Goto(w, "t_wait") /\ Forget(w)
        BY Zenon, <1>0, <3>1, ForgetType DEF StopCall, GoroutineType, Goto, Label
      <3>2. CASE /\ Goto(w, "n_lock") /\ exit' = [exit EXCEPT ![w] = "unknown"]
                 /\ UNCHANGED <<copy, released, failures>>
        BY Zenon, <1>0, <3>2, Constants DEF StopCall, GoroutineType, Goto, Label
      <3> QED BY <3>1, <3>2 DEF StopCall
    <2>2. HostType'
      BY <1>0, <1>3 DEF HostType, StopCall
    <2> QED BY Zenon, <1>0, <2>1, <2>2, StoreFrame DEF TypeOK, DaemonType, StopCall
  <1>5. LocalsOK(w)' /\ Holds(w)' /\ Cleared(w)'
    BY <1>1, <1>2 DEF LocalsOK, Holds, Cleared, Critical
  <1> QED BY <1>1, <1>2, <1>4, <1>5, WorkerFrame, GuestFrame, RecFrame DEF StopCall, durable

(* Stop's poll and its fallback to finish keep IInv. *)
LEMMA StopWaitStep ==
  ASSUME IInv, NEW w \in Worker, StopWait(w)
  PROVE  Kept
  <1> USE Processes
  <1>0. /\ StoreType /\ HostType /\ DaemonType /\ GoroutineType
        /\ LocalsOK(w) /\ Holds(w) /\ Cleared(w)
    BY Facts
  <1>1. Others(w) /\ pc[w] = "t_wait" /\ pc'[w] = "idle" /\ released'[w] = FALSE
    BY Zenon, <1>0, ReturnOthers DEF StopWait
  <1>2. TypeOK'
    BY <1>0, ReturnType, StoreFrame, HostTypeFrame DEF TypeOK, DaemonType, StopWait
  <1>3. LocalsOK(w)' /\ Holds(w)' /\ Cleared(w)'
    BY <1>1 DEF LocalsOK, Holds, Cleared, Critical
  <1> QED BY <1>1, <1>2, <1>3, WorkerFrame, HostFrame, RecFrame DEF StopWait, durable

-----------------------------------------------------------------------------
(* Remove. *)

(* Remove taking the sandbox lock keeps IInv. *)
LEMMA RemoveLockStep ==
  ASSUME IInv, NEW w \in Worker, RemoveLock(w)
  PROVE  Kept
  <1> USE Processes
  <1>0. /\ StoreType /\ HostType /\ DaemonType /\ GoroutineType
        /\ LocalsOK(w) /\ Holds(w) /\ Cleared(w)
    BY Facts
  <1>1. pc[w] = "r_lock" /\ at[w] \in Sandbox /\ lock[at[w]] = Free /\ released[w] = FALSE
    BY Zenon, <1>0 DEF RemoveLock, LocalsOK, GoroutineType
  <1>2. CASE Return(w) /\ UNCHANGED lock
    <2>1. TypeOK'
      BY <1>0, <1>2, ReturnType, StoreFrame, HostTypeFrame DEF TypeOK, DaemonType, RemoveLock
    <2>2. Others(w) /\ pc'[w] = "idle" /\ released'[w] = FALSE
      BY Zenon, <1>0, <1>2, ReturnOthers
    <2>3. LocalsOK(w)' /\ Holds(w)' /\ Cleared(w)'
      BY Zenon, <2>2 DEF LocalsOK, Holds, Cleared, Critical
    <2> QED BY <1>1, <1>2, <2>1, <2>2, <2>3, WorkerFrame, HostFrame, RecFrame DEF RemoveLock, durable
  <1>3. CASE /\ lock' = [lock EXCEPT ![at[w]] = w]
             /\ copy' = [copy EXCEPT ![w] = Identity(rec[at[w]])]
             /\ Goto(w, "r_kill")
             /\ UNCHANGED <<at, exit, released, failures>>
    <2>1. TypeOK'
      <3>1. copy' \in [Process -> Record]
        BY <1>0, <1>1, <1>3, IdentityType DEF GoroutineType, StoreType
      <3>2. GoroutineType'
        BY <1>0, <1>3, <3>1 DEF GoroutineType, Goto, Label
      <3> QED BY Zenon, <1>0, <1>3, <3>2, StoreFrame, HostTypeFrame DEF TypeOK, DaemonType, RemoveLock
    <2>2. /\ Others(w) /\ pc'[w] = "r_kill" /\ at'[w] = at[w] /\ released'[w] = FALSE
      BY Zenon, <1>0, <1>1, <1>3 DEF GoroutineType, Goto, Others
    <2>3. LocalsOK(w)' /\ Holds(w)' /\ Cleared(w)'
      BY <1>0, <1>1, <1>3, <2>2 DEF LocalsOK, Holds, Cleared, Critical, DaemonType
    <2>4. \A s \in Sandbox : lock'[s] = lock[s] \/ lock[s] \in {w, Free}
      BY Zenon, <1>0, <1>1, <1>3 DEF DaemonType
    <2> QED BY <1>1, <2>1, <2>2, <2>3, <2>4, WorkerFrame, HostFrame, RecFrame DEF RemoveLock, durable
  <1> QED BY <1>2, <1>3 DEF RemoveLock

(* Remove's cleanup keeps IInv. *)
LEMMA RemoveCleanStep ==
  ASSUME IInv, NEW w \in Worker, RemoveClean(w)
  PROVE  Kept
  <1> USE Processes
  <1>0. /\ StoreType /\ HostType /\ DaemonType /\ GoroutineType
        /\ LocalsOK(w) /\ Holds(w) /\ Cleared(w)
    BY Facts
  <1>1. pc[w] = "r_clean" /\ at[w] \in Sandbox /\ released[w] = FALSE
    BY <1>0 DEF RemoveClean, LocalsOK, GoroutineType
  <1>2. PICK l \in {"r_mark", "r_error"} : Goto(w, l)
    BY Zenon DEF RemoveClean
  <1>3. /\ Others(w) /\ pc'[w] = l /\ at'[w] = at[w] /\ released'[w] = FALSE
    BY <1>0, <1>1, <1>2, GotoOthers DEF RemoveClean
  <1>4. /\ HostType'
        /\ \A s \in Sandbox : Physical(s)' => Physical(s)
        /\ l = "r_mark" => ~Physical(at[w])'
    <2>1. /\ net' \in [Sandbox -> BOOLEAN]
          /\ \A t \in Sandbox : net'[t] => net[t]
      BY Zenon, <1>0 DEF RemoveClean, NetworkRemove, HostType
    <2>2. CASE NetworkRemove(at[w], FALSE) /\ Goto(w, "r_error") /\ UNCHANGED <<jail, pidfile>>
      <3>1. l # "r_mark"
        BY Zenon, <1>0, <1>2, <2>2 DEF Goto, GoroutineType
      <3>2. HostType'
        BY <1>0, <2>1, <2>2 DEF HostType, RemoveClean
      <3>3. \A s \in Sandbox : Physical(s)' => Physical(s)
        BY <2>1, <2>2 DEF Physical, HasVMM, RemoveClean
      <3> QED BY <3>1, <3>2, <3>3
    <2>3. CASE /\ NetworkRemove(at[w], TRUE)
               /\ \E ok \in BOOLEAN : /\ VMRemove(at[w], copy[w].pid, ok)
                                      /\ Goto(w, IF ok THEN "r_mark" ELSE "r_error")
      <3>1. PICK ok \in BOOLEAN : /\ VMRemove(at[w], copy[w].pid, ok)
                                  /\ Goto(w, IF ok THEN "r_mark" ELSE "r_error")
        BY <2>3
      <3>2. l = "r_mark" => ok
        BY <1>0, <1>2, <3>1 DEF Goto, GoroutineType
      <3>3. ~net'[at[w]]
        BY <1>0, <1>1, <2>3 DEF NetworkRemove, HostType
      <3>4. UNCHANGED <<vmm, guest>>
        BY DEF RemoveClean
      <3>5. ok => ~Physical(at[w])'
        BY Zenon, <1>0, <1>1, <1>3, <2>1, <3>1, <3>3, <3>4, RemoveHost
      <3> QED BY <1>0, <1>1, <2>1, <3>1, <3>2, <3>4, <3>5, RemoveHost
    <2> QED BY Zenon, <2>2, <2>3 DEF RemoveClean
  <1>5. TypeOK'
    <2>1. GoroutineType'
      BY <1>0, <1>2, GotoType DEF RemoveClean, Label
    <2> QED BY Zenon, <1>0, <1>4, <2>1, StoreFrame DEF TypeOK, DaemonType, RemoveClean, StopDNS
  <1>6. LocalsOK(w)' /\ Holds(w)' /\ Cleared(w)'
    BY <1>0, <1>1, <1>3, <1>4 DEF LocalsOK, Holds, Cleared, Critical, RemoveClean
  <1> QED BY <1>1, <1>3, <1>4, <1>5, <1>6, WorkerFrame, RecFrame DEF RemoveClean, durable

(* Remove's mark as removing keeps IInv. *)
LEMMA RemoveMarkStep ==
  ASSUME IInv, NEW w \in Worker, RemoveMark(w)
  PROVE  Kept
  <1> USE Processes
  <1>0. /\ StoreType /\ HostType /\ DaemonType /\ GoroutineType
        /\ LocalsOK(w) /\ Holds(w) /\ Cleared(w)
    BY Facts
  <1>1. PICK l \in {"r_delete", "r_error"} : Goto(w, l)
    BY DEF RemoveMark
  <1>2. /\ Others(w) /\ pc[w] = "r_mark" /\ pc'[w] = l /\ at'[w] = at[w]
        /\ released'[w] = released[w] /\ at[w] \in Sandbox /\ ~Physical(at[w])
    BY <1>0, <1>1, GotoOthers DEF RemoveMark, LocalsOK, Cleared
  <1>3. TypeOK'
    <2>1. [rec[at[w]] EXCEPT !.state = "removing"] \in Record
      BY <1>0, <1>2, PutState, Constants DEF StoreType
    <2>2. StoreType'
      BY <1>0, <2>1, UpdateType DEF RemoveMark, StoreType
    <2>3. GoroutineType'
      BY <1>0, <1>1, GotoType DEF RemoveMark, Label
    <2> QED BY <1>0, <2>2, <2>3, HostTypeFrame DEF TypeOK, DaemonType, RemoveMark
  <1>4. LocalsOK(w)' /\ Holds(w)' /\ Cleared(w)'
    BY <1>0, <1>2, HostFrame DEF LocalsOK, Holds, Cleared, Critical, RemoveMark
  <1>5. \A t \in Sandbox \ {at[w]} : rec'[t] = rec[t]
    BY <1>0 DEF RemoveMark, Update, StoreType
  <1>6. \A s \in Sandbox : Claims(s) => ReservesVMResources(rec'[s])
    BY <1>2, <1>5, OwnerWrites DEF Critical
  <1> QED BY <1>2, <1>3, <1>4, <1>6, WorkerFrame, HostFrame DEF RemoveMark

\* A deleted row.
LEMMA GoneType == Gone \in Record
  BY UnbornType DEF Gone, Record

(* Remove deletes a record only after a confirmed cleanup: IInv stays. *)
LEMMA RemoveDeleteStep ==
  ASSUME IInv, NEW w \in Worker, RemoveDelete(w)
  PROVE  Kept
  <1> USE Processes
  <1>0. /\ StoreType /\ HostType /\ DaemonType /\ GoroutineType
        /\ LocalsOK(w) /\ Holds(w) /\ Cleared(w)
    BY Facts
  <1>1. /\ Others(w) /\ pc[w] = "r_delete" /\ pc'[w] = "idle" /\ released'[w] = FALSE
        /\ at[w] \in Sandbox /\ lock[at[w]] = w /\ ~Physical(at[w])
    BY Zenon, <1>0, ReturnOthers DEF RemoveDelete, Holds, Critical, LocalsOK, Cleared
  <1>2. /\ lock' \in [Sandbox -> Process \cup {Free}]
        /\ \A s \in Sandbox : lock'[s] = lock[s] \/ lock[s] \in {w, Free}
    BY <1>0, <1>1, UnlockOwn DEF RemoveDelete
  <1>3. TypeOK'
    <2>1. StoreType'
      BY Zenon, <1>0, GoneType DEF RemoveDelete, StoreType, Delete
    <2> QED BY <1>0, <1>2, <2>1, ReturnType, HostTypeFrame DEF TypeOK, DaemonType, RemoveDelete
  <1>4. LocalsOK(w)' /\ Holds(w)' /\ Cleared(w)'
    BY <1>1 DEF LocalsOK, Holds, Cleared, Critical
  <1>5. \A t \in Sandbox \ {at[w]} : rec'[t] = rec[t]
    BY <1>0 DEF RemoveDelete, Delete, StoreType
  <1>6. \A s \in Sandbox : Claims(s) => ReservesVMResources(rec'[s])
    BY <1>1, <1>5, OwnerWrites DEF Critical
  <1> QED BY <1>1, <1>2, <1>3, <1>4, <1>6, WorkerFrame, HostFrame DEF RemoveDelete

(* Remove's error path keeps IInv. *)
LEMMA RemoveErrorStep ==
  ASSUME IInv, NEW w \in Worker, RemoveError(w)
  PROVE  Kept
  <1> USE Processes
  <1>0. /\ StoreType /\ HostType /\ DaemonType /\ GoroutineType
        /\ LocalsOK(w) /\ Holds(w) /\ Cleared(w)
    BY Facts
  <1>1. /\ Others(w) /\ pc[w] = "r_error" /\ pc'[w] = "idle" /\ released'[w] = FALSE
        /\ at[w] \in Sandbox /\ lock[at[w]] = w
    BY Zenon, <1>0, ReturnOthers DEF RemoveError, Holds, Critical, LocalsOK
  <1>2. /\ lock' \in [Sandbox -> Process \cup {Free}]
        /\ \A s \in Sandbox : lock'[s] = lock[s] \/ lock[s] \in {w, Free}
    BY <1>0, <1>1, UnlockOwn DEF RemoveError
  <1>3. TypeOK'
    BY <1>0, <1>2, ReturnType, StoreFrame, HostTypeFrame DEF TypeOK, DaemonType, RemoveError
  <1>4. LocalsOK(w)' /\ Holds(w)' /\ Cleared(w)'
    BY <1>1 DEF LocalsOK, Holds, Cleared, Critical
  <1> QED BY <1>1, <1>2, <1>3, <1>4, WorkerFrame, HostFrame, RecFrame DEF RemoveError, durable

-----------------------------------------------------------------------------
(* finish, by whichever goroutine runs it. *)

\* The parts of the invariant a step of p can disturb, its role aside.
LEMMA StepFrame ==
  ASSUME IInv, NEW p \in Process, TypeOK', Others(p), RoleInv',
         LocalsOK(p)', Holds(p)', Cleared(p)',
         pc'[p] \notin {"s_admit", "s_network", "s_vmm"},
         \A s \in Sandbox : lock'[s] = lock[s] \/ lock[s] \in {p, Free},
         alloc' = alloc,
         \A s \in Sandbox : Physical(s)' => Physical(s),
         \A s \in Sandbox : Claims(s) => ReservesVMResources(rec'[s])
  PROVE  Kept
  <1>1. ClaimInv' /\ NoNewClaim
    BY ClaimFrame
  <1> QED BY <1>1, LocalsFrame, LockFrame DEF IInv, Kept

\* Where a goroutine goes on after finish.
Back(p) == IF p \in Worker THEN "t_wait" ELSE IF p = boot THEN "b_scan" ELSE "idle"

(* A process in finish is a worker in Stop or a monitor, with its own
   labels. *)
LEMMA FinishRole ==
  ASSUME IInv, NEW p \in Process, Others(p), UNCHANGED <<daemon, todo>>,
         pc[p] \in FinishLabel \cup BootLabel,
         \/ pc[p] \in FinishLabel /\ pc'[p] \in FinishLabel /\ at'[p] = at[p]
         \/ pc[p] \in BootLabel /\ pc'[p] \in BootLabel /\ at'[p] = at[p]
         \/ pc'[p] = Back(p)
  PROVE  RoleInv'
  <1> USE Processes
  <1>1. Role(p)
    BY Facts
  <1>2. pc[p] # "idle" /\ pc[p] \notin {"b_scan", "m_get", "m_call"}
    BY DEF FinishLabel, BootLabel
  <1>3. Role(p)'
    <2>1. CASE p \in Worker
      BY <1>1, <1>2, <2>1, Kinds DEF Role, Back, FinishLabel, BootLabel
    <2>2. CASE p = boot
      BY <1>1, <1>2, <2>2, Kinds DEF Role, Back, FinishLabel, BootLabel
    <2>3. CASE p \in Monitor
      <3>1. pc[p] \in FinishLabel
        BY <1>1, <1>2, <2>3 DEF Role
      <3>2. p \notin Worker /\ p # boot
        BY <2>3, Kinds
      <3>3. pc[p] \notin BootLabel
        BY <3>1 DEF FinishLabel, BootLabel
      <3>4. (pc'[p] \in FinishLabel /\ at'[p] = at[p]) \/ pc'[p] = "idle"
        BY <3>2, <3>3 DEF Back
      <3>5. pc'[boot] = pc[boot] /\ at'[boot] = at[boot]
        BY <3>2 DEF Others
      <3> QED BY <1>1, <1>2, <2>3, <3>2, <3>4, <3>5 DEF Role
    <2> QED BY Zenon, <2>1, <2>2, <2>3 DEF Process
  <1>4. ASSUME NEW q \in Process, q # p PROVE Role(q)'
    <2>1. Role(q) /\ pc'[q] = pc[q] /\ at'[q] = at[q]
      BY <1>4, Facts DEF Others
    <2>2. pc'[boot] \in FinishLabel \cup BootLabel =>
            pc[boot] \in FinishLabel \cup BootLabel /\ at'[boot] = at[boot]
      <3>1. CASE p = boot
        BY <3>1, Kinds DEF Back, FinishLabel, BootLabel
      <3>2. CASE p # boot
        BY <3>2 DEF Others
      <3> QED BY <3>1, <3>2
    <2> QED BY <2>1, <2>2 DEF Role
  <1> QED BY <1>3, <1>4 DEF RoleInv, IInv

(* What finish does to its caller when it returns. *)
LEMMA FinishReturnShape ==
  ASSUME IInv, NEW p \in Process, FinishReturn(p), UNCHANGED <<daemon, todo>>,
         pc[p] \in FinishLabel \cup BootLabel
  PROVE  /\ GoroutineType' /\ Others(p) /\ RoleInv'
         /\ LocalsOK(p)' /\ Holds(p)' /\ Cleared(p)'
         /\ pc'[p] \notin {"s_admit", "s_network", "s_vmm"}
  <1>0. GoroutineType /\ LocalsOK(p)
    BY Facts
  <1>1. at[p] \in Sandbox
    BY <1>0 DEF LocalsOK, FinishLabel, BootLabel
  <1>2. Goto(p, Back(p)) /\ Forget(p)
    BY DEF FinishReturn, Back
  <1>3. at' = IF p \in Worker THEN at ELSE [at EXCEPT ![p] = NoSandbox]
    BY DEF FinishReturn
  <1>4. Back(p) \in {"t_wait", "b_scan", "idle"} /\ (Back(p) = "t_wait" => p \in Worker)
    BY DEF Back
  <1>5. at' \in [Process -> Sandbox \cup {NoSandbox}]
    BY <1>0, <1>3 DEF GoroutineType
  <1>6. pc' \in [Process -> Label]
    BY <1>0, <1>2, <1>4 DEF GoroutineType, Goto, Label
  <1>7. GoroutineType'
    BY <1>0, <1>2, <1>5, <1>6, ForgetType DEF GoroutineType
  <1>8. Others(p)
    BY <1>0, <1>2, <1>3 DEF GoroutineType, Goto, Forget, Others
  <1>9. /\ pc'[p] = Back(p) /\ released'[p] = FALSE /\ (p \in Worker => at'[p] = at[p])
    BY Zenon, <1>0, <1>2, <1>3 DEF GoroutineType, Goto, Forget
  <1>10. LocalsOK(p)' /\ Holds(p)' /\ Cleared(p)'
    BY Zenon, <1>1, <1>4, <1>9 DEF LocalsOK, Holds, Cleared, Critical
  <1> QED BY <1>4, <1>7, <1>8, <1>9, <1>10, FinishRole

(* finish taking the lock and re-reading the generation keeps IInv. *)
LEMMA FinishLockStep ==
  ASSUME IInv, NEW p \in Process, FinishLock(p)
  PROVE  Kept
  <1>0. /\ StoreType /\ HostType /\ DaemonType /\ GoroutineType
        /\ LocalsOK(p) /\ Holds(p) /\ Cleared(p)
    BY Facts
  <1>1. pc[p] = "n_lock" /\ at[p] \in Sandbox /\ lock[at[p]] = Free /\ released[p] = FALSE
    BY Zenon, <1>0 DEF FinishLock, LocalsOK, GoroutineType
  <1>2. pc[p] \in FinishLabel
    BY <1>1 DEF FinishLabel
  <1>3. CASE FinishReturn(p) /\ UNCHANGED lock
    <2>1. /\ GoroutineType' /\ Others(p) /\ RoleInv'
          /\ LocalsOK(p)' /\ Holds(p)' /\ Cleared(p)'
          /\ pc'[p] \notin {"s_admit", "s_network", "s_vmm"}
      BY <1>2, <1>3, FinishReturnShape DEF FinishLock
    <2>2. TypeOK'
      BY Zenon, <1>0, <1>3, <2>1, StoreFrame, HostTypeFrame DEF TypeOK, DaemonType, FinishLock
    <2> QED BY Zenon, <1>3, <2>1, <2>2, StepFrame, HostFrame, RecFrame DEF FinishLock, durable
  <1>4. CASE lock' = [lock EXCEPT ![at[p]] = p] /\ Goto(p, "n_kill") /\ UNCHANGED <<at, locals>>
    <2>1. /\ Others(p) /\ pc'[p] = "n_kill" /\ at'[p] = at[p] /\ released'[p] = FALSE
      BY Zenon, <1>0, <1>1, <1>4, GotoOthers
    <2>2. TypeOK'
      <3>1. GoroutineType'
        BY <1>0, <1>4, GotoType DEF Label
      <3> QED BY Zenon, <1>0, <1>4, <3>1, StoreFrame, HostTypeFrame DEF TypeOK, DaemonType, FinishLock
    <2>3. RoleInv'
      BY <1>2, <2>1, FinishRole DEF FinishLabel, FinishLock
    <2>4. LocalsOK(p)' /\ Holds(p)' /\ Cleared(p)'
      BY Zenon, <1>0, <1>1, <1>4, <2>1 DEF LocalsOK, Holds, Cleared, Critical, DaemonType
    <2>5. \A s \in Sandbox : lock'[s] = lock[s] \/ lock[s] \in {p, Free}
      BY <1>0, <1>1, <1>4 DEF DaemonType
    <2> QED BY Zenon, <2>1, <2>2, <2>3, <2>4, <2>5, StepFrame, HostFrame, RecFrame DEF FinishLock, durable
  <1> QED BY <1>3, <1>4 DEF FinishLock

(* finish's kill keeps IInv. *)
LEMMA FinishKillStep ==
  ASSUME IInv, NEW p \in Process, FinishKill(p)
  PROVE  Kept
  <1>0. /\ StoreType /\ HostType /\ DaemonType /\ GoroutineType
        /\ LocalsOK(p) /\ Holds(p) /\ Cleared(p)
    BY Facts
  <1>1. /\ TypeOK' /\ Others(p)
        /\ pc[p] = "n_kill" /\ pc'[p] \in {"n_clean", "n_lost"} /\ at'[p] = at[p]
        /\ released'[p] = released[p] /\ at[p] \in Sandbox
        /\ \A s \in Sandbox : Physical(s)' => Physical(s)
        /\ rec' = rec /\ lock' = lock /\ alloc' = alloc /\ UNCHANGED <<daemon, todo>>
    <2>1. KillStep(p, "n_kill", "n_clean", "n_lost")
      BY DEF FinishKill
    <2>2. "n_kill" \in Critical /\ "n_clean" \in Label /\ "n_lost" \in Label
      BY DEF Critical, Label
    <2> QED BY <2>1, <2>2, KillShape
  <1>2. RoleInv'
    BY Zenon, <1>1, FinishRole DEF FinishLabel
  <1>3. LocalsOK(p)' /\ Holds(p)' /\ Cleared(p)'
    BY Zenon, <1>0, <1>1 DEF LocalsOK, Holds, Cleared, Critical
  <1> QED BY Zenon, <1>1, <1>2, <1>3, StepFrame, RecFrame

(* finish's cleanup keeps IInv. *)
LEMMA FinishCleanStep ==
  ASSUME IInv, NEW p \in Process, FinishClean(p)
  PROVE  Kept
  <1>0. /\ StoreType /\ HostType /\ DaemonType /\ GoroutineType
        /\ LocalsOK(p) /\ Holds(p) /\ Cleared(p)
    BY Facts
  <1>1. /\ TypeOK' /\ Others(p)
        /\ pc[p] = "n_clean" /\ pc'[p] = "n_update" /\ at'[p] = at[p] /\ at[p] \in Sandbox
        /\ \A s \in Sandbox : Physical(s)' => Physical(s)
        /\ released'[p] => ~Physical(at[p])'
        /\ rec' = rec /\ lock' = lock /\ alloc' = alloc /\ UNCHANGED <<daemon, todo>>
    BY CleanShape DEF FinishClean, Critical, Label
  <1>2. RoleInv'
    BY Zenon, <1>1, FinishRole DEF FinishLabel
  <1>3. LocalsOK(p)' /\ Holds(p)' /\ Cleared(p)'
    BY <1>0, <1>1 DEF LocalsOK, Holds, Cleared, Critical
  <1> QED BY Zenon, <1>1, <1>2, <1>3, StepFrame, RecFrame

(* finish's path for an unconfirmed cleanup keeps the reservation and IInv. *)
LEMMA FinishLostStep ==
  ASSUME IInv, NEW p \in Process, FinishLost(p)
  PROVE  Kept
  <1>0. /\ StoreType /\ HostType /\ DaemonType /\ GoroutineType
        /\ LocalsOK(p) /\ Holds(p) /\ Cleared(p)
    BY Facts
  <1>1. pc[p] = "n_lost" /\ at[p] \in Sandbox /\ lock[at[p]] = p
    BY <1>0 DEF FinishLost, LocalsOK, Holds, Critical
  <1>2. /\ lock' \in [Sandbox -> Process \cup {Free}]
        /\ \A s \in Sandbox : lock'[s] = lock[s] \/ lock[s] \in {p, Free}
    BY <1>0, <1>1, UnlockOwn DEF FinishLost
  <1>3. /\ GoroutineType' /\ Others(p) /\ RoleInv'
        /\ LocalsOK(p)' /\ Holds(p)' /\ Cleared(p)'
        /\ pc'[p] \notin {"s_admit", "s_network", "s_vmm"}
    BY <1>1, FinishReturnShape DEF FinishLost, FinishLabel
  <1>4. TypeOK'
    <2>1. [rec[at[p]] EXCEPT !.state = "failed", !.released = FALSE] \in Record
      BY Zenon, <1>0, <1>1, PutReleased, Constants DEF StoreType
    <2>2. StoreType'
      BY <1>0, <2>1, UpdateType DEF FinishLost, StoreType
    <2> QED BY <1>0, <1>2, <1>3, <2>2, HostTypeFrame DEF TypeOK, DaemonType, FinishLost
  <1>5. \A s \in Sandbox : Claims(s) => ReservesVMResources(rec'[s])
    BY <1>0 DEF FinishLost, Update, ReservesVMResources, StoreType, Record, IInv, ClaimInv
  <1> QED BY <1>2, <1>3, <1>4, <1>5, StepFrame, HostFrame DEF FinishLost

(* finish's exit update releases after the cleanup, and keeps IInv. *)
LEMMA FinishUpdateStep ==
  ASSUME IInv, NEW p \in Process, FinishUpdate(p)
  PROVE  Kept
  <1>0. /\ StoreType /\ HostType /\ DaemonType /\ GoroutineType
        /\ LocalsOK(p) /\ Holds(p) /\ Cleared(p)
    BY Facts
  <1>1. pc[p] = "n_update" /\ at[p] \in Sandbox /\ lock[at[p]] = p
    BY <1>0 DEF FinishUpdate, LocalsOK, Holds, Critical
  <1>2. pc[p] \in FinishLabel
    BY <1>1 DEF FinishLabel
  <1>3. StoreType'
    <2>1. /\ (IF released[p] THEN "exited" ELSE "failed") \in Live
          /\ 0 \in 0 .. MaxGen /\ exit[p] \in Exit /\ released[p] \in BOOLEAN
          /\ rec[at[p]] \in Record
      BY <1>0, <1>1, Constants, Bounds DEF GoroutineType, StoreType
    <2>2. [rec[at[p]] EXCEPT !.state = IF released[p] THEN "exited" ELSE "failed",
                             !.exit = exit[p], !.pid = 0,
                             !.released = released[p]] \in Record
      BY Zenon, <2>1, PutExit
    <2> QED BY <1>0, <2>2, UpdateType DEF FinishUpdate, StoreType
  <1>4. Physical(at[p]) => ReservesVMResources(rec'[at[p]])
    <2>1. Physical(at[p]) => ~released[p] /\ ReservesVMResources(rec[at[p]])
      BY <1>0, <1>1 DEF Cleared, IInv, ClaimInv, Claims
    <2> SUFFICES ASSUME Physical(at[p])
                 PROVE  ReservesVMResources(rec'[at[p]])
      OBVIOUS
    <2> DEFINE r == [rec[at[p]] EXCEPT !.state = IF released[p] THEN "exited" ELSE "failed",
                                       !.exit = exit[p], !.pid = 0,
                                       !.released = released[p]]
    <2>2. rec'[at[p]] = rec[at[p]] \/ rec'[at[p]] = r
      BY Zenon, <1>0, <1>1 DEF FinishUpdate, Update, StoreType
    <2>3. r.state = "failed" /\ r.released = FALSE
      BY <1>0, <1>1, <2>1 DEF StoreType, Record, GoroutineType
    <2> HIDE DEF r
    <2> QED BY Zenon, <2>1, <2>2, <2>3 DEF ReservesVMResources
  <1>5. \A t \in Sandbox \ {at[p]} : rec'[t] = rec[t]
    BY Zenon, <1>0 DEF FinishUpdate, Update, StoreType
  <1>6. \A s \in Sandbox : Claims(s) => ReservesVMResources(rec'[s])
    BY <1>1, <1>4, <1>5, OwnerWrites DEF Critical
  <1>7. CASE Unlock(p) /\ FinishReturn(p)
    <2>1. /\ lock' \in [Sandbox -> Process \cup {Free}]
          /\ \A s \in Sandbox : lock'[s] = lock[s] \/ lock[s] \in {p, Free}
      BY <1>0, <1>1, <1>7, UnlockOwn
    <2>2. /\ GoroutineType' /\ Others(p) /\ RoleInv'
          /\ LocalsOK(p)' /\ Holds(p)' /\ Cleared(p)'
          /\ pc'[p] \notin {"s_admit", "s_network", "s_vmm"}
      BY <1>2, <1>7, FinishReturnShape DEF FinishUpdate
    <2>3. TypeOK'
      BY <1>0, <1>3, <2>1, <2>2, HostTypeFrame DEF TypeOK, DaemonType, FinishUpdate
    <2> QED BY Zenon, <1>6, <2>1, <2>2, <2>3, StepFrame, HostFrame DEF FinishUpdate
  <1>8. CASE released[p] /\ Goto(p, "n_save") /\ UNCHANGED <<lock, at, locals>>
    <2>1. /\ Others(p) /\ pc'[p] = "n_save" /\ at'[p] = at[p] /\ released'[p] = released[p]
      BY Zenon, <1>0, <1>8, GotoOthers
    <2>2. TypeOK'
      <3>1. GoroutineType'
        BY <1>0, <1>8, GotoType DEF Label
      <3> QED BY <1>0, <1>3, <1>8, <3>1, HostTypeFrame DEF TypeOK, DaemonType, FinishUpdate
    <2>3. RoleInv'
      BY <1>2, <2>1, FinishRole DEF FinishLabel, FinishUpdate
    <2>4. LocalsOK(p)' /\ Holds(p)' /\ Cleared(p)'
      BY <1>0, <1>1, <1>8, <2>1, HostFrame DEF LocalsOK, Holds, Cleared, Critical, FinishUpdate
    <2> QED BY <1>6, <1>8, <2>1, <2>2, <2>3, <2>4, StepFrame, HostFrame DEF FinishUpdate
  <1> QED BY <1>7, <1>8 DEF FinishUpdate

(* finish's saving of the result keeps IInv. *)
LEMMA FinishSaveStep ==
  ASSUME IInv, NEW p \in Process, FinishSave(p)
  PROVE  Kept
  <1>0. /\ StoreType /\ HostType /\ DaemonType /\ GoroutineType
        /\ LocalsOK(p) /\ Holds(p) /\ Cleared(p)
    BY Facts
  <1>1. pc[p] = "n_save" /\ at[p] \in Sandbox /\ lock[at[p]] = p
    BY <1>0 DEF FinishSave, LocalsOK, Holds, Critical
  <1>2. pc[p] \in FinishLabel
    BY <1>1 DEF FinishLabel
  <1>3. StoreType'
    BY Zenon, <1>0, <1>1 DEF FinishSave, StoreType, GoroutineType
  <1>4. CASE Unlock(p) /\ FinishReturn(p)
    <2>1. /\ lock' \in [Sandbox -> Process \cup {Free}]
          /\ \A s \in Sandbox : lock'[s] = lock[s] \/ lock[s] \in {p, Free}
      BY Zenon, <1>0, <1>1, <1>4, UnlockOwn
    <2>2. /\ GoroutineType' /\ Others(p) /\ RoleInv'
          /\ LocalsOK(p)' /\ Holds(p)' /\ Cleared(p)'
          /\ pc'[p] \notin {"s_admit", "s_network", "s_vmm"}
      BY <1>2, <1>4, FinishReturnShape DEF FinishSave
    <2>3. TypeOK'
      BY Zenon, <1>0, <1>3, <2>1, <2>2, HostTypeFrame DEF TypeOK, DaemonType, FinishSave
    <2> QED BY Zenon, <2>1, <2>2, <2>3, StepFrame, HostFrame, RecFrame DEF FinishSave
  <1>5. CASE Goto(p, "n_delete") /\ UNCHANGED <<lock, at, locals>>
    <2>1. /\ Others(p) /\ pc'[p] = "n_delete" /\ at'[p] = at[p] /\ released'[p] = released[p]
      BY Zenon, <1>0, <1>5, GotoOthers
    <2>2. TypeOK'
      <3>1. GoroutineType'
        BY Zenon, <1>0, <1>5, GotoType DEF Label
      <3> QED BY Zenon, <1>0, <1>3, <1>5, <3>1, HostTypeFrame DEF TypeOK, DaemonType, FinishSave
    <2>3. RoleInv'
      BY <1>2, <2>1, FinishRole DEF FinishLabel, FinishSave
    <2>4. LocalsOK(p)' /\ Holds(p)' /\ Cleared(p)'
      BY Zenon, <1>0, <1>1, <1>5, <2>1, HostFrame DEF LocalsOK, Holds, Cleared, Critical, FinishSave
    <2> QED BY Zenon, <1>5, <2>1, <2>2, <2>3, <2>4, StepFrame, HostFrame, RecFrame DEF FinishSave
  <1> QED BY Zenon, <1>4, <1>5 DEF FinishSave

(* finish's automatic removal keeps IInv. *)
LEMMA FinishDeleteStep ==
  ASSUME IInv, NEW p \in Process, FinishDelete(p)
  PROVE  Kept
  <1>0. /\ StoreType /\ HostType /\ DaemonType /\ GoroutineType
        /\ LocalsOK(p) /\ Holds(p) /\ Cleared(p)
    BY Facts
  <1>1. pc[p] = "n_delete" /\ at[p] \in Sandbox /\ lock[at[p]] = p /\ ~Physical(at[p])
    BY Zenon, <1>0 DEF FinishDelete, LocalsOK, Holds, Critical, Cleared
  <1>2. /\ lock' \in [Sandbox -> Process \cup {Free}]
        /\ \A s \in Sandbox : lock'[s] = lock[s] \/ lock[s] \in {p, Free}
    BY Zenon, <1>0, <1>1, UnlockOwn DEF FinishDelete
  <1>3. /\ GoroutineType' /\ Others(p) /\ RoleInv'
        /\ LocalsOK(p)' /\ Holds(p)' /\ Cleared(p)'
        /\ pc'[p] \notin {"s_admit", "s_network", "s_vmm"}
    BY Zenon, <1>1, FinishReturnShape DEF FinishDelete, FinishLabel
  <1>4. TypeOK'
    <2>1. StoreType'
      BY Zenon, <1>0, GoneType DEF FinishDelete, Delete, StoreType
    <2> QED BY <1>0, <1>2, <1>3, <2>1, HostTypeFrame DEF TypeOK, DaemonType, FinishDelete
  <1>5. \A t \in Sandbox \ {at[p]} : rec'[t] = rec[t]
    BY Zenon, <1>0 DEF FinishDelete, Delete, StoreType
  <1>6. \A s \in Sandbox : Claims(s) => ReservesVMResources(rec'[s])
    BY <1>1, <1>5, OwnerWrites DEF Critical
  <1> QED BY Zenon, <1>2, <1>3, <1>4, <1>6, StepFrame, HostFrame DEF FinishDelete

-----------------------------------------------------------------------------
(* Monitors. *)

-----------------------------------------------------------------------------
(* Monitors, recovery and the host. *)

(* A monitor at a label of its loop keeps the role invariant. *)
LEMMA MonitorRole ==
  ASSUME IInv, NEW m \in Monitor, Others(m), UNCHANGED <<daemon, todo>>, pc[m] # "idle",
         \/ pc'[m] \in {"m_get", "m_call", "n_lock"} /\ at'[m] = at[m]
         \/ pc'[m] = "idle"
  PROVE  RoleInv'
  <1> USE Processes
  <1>1. Role(m) /\ m \notin Worker /\ m # boot
    BY Facts, Kinds
  <1>2. pc'[boot] = pc[boot] /\ at'[boot] = at[boot]
    BY <1>1 DEF Others
  <1>3. Role(m)'
    BY <1>1, <1>2 DEF Role, FinishLabel
  <1>4. ASSUME NEW q \in Process, q # m PROVE Role(q)'
    BY <1>2, <1>4, Facts DEF Others, Role
  <1> QED BY <1>3, <1>4 DEF RoleInv, IInv

(* The monitor's read of the store keeps IInv. *)
LEMMA MonitorGetStep ==
  ASSUME IInv, NEW m \in Monitor, MonitorGet(m)
  PROVE  Kept
  <1> USE Processes
  <1>0. /\ StoreType /\ HostType /\ DaemonType /\ GoroutineType
        /\ LocalsOK(m) /\ Holds(m) /\ Cleared(m) /\ Role(m)
    BY Facts
  <1>1. pc[m] = "m_get" /\ at[m] \in Sandbox /\ released[m] = FALSE
    BY <1>0 DEF MonitorGet, LocalsOK, GoroutineType
  <1>2. /\ GoroutineType' /\ Others(m) /\ released'[m] = FALSE
        /\ (pc'[m] = "m_call" /\ at'[m] = at[m]) \/ pc'[m] = "idle"
    <2>1. CASE Return(m)
      BY Zenon, <1>0, <2>1, ReturnType, ReturnOthers
    <2>2. CASE Goto(m, "m_call") /\ UNCHANGED <<at, locals>>
      BY <1>0, <1>1, <2>2, GotoType, GotoOthers DEF Label
    <2> QED BY Zenon, <2>1, <2>2 DEF MonitorGet
  <1>3. TypeOK'
    BY <1>0, <1>2, StoreFrame, HostTypeFrame DEF TypeOK, DaemonType, MonitorGet
  <1>4. RoleInv'
    BY <1>1, <1>2, MonitorRole DEF MonitorGet
  <1>5. LocalsOK(m)' /\ Holds(m)' /\ Cleared(m)'
    BY <1>1, <1>2 DEF LocalsOK, Holds, Cleared, Critical
  <1> QED BY <1>2, <1>3, <1>4, <1>5, StepFrame, HostFrame, RecFrame DEF MonitorGet, durable

(* The monitor's guest poll keeps IInv. *)
LEMMA MonitorCallStep ==
  ASSUME IInv, NEW m \in Monitor, MonitorCall(m)
  PROVE  Kept
  <1> USE Processes
  <1>0. /\ StoreType /\ HostType /\ DaemonType /\ GoroutineType
        /\ LocalsOK(m) /\ Holds(m) /\ Cleared(m) /\ Role(m)
    BY Facts
  <1>1. pc[m] = "m_call" /\ at[m] \in Sandbox /\ released[m] = FALSE
    BY <1>0 DEF MonitorCall, LocalsOK, GoroutineType
  <1>2. PICK l \in {"m_get", "n_lock"}, x \in Exit, n \in 0 .. MaxFailures - 1 :
          /\ Goto(m, l) /\ exit' = [exit EXCEPT ![m] = x]
          /\ failures' = [failures EXCEPT ![m] = n]
    <2>1. /\ failures[m] \in 0 .. MaxFailures - 1 /\ 0 \in 0 .. MaxFailures - 1
          /\ exit = [exit EXCEPT ![m] = exit[m]] /\ exit[m] \in Exit
      BY <1>0, Bounds DEF GoroutineType
    <2>2. \A x \in Exit : MonitorFinish(m, x) =>
            Goto(m, "n_lock") /\ exit' = [exit EXCEPT ![m] = x]
            /\ failures' = [failures EXCEPT ![m] = 0]
      BY DEF MonitorFinish
    <2>3. \A n : MonitorAgain(m, n) =>
            Goto(m, "m_get") /\ exit' = [exit EXCEPT ![m] = exit[m]]
            /\ failures' = [failures EXCEPT ![m] = n]
      BY <2>1 DEF MonitorAgain
    <2>4. CASE MonitorAnswer(m)
      <3>1. MonitorFinish(m, "unknown") \/ MonitorFinish(m, "code") \/ MonitorAgain(m, 0)
        BY <2>4 DEF MonitorAnswer
      <3> QED BY <2>1, <2>2, <2>3, <3>1, Constants
    <2>5. CASE MonitorFailure(m)
      <3>1. \/ MonitorFinish(m, "unknown")
            \/ MonitorAgain(m, failures[m] + 1) /\ failures[m] + 1 \in 0 .. MaxFailures - 1
        BY <2>1, <2>5, Bounds DEF MonitorFailure
      <3> QED BY <2>1, <2>2, <2>3, <3>1, Constants
    <2> QED BY <2>4, <2>5 DEF MonitorCall
  <1>3. GoroutineType'
    BY <1>0, <1>2 DEF MonitorCall, GoroutineType, Goto, Label
  <1>4. /\ Others(m) /\ released'[m] = FALSE /\ pc'[m] = l /\ at'[m] = at[m]
    BY <1>0, <1>1, <1>2 DEF MonitorCall, GoroutineType, Goto, Others
  <1>5. TypeOK'
    BY <1>0, <1>3, StoreFrame, HostTypeFrame DEF TypeOK, DaemonType, MonitorCall
  <1>6. RoleInv'
    BY <1>1, <1>4, MonitorRole DEF MonitorCall
  <1>7. LocalsOK(m)' /\ Holds(m)' /\ Cleared(m)'
    BY <1>1, <1>4 DEF LocalsOK, Holds, Cleared, Critical
  <1> QED BY <1>4, <1>5, <1>6, <1>7, StepFrame, HostFrame, RecFrame DEF MonitorCall, durable

-----------------------------------------------------------------------------
(* Daemon start and recovery. *)

(* A boot of the daemon keeps IInv: nothing but the boot goroutine runs. *)
LEMMA BootStep ==
  ASSUME IInv, Boot
  PROVE  Kept
  <1> USE Processes
  <1>0. /\ StoreType /\ HostType /\ DaemonType /\ GoroutineType
        /\ LocalsOK(boot) /\ Holds(boot) /\ Cleared(boot) /\ Role(boot)
    BY Facts
  <1>1. /\ Others(boot) /\ pc'[boot] = "b_scan" /\ released'[boot] = released[boot]
        /\ \A p \in Process : pc[p] = "idle"
    BY <1>0, GotoOthers, Facts DEF Boot, Role
  <1>2. TypeOK'
    <2>1. GoroutineType'
      BY <1>0, GotoType DEF Boot, Label
    <2> QED BY <1>0, <2>1, StoreFrame, HostTypeFrame DEF TypeOK, DaemonType, Boot
  <1>3. RoleInv'
    <2>1. Role(boot)'
      BY <1>1, Kinds DEF Role, Boot
    <2>2. ASSUME NEW q \in Process, q # boot PROVE Role(q)'
      BY <1>1, <2>2, Facts DEF Others, Role, Boot
    <2> QED BY <2>1, <2>2 DEF RoleInv, Boot
  <1>4. LocalsOK(boot)' /\ Holds(boot)' /\ Cleared(boot)'
    BY <1>0, <1>1 DEF LocalsOK, Holds, Cleared, Critical
  <1> QED BY <1>1, <1>2, <1>3, <1>4, StepFrame, HostFrame, RecFrame DEF Boot, durable

(* The end of recovery keeps IInv. *)
LEMMA RecoverDoneStep ==
  ASSUME IInv, RecoverDone
  PROVE  Kept
  <1> USE Processes
  <1>0. /\ StoreType /\ HostType /\ DaemonType /\ GoroutineType
        /\ LocalsOK(boot) /\ Holds(boot) /\ Cleared(boot) /\ Role(boot)
    BY Facts
  <1>1. /\ Others(boot) /\ pc'[boot] = "idle" /\ released'[boot] = released[boot]
        /\ pc[boot] = "b_scan"
    BY <1>0, GotoOthers DEF RecoverDone
  <1>2. TypeOK'
    <2>1. GoroutineType'
      BY <1>0, GotoType DEF RecoverDone, Label
    <2> QED BY <1>0, <2>1, StoreFrame, HostTypeFrame DEF TypeOK, DaemonType, RecoverDone
  <1>3. RoleInv'
    <2>1. Role(boot)'
      BY <1>1, Kinds DEF Role, RecoverDone
    <2>2. ASSUME NEW q \in Process, q # boot PROVE Role(q)'
      BY <1>1, <2>2, Facts DEF Others, Role, RecoverDone, FinishLabel, BootLabel
    <2> QED BY <2>1, <2>2 DEF RoleInv, RecoverDone
  <1>4. LocalsOK(boot)' /\ Holds(boot)' /\ Cleared(boot)'
    BY <1>0, <1>1 DEF LocalsOK, Holds, Cleared, Critical
  <1> QED BY <1>1, <1>2, <1>3, <1>4, StepFrame, HostFrame, RecFrame DEF RecoverDone, durable

(* Recovery's kill keeps IInv. *)
LEMMA RecoverKillStep ==
  ASSUME IInv, RecoverKill
  PROVE  Kept
  <1> USE Processes
  <1>0. /\ StoreType /\ HostType /\ DaemonType /\ GoroutineType
        /\ LocalsOK(boot) /\ Holds(boot) /\ Cleared(boot) /\ Role(boot)
    BY Facts
  <1>1. /\ TypeOK' /\ Others(boot)
        /\ pc[boot] = "b_kill" /\ pc'[boot] \in {"b_clean", "b_update"}
        /\ at'[boot] = at[boot] /\ released'[boot] = released[boot] /\ at[boot] \in Sandbox
        /\ \A s \in Sandbox : Physical(s)' => Physical(s)
        /\ rec' = rec /\ lock' = lock /\ alloc' = alloc /\ UNCHANGED <<daemon, todo>>
    <2>1. KillStep(boot, "b_kill", "b_clean", "b_update")
      BY DEF RecoverKill
    <2>2. "b_kill" \in BootLabel /\ "b_clean" \in Label /\ "b_update" \in Label
      BY DEF BootLabel, Label
    <2> QED BY <2>1, <2>2, KillShape
  <1>2. RoleInv'
    BY <1>1, FinishRole DEF BootLabel
  <1>3. LocalsOK(boot)' /\ Holds(boot)' /\ Cleared(boot)'
    BY <1>0, <1>1 DEF LocalsOK, Holds, Cleared, Critical
  <1> QED BY <1>1, <1>2, <1>3, StepFrame, RecFrame

(* Recovery's cleanup keeps IInv. *)
LEMMA RecoverCleanStep ==
  ASSUME IInv, RecoverClean
  PROVE  Kept
  <1> USE Processes
  <1>0. /\ StoreType /\ HostType /\ DaemonType /\ GoroutineType
        /\ LocalsOK(boot) /\ Holds(boot) /\ Cleared(boot) /\ Role(boot)
    BY Facts
  <1>1. /\ TypeOK' /\ Others(boot)
        /\ pc[boot] = "b_clean" /\ pc'[boot] = "b_update"
        /\ at'[boot] = at[boot] /\ at[boot] \in Sandbox
        /\ \A s \in Sandbox : Physical(s)' => Physical(s)
        /\ released'[boot] => ~Physical(at[boot])'
        /\ rec' = rec /\ lock' = lock /\ alloc' = alloc /\ UNCHANGED <<daemon, todo>>
    <2>1. CleanStep(boot, "b_clean", "b_update")
      BY DEF RecoverClean
    <2>2. "b_clean" \in BootLabel /\ "b_update" \in Label
      BY DEF BootLabel, Label
    <2> QED BY <2>1, <2>2, CleanShape
  <1>2. RoleInv'
    BY <1>1, FinishRole DEF BootLabel
  <1>3. LocalsOK(boot)' /\ Holds(boot)' /\ Cleared(boot)'
    BY <1>0, <1>1 DEF LocalsOK, Holds, Cleared, Critical
  <1> QED BY <1>1, <1>2, <1>3, StepFrame, RecFrame

(* Recovery's update of an interrupted sandbox keeps IInv. *)
LEMMA RecoverUpdateStep ==
  ASSUME IInv, RecoverUpdate
  PROVE  Kept
  <1> USE Processes
  <1> DEFINE s == at[boot]
             r == IF rec[s].state # "failed"
                  THEN [rec[s] EXCEPT !.state = "failed", !.released = released[boot]]
                  ELSE IF released[boot] THEN [rec[s] EXCEPT !.pid = 0, !.released = TRUE]
                  ELSE rec[s]
  <1>0. /\ StoreType /\ HostType /\ DaemonType /\ GoroutineType
        /\ LocalsOK(boot) /\ Holds(boot) /\ Cleared(boot) /\ Role(boot)
    BY Facts
  <1>1. pc[boot] = "b_update" /\ s \in Sandbox
    BY <1>0 DEF RecoverUpdate, LocalsOK
  <1>2. /\ GoroutineType' /\ Others(boot) /\ RoleInv'
        /\ LocalsOK(boot)' /\ Holds(boot)' /\ Cleared(boot)'
        /\ pc'[boot] \notin {"s_admit", "s_network", "s_vmm"}
    BY <1>1, FinishReturnShape DEF RecoverUpdate, BootLabel
  <1>3. r \in Record
    <2>1. /\ rec[s] \in Record /\ released[boot] \in BOOLEAN /\ 0 \in 0 .. MaxGen
          /\ "failed" \in Live
      BY <1>0, <1>1, Bounds, Constants DEF StoreType, GoroutineType
    <2>2. [rec[s] EXCEPT !.state = "failed", !.released = released[boot]] \in Record
      BY Zenon, <2>1, PutReleased
    <2>3. [rec[s] EXCEPT !.pid = 0, !.released = TRUE] \in Record
      BY Zenon, <2>1, PutPidReleased
    <2> QED BY <2>1, <2>2, <2>3
  <1>4. Update(s, r)
    BY DEF RecoverUpdate
  <1>5. TypeOK'
    <2>1. StoreType'
      <3> HIDE DEF r, s
      <3> QED BY <1>0, <1>3, <1>4, UpdateType DEF RecoverUpdate, StoreType
    <2> QED BY <1>0, <1>2, <2>1, HostTypeFrame DEF TypeOK, DaemonType, RecoverUpdate
  <1>6. Physical(s) => ReservesVMResources(rec'[s])
    <2>1. Physical(s) => ~released[boot] /\ ReservesVMResources(rec[s])
      BY <1>0, <1>1 DEF Cleared, IInv, ClaimInv, Claims
    <2>2. Physical(s) => ReservesVMResources(r)
      BY <1>0, <1>1, <2>1 DEF ReservesVMResources, StoreType, Record
    <2>3. rec'[s] = r \/ rec'[s] = rec[s]
      <3> HIDE DEF r
      <3> QED BY <1>0, <1>1, <1>4 DEF Update, StoreType
    <2> QED BY <2>1, <2>2, <2>3
  <1>7. \A t \in Sandbox \ {s} : rec'[t] = rec[t]
    <2> HIDE DEF r
    <2> QED BY <1>0, <1>4 DEF Update, StoreType
  <1>8. \A t \in Sandbox : Claims(t) => ReservesVMResources(rec'[t])
    BY <1>1, <1>6, <1>7, OwnerWrites DEF BootLabel
  <1> QED BY <1>2, <1>5, <1>8, StepFrame, HostFrame DEF RecoverUpdate

(* Recovery's choice per sandbox (adopt, clean or skip) keeps IInv. *)
LEMMA RecoverScanStep ==
  ASSUME IInv, NEW s \in Sandbox, RecoverScan(s)
  PROVE  Kept
  <1> USE Processes
  <1>0. /\ StoreType /\ HostType /\ DaemonType /\ GoroutineType
        /\ LocalsOK(boot) /\ Holds(boot) /\ Cleared(boot) /\ Role(boot)
    BY Zenon, Facts
  <1>1. /\ pc[boot] = "b_scan" /\ s \in todo /\ todo' = todo \ {s} /\ released[boot] = FALSE
        /\ daemon = "recovering" /\ UNCHANGED <<durable, host, daemon, alloc, lock>>
    BY <1>0 DEF RecoverScan, LocalsOK, GoroutineType, Role, DaemonType
  <1>2. StoreType' /\ HostType'
    BY <1>0, <1>1, StoreFrame, HostTypeFrame
  <1>3. \A t \in Sandbox : Physical(t)' => Physical(t)
    BY <1>1, HostFrame
  <1>4. \A t \in Sandbox : Claims(t) => ReservesVMResources(rec'[t])
    BY <1>1, RecFrame DEF durable
  <1>5. \A m \in Monitor : pc[m] # "idle" => m[1] # s
    BY Zenon, <1>1, Facts DEF Role
  <1>6. CASE RecoverAdopt(s)
    <2> DEFINE m == <<s, rec[s].gen>>
    <2>1. m \in Process => m \in Monitor
      BY <1>0, RecordFields, Kinds DEF StoreType
    <2>2. m[1] = s
      OBVIOUS
    <2>3. /\ ports' = [ports EXCEPT ![s] = TRUE]
          /\ pc' = [pc EXCEPT ![m] = "m_get"]
          /\ at' = [at EXCEPT ![m] = s]
          /\ copy' = [copy EXCEPT ![m] = Identity(rec[s])]
          /\ UNCHANGED <<exit, released, failures>>
      BY <1>6 DEF RecoverAdopt
    <2> HIDE DEF m
    <2>4. boot # m
      BY <2>1, Kinds
    <2>5. /\ \A q \in Process \ {boot, m} :
               pc'[q] = pc[q] /\ at'[q] = at[q] /\ copy'[q] = copy[q] /\ released'[q] = released[q]
          /\ pc'[boot] = "b_scan" /\ released'[boot] = FALSE
          /\ m \in Process => pc'[m] = "m_get" /\ at'[m] = s
      BY Zenon, <1>0, <1>1, <2>3, <2>4 DEF GoroutineType
    <2>6. m \in Process => released'[m] = FALSE
      BY <1>0, <1>5, <2>1, <2>2, <2>3, Facts DEF LocalsOK, GoroutineType
    <2>7. TypeOK'
      <3>1. Identity(rec[s]) \in Record
        BY <1>0, IdentityType DEF StoreType
      <3>2. GoroutineType'
        BY Zenon, <1>0, <2>3, <3>1 DEF GoroutineType, Label
      <3> QED BY <1>0, <1>1, <1>2, <2>3, <3>2 DEF TypeOK, DaemonType
    <2>8. Role(boot)' /\ LocalsOK(boot)' /\ Holds(boot)' /\ Cleared(boot)'
      BY <1>1, <2>5, Kinds DEF Role, LocalsOK, Holds, Cleared, Critical
    <2>9. pc'[boot] \notin FinishLabel \cup BootLabel
      BY <2>5 DEF FinishLabel, BootLabel
    <2>10. m \in Process =>
             /\ m \in Monitor /\ pc'[m] = "m_get" /\ at'[m] = m[1] /\ at'[m] \in Sandbox
             /\ released'[m] = FALSE /\ m[1] \notin todo'
      BY <1>1, <2>1, <2>2, <2>5, <2>6
    <2>11. /\ daemon' = daemon /\ daemon # "down" /\ todo' \subseteq todo /\ alloc' = alloc
           /\ pc'[boot] \notin {"s_admit", "s_network", "s_vmm"}
           /\ \A t \in Sandbox : lock'[t] = lock[t] \/ lock[t] \in {boot, Free}
      BY Zenon, <1>1, <2>5
    <2> QED BY Zenon, <1>3, <1>4, <2>4, <2>5, <2>7, <2>8, <2>9, <2>10, <2>11, SpawnFrame
  <1>7. ASSUME NEW l \in {"n_lock", "b_kill"}, NEW x \in Exit, RecoverWork(s, l, x)
        PROVE  Kept
    <2>1. /\ Others(boot) /\ pc'[boot] = l /\ at'[boot] = s /\ released'[boot] = FALSE
      BY <1>0, <1>1, <1>7 DEF RecoverWork, GoroutineType, Goto, Others
    <2>2. TypeOK'
      <3>1. copy' \in [Process -> Record]
        BY <1>0, <1>7, IdentityType DEF RecoverWork, GoroutineType, StoreType
      <3>2. GoroutineType'
        BY <1>0, <1>7, <3>1 DEF RecoverWork, GoroutineType, Goto, Label
      <3> QED BY Zenon, <1>0, <1>1, <1>2, <1>7, <3>2 DEF TypeOK, DaemonType, RecoverWork
    <2>3. RoleInv'
      <3>1. Role(boot)'
        BY <1>1, <2>1, Kinds DEF Role, FinishLabel, BootLabel
      <3>2. ASSUME NEW q \in Process, q # boot PROVE Role(q)'
        BY Zenon, <1>1, <1>5, <2>1, <3>2, Facts DEF Role, Others
      <3> QED BY Zenon, <1>1, <3>1, <3>2 DEF RoleInv
    <2>4. LocalsOK(boot)' /\ Holds(boot)' /\ Cleared(boot)'
      BY <2>1 DEF LocalsOK, Holds, Cleared, Critical
    <2> QED BY <1>1, <1>3, <1>4, <2>1, <2>2, <2>3, <2>4, StepFrame
  <1>8. CASE UNCHANGED <<ports, pc, at, locals>>
    <2>1. Others(boot) /\ pc'[boot] = "b_scan" /\ released'[boot] = FALSE
      BY <1>1, <1>8 DEF Others, locals
    <2>2. TypeOK'
      BY <1>0, <1>1, <1>2, <1>8 DEF TypeOK, DaemonType, GoroutineType, locals
    <2>3. RoleInv'
      <3>1. \A q \in Process : Role(q)'
        BY <1>1, <1>8, Facts DEF Role
      <3> QED BY <1>1, <3>1 DEF RoleInv
    <2>4. LocalsOK(boot)' /\ Holds(boot)' /\ Cleared(boot)'
      BY <2>1 DEF LocalsOK, Holds, Cleared, Critical
    <2> QED BY <1>1, <1>3, <1>4, <2>1, <2>2, <2>3, <2>4, StepFrame
  <1> QED BY <1>6, <1>7, <1>8, Constants DEF RecoverScan

-----------------------------------------------------------------------------
(* Crash, reboot and the processes outside the daemon. *)

\* The daemon dies; nothing on the host is made by that.
LEMMA DownFrame ==
  ASSUME IInv, DaemonDown, UNCHANGED durable, HostType',
         \A s \in Sandbox : Physical(s)' => Physical(s)
  PROVE  Kept
  <1>0. StoreType /\ DaemonType
    BY DEF IInv, TypeOK
  <1>1. \A p \in Process : pc'[p] = "idle" /\ released'[p] = FALSE
    BY DEF DaemonDown
  <1>2. TypeOK'
    <2>1. DaemonType'
      BY <1>0 DEF DaemonType, DaemonDown
    <2>2. 0 \in 0 .. MaxFailures - 1 /\ "nil" \in Exit /\ "idle" \in Label
      BY Bounds, Constants DEF Label
    <2>3. GoroutineType'
      BY <2>2, UnbornType DEF GoroutineType, DaemonDown
    <2> QED BY <1>0, <2>1, <2>3, StoreFrame DEF TypeOK
  <1>3. \A p \in Process : LocalsOK(p)' /\ Role(p)' /\ Holds(p)' /\ Cleared(p)'
    BY <1>1 DEF LocalsOK, Role, Holds, Cleared, Critical, DaemonDown, BootLabel
  <1>4. \A s \in Sandbox : Claims(s)' => Claims(s)
    BY <1>1, Processes DEF Claims, Starting
  <1>5. \A s \in Sandbox : Claims(s)' => ReservesVMResources(rec[s])'
    BY <1>4 DEF IInv, ClaimInv, durable
  <1>6. daemon' # "up"
    BY DEF DaemonDown
  <1>7. NoNewClaim
    BY <1>1, <1>4, Processes DEF NoNewClaim
  <1> QED BY <1>2, <1>3, <1>5, <1>6, <1>7
          DEF IInv, LocalsInv, RoleInv, LockInv, ClaimInv, Kept

(* A crash of the daemon keeps IInv: the reservation is in the database. *)
LEMMA CrashStep == ASSUME IInv, Crash PROVE Kept
  <1>1. HostType
    BY DEF IInv, TypeOK
  <1> QED BY <1>1, DownFrame, HostTypeFrame, HostFrame DEF Crash

(* A reboot of the host keeps IInv. *)
LEMMA HostRebootStep == ASSUME IInv, HostReboot PROVE Kept
  <1>0. HostType
    BY DEF IInv, TypeOK
  <1>1. HostType'
    BY <1>0 DEF HostType, HostReboot
  <1>2. \A s \in Sandbox, g \in Gen : vmm'[s][g] \in {"none", "dead"}
    BY DEF HostReboot
  <1>3. \A s \in Sandbox : Physical(s)' => Physical(s)
    BY <1>2 DEF Physical, HasVMM, HostReboot
  <1> QED BY <1>1, <1>3, DownFrame DEF HostReboot

\* Nothing but host resources changes, and none appears.
LEMMA OutsideFrame ==
  ASSUME IInv, UNCHANGED <<durable, memory>>, HostType',
         \A s \in Sandbox : Physical(s)' => Physical(s)
  PROVE  Kept
  <1>0. StoreType /\ DaemonType /\ GoroutineType
    BY DEF IInv, TypeOK
  <1>1. /\ UNCHANGED <<daemon, todo, ports, alloc, lock, pc, at, copy, exit, released, failures>>
        /\ rec' = rec
    BY DEF memory, locals, durable
  <1>2. TypeOK'
    BY <1>0, <1>1, StoreFrame DEF TypeOK, DaemonType, GoroutineType
  <1>3. LocalsInv' /\ RoleInv' /\ LockInv'
    BY Zenon, <1>1 DEF IInv, LocalsInv, LocalsOK, RoleInv, Role, LockInv, Holds
  <1>4. \A s \in Sandbox : Claims(s)' => Claims(s)
    BY <1>1 DEF Claims, Starting
  <1>5. \A p \in Process : Cleared(p)'
    BY <1>1, <1>4, Facts DEF Cleared, LocalsOK
  <1>6. ClaimInv'
    BY <1>1, <1>4, <1>5 DEF IInv, ClaimInv
  <1>7. NoNewClaim
    BY <1>1, <1>4 DEF NoNewClaim
  <1> QED BY <1>2, <1>3, <1>6, <1>7 DEF IInv, Kept

(* The jailer, the VMM and the application acting by themselves keep IInv. *)
LEMMA EnvironmentStep ==
  ASSUME IInv, NEW s \in Sandbox, NEW g \in Gen, Environment(s, g)
  PROVE  Kept
  <1>0. HostType
    BY DEF IInv, TypeOK
  <1>1. ASSUME NEW x \in {"none", "launched", "joined", "live", "dead"},
               vmm' = [vmm EXCEPT ![s][g] = x], UNCHANGED <<jail, net>>,
               \/ x = "dead"
               \/ vmm[s][g] = "launched" /\ x = "joined"
               \/ vmm[s][g] = "joined" /\ jail[s] /\ x = "live"
        PROVE  \A t \in Sandbox : Physical(t)' => Physical(t)
    <2>1. /\ \A t \in Sandbox \ {s} : vmm'[t] = vmm[t]
          /\ \A h \in Gen : vmm'[s][h] = IF h = g THEN x ELSE vmm[s][h]
      BY Zenon, <1>0, <1>1, PutVMM
    <2>2. \A t \in Sandbox : HasVMM(t)' => HasVMM(t)
      BY <1>1, <2>1 DEF HasVMM
    <2> QED BY Zenon, <1>1, <2>2 DEF Physical
  <1>2. CASE JailerJoins(s, g)
    <2>1. HostType'
      BY Zenon, <1>0, <1>2, PutVMM DEF HostType, JailerJoins
    <2> QED BY <1>1, <1>2, <2>1, OutsideFrame DEF JailerJoins
  <1>3. CASE VMMBoots(s, g)
    <2>1. g \in 0 .. MaxGen
      BY Bounds DEF Gen
    <2>2. pidfile' \in [Sandbox -> 0 .. MaxGen]
      BY <1>0, <1>3, <2>1 DEF HostType, VMMBoots
    <2>3. /\ vmm' \in [Sandbox -> [Gen -> {"none", "launched", "joined", "live", "dead"}]]
          /\ guest' \in [Sandbox -> [Gen -> {"none", "ready", "running", "exited"}]]
      BY Zenon, <1>0, <1>3, PutVMM, PutGuest DEF VMMBoots
    <2>4. HostType'
      BY <1>0, <1>3, <2>2, <2>3 DEF HostType, VMMBoots
    <2> QED BY <1>1, <1>3, <2>4, OutsideFrame DEF VMMBoots
  <1>4. CASE VMMDies(s, g)
    <2>1. HostType'
      BY Zenon, <1>0, <1>4, PutVMM DEF HostType, VMMDies
    <2> QED BY <1>1, <1>4, <2>1, OutsideFrame DEF VMMDies
  <1>5. CASE AppExits(s, g)
    <2>1. guest' \in [Sandbox -> [Gen -> {"none", "ready", "running", "exited"}]]
      BY Zenon, <1>0, <1>5, PutGuest DEF AppExits
    <2>2. HostType'
      BY <1>0, <1>5, <2>1 DEF HostType, AppExits
    <2> QED BY <1>5, <2>2, OutsideFrame, GuestFrame DEF AppExits
  <1> QED BY <1>2, <1>3, <1>4, <1>5 DEF Environment
=============================================================================
