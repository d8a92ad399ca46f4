---------------------- MODULE LifecycleCreate_proofs ------------------------
(***************************************************************************)
(* The invariants of Lifecycle: Create, the first reads of all requests,   *)
(* and Start up to the launch of the VMM.                                  *)
(***************************************************************************)
EXTENDS LifecycleFrame_proofs

-----------------------------------------------------------------------------
(* Requests and Create. *)

(* Accepting a request leaves the other goroutines alone. *)
LEMMA RequestOthers ==
  ASSUME IInv, NEW w \in Worker, NEW s \in Sandbox, NEW op, NEW l \in Label, Request(w, s, op, l)
  PROVE  /\ \A q \in Process \ {w} : pc'[q] = pc[q] /\ at'[q] = at[q]
         /\ pc[w] = "idle" /\ pc'[w] = l /\ at'[w] = s
         /\ released[w] = FALSE /\ daemon = "up"
         /\ pc' \in [Process -> Label] /\ at' \in [Process -> Sandbox \cup {NoSandbox}]
  <1>1. GoroutineType /\ LocalsOK(w) BY Facts, Processes
  <1> QED BY <1>1, Processes DEF Request, Goto, GoroutineType, LocalsOK

(* Create taking the allocations lock (daemon.go, Create) keeps IInv. *)
LEMMA CreateLockStep ==
  ASSUME IInv, NEW w \in Worker, NEW s \in Sandbox, CreateLock(w, s)
  PROVE  Kept
  <1> USE Processes
  <1>0. /\ StoreType /\ HostType /\ DaemonType /\ GoroutineType
        /\ LocalsOK(w) /\ Holds(w) /\ Cleared(w)
    BY Facts
  <1>1. /\ \A q \in Process \ {w} : pc'[q] = pc[q] /\ at'[q] = at[q]
        /\ pc[w] = "idle" /\ pc'[w] = "c_list" /\ at'[w] = s
        /\ released[w] = FALSE /\ daemon = "up"
        /\ pc' \in [Process -> Label] /\ at' \in [Process -> Sandbox \cup {NoSandbox}]
    <2>1. "c_list" \in Label BY DEF Label
    <2>2. Request(w, s, "create", "c_list") BY DEF CreateLock
    <2> QED BY Zenon, <2>1, <2>2, RequestOthers
  <1>2. Others(w) /\ pc'[w] = "c_list" /\ at'[w] = s /\ released'[w] = FALSE
    BY <1>0, <1>1 DEF CreateLock, Others, GoroutineType, locals
  <1>3. TypeOK'
    <2>1. GoroutineType'
      BY <1>0, <1>1 DEF CreateLock, GoroutineType, locals
    <2> QED BY <1>0, <2>1, StoreFrame, HostTypeFrame DEF TypeOK, CreateLock, DaemonType
  <1>4. LocalsInv' /\ RoleInv'
    BY <1>1, <1>2, LocalsFrame, WorkerRole DEF LocalsOK, CreateLock
  <1>5. LockInv'
    BY <1>2, LockFrame DEF Holds, CreateLock, Critical
  <1>6. ClaimInv' /\ NoNewClaim
    <2>1. ~Claims(s) BY DEF IInv, ClaimInv, CreateLock, ReservesVMResources
    <2>2. Cleared(w)'
      BY <1>2, <2>1, HostFrame, Processes DEF Cleared, CreateLock, Claims, Starting, Others
    <2> QED BY <1>2, <2>2, ClaimFrame, HostFrame, RecFrame DEF CreateLock, durable
  <1> QED BY <1>3, <1>4, <1>5, <1>6 DEF IInv, Kept

(* Start's first read keeps IInv. *)
LEMMA StartGetStep ==
  ASSUME IInv, NEW w \in Worker, NEW s \in Sandbox, StartGet(w, s)
  PROVE  Kept
  <1> USE Processes
  <1>0. /\ StoreType /\ HostType /\ DaemonType /\ GoroutineType
        /\ LocalsOK(w) /\ Holds(w) /\ Cleared(w)
    BY Facts
  <1>1. /\ \A q \in Process \ {w} : pc'[q] = pc[q] /\ at'[q] = at[q]
        /\ pc[w] = "idle" /\ pc'[w] = "s_lock" /\ at'[w] = s
        /\ released[w] = FALSE /\ daemon = "up"
        /\ pc' \in [Process -> Label] /\ at' \in [Process -> Sandbox \cup {NoSandbox}]
    <2>1. "s_lock" \in Label BY DEF Label
    <2>2. Request(w, s, "start", "s_lock") BY DEF StartGet
    <2> QED BY Zenon, <2>1, <2>2, RequestOthers
  <1>2. Others(w) /\ pc'[w] = "s_lock" /\ at'[w] = s /\ released'[w] = FALSE
    BY <1>0, <1>1 DEF StartGet, Others, GoroutineType, locals
  <1>3. TypeOK'
    <2>1. GoroutineType'
      BY Zenon, <1>0, <1>1 DEF StartGet, GoroutineType, locals
    <2> QED BY <1>0, <2>1, StoreFrame, HostTypeFrame DEF TypeOK, StartGet, DaemonType
  <1>4. LocalsInv' /\ RoleInv'
    BY Zenon, <1>1, <1>2, LocalsFrame, WorkerRole DEF LocalsOK, StartGet
  <1>5. LockInv'
    BY Zenon, <1>2, LockFrame DEF Holds, StartGet, Critical
  <1>6. ClaimInv' /\ NoNewClaim
    <2>1. Cleared(w)' BY <1>2 DEF Cleared
    <2> QED BY <1>2, <2>1, ClaimFrame, HostFrame, RecFrame DEF StartGet, durable
  <1> QED BY <1>3, <1>4, <1>5, <1>6 DEF IInv, Kept

(* Stop's first read keeps IInv. *)
LEMMA StopGetStep ==
  ASSUME IInv, NEW w \in Worker, NEW s \in Sandbox, StopGet(w, s)
  PROVE  Kept
  <1> USE Processes
  <1>0. /\ StoreType /\ HostType /\ DaemonType /\ GoroutineType
        /\ LocalsOK(w) /\ Holds(w) /\ Cleared(w)
    BY Facts
  <1>1. /\ \A q \in Process \ {w} : pc'[q] = pc[q] /\ at'[q] = at[q]
        /\ pc[w] = "idle" /\ pc'[w] = "t_mark" /\ at'[w] = s
        /\ released[w] = FALSE /\ daemon = "up"
        /\ pc' \in [Process -> Label] /\ at' \in [Process -> Sandbox \cup {NoSandbox}]
    <2>1. "t_mark" \in Label BY Zenon DEF Label
    <2>2. Request(w, s, "stop", "t_mark") BY Zenon DEF StopGet
    <2> QED BY Zenon, <2>1, <2>2, RequestOthers
  <1>2. Others(w) /\ pc'[w] = "t_mark" /\ at'[w] = s /\ released'[w] = FALSE
    BY <1>0, <1>1 DEF StopGet, Others, GoroutineType, locals
  <1>3. TypeOK'
    <2>1. copy' \in [Process -> Record]
      BY Zenon, <1>0, IdentityType DEF StopGet, GoroutineType, StoreType
    <2>2. GoroutineType'
      BY <1>0, <1>1, <2>1 DEF StopGet, GoroutineType
    <2> QED BY <1>0, <2>2, StoreFrame, HostTypeFrame DEF TypeOK, StopGet, DaemonType
  <1>4. LocalsInv' /\ RoleInv'
    BY <1>1, <1>2, LocalsFrame, WorkerRole DEF LocalsOK, StopGet
  <1>5. LockInv'
    BY Zenon, <1>2, LockFrame DEF Holds, StopGet, Critical
  <1>6. ClaimInv' /\ NoNewClaim
    <2>1. Cleared(w)' BY <1>2 DEF Cleared
    <2> QED BY <1>2, <2>1, ClaimFrame, HostFrame, RecFrame DEF StopGet, durable
  <1> QED BY <1>3, <1>4, <1>5, <1>6 DEF IInv, Kept

(* Remove's first read keeps IInv. *)
LEMMA RemoveGetStep ==
  ASSUME IInv, NEW w \in Worker, NEW s \in Sandbox, RemoveGet(w, s)
  PROVE  Kept
  <1> USE Processes
  <1>0. /\ StoreType /\ HostType /\ DaemonType /\ GoroutineType
        /\ LocalsOK(w) /\ Holds(w) /\ Cleared(w)
    BY Facts
  <1>1. /\ \A q \in Process \ {w} : pc'[q] = pc[q] /\ at'[q] = at[q]
        /\ pc[w] = "idle" /\ pc'[w] = "r_lock" /\ at'[w] = s
        /\ released[w] = FALSE /\ daemon = "up"
        /\ pc' \in [Process -> Label] /\ at' \in [Process -> Sandbox \cup {NoSandbox}]
    <2>1. "r_lock" \in Label BY DEF Label
    <2>2. Request(w, s, "remove", "r_lock") BY DEF RemoveGet
    <2> QED BY Zenon, <2>1, <2>2, RequestOthers
  <1>2. Others(w) /\ pc'[w] = "r_lock" /\ at'[w] = s /\ released'[w] = FALSE
    BY <1>0, <1>1 DEF RemoveGet, Others, GoroutineType, locals
  <1>3. TypeOK'
    <2>1. GoroutineType'
      BY Zenon, <1>0, <1>1 DEF RemoveGet, GoroutineType, locals
    <2> QED BY <1>0, <2>1, StoreFrame, HostTypeFrame DEF TypeOK, RemoveGet, DaemonType
  <1>4. LocalsInv' /\ RoleInv'
    BY Zenon, <1>1, <1>2, LocalsFrame, WorkerRole DEF LocalsOK, RemoveGet
  <1>5. LockInv'
    BY Zenon, <1>2, LockFrame DEF Holds, RemoveGet, Critical
  <1>6. ClaimInv' /\ NoNewClaim
    <2>1. Cleared(w)' BY Zenon, <1>2 DEF Cleared
    <2> QED BY <1>2, <2>1, ClaimFrame, HostFrame, RecFrame DEF RemoveGet, durable
  <1> QED BY <1>3, <1>4, <1>5, <1>6 DEF IInv, Kept

(* Create's conflict checks keep IInv. *)
LEMMA CreateListStep ==
  ASSUME IInv, NEW w \in Worker, CreateList(w)
  PROVE  Kept
  <1> USE Processes
  <1>0. /\ StoreType /\ HostType /\ DaemonType /\ GoroutineType
        /\ LocalsOK(w) /\ Holds(w) /\ Cleared(w)
    BY Facts
  <1>1. pc[w] = "c_list" /\ alloc = w /\ released[w] = FALSE
    BY Zenon, <1>0 DEF CreateList, Holds, LocalsOK, GoroutineType
  <1>2. CASE Return(w) /\ alloc' = Free
    <2>1. TypeOK'
      BY Zenon, <1>0, <1>2, ReturnType, StoreFrame, HostTypeFrame DEF TypeOK, DaemonType, CreateList
    <2>2. Others(w) /\ pc'[w] = "idle" /\ released'[w] = FALSE
      BY Zenon, <1>0, <1>2, ReturnOthers
    <2>3. LocalsOK(w)' /\ Holds(w)' /\ Cleared(w)'
      BY <2>2 DEF LocalsOK, Holds, Cleared, Critical
    <2> QED BY Zenon, <1>1, <1>2, <2>1, <2>2, <2>3, WorkerFrame, HostFrame, RecFrame DEF CreateList, durable
  <1>3. CASE /\ \E n \in FreeSlots : copy' = [copy EXCEPT ![w] =
                           [Unborn EXCEPT !.state = "creating", !.slot = n]]
             /\ Goto(w, "c_insert")
             /\ UNCHANGED <<at, alloc, exit, released, failures>>
    <2>1. copy' \in [Process -> Record]
      <3>1. PICK n \in FreeSlots : copy' = [copy EXCEPT ![w] =
                           [Unborn EXCEPT !.state = "creating", !.slot = n]]
        BY Zenon, <1>3
      <3>2. n \in 0 .. MaxSlot
        BY Bounds DEF FreeSlots
      <3>3. [Unborn EXCEPT !.state = "creating", !.slot = n] \in Record
        BY Zenon, <3>2, UnbornType, PutSlot, Constants
      <3> QED BY <1>0, <3>1, <3>3 DEF GoroutineType
    <2>2. GoroutineType'
      BY <1>0, <1>3, <2>1 DEF GoroutineType, Goto, Label
    <2>3. TypeOK'
      BY Zenon, <1>0, <1>3, <2>2, StoreFrame, HostTypeFrame DEF TypeOK, DaemonType, CreateList
    <2>4. Others(w) /\ pc'[w] = "c_insert" /\ at'[w] = at[w] /\ released'[w] = FALSE
      BY <1>0, <1>1, <1>3 DEF GoroutineType, Goto, Others
    <2>5. LocalsOK(w)' /\ Holds(w)'
      BY <1>0, <1>1, <1>3, <2>4 DEF LocalsOK, Holds, Critical
    <2>6. Cleared(w)'
      BY Zenon, <1>0, <1>1, <2>4, HostFrame DEF Cleared, Claims, Starting, Others, CreateList
    <2> QED BY Zenon, <1>1, <1>3, <2>3, <2>4, <2>5, <2>6, WorkerFrame, HostFrame, RecFrame DEF CreateList, durable
  <1> QED BY Zenon, <1>2, <1>3 DEF CreateList

(* Create's insert adds a record that claims nothing, and keeps IInv. *)
LEMMA CreateInsertStep ==
  ASSUME IInv, NEW w \in Worker, CreateInsert(w)
  PROVE  Kept
  <1> USE Processes
  <1>0. /\ StoreType /\ HostType /\ DaemonType /\ GoroutineType
        /\ LocalsOK(w) /\ Holds(w) /\ Cleared(w)
    BY Facts
  <1>1. /\ Others(w) /\ pc[w] = "c_insert" /\ pc'[w] = "c_prepare" /\ at'[w] = at[w]
        /\ released'[w] = released[w] /\ released[w] = FALSE
    BY <1>0, GotoOthers DEF CreateInsert, LocalsOK, GoroutineType
  <1>2. TypeOK'
    <2>1. StoreType'
      BY Zenon, <1>0 DEF CreateInsert, StoreType, GoroutineType
    <2>2. GoroutineType'
      BY <1>0, GotoType DEF CreateInsert, Label
    <2> QED BY <1>0, <2>1, <2>2, HostTypeFrame DEF TypeOK, DaemonType, CreateInsert
  <1>3. LocalsOK(w)' /\ Holds(w)'
    BY <1>0, <1>1 DEF LocalsOK, Holds, Critical, CreateInsert
  <1>4. Cleared(w)'
    BY Zenon, <1>0, <1>1, HostFrame DEF Cleared, Claims, Starting, Others, CreateInsert
  <1>5. \A s \in Sandbox : Claims(s) => ReservesVMResources(rec'[s])
    BY <1>0, <1>1 DEF CreateInsert, StoreType, Cleared, IInv, ClaimInv
  <1> QED BY Zenon, <1>1, <1>2, <1>3, <1>4, <1>5, WorkerFrame, HostFrame DEF CreateInsert

(* Create's final update keeps IInv. *)
LEMMA CreateDoneStep ==
  ASSUME IInv, NEW w \in Worker, CreateDone(w)
  PROVE  Kept
  <1> USE Processes
  <1>0. /\ StoreType /\ HostType /\ DaemonType /\ GoroutineType
        /\ LocalsOK(w) /\ Holds(w) /\ Cleared(w)
    BY Facts
  <1>1. /\ Others(w) /\ pc[w] = "c_prepare" /\ pc'[w] = "idle" /\ released'[w] = FALSE
        /\ alloc = w
    BY Zenon, <1>0, ReturnOthers DEF CreateDone, Holds
  <1>2. TypeOK'
    <2>1. StoreType'
      <3>1. [copy[w] EXCEPT !.state = "created", !.base = TRUE] \in Record
        BY Zenon, <1>0, PutBase, Constants DEF GoroutineType
      <3> QED BY <1>0, <3>1, UpdateType DEF CreateDone, StoreType
    <2> QED BY <1>0, <2>1, ReturnType, HostTypeFrame DEF TypeOK, DaemonType, CreateDone
  <1>3. LocalsOK(w)' /\ Holds(w)' /\ Cleared(w)'
    BY <1>1 DEF LocalsOK, Holds, Cleared, Critical
  <1>4. \A s \in Sandbox : Claims(s) => ReservesVMResources(rec'[s])
    BY Zenon, <1>0, <1>1 DEF CreateDone, Update, StoreType, Cleared, IInv, ClaimInv
  <1> QED BY <1>1, <1>2, <1>3, <1>4, WorkerFrame, HostFrame DEF CreateDone

(* Create's failure path keeps IInv: a sandbox in creation has no VMM to
   lose. *)
LEMMA CreateFailStep ==
  ASSUME IInv, NEW w \in Worker, CreateFail(w)
  PROVE  Kept
  <1> USE Processes
  <1>0. /\ StoreType /\ HostType /\ DaemonType /\ GoroutineType
        /\ LocalsOK(w) /\ Holds(w) /\ Cleared(w)
    BY Facts
  <1>1. /\ Others(w) /\ pc[w] = "c_prepare" /\ pc'[w] = "idle" /\ released'[w] = FALSE
        /\ alloc = w
    BY Zenon, <1>0, ReturnOthers DEF CreateFail, Holds
  <1>2. TypeOK'
    <2>1. StoreType'
      BY Zenon, <1>0, <1>1, TransitionType, Constants DEF CreateFail, StoreType, LocalsOK
    <2> QED BY <1>0, <2>1, ReturnType, HostTypeFrame DEF TypeOK, DaemonType, CreateFail
  <1>3. LocalsOK(w)' /\ Holds(w)' /\ Cleared(w)'
    BY <1>1 DEF LocalsOK, Holds, Cleared, Critical
  <1>4. \A s \in Sandbox : Claims(s) => ReservesVMResources(rec'[s])
    BY <1>0, <1>1 DEF CreateFail, UpdateTransition, StoreType, Cleared, IInv, ClaimInv
  <1> QED BY <1>1, <1>2, <1>3, <1>4, WorkerFrame, HostFrame DEF CreateFail

-----------------------------------------------------------------------------
(* Start. *)

(* Start taking the sandbox lock and re-reading keeps IInv. *)
LEMMA StartLockStep ==
  ASSUME IInv, NEW w \in Worker, StartLock(w)
  PROVE  Kept
  <1> USE Processes
  <1>0. /\ StoreType /\ HostType /\ DaemonType /\ GoroutineType
        /\ LocalsOK(w) /\ Holds(w) /\ Cleared(w)
    BY Facts
  <1>1. pc[w] = "s_lock" /\ at[w] \in Sandbox /\ lock[at[w]] = Free /\ released[w] = FALSE
    BY <1>0 DEF StartLock, LocalsOK, GoroutineType
  <1>2. CASE Return(w) /\ UNCHANGED lock
    <2>1. TypeOK'
      BY Zenon, <1>0, <1>2, ReturnType, StoreFrame, HostTypeFrame DEF TypeOK, DaemonType, StartLock, Unlock
    <2>2. Others(w) /\ pc'[w] = "idle" /\ released'[w] = FALSE
      BY Zenon, <1>0, <1>2, ReturnOthers
    <2>3. LocalsOK(w)' /\ Holds(w)' /\ Cleared(w)'
      BY <2>2 DEF LocalsOK, Holds, Cleared, Critical
    <2> QED BY Zenon, <1>1, <1>2, <2>1, <2>2, <2>3, WorkerFrame, HostFrame, RecFrame DEF StartLock, durable
  <1>3. CASE /\ rec[at[w]].gen < MaxGen
             /\ lock' = [lock EXCEPT ![at[w]] = w]
             /\ copy' = [copy EXCEPT ![w] = rec[at[w]]]
             /\ Goto(w, "s_alloc")
             /\ UNCHANGED <<at, exit, released, failures>>
    <2>1. TypeOK'
      <3>1. GoroutineType'
        BY <1>0, <1>1, <1>3 DEF GoroutineType, StoreType, Goto, Label
      <3> QED BY Zenon, <1>0, <1>3, <3>1, StoreFrame, HostTypeFrame DEF TypeOK, DaemonType, StartLock
    <2>2. /\ Others(w) /\ pc'[w] = "s_alloc" /\ at'[w] = at[w] /\ released'[w] = FALSE
          /\ copy'[w] = rec[at[w]]
      BY <1>0, <1>1, <1>3 DEF GoroutineType, Goto, Others
    <2>3. LocalsOK(w)' /\ Holds(w)' /\ Cleared(w)'
      BY Zenon, <1>0, <1>1, <1>3, <2>2 DEF LocalsOK, Holds, Cleared, Critical, DaemonType
    <2>4. \A s \in Sandbox : lock'[s] = lock[s] \/ lock[s] \in {w, Free}
      BY <1>0, <1>1, <1>3 DEF DaemonType
    <2> QED BY <1>1, <2>1, <2>2, <2>3, <2>4, WorkerFrame, HostFrame, RecFrame DEF StartLock, durable
  <1> QED BY <1>2, <1>3 DEF StartLock

\* A Start is let through: it shares no volume with a claim and fits in the memory.
Checked(w) ==
  /\ pc'[w] = "s_admit" /\ at'[w] = at[w] /\ at[w] \in Sandbox
  /\ \A s \in Sandbox : Claims(s)' => Claims(s)
  /\ \A v \in Worker \ {w} : pc'[v] = "s_admit" => pc[v] = "s_admit" /\ at'[v] = at[v]
  /\ \A t \in Reserving \ {at[w]} : VolumesOf[t] \cap VolumesOf[at[w]] = {}
  /\ Cardinality(Reserving) + 1 <= Budget

(* Start's volume and memory check under the allocations lock keeps IInv. *)
LEMMA StartAllocStep ==
  ASSUME IInv, NEW w \in Worker, StartAlloc(w)
  PROVE  Kept \/ (IInv' /\ Checked(w))
  <1> USE Processes
  <1>0. /\ StoreType /\ HostType /\ DaemonType /\ GoroutineType
        /\ LocalsOK(w) /\ Holds(w) /\ Cleared(w)
    BY Facts
  <1>1. /\ pc[w] = "s_alloc" /\ at[w] \in Sandbox /\ lock[at[w]] = w
        /\ released[w] = FALSE /\ alloc = Free
    BY <1>0 DEF StartAlloc, LocalsOK, Holds, Critical, GoroutineType
  <1>2. CASE Unlock(w) /\ Return(w) /\ UNCHANGED alloc
    <2>0. lock' \in [Sandbox -> Process \cup {Free}]
      BY <1>0, <1>1, <1>2, UnlockOwn
    <2>1. TypeOK'
      BY Zenon, <1>0, <1>2, <2>0, ReturnType, StoreFrame, HostTypeFrame DEF TypeOK, DaemonType, StartAlloc
    <2>2. Others(w) /\ pc'[w] = "idle" /\ released'[w] = FALSE
      BY Zenon, <1>0, <1>2, ReturnOthers
    <2>3. LocalsOK(w)' /\ Holds(w)' /\ Cleared(w)'
      BY <2>2 DEF LocalsOK, Holds, Cleared, Critical
    <2>4. \A s \in Sandbox : lock'[s] = lock[s] \/ lock[s] \in {w, Free}
      BY <1>0, <1>1, <1>2, UnlockOwn
    <2> QED BY Zenon, <1>1, <1>2, <2>1, <2>2, <2>3, <2>4, WorkerFrame, HostFrame, RecFrame DEF StartAlloc, durable
  <1>3. CASE /\ \A t \in Reserving \ {at[w]} : VolumesOf[t] \cap VolumesOf[at[w]] = {}
             /\ Cardinality(Reserving) + 1 <= Budget
             /\ alloc' = w /\ Goto(w, "s_admit") /\ UNCHANGED <<lock, at, locals>>
    <2>1. TypeOK'
      <3>1. GoroutineType'
        BY <1>0, <1>3, GotoType DEF Label
      <3> QED BY Zenon, <1>0, <1>3, <3>1, StoreFrame, HostTypeFrame DEF TypeOK, DaemonType, StartAlloc
    <2>2. /\ Others(w) /\ pc'[w] = "s_admit" /\ at'[w] = at[w] /\ released'[w] = FALSE
          /\ copy'[w] = copy[w]
      BY Zenon, <1>0, <1>1, <1>3, GotoOthers
    <2>3. LocalsOK(w)' /\ Holds(w)' /\ Cleared(w)'
      BY Zenon, <1>0, <1>1, <1>3, <2>2 DEF LocalsOK, Holds, Cleared, Critical
    <2>4. LocalsInv' /\ LockInv'
      BY <1>1, <1>3, <2>2, <2>3, LocalsFrame, LockFrame
    <2>5. RoleInv'
      BY Zenon, <1>1, <2>2, WorkerUp, WorkerRole DEF StartAlloc
    <2>6. ClaimInv'
      BY Zenon, <2>2, <2>3, ClaimFrame, HostFrame, RecFrame DEF StartAlloc, durable
    <2>7. \A s \in Sandbox : Claims(s)' => Claims(s)
      BY Zenon, <2>2, HostFrame DEF Claims, Starting, Others, StartAlloc
    <2>8. Checked(w)
      BY <1>1, <1>3, <2>2, <2>7 DEF Checked, Others
    <2> QED BY Zenon, <2>1, <2>4, <2>5, <2>6, <2>8 DEF IInv
  <1> QED BY Zenon, <1>2, <1>3 DEF StartAlloc

(* Start committing the PID keeps IInv. *)
LEMMA StartPIDStep ==
  ASSUME IInv, NEW w \in Worker, StartPID(w)
  PROVE  Kept
  <1> USE Processes
  <1>0. /\ StoreType /\ HostType /\ DaemonType /\ GoroutineType
        /\ LocalsOK(w) /\ Holds(w) /\ Cleared(w)
    BY Facts
  <1>1. /\ Others(w) /\ pc[w] = "s_pid" /\ pc'[w] = "s_ready" /\ at'[w] = at[w]
        /\ released'[w] = released[w]
    BY <1>0, GotoOthers DEF StartPID
  <1>2. TypeOK'
    <2>1. [rec[at[w]] EXCEPT !.pid = copy[w].pid] \in Record
      BY <1>0, PutPid, RecordFields DEF StoreType, GoroutineType, LocalsOK, StartPID
    <2>2. StoreType'
      BY <1>0, <2>1, UpdateType DEF StartPID, StoreType
    <2>3. GoroutineType'
      BY <1>0, GotoType DEF StartPID, Label
    <2> QED BY <1>0, <2>2, <2>3, HostTypeFrame DEF TypeOK, DaemonType, StartPID
  <1>3. LocalsOK(w)' /\ Holds(w)' /\ Cleared(w)'
    BY <1>0, <1>1 DEF LocalsOK, Holds, Cleared, Critical, StartPID
  <1>4. \A s \in Sandbox : Claims(s) => ReservesVMResources(rec'[s])
    BY DEF StartPID, Update, ReservesVMResources, IInv, ClaimInv, TypeOK, StoreType, Record
  <1> QED BY <1>1, <1>2, <1>3, <1>4, WorkerFrame, HostFrame DEF StartPID

(* Start's readiness poll keeps IInv. *)
LEMMA StartReadyStep ==
  ASSUME IInv, NEW w \in Worker, StartReady(w)
  PROVE  Kept
  <1> USE Processes
  <1>0. /\ StoreType /\ HostType /\ DaemonType /\ GoroutineType
        /\ LocalsOK(w) /\ Holds(w) /\ Cleared(w)
    BY Facts
  <1>1. PICK l \in {"s_guest", "f_kill"} : Goto(w, l)
    BY DEF StartReady
  <1>2. /\ Others(w) /\ pc[w] = "s_ready" /\ pc'[w] = l /\ at'[w] = at[w]
        /\ released'[w] = released[w]
    BY <1>0, <1>1, GotoOthers DEF StartReady
  <1>3. TypeOK'
    <2>1. GoroutineType'
      BY Zenon, <1>0, <1>1, GotoType DEF StartReady, Label
    <2> QED BY <1>0, <2>1, StoreFrame, HostTypeFrame DEF TypeOK, DaemonType, StartReady
  <1>4. LocalsOK(w)' /\ Holds(w)' /\ Cleared(w)'
    BY <1>0, <1>2 DEF LocalsOK, Holds, Cleared, Critical, StartReady
  <1> QED BY Zenon, <1>2, <1>3, <1>4, WorkerFrame, HostFrame, RecFrame DEF StartReady, durable
=============================================================================
