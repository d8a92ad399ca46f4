---------------------- MODULE LifecycleFrame_proofs -------------------------
(***************************************************************************)
(* The invariants of Lifecycle: what the proofs of all actions share.      *)
(*                                                                         *)
(* The whole argument.  ResourcesReserved, that whatever may still use a   *)
(* sandbox's memory, volume, network or jail is held by a record that      *)
(* reserves it, is not inductive: it rests on who may clear a record.      *)
(* IInv adds that a goroutine's program counter and its local copy fit     *)
(* together (LocalsInv, RoleInv), that a goroutine in a critical section   *)
(* holds the sandbox's lock and only one does (LockInv), and that a        *)
(* sandbox that was let go has nothing left on the host (ClaimInv).        *)
(*                                                                         *)
(* Every action gets a lemma: IInv and the action imply Kept, which is     *)
(* IInv' and that no sandbox begins to reserve, but in the two steps of    *)
(* Start that check for it under the allocations lock.  The frame lemmas   *)
(* reduce an action to the goroutine that takes it: what the others        *)
(* rely on is what it leaves alone.                                        *)
(***************************************************************************)
EXTENDS Lifecycle, TLAPS

(* Workers, monitors and the boot goroutine are all processes. *)
LEMMA Processes == /\ Worker \subseteq Process /\ Monitor \subseteq Process
                   /\ boot \in Process
  BY DEF Process

(* The bounds of the model are natural numbers. *)
LEMMA Bounds == /\ MaxGen \in Nat /\ MaxSlot \in Nat /\ MaxFailures \in Nat \ {0}
  BY LifecycleAssumption

\* The updates the actions make to a record keep its type.
LEMMA UnbornType == Unborn \in Record
  BY LifecycleAssumption DEF Record, Unborn, Live, Exit

(* Writing one field of a record of the store (here its state) keeps its
   type. *)
LEMMA PutState == \A r \in Record, st \in Live : [r EXCEPT !.state = st] \in Record
  BY DEF Record
(* Writing the committed PID keeps a record's type. *)
LEMMA PutPid == \A r \in Record, p \in 0 .. MaxGen : [r EXCEPT !.pid = p] \in Record
  BY DEF Record
(* Create's insert writes a state and a slot: a record again. *)
LEMMA PutSlot ==
  \A r \in Record, st \in Live, n \in 0 .. MaxSlot :
    [r EXCEPT !.state = st, !.slot = n] \in Record
  BY Zenon DEF Record
(* Create's last update writes a state and a base: a record again. *)
LEMMA PutBase ==
  \A r \in Record, st \in Live, b \in BOOLEAN :
    [r EXCEPT !.state = st, !.base = b] \in Record
  BY Zenon DEF Record
(* A failed operation writes a state and the released flag: a record again. *)
LEMMA PutReleased ==
  \A r \in Record, st \in Live, b \in BOOLEAN :
    [r EXCEPT !.state = st, !.released = b] \in Record
  BY Zenon DEF Record
(* Committing a VMM writes its generation and PID: a record again. *)
LEMMA PutIdentity ==
  \A r \in Record, g, p \in 0 .. MaxGen : [r EXCEPT !.gen = g, !.pid = p] \in Record
  BY Zenon DEF Record
(* Recovery of a dead VMM clears the PID and releases: a record again. *)
LEMMA PutPidReleased ==
  \A r \in Record, p \in 0 .. MaxGen, b \in BOOLEAN :
    [r EXCEPT !.pid = p, !.released = b] \in Record
  BY Zenon DEF Record
(* Admission writes generation, state, exit and released: a record again. *)
LEMMA PutStart ==
  \A r \in Record, g \in 0 .. MaxGen, st \in Live, x \in Exit, b \in BOOLEAN :
    [r EXCEPT !.gen = g, !.state = st, !.exit = x, !.released = b] \in Record
  BY Zenon DEF Record
(* finish writes state, exit, PID and released: a record again. *)
LEMMA PutExit ==
  \A r \in Record, st \in Live, x \in Exit, p \in 0 .. MaxGen, b \in BOOLEAN :
    [r EXCEPT !.state = st, !.exit = x, !.pid = p, !.released = b] \in Record
  BY Zenon DEF Record

(* The fields of a stored record have their types. *)
LEMMA RecordFields ==
  ASSUME NEW r \in Record
  PROVE  /\ r.gen \in 0 .. MaxGen
         /\ r.pid \in 0 .. MaxGen
         /\ r.exit \in Exit
         /\ r.released \in BOOLEAN
  BY DEF Record

(* The literals the actions write are members of the sets they are typed
   by. *)
LEMMA Constants == /\ \A l \in {"creating", "created", "starting", "running",
                               "stopping", "exited", "failed", "removing"} : l \in Live
                   /\ \A x \in {"nil", "code", "unknown"} : x \in Exit
  BY DEF Live, Exit

(* Identity, what Update keeps of a record, is a record. *)
LEMMA IdentityType == ASSUME NEW r \in Record PROVE Identity(r) \in Record
  BY Zenon, UnbornType, PutIdentity, RecordFields DEF Identity

(* Store.Update of a record of the right type leaves a store of the right
   type. *)
LEMMA UpdateType ==
  ASSUME rec \in [Sandbox -> Record], NEW s, NEW r \in Record, Update(s, r)
  PROVE  rec' \in [Sandbox -> Record]
  BY Zenon DEF Update

(* A checked transition leaves a store of the right type. *)
LEMMA TransitionType ==
  ASSUME rec \in [Sandbox -> Record], NEW s, NEW r \in Record, NEW l \in Live,
         UpdateTransition(s, r, l)
  PROVE  rec' \in [Sandbox -> Record]
  BY Zenon, PutState DEF UpdateTransition

-----------------------------------------------------------------------------
(* What a step of p leaves alone: the control of the other goroutines.       *)

Others(p) == \A q \in Process \ {p} :
  /\ pc'[q] = pc[q]
  /\ at'[q] = at[q]
  /\ copy'[q] = copy[q]
  /\ released'[q] = released[q]

\* No step but a Start's admission adds a claim or lets a Start reach it.
NoNewClaim ==
  /\ \A s \in Sandbox : Claims(s)' => Claims(s)
  /\ \A w \in Worker : pc'[w] = "s_admit" => pc[w] = "s_admit" /\ at'[w] = at[w]

\* What every other step preserves.
Kept == IInv' /\ NoNewClaim

(* When one process steps and its own locals are right afterwards,
   everyone's are. *)
LEMMA LocalsFrame ==
  ASSUME IInv, NEW p \in Process, Others(p), LocalsOK(p)'
  PROVE  LocalsInv'
  BY DEF IInv, Others, LocalsInv, LocalsOK

(* No process is two of worker, monitor and boot. *)
LEMMA Kinds ==
  /\ \A w \in Worker : w \notin Monitor /\ w # boot
  /\ boot \notin Monitor
  /\ \A s \in Sandbox, g \in 0 .. MaxGen :
       <<s, g>> \in Process => <<s, g>> \in Monitor
  <1>1. Gen \subseteq 0 .. MaxGen
    BY Bounds DEF Gen
  <1>2. Monitor \subseteq Sandbox \X (0 .. MaxGen)
    BY Zenon, <1>1 DEF Monitor
  <1> QED BY <1>2, LifecycleAssumption DEF Process

\* A worker steps only while the daemon is up.
LEMMA WorkerUp ==
  ASSUME IInv, NEW w \in Worker, pc[w] # "idle"
  PROVE  daemon = "up"
  BY Processes DEF IInv, RoleInv, Role

(* A worker at a label of its own request keeps the role invariant. *)
LEMMA WorkerRole ==
  ASSUME IInv, NEW w \in Worker, Others(w), UNCHANGED <<daemon, todo>>,
         daemon = "up",
         pc'[w] \notin {"b_scan", "m_get", "m_call", "b_kill", "b_clean", "b_update"}
  PROVE  RoleInv'
  <1>1. ASSUME NEW q \in Process, q # w PROVE Role(q)'
    BY <1>1, Kinds, Processes DEF IInv, RoleInv, Role, Others
  <1>2. Role(w)'
    BY Kinds DEF Role, BootLabel
  <1> QED BY <1>1, <1>2 DEF RoleInv, IInv

(* A step that moves one process, and only its own locks, keeps LockInv. *)
LEMMA LockFrame ==
  ASSUME IInv, NEW p \in Process, Others(p), Holds(p)',
         \A s \in Sandbox : lock'[s] = lock[s] \/ lock[s] \in {p, Free},
         alloc' = alloc \/ alloc \in {p, Free}
  PROVE  LockInv'
  <1>1. ASSUME NEW q \in Process, q # p PROVE Holds(q)'
    <2>1. pc'[q] = pc[q] /\ at'[q] = at[q]
      BY <1>1 DEF Others
    <2>2. Holds(q) /\ LocalsOK(q)
      BY DEF IInv, LockInv, LocalsInv
    <2>3. q # Free
      BY LifecycleAssumption
    <2>4. pc[q] \in Critical => at[q] \in Sandbox
      BY <2>2 DEF LocalsOK, Critical
    <2> QED BY <1>1, <2>1, <2>2, <2>3, <2>4 DEF Holds
  <1> QED BY <1>1 DEF LockInv

(* A step that adds nothing on the host and keeps every reservation the
   host relies on keeps ClaimInv. *)
LEMMA ClaimFrame ==
  ASSUME IInv, NEW p \in Process, Others(p), Cleared(p)',
         \A s \in Sandbox : Physical(s)' => Physical(s),
         pc'[p] \notin {"s_network", "s_vmm"},
         \A s \in Sandbox : Claims(s) => ReservesVMResources(rec'[s])
  PROVE  /\ ClaimInv'
         /\ pc'[p] # "s_admit" => NoNewClaim
  <1>1. \A s : Starting(s)' => Starting(s)
    BY Processes DEF Starting, Others
  <1>2. ASSUME NEW q \in Process, q # p PROVE Cleared(q)'
    <2>1. pc'[q] = pc[q] /\ at'[q] = at[q] /\ released'[q] = released[q]
      BY <1>2 DEF Others
    <2>2. Cleared(q) /\ LocalsOK(q)
      BY DEF IInv, ClaimInv, LocalsInv
    <2> QED BY <1>1, <2>1, <2>2 DEF Cleared, Claims, LocalsOK
  <1>3. \A s \in Sandbox : Claims(s)' => Claims(s)
    BY <1>1 DEF Claims
  <1>4. pc'[p] # "s_admit" => NoNewClaim
    BY <1>3, Processes DEF NoNewClaim, Others
  <1> QED BY <1>2, <1>3, <1>4 DEF ClaimInv

\* The host is left alone.
LEMMA HostFrame == UNCHANGED host => \A s : Physical(s)' = Physical(s)
  BY DEF host, Physical, HasVMM

-----------------------------------------------------------------------------
(* Moving to a label keeps the goroutines well typed. *)
LEMMA GotoType ==
  ASSUME GoroutineType, NEW p, NEW l \in Label, Goto(p, l), UNCHANGED <<at, locals>>
  PROVE  GoroutineType'
  BY Zenon DEF GoroutineType, Goto, locals

(* A returning goroutine that drops its locals is well typed. *)
LEMMA ForgetType ==
  ASSUME GoroutineType, NEW p, Forget(p)
  PROVE  /\ copy' \in [Process -> Record]
         /\ exit' \in [Process -> Exit]
         /\ released' \in [Process -> BOOLEAN]
         /\ failures' \in [Process -> 0 .. MaxFailures - 1]
  <1>1. 0 \in 0 .. MaxFailures - 1 /\ "nil" \in Exit
    BY Bounds, Constants
  <1> QED BY Zenon, <1>1, UnbornType DEF GoroutineType, Forget

(* Return keeps the goroutines well typed. *)
LEMMA ReturnType ==
  ASSUME GoroutineType, NEW p, Return(p)
  PROVE  GoroutineType'
  BY Zenon, ForgetType DEF GoroutineType, Return, Goto, Label

(* Return of one process leaves the locals of the others alone. *)
LEMMA ReturnOthers ==
  ASSUME GoroutineType, NEW p \in Process, Return(p)
  PROVE  /\ Others(p)
         /\ pc'[p] = "idle" /\ at'[p] = NoSandbox /\ released'[p] = FALSE
  BY DEF GoroutineType, Return, Forget, Goto, Others

(* Goto of one process leaves the locals of the others alone. *)
LEMMA GotoOthers ==
  ASSUME GoroutineType, NEW p \in Process, NEW l, Goto(p, l), UNCHANGED <<at, locals>>
  PROVE  /\ Others(p)
         /\ pc'[p] = l /\ at'[p] = at[p] /\ released'[p] = released[p]
         /\ copy'[p] = copy[p]
  BY DEF GoroutineType, Goto, Others, locals

(* The parts of IInv that most steps use, in one place. *)
LEMMA Facts ==
  ASSUME IInv, NEW p \in Process
  PROVE  /\ StoreType /\ HostType /\ DaemonType /\ GoroutineType
         /\ LocalsOK(p) /\ Role(p) /\ Holds(p) /\ Cleared(p)
  BY DEF IInv, TypeOK, LocalsInv, RoleInv, LockInv, ClaimInv

(* A step that leaves the database alone keeps its type. *)
LEMMA StoreFrame == ASSUME StoreType, UNCHANGED durable PROVE StoreType'
  BY DEF StoreType, durable

(* A step that leaves the host alone keeps its type. *)
LEMMA HostTypeFrame == ASSUME HostType, UNCHANGED host PROVE HostType'
  BY DEF HostType, host

\* A record that is not written keeps its reservation.
LEMMA RecFrame ==
  ASSUME IInv, rec' = rec
  PROVE  \A s \in Sandbox : Claims(s) => ReservesVMResources(rec'[s])
  BY DEF IInv, ClaimInv

\* Two goroutines never work on one sandbox at a time.
LEMMA OneOwner ==
  ASSUME IInv, NEW p \in Process, NEW q \in Process, at[p] = at[q],
         pc[p] \in Critical \cup BootLabel, pc[q] \in Critical \cup BootLabel
  PROVE  p = q
  <1>1. CASE pc[p] \in Critical /\ pc[q] \in Critical
    BY <1>1, Facts DEF Holds
  <1>2. \A r \in Process : pc[r] \in BootLabel => r = boot /\ daemon # "up"
    <2> SUFFICES ASSUME NEW r \in Process, pc[r] \in BootLabel
                 PROVE  r = boot /\ daemon # "up"
      OBVIOUS
    <2>1. Role(r) BY Facts
    <2> QED BY <2>1 DEF Role, Process, BootLabel, FinishLabel
  <1>3. ASSUME NEW r \in Process, pc[boot] \in BootLabel, r # boot,
               pc[r] \in Critical, at[r] = at[boot]
        PROVE  FALSE
    <2>1. daemon # "up" BY <1>2, <1>3, Processes
    <2>2. Role(r) BY Facts
    <2> QED BY <1>3, <2>1, <2>2 DEF Role, Process, Critical, BootLabel
  <1> QED BY <1>1, <1>2, <1>3

(* A process outside Start's critical labels excuses no claim. *)
LEMMA NotStarting ==
  ASSUME IInv, NEW p \in Process, pc[p] \in Critical \cup BootLabel,
         pc[p] \notin {"s_network", "s_vmm"}
  PROVE  ~Starting(at[p])
  BY OneOwner, Processes DEF Starting, Critical

\* The owner may drop the reservation once it has cleared the host.
LEMMA OwnerWrites ==
  ASSUME IInv, NEW p \in Process, pc[p] \in Critical \cup BootLabel,
         pc[p] \notin {"s_network", "s_vmm"},
         \A t \in Sandbox \ {at[p]} : rec'[t] = rec[t],
         Physical(at[p]) => ReservesVMResources(rec'[at[p]])
  PROVE  \A s \in Sandbox : Claims(s) => ReservesVMResources(rec'[s])
  BY NotStarting DEF IInv, ClaimInv, Claims

\* The parts of the invariant a worker's step can disturb.
LEMMA WorkerFrame ==
  ASSUME IInv, NEW w \in Worker, pc[w] # "idle", TypeOK', Others(w),
         UNCHANGED <<daemon, todo>>,
         pc'[w] \notin {"b_scan", "m_get", "m_call", "b_kill", "b_clean", "b_update",
                        "s_admit", "s_network", "s_vmm"},
         LocalsOK(w)', Holds(w)', Cleared(w)',
         \A s \in Sandbox : lock'[s] = lock[s] \/ lock[s] \in {w, Free},
         alloc' = alloc \/ alloc \in {w, Free},
         \A s \in Sandbox : Physical(s)' => Physical(s),
         \A s \in Sandbox : Claims(s) => ReservesVMResources(rec'[s])
  PROVE  Kept
  <1>1. daemon = "up" BY WorkerUp
  <1>2. RoleInv' BY Zenon, <1>1, WorkerRole
  <1>3. ClaimInv' /\ NoNewClaim
    BY Processes, ClaimFrame
  <1> QED BY Zenon, <1>2, <1>3, Processes, LocalsFrame, LockFrame DEF IInv, Kept

(* Releasing a lock the process holds leaves the other locks alone. *)
LEMMA UnlockOwn ==
  ASSUME DaemonType, NEW p \in Process, lock[at[p]] = p, Unlock(p)
  PROVE  /\ \A s \in Sandbox : lock'[s] = lock[s] \/ lock[s] \in {p, Free}
         /\ lock' \in [Sandbox -> Process \cup {Free}]
  BY Zenon DEF Unlock, DaemonType
=============================================================================
