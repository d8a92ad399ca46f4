------------------------------ MODULE Lifecycle ------------------------------
(***************************************************************************)
(* The sandbox lifecycle of niflheld: the request handlers Create, Start,  *)
(* Stop, Wait and Remove, the monitor goroutine of every generation, the   *)
(* finish routine they share, Recover at daemon start, the SQLite record   *)
(* of a sandbox, the per-sandbox and "allocations" mutexes, and the host   *)
(* resources these steps acquire and release (VMM process, jail, cgroup,   *)
(* network namespace, port and DNS listeners).  The daemon may crash       *)
(* between any two steps and the host may reboot.                          *)
(*                                                                         *)
(* One action stands for the code between two points where another process *)
(* can interfere: a store transaction, an external command, a guest call.  *)
(***************************************************************************)
EXTENDS Naturals, FiniteSets

CONSTANTS
  Sandbox,     \* sandbox IDs; an ID is used by one Create only
  Worker,      \* goroutines serving API requests
  Volume,      \* named volumes
  VolumesOf,   \* [Sandbox -> SUBSET Volume]: the mounts of a sandbox's spec
  Claim,       \* sandbox names and host ports
  ClaimsOf,    \* [Sandbox -> SUBSET Claim]: name and host ports of its spec
  AutoRemove,  \* sandboxes created with --rm
  Budget,      \* VMs the host memory can hold
  MaxSlot,     \* address slots (16000 in the code)
  MaxGen,      \* bound: starts of one sandbox
  MaxFailures, \* consecutive guest failures before a monitor gives up (5)
  Requests,    \* the operations clients ask for
  Faults,      \* the faults that can happen
  boot,        \* the goroutine that runs Recover
  Free,        \* an unlocked mutex
  NoSandbox

\* What can go wrong outside the daemon's control.
Fault == {"crash",    \* the daemon dies between two steps
          "reboot",   \* the host reboots
          "kill",     \* VM.Kill cannot confirm the death of the VMM
          "network",  \* a command of Network.Remove fails
          "jail",     \* the jail directory cannot be deleted
          "results",  \* saveResult cannot write
          "dir"}      \* the sandbox directory cannot be deleted

Gen == 1 .. MaxGen
Monitor == Sandbox \X Gen      \* d.monitors: one goroutine per generation
Process == Worker \cup Monitor \cup {boot}

ASSUME LifecycleAssumption ==
  /\ IsFiniteSet(Sandbox)
  /\ VolumesOf \in [Sandbox -> SUBSET Volume]
  /\ ClaimsOf \in [Sandbox -> SUBSET Claim]
  /\ AutoRemove \subseteq Sandbox
  /\ Requests \subseteq {"create", "start", "stop", "remove"}
  /\ Faults \subseteq Fault
  /\ Budget \in Nat /\ MaxSlot \in Nat /\ MaxGen \in Nat
  /\ MaxFailures \in Nat \ {0}
  /\ boot \notin Worker
  /\ (Worker \cup {boot}) \cap (Sandbox \X (0 .. MaxGen)) = {}
  /\ Free \notin Process
  /\ NoSandbox \notin Sandbox

VARIABLES
  \* durable: the SQLite store and the results directory
  rec,      \* the sandboxes table; state "unborn" or "gone" is an absent row
  results,  \* exit retained for an auto-removed sandbox
  \* host resources, which survive the daemon
  vmm,      \* vmm[s][g]: the jailer/Firecracker process of generation g
  guest,    \* guest[s][g]: what the guest agent of generation g reports
  jail,     \* the jail directory with vm.json and the linked disks exists
  pidfile,  \* generation named by the jail's PID file, 0 if there is none
  net,      \* namespace, veth pair or nft table of the sandbox exist
  \* the daemon process, lost in a crash
  daemon,   \* "down", "recovering" or "up"
  todo,     \* sandboxes Recover has yet to look at
  ports,    \* d.ports and d.dns hold listeners for the sandbox
  alloc,    \* holder of the "allocations" mutex
  lock,     \* holder of each sandbox's mutex
  pc,       \* where each goroutine is
  at,       \* the sandbox it works on
  copy,     \* its copy of the record (v), as far as it is used
  exit,     \* the exit it reports to finish
  released, \* network and VM were removed without error
  failures  \* of a monitor

durable == <<rec, results>>
host    == <<vmm, guest, jail, pidfile, net>>
locals  == <<copy, exit, released, failures>>
memory  == <<daemon, todo, ports, alloc, lock, pc, at, locals>>
vars    == <<durable, host, memory>>

-----------------------------------------------------------------------------
(* Records.  pid is the identity (PID and start time) of a VMM process, here *)
(* the generation that launched it, 0 when none is recorded.  base tells     *)
(* whether BaseDigest is recorded.                                           *)

Live == {"creating", "created", "starting", "running", "stopping", "exited",
         "failed", "removing"}
Exit == {"nil", "code", "unknown"}
Record == [state: Live \cup {"unborn", "gone"}, gen: 0 .. MaxGen,
           pid: 0 .. MaxGen, exit: Exit, released: BOOLEAN, base: BOOLEAN,
           slot: 0 .. MaxSlot]
Unborn == [state |-> "unborn", gen |-> 0, pid |-> 0, exit |-> "nil",
           released |-> TRUE, base |-> FALSE, slot |-> 0]
Gone == [Unborn EXCEPT !.state = "gone"]

Present(s) == rec[s].state \in Live

\* Whether a record holds its volumes and its VM memory.
ReservesVMResources(r) ==
  \/ r.state \in {"starting", "running", "stopping"}
  \/ r.state = "failed" /\ ~r.released

Reserving == {s \in Sandbox : ReservesVMResources(rec[s])}

\* The state machine of the store.
transitions ==
  [creating |-> {"created", "failed", "removing"},
   created  |-> {"starting", "removing"},
   starting |-> {"running", "failed", "stopping"},
   running  |-> {"stopping", "failed"},
   stopping |-> {"exited", "failed"},
   exited   |-> {"starting", "removing"},
   failed   |-> {"removing"},
   removing |-> {}]

CanTransition(r, to) == r.state = to \/ to \in transitions[r.state]

\* Update replaces the row if there is one; a missing row is an error.
Update(s, r) == rec' = IF Present(s) THEN [rec EXCEPT ![s] = r] ELSE rec

\* Update with Transition: a refused transition drops the whole update.
UpdateTransition(s, r, to) ==
  rec' = IF Present(s) /\ CanTransition(rec[s], to)
         THEN [rec EXCEPT ![s] = [r EXCEPT !.state = to]] ELSE rec

Delete(s) == rec' = [rec EXCEPT ![s] = Gone]
-----------------------------------------------------------------------------
(* Control of a goroutine. *)

Goto(p, l) == pc' = [pc EXCEPT ![p] = l]

\* What a goroutine that does not write it back keeps of a record.
Identity(r) == [Unborn EXCEPT !.gen = r.gen, !.pid = r.pid]

Forget(p) == /\ copy' = [copy EXCEPT ![p] = Unborn]
             /\ exit' = [exit EXCEPT ![p] = "nil"]
             /\ released' = [released EXCEPT ![p] = FALSE]
             /\ failures' = [failures EXCEPT ![p] = 0]

\* The goroutine ends or the request is answered.
Return(p) == /\ Goto(p, "idle")
             /\ at' = [at EXCEPT ![p] = NoSandbox]
             /\ Forget(p)

Unlock(p) == lock' = [lock EXCEPT ![at[p]] = Free]

\* A request for op arrives at an idle worker.
Request(w, s, op, l) ==
  /\ daemon = "up"
  /\ op \in Requests
  /\ pc[w] = "idle"
  /\ Goto(w, l)
  /\ at' = [at EXCEPT ![w] = s]
-----------------------------------------------------------------------------
(* The VM manager as the daemon uses it.  A VMM process is "launched" when   *)
(* the jailer is forked, "joined" once it is in the sandbox's cgroup, "live" *)
(* once it has written its PID file and opened the jail's files.             *)

InCgroup(s, g) == vmm[s][g] \in {"joined", "live"}

Alive(s, pid) == pid # 0 /\ InCgroup(s, pid)

\* Kill signals the recorded process, else the one Discover finds.
KillTarget(s, pid) ==
  IF Alive(s, pid) THEN {pid}
  ELSE IF jail[s] /\ Alive(s, pidfile[s]) THEN {pidfile[s]} ELSE {}

Kill(s, pid) ==
  vmm' = [vmm EXCEPT ![s] = [g \in Gen |->
            IF g \in KillTarget(s, pid) THEN "dead" ELSE vmm[s][g]]]

NetworkRemove(s, ok) ==
  \/ ok = TRUE /\ net' = [net EXCEPT ![s] = FALSE]
  \/ ok = FALSE /\ "network" \in Faults /\ UNCHANGED net

\* VM.Remove refuses a live recorded process; otherwise it deletes the jail, and
\* the rmdir of the cgroup fails while any process is in it.
VMRemove(s, pid, ok) ==
  \/ /\ Alive(s, pid) \/ "jail" \in Faults
     /\ ok = FALSE
     /\ UNCHANGED <<jail, pidfile>>
  \/ /\ ~Alive(s, pid)
     /\ ok = (\A g \in Gen : ~InCgroup(s, g))
     /\ jail' = [jail EXCEPT ![s] = FALSE]
     /\ pidfile' = [pidfile EXCEPT ![s] = 0]

\* stopDNS; Network.Remove; VM.Remove, with ok when neither returned an error.
Cleanup(s, pid, ok) ==
  /\ \E netOK, vmOK \in BOOLEAN :
       /\ NetworkRemove(s, netOK)
       /\ VMRemove(s, pid, vmOK)
       /\ ok = (netOK /\ vmOK)
  /\ UNCHANGED guest

StopDNS(s) == ports' = [ports EXCEPT ![s] = FALSE]
-----------------------------------------------------------------------------
(* Create: under the allocations mutex from the first read to the last write. *)

\* Mutant: the allocations mutex is not waited for.
CreateNoLock(w, s) ==
  /\ Request(w, s, "create", "c_list")
  /\ rec[s].state = "unborn"
  /\ \A p \in Process : at[p] # s
  /\ alloc' = w
  /\ UNCHANGED <<durable, host, daemon, todo, ports, lock, locals>>

\* The request takes the mutex; s is the ID it will draw.
CreateLock(w, s) ==
  /\ Request(w, s, "create", "c_list")
  /\ rec[s].state = "unborn"
  /\ \A p \in Process : at[p] # s
  /\ alloc = Free
  /\ alloc' = w
  /\ UNCHANGED <<durable, host, daemon, todo, ports, lock, locals>>

\* The name or a host port of s is in use.
Taken(s) == \E t \in Sandbox : Present(t) /\ ClaimsOf[t] \cap ClaimsOf[s] # {}

\* The slots no record uses.
FreeSlots == {n \in 1 .. MaxSlot : \A t \in Sandbox : Present(t) => rec[t].slot # n}

\* Reads all records: refuses a name or port in use, takes the lowest free slot.
CreateList(w) ==
  /\ pc[w] = "c_list"
  /\ \/ /\ ~Taken(at[w])
        /\ \E n \in FreeSlots :
             /\ \A m \in FreeSlots : n <= m
             /\ copy' = [copy EXCEPT ![w] =
                           [Unborn EXCEPT !.state = "creating", !.slot = n]]
        /\ Goto(w, "c_insert")
        /\ UNCHANGED <<at, alloc, exit, released, failures>>
     \/ /\ Taken(at[w]) \/ FreeSlots = {}
        /\ Return(w)
        /\ alloc' = Free
  /\ UNCHANGED <<durable, host, daemon, todo, ports, lock>>

\* Store.Create inserts the row.
CreateInsert(w) ==
  /\ pc[w] = "c_insert"
  /\ rec' = [rec EXCEPT ![at[w]] = copy[w]]
  /\ Goto(w, "c_prepare")
  /\ UNCHANGED <<results, host, daemon, todo, ports, alloc, lock, at, locals>>

\* Images, base and disks are ready: the local copy replaces the row.  If the
\* row is gone the update fails and fail() finds no row either.
CreateDone(w) ==
  /\ pc[w] = "c_prepare"
  /\ Update(at[w], [copy[w] EXCEPT !.state = "created", !.base = TRUE])
  /\ alloc' = Free
  /\ Return(w)
  /\ UNCHANGED <<results, host, daemon, todo, ports, lock>>

\* A pull, a conversion or a disk failed; an error of Transition is ignored.
CreateFail(w) ==
  /\ pc[w] = "c_prepare"
  /\ UpdateTransition(at[w], rec[at[w]], "failed")
  /\ alloc' = Free
  /\ Return(w)
  /\ UNCHANGED <<results, host, daemon, todo, ports, lock>>
-----------------------------------------------------------------------------
(* Start. *)

StartGet(w, s) ==
  /\ Request(w, s, "start", "s_lock")
  /\ Present(s)
  /\ UNCHANGED <<durable, host, daemon, todo, ports, alloc, lock, locals>>

\* Mutant: a sandbox is started in whatever state it is.
StartLockAnyState(w) ==
  LET s == at[w] IN
  /\ pc[w] = "s_lock"
  /\ lock[s] = Free
  /\ \/ /\ rec[s].base
        /\ rec[s].gen < MaxGen
        /\ lock' = [lock EXCEPT ![s] = w]
        /\ copy' = [copy EXCEPT ![w] = rec[s]]
        /\ Goto(w, "s_alloc")
        /\ UNCHANGED <<at, exit, released, failures>>
     \/ /\ Return(w)
        /\ UNCHANGED lock
  /\ UNCHANGED <<durable, host, daemon, todo, ports, alloc>>

\* Mutant: the base is not looked up before the start.
StartLockAnyBase(w) ==
  LET s == at[w] IN
  /\ pc[w] = "s_lock"
  /\ lock[s] = Free
  /\ \/ /\ rec[s].state \in {"created", "exited"}
        /\ rec[s].gen < MaxGen
        /\ lock' = [lock EXCEPT ![s] = w]
        /\ copy' = [copy EXCEPT ![w] = rec[s]]
        /\ Goto(w, "s_alloc")
        /\ UNCHANGED <<at, exit, released, failures>>
     \/ /\ Return(w)
        /\ UNCHANGED lock
  /\ UNCHANGED <<durable, host, daemon, todo, ports, alloc>>

\* Takes the sandbox's mutex, reads the record again and checks that it may
\* start and that the base it was created with is still there.
StartLock(w) ==
  LET s == at[w] IN
  /\ pc[w] = "s_lock"
  /\ lock[s] = Free
  /\ \/ /\ rec[s].state \in {"created", "exited"}
        /\ rec[s].base
        /\ rec[s].gen < MaxGen
        /\ lock' = [lock EXCEPT ![s] = w]
        /\ copy' = [copy EXCEPT ![w] = rec[s]]
        /\ Goto(w, "s_alloc")
        /\ UNCHANGED <<at, exit, released, failures>>
     \/ /\ Return(w)
        /\ UNCHANGED lock
  /\ UNCHANGED <<durable, host, daemon, todo, ports, alloc>>

\* Mutant: the check does not hold the allocations mutex until the row is written.
StartAllocNoLock(w) ==
  LET s == at[w]
      others == Reserving \ {s}
      blocked == \E t \in others : VolumesOf[t] \cap VolumesOf[s] # {}
  IN /\ pc[w] = "s_alloc"
     /\ alloc = Free
     /\ \/ /\ ~blocked
           /\ Cardinality(Reserving) + 1 <= Budget
           /\ Goto(w, "s_admit")
           /\ UNCHANGED <<alloc, lock, at, locals>>
        \/ /\ Unlock(w)
           /\ Return(w)
           /\ UNCHANGED alloc
     /\ UNCHANGED <<durable, host, daemon, todo, ports>>

\* Mutant: a refused Start returns with the allocations mutex.
StartAllocHolding(w) ==
  LET s == at[w]
      others == Reserving \ {s}
      blocked == \E t \in others : VolumesOf[t] \cap VolumesOf[s] # {}
  IN /\ pc[w] = "s_alloc"
     /\ alloc = Free
     /\ alloc' = w
     /\ \/ /\ ~blocked
           /\ Cardinality(Reserving) + 1 <= Budget
           /\ Goto(w, "s_admit")
           /\ UNCHANGED <<lock, at, locals>>
        \/ /\ Unlock(w)
           /\ Return(w)
     /\ UNCHANGED <<durable, host, daemon, todo, ports>>

\* Takes the allocations mutex and reads all records for the admission check.
StartAlloc(w) ==
  LET s == at[w]
      others == Reserving \ {s}
      blocked == \E t \in others : VolumesOf[t] \cap VolumesOf[s] # {}
  IN /\ pc[w] = "s_alloc"
     /\ alloc = Free
     /\ \/ /\ ~blocked
           /\ Cardinality(Reserving) + 1 <= Budget
           /\ alloc' = w
           /\ Goto(w, "s_admit")
           /\ UNCHANGED <<lock, at, locals>>
        \/ /\ Unlock(w)
           /\ Return(w)
           /\ UNCHANGED alloc
     /\ UNCHANGED <<durable, host, daemon, todo, ports>>

\* Opens the next generation: the local copy replaces the row.
StartAdmit(w) ==
  LET s == at[w]
      v == [copy[w] EXCEPT !.gen = @ + 1, !.state = "starting",
                           !.exit = "nil", !.released = FALSE]
  IN /\ pc[w] = "s_admit"
     /\ Update(s, v)
     /\ alloc' = Free
     /\ IF Present(s)
        THEN /\ copy' = [copy EXCEPT ![w] = Identity(v)]
             /\ Goto(w, "s_network")
             /\ UNCHANGED <<lock, at, exit, released, failures>>
        ELSE Unlock(w) /\ Return(w)
     /\ UNCHANGED <<results, host, daemon, todo, ports>>

\* reservePorts, Network.Prepare and startDNS; a failure leaves what it made.
StartNetwork(w) ==
  LET s == at[w] IN
  /\ pc[w] = "s_network"
  /\ \/ /\ ~net[s]
        /\ net' = [net EXCEPT ![s] = TRUE]
        /\ ports' = [ports EXCEPT ![s] = TRUE]
        /\ Goto(w, "s_vmm")
     \/ /\ \E n, l \in BOOLEAN : /\ net' = [net EXCEPT ![s] = @ \/ n]
                                 /\ ports' = [ports EXCEPT ![s] = @ \/ l]
        /\ Goto(w, "f_kill")
  /\ UNCHANGED <<durable, vmm, guest, jail, pidfile, daemon, todo, alloc, lock,
                 at, locals>>

\* VM.Start builds the jail and forks the jailer, or fails before it is forked.
StartVMM(w) ==
  LET s == at[w]
      g == copy[w].gen
  IN /\ pc[w] = "s_vmm"
     /\ \/ /\ jail' = [jail EXCEPT ![s] = TRUE]
           /\ vmm' = [vmm EXCEPT ![s][g] = "launched"]
           /\ copy' = [copy EXCEPT ![w].pid = g]
           /\ Goto(w, "s_pid")
        \/ /\ jail' \in {jail, [jail EXCEPT ![s] = TRUE]}
           /\ copy' = [copy EXCEPT ![w].pid = 0]
           /\ Goto(w, "f_kill")
           /\ UNCHANGED vmm
     /\ UNCHANGED <<durable, guest, pidfile, net, daemon, todo, ports, alloc,
                    lock, at, exit, released, failures>>

\* Commits the PID of the jailer.
StartPID(w) ==
  /\ pc[w] = "s_pid"
  /\ Update(at[w], [rec[at[w]] EXCEPT !.pid = copy[w].pid])
  /\ Goto(w, "s_ready")
  /\ UNCHANGED <<results, host, daemon, todo, ports, alloc, lock, at, locals>>

\* VM.Ready: the guest of this generation answers; or the process is not seen
\* alive, or the boot timeout expires.
StartReady(w) ==
  /\ pc[w] = "s_ready"
  /\ \/ /\ vmm[at[w]][copy[w].gen] = "live"
        /\ Goto(w, "s_guest")
     \/ Goto(w, "f_kill")
  /\ UNCHANGED <<durable, host, daemon, todo, ports, alloc, lock, at, locals>>

\* The guest call "start" runs the application; it may fail on either side.
StartGuest(w) ==
  LET s == at[w]
      g == copy[w].gen
  IN /\ pc[w] = "s_guest"
     /\ \/ /\ vmm[s][g] = "live"
           /\ guest' = [guest EXCEPT ![s][g] = "running"]
           /\ Goto(w, "s_running") \/ Goto(w, "f_kill")
        \/ /\ Goto(w, "f_kill")
           /\ UNCHANGED guest
     /\ UNCHANGED <<durable, vmm, jail, pidfile, net, daemon, todo, ports, alloc,
                    lock, at, locals>>

\* Transition to running and spawn the monitor; refused once a Stop has marked
\* the record "stopping".
StartRunning(w) ==
  LET s == at[w]
      m == <<s, copy[w].gen>>
  IN /\ pc[w] = "s_running"
     /\ \/ /\ CanTransition(rec[s], "running")
           /\ Unlock(w)
           /\ pc' = [pc EXCEPT ![w] = "idle", ![m] = "m_get"]
           /\ at' = [at EXCEPT ![w] = NoSandbox, ![m] = s]
           /\ copy' = [copy EXCEPT ![w] = Unborn, ![m] = copy[w]]
           /\ UNCHANGED <<exit, released, failures>>
        \/ /\ ~CanTransition(rec[s], "running")
           /\ Goto(w, "f_kill")
           /\ UNCHANGED <<lock, at, locals>>
     /\ UpdateTransition(s, rec[s], "running")
     /\ UNCHANGED <<results, host, daemon, todo, ports, alloc>>

\* One call of VM.Kill: it confirms the death of what it found, or fails.
KillStep(p, from, confirmed, failed) ==
  /\ pc[p] = from
  /\ \/ Kill(at[p], copy[p].pid) /\ Goto(p, confirmed)
     \/ "kill" \in Faults /\ UNCHANGED vmm /\ Goto(p, failed)
  /\ UNCHANGED <<durable, guest, jail, pidfile, net, daemon, todo, ports, alloc,
                 lock, at, locals>>

\* Network.Remove and VM.Remove after a confirmed death; remembers the outcome.
CleanStep(p, from, to) ==
  /\ pc[p] = from
  /\ \E ok \in BOOLEAN : /\ Cleanup(at[p], copy[p].pid, ok)
                         /\ released' = [released EXCEPT ![p] = ok]
  /\ StopDNS(at[p])
  /\ Goto(p, to)
  /\ UNCHANGED <<durable, vmm, daemon, todo, alloc, lock, at, copy, exit, failures>>

\* fail() of Start: kill, clean up, record whether the resources are released.
StartFailKill(w)  == KillStep(w, "f_kill", "f_clean", "f_update")
StartFailClean(w) == CleanStep(w, "f_clean", "f_update")
StartFailUpdate(w) ==
  LET s == at[w] IN
  /\ pc[w] = "f_update"
  /\ UpdateTransition(s, [rec[s] EXCEPT !.pid = copy[w].pid,
                                        !.released = released[w]], "failed")
  /\ Unlock(w)
  /\ Return(w)
  /\ UNCHANGED <<results, host, daemon, todo, ports, alloc>>
-----------------------------------------------------------------------------
(* finish: called by Stop, by a monitor and by Recover with the copy of the  *)
(* record they hold.                                                         *)

FinishReturn(p) ==
  /\ Goto(p, IF p \in Worker THEN "t_wait" ELSE IF p = boot THEN "b_scan" ELSE "idle")
  /\ at' = IF p \in Worker THEN at ELSE [at EXCEPT ![p] = NoSandbox]
  /\ Forget(p)

\* Mutant: finish does not wait for the sandbox's mutex.
FinishNoLock(p) ==
  LET s == at[p] IN
  /\ pc[p] = "n_lock"
  /\ IF Present(s) /\ rec[s].gen = copy[p].gen
     THEN Goto(p, "n_kill") /\ UNCHANGED <<at, locals>>
     ELSE FinishReturn(p)
  /\ UNCHANGED <<durable, host, daemon, todo, ports, alloc, lock>>

\* Mutant: finish does not compare generations.
FinishLockAnyGen(p) ==
  LET s == at[p] IN
  /\ pc[p] = "n_lock"
  /\ lock[s] = Free
  /\ IF Present(s)
     THEN /\ lock' = [lock EXCEPT ![s] = p]
          /\ Goto(p, "n_kill")
          /\ UNCHANGED <<at, locals>>
     ELSE FinishReturn(p) /\ UNCHANGED lock
  /\ UNCHANGED <<durable, host, daemon, todo, ports, alloc>>

FinishLock(p) ==
  LET s == at[p] IN
  /\ pc[p] = "n_lock"
  /\ lock[s] = Free
  /\ IF Present(s) /\ rec[s].gen = copy[p].gen
     THEN /\ lock' = [lock EXCEPT ![s] = p]
          /\ Goto(p, "n_kill")
          /\ UNCHANGED <<at, locals>>
     ELSE FinishReturn(p) /\ UNCHANGED lock
  /\ UNCHANGED <<durable, host, daemon, todo, ports, alloc>>

\* The guest's own power-off on "shutdown" is VMMDies; Kill then finds nothing.
FinishKill(p)  == KillStep(p, "n_kill", "n_clean", "n_lost")
FinishClean(p) == CleanStep(p, "n_clean", "n_update")

\* Kill failed: the reservation is kept.
FinishLost(p) ==
  LET s == at[p] IN
  /\ pc[p] = "n_lost"
  /\ Update(s, [rec[s] EXCEPT !.state = "failed", !.released = FALSE])
  /\ Unlock(p)
  /\ FinishReturn(p)
  /\ UNCHANGED <<results, host, daemon, todo, ports, alloc>>

FinishUpdate(p) ==
  LET s == at[p]
      ok == released[p]
  IN /\ pc[p] = "n_update"
     /\ Update(s, [rec[s] EXCEPT !.state = IF ok THEN "exited" ELSE "failed",
                                 !.exit = exit[p], !.pid = 0,
                                 !.released = ok])
     /\ IF ok /\ s \in AutoRemove
        THEN Goto(p, "n_save") /\ UNCHANGED <<lock, at, locals>>
        ELSE Unlock(p) /\ FinishReturn(p)
     /\ UNCHANGED <<results, host, daemon, todo, ports, alloc>>

\* Mutant: the row is deleted although saveResult failed.
FinishSaveOrNot(p) ==
  /\ pc[p] = "n_save"
  /\ Goto(p, "n_delete")
  /\ \/ results' = [results EXCEPT ![at[p]] = exit[p]]
     \/ "results" \in Faults /\ UNCHANGED results
  /\ UNCHANGED <<rec, host, daemon, todo, ports, alloc, lock, at, locals>>

\* saveResult; its failure defers the automatic removal for good.
FinishSave(p) ==
  /\ pc[p] = "n_save"
  /\ \/ /\ results' = [results EXCEPT ![at[p]] = exit[p]]
        /\ Goto(p, "n_delete")
        /\ UNCHANGED <<lock, at, locals>>
     \/ /\ "results" \in Faults
        /\ Unlock(p)
        /\ FinishReturn(p)
        /\ UNCHANGED results
  /\ UNCHANGED <<rec, host, daemon, todo, ports, alloc>>

FinishDelete(p) ==
  /\ pc[p] = "n_delete"
  /\ Delete(at[p])
  /\ Unlock(p)
  /\ FinishReturn(p)
  /\ UNCHANGED <<results, host, daemon, todo, ports, alloc>>
-----------------------------------------------------------------------------
(* Stop and Wait: no mutex is held outside finish. *)

StopGet(w, s) ==
  /\ Request(w, s, "stop", "t_mark")
  /\ Present(s)
  /\ rec[s].state \notin {"exited", "created"}
  /\ copy' = [copy EXCEPT ![w] = Identity(rec[s])]
  /\ UNCHANGED <<durable, host, daemon, todo, ports, alloc, lock, exit, released,
                 failures>>

\* A refused transition is ignored.
StopMark(w) ==
  /\ pc[w] = "t_mark"
  /\ UpdateTransition(at[w], rec[at[w]], "stopping")
  /\ Goto(w, "t_call")
  /\ UNCHANGED <<results, host, daemon, todo, ports, alloc, lock, at, locals>>

\* The guest call "stop" returns once the application is not running; any
\* failure to reach the guest leads to finish.
StopCall(w) ==
  LET s == at[w]
      g == rec[s].gen
  IN /\ pc[w] = "t_call"
     /\ \/ /\ Present(s) /\ g # 0 /\ vmm[s][g] = "live"
           /\ guest' = [guest EXCEPT ![s][g] = IF @ = "running" THEN "exited" ELSE @]
           /\ Goto(w, "t_wait")
           /\ Forget(w)
        \/ /\ Goto(w, "n_lock")
           /\ exit' = [exit EXCEPT ![w] = "unknown"]
           /\ UNCHANGED <<guest, copy, released, failures>>
     /\ UNCHANGED <<durable, vmm, jail, pidfile, net, daemon, todo, ports, alloc,
                    lock, at>>

\* Wait polls until the record is gone, created, failed or has an exit.
StopWait(w) ==
  LET s == at[w] IN
  /\ pc[w] = "t_wait"
  /\ Present(s) => rec[s].state \in {"created", "failed"} \/ rec[s].exit # "nil"
  /\ Return(w)
  /\ UNCHANGED <<durable, host, daemon, todo, ports, alloc, lock>>
-----------------------------------------------------------------------------
(* Remove. *)

RemoveGet(w, s) ==
  /\ Request(w, s, "remove", "r_lock")
  /\ Present(s)
  /\ UNCHANGED <<durable, host, daemon, todo, ports, alloc, lock, locals>>

\* Takes the mutex and reads the record again.  An active sandbox is removed with
\* force and refused without.
RemoveLock(w) ==
  LET s == at[w]
      active == rec[s].state \in {"running", "starting", "stopping"}
  IN /\ pc[w] = "r_lock"
     /\ lock[s] = Free
     /\ \/ /\ Present(s)
           /\ lock' = [lock EXCEPT ![s] = w]
           /\ copy' = [copy EXCEPT ![w] = Identity(rec[s])]
           /\ Goto(w, "r_kill")
           /\ UNCHANGED <<at, exit, released, failures>>
        \/ /\ ~Present(s) \/ active
           /\ Return(w)
           /\ UNCHANGED lock
     /\ UNCHANGED <<durable, host, daemon, todo, ports, alloc>>

RemoveKill(w) == KillStep(w, "r_kill", "r_clean", "r_error")

\* Network.Remove, then VM.Remove; the first error ends the request.
RemoveClean(w) ==
  LET s == at[w] IN
  /\ pc[w] = "r_clean"
  /\ StopDNS(s)
  /\ \/ /\ NetworkRemove(s, FALSE)
        /\ Goto(w, "r_error")
        /\ UNCHANGED <<jail, pidfile>>
     \/ /\ NetworkRemove(s, TRUE)
        /\ \E ok \in BOOLEAN : /\ VMRemove(s, copy[w].pid, ok)
                               /\ Goto(w, IF ok THEN "r_mark" ELSE "r_error")
  /\ UNCHANGED <<durable, vmm, guest, daemon, todo, alloc, lock, at, locals>>

RemoveMark(w) ==
  LET s == at[w] IN
  /\ pc[w] = "r_mark"
  /\ Update(s, [rec[s] EXCEPT !.state = "removing"])
  /\ \/ Goto(w, "r_delete")
     \/ "dir" \in Faults /\ Goto(w, "r_error")
  /\ UNCHANGED <<results, host, daemon, todo, ports, alloc, lock, at, locals>>

RemoveDelete(w) ==
  /\ pc[w] = "r_delete"
  /\ Delete(at[w])
  /\ Unlock(w)
  /\ Return(w)
  /\ UNCHANGED <<results, host, daemon, todo, ports, alloc>>

RemoveError(w) ==
  /\ pc[w] = "r_error"
  /\ Unlock(w)
  /\ Return(w)
  /\ UNCHANGED <<durable, host, daemon, todo, ports, alloc>>
-----------------------------------------------------------------------------
(* monitor: the goroutine of generation m[2] of sandbox m[1]. *)

\* Mutant: the monitor ends when the record is not "running" any more.
MonitorGetRunning(m) ==
  LET s == m[1] IN
  /\ pc[m] = "m_get"
  /\ IF rec[s].state = "running" /\ rec[s].gen = m[2]
     THEN Goto(m, "m_call") /\ UNCHANGED <<at, locals>>
     ELSE Return(m)
  /\ UNCHANGED <<durable, host, daemon, todo, ports, alloc, lock>>

MonitorGet(m) ==
  LET s == m[1] IN
  /\ pc[m] = "m_get"
  /\ IF Present(s) /\ rec[s].gen = m[2]
     THEN Goto(m, "m_call") /\ UNCHANGED <<at, locals>>
     ELSE Return(m)
  /\ UNCHANGED <<durable, host, daemon, todo, ports, alloc, lock>>

MonitorFinish(m, x) ==
  /\ Goto(m, "n_lock")
  /\ exit' = [exit EXCEPT ![m] = x]
  /\ failures' = [failures EXCEPT ![m] = 0]

MonitorAgain(m, n) ==
  /\ Goto(m, "m_get")
  /\ failures' = [failures EXCEPT ![m] = n]
  /\ UNCHANGED exit

\* The guest of the latest generation, whose credentials are in use, answers.
MonitorAnswer(m) ==
  LET s == m[1]
      g == rec[s].gen
  IN /\ Present(s) /\ vmm[s][g] = "live"
     /\ IF g # m[2] THEN MonitorFinish(m, "unknown")
        ELSE IF guest[s][g] = "exited" THEN MonitorFinish(m, "code")
        ELSE MonitorAgain(m, 0)

\* Mutant: a failed call is not counted.
MonitorFailurePatient(m) == MonitorAgain(m, 0)
\* A call fails: the last of MaxFailures in a row ends the monitor.
MonitorFailure(m) ==
  IF failures[m] + 1 >= MaxFailures THEN MonitorFinish(m, "unknown")
  ELSE MonitorAgain(m, failures[m] + 1)

\* Calls "logs" and "status".
MonitorCall(m) ==
  /\ pc[m] = "m_call"
  /\ MonitorAnswer(m) \/ MonitorFailure(m)
  /\ UNCHANGED <<durable, host, daemon, todo, ports, alloc, lock, at, copy,
                 released>>
-----------------------------------------------------------------------------
(* Daemon start: New, then Recover over the records listed, then serving. *)

Boot ==
  /\ daemon = "down"
  /\ daemon' = "recovering"
  /\ todo' = {s \in Sandbox : Present(s)}
  /\ Goto(boot, "b_scan")
  /\ UNCHANGED <<durable, host, ports, alloc, lock, at, locals>>

\* Mutant: the listeners of a surviving VMM are not opened again.
RecoverAdoptDeaf(s) ==
  LET m == <<s, rec[s].gen>> IN
  /\ rec[s].state \in {"running", "stopping"}
  /\ Alive(s, rec[s].pid)
  /\ pc' = [pc EXCEPT ![m] = "m_get"]
  /\ at' = [at EXCEPT ![m] = s]
  /\ copy' = [copy EXCEPT ![m] = Identity(rec[s])]
  /\ UNCHANGED <<exit, released, failures>>
  /\ UNCHANGED ports

\* Adopt a surviving VMM: its listeners again, and a monitor.
RecoverAdopt(s) ==
  LET m == <<s, rec[s].gen>> IN
  /\ rec[s].state \in {"running", "stopping"}
  /\ Alive(s, rec[s].pid)
  /\ ports' = [ports EXCEPT ![s] = TRUE]
  /\ pc' = [pc EXCEPT ![m] = "m_get"]
  /\ at' = [at EXCEPT ![m] = s]
  /\ copy' = [copy EXCEPT ![m] = Identity(rec[s])]
  /\ UNCHANGED <<exit, released, failures>>

\* Begin work on s at label l, reporting the given exit.
RecoverWork(s, l, x) ==
  /\ Goto(boot, l)
  /\ at' = [at EXCEPT ![boot] = s]
  /\ copy' = [copy EXCEPT ![boot] = Identity(rec[s])]
  /\ exit' = [exit EXCEPT ![boot] = x]
  /\ UNCHANGED <<ports, released, failures>>

RecoverScan(s) ==
  LET r == rec[s] IN
  /\ pc[boot] = "b_scan"
  /\ s \in todo
  /\ todo' = todo \ {s}
  /\ \/ RecoverAdopt(s)
     \/ /\ r.state \in {"running", "stopping"}
        /\ ~Alive(s, r.pid)
        /\ RecoverWork(s, "n_lock", "unknown")
     \/ /\ \/ r.state \in {"creating", "starting", "removing"}
           \/ r.state = "failed" /\ ~r.released
        /\ RecoverWork(s, "b_kill", "nil")
     \/ /\ \/ r.state \in {"created", "exited"}
           \/ r.state = "failed" /\ r.released
        /\ UNCHANGED <<ports, pc, at, locals>>
  /\ UNCHANGED <<durable, host, daemon, alloc, lock>>

RecoverKill  == KillStep(boot, "b_kill", "b_clean", "b_update")
RecoverClean == CleanStep(boot, "b_clean", "b_update")

\* An interrupted operation becomes failed; a failed record is only released.
RecoverUpdate ==
  LET s == at[boot]
      ok == released[boot]
  IN /\ pc[boot] = "b_update"
     /\ Update(s, IF rec[s].state # "failed"
                  THEN [rec[s] EXCEPT !.state = "failed", !.released = ok]
                  ELSE IF ok THEN [rec[s] EXCEPT !.pid = 0, !.released = TRUE]
                  ELSE rec[s])
     /\ FinishReturn(boot)
     /\ UNCHANGED <<results, host, daemon, todo, ports, alloc, lock>>

RecoverDone ==
  /\ pc[boot] = "b_scan"
  /\ todo = {}
  /\ daemon' = "up"
  /\ Goto(boot, "idle")
  /\ UNCHANGED <<durable, host, todo, ports, alloc, lock, at, locals>>

\* The daemon dies: killed, stopped, or Recover could not bind a port again.
\* Goroutines, mutexes and listeners go with it.
DaemonDown ==
  /\ daemon # "down"
  /\ daemon' = "down"
  /\ todo' = {}
  /\ ports' = [s \in Sandbox |-> FALSE]
  /\ alloc' = Free
  /\ lock' = [s \in Sandbox |-> Free]
  /\ pc' = [p \in Process |-> "idle"]
  /\ at' = [p \in Process |-> NoSandbox]
  /\ copy' = [p \in Process |-> Unborn]
  /\ exit' = [p \in Process |-> "nil"]
  /\ released' = [p \in Process |-> FALSE]
  /\ failures' = [p \in Process |-> 0]

Crash == "crash" \in Faults /\ DaemonDown /\ UNCHANGED <<durable, host>>

\* Processes and network devices are gone, files stay.
HostReboot ==
  /\ "reboot" \in Faults
  /\ DaemonDown
  /\ vmm' = [s \in Sandbox |-> [g \in Gen |->
               IF vmm[s][g] = "none" THEN "none" ELSE "dead"]]
  /\ net' = [s \in Sandbox |-> FALSE]
  /\ UNCHANGED <<durable, guest, jail, pidfile>>
-----------------------------------------------------------------------------
(* The processes the daemon does not control. *)

JailerJoins(s, g) ==
  /\ vmm[s][g] = "launched"
  /\ vmm' = [vmm EXCEPT ![s][g] = "joined"]
  /\ UNCHANGED <<durable, guest, jail, pidfile, net, memory>>

\* Without the jail's files, or once another VMM has bound the jail's API and
\* vsock sockets, the VMM cannot start and can only exit.
VMMBoots(s, g) ==
  /\ vmm[s][g] = "joined"
  /\ jail[s]
  /\ pidfile[s] = 0
  /\ vmm' = [vmm EXCEPT ![s][g] = "live"]
  /\ pidfile' = [pidfile EXCEPT ![s] = g]
  /\ guest' = [guest EXCEPT ![s][g] = "ready"]
  /\ UNCHANGED <<durable, jail, net, memory>>

VMMDies(s, g) ==
  /\ vmm[s][g] \in {"launched", "joined", "live"}
  /\ vmm' = [vmm EXCEPT ![s][g] = "dead"]
  /\ UNCHANGED <<durable, guest, jail, pidfile, net, memory>>

AppExits(s, g) ==
  /\ vmm[s][g] = "live"
  /\ guest[s][g] = "running"
  /\ guest' = [guest EXCEPT ![s][g] = "exited"]
  /\ UNCHANGED <<durable, vmm, jail, pidfile, net, memory>>
-----------------------------------------------------------------------------
Init ==
  /\ rec = [s \in Sandbox |-> Unborn]
  /\ results = [s \in Sandbox |-> "nil"]
  /\ vmm = [s \in Sandbox |-> [g \in Gen |-> "none"]]
  /\ guest = [s \in Sandbox |-> [g \in Gen |-> "none"]]
  /\ jail = [s \in Sandbox |-> FALSE]
  /\ pidfile = [s \in Sandbox |-> 0]
  /\ net = [s \in Sandbox |-> FALSE]
  /\ daemon = "down"
  /\ todo = {}
  /\ ports = [s \in Sandbox |-> FALSE]
  /\ alloc = Free
  /\ lock = [s \in Sandbox |-> Free]
  /\ pc = [p \in Process |-> "idle"]
  /\ at = [p \in Process |-> NoSandbox]
  /\ copy = [p \in Process |-> Unborn]
  /\ exit = [p \in Process |-> "nil"]
  /\ released = [p \in Process |-> FALSE]
  /\ failures = [p \in Process |-> 0]

CreateStep(w) == \/ CreateList(w) \/ CreateInsert(w) \/ CreateDone(w)
                 \/ CreateFail(w)
StartStep(w) ==
  \/ StartLock(w) \/ StartAlloc(w) \/ StartAdmit(w) \/ StartNetwork(w)
  \/ StartVMM(w) \/ StartPID(w) \/ StartReady(w) \/ StartGuest(w)
  \/ StartRunning(w) \/ StartFailKill(w) \/ StartFailClean(w)
  \/ StartFailUpdate(w)
StopStep(w) == StopMark(w) \/ StopCall(w) \/ StopWait(w)
RemoveStep(w) == \/ RemoveLock(w) \/ RemoveKill(w) \/ RemoveClean(w)
                 \/ RemoveMark(w) \/ RemoveDelete(w) \/ RemoveError(w)
FinishStep(p) == \/ FinishLock(p) \/ FinishKill(p) \/ FinishClean(p)
                 \/ FinishLost(p) \/ FinishUpdate(p) \/ FinishSave(p)
                 \/ FinishDelete(p)
MonitorStep(m) == MonitorGet(m) \/ MonitorCall(m)
RecoverStep == \/ \E s \in Sandbox : RecoverScan(s)
               \/ RecoverKill \/ RecoverClean \/ RecoverUpdate \/ RecoverDone

NewRequest(w, s) ==
  CreateLock(w, s) \/ StartGet(w, s) \/ StopGet(w, s) \/ RemoveGet(w, s)
WorkerStep(w) == CreateStep(w) \/ StartStep(w) \/ StopStep(w) \/ RemoveStep(w)
Environment(s, g) ==
  JailerJoins(s, g) \/ VMMBoots(s, g) \/ VMMDies(s, g) \/ AppExits(s, g)

Next ==
  \/ \E w \in Worker, s \in Sandbox : NewRequest(w, s)
  \/ \E w \in Worker : WorkerStep(w)
  \/ \E p \in Process : FinishStep(p)
  \/ \E m \in Monitor : MonitorStep(m)
  \/ Boot \/ RecoverStep \/ Crash \/ HostReboot
  \/ \E s \in Sandbox, g \in Gen : Environment(s, g)

Spec == Init /\ [][Next]_vars

\* The steps of a request that wait for a mutex.
Locking(w) == StartLock(w) \/ StartAlloc(w) \/ RemoveLock(w) \/ FinishLock(w)

\* Goroutines keep running, and a goroutine that waits for a mutex gets it in
\* the end (sync.Mutex hands over to a starving waiter).  Nothing is assumed of
\* clients, guests and faults.
Fairness ==
  /\ WF_vars(Boot \/ RecoverStep \/ FinishStep(boot)) /\ SF_vars(FinishLock(boot))
  /\ \A w \in Worker : WF_vars(WorkerStep(w) \/ FinishStep(w)) /\ SF_vars(Locking(w))
  /\ \A m \in Monitor : WF_vars(MonitorStep(m) \/ FinishStep(m)) /\ SF_vars(FinishLock(m))

FairSpec == Spec /\ Fairness
-----------------------------------------------------------------------------
(* Properties. *)

Label == {"idle", "c_list", "c_insert", "c_prepare",
  "s_lock", "s_alloc", "s_admit", "s_network", "s_vmm", "s_pid", "s_ready",
  "s_guest", "s_running", "f_kill", "f_clean", "f_update",
  "n_lock", "n_kill", "n_lost", "n_clean", "n_update", "n_save", "n_delete",
  "t_mark", "t_call", "t_wait",
  "r_lock", "r_kill", "r_clean", "r_mark", "r_delete", "r_error",
  "m_get", "m_call", "b_scan", "b_kill", "b_clean", "b_update"}

StoreType ==
  /\ rec \in [Sandbox -> Record]
  /\ results \in [Sandbox -> Exit]

HostType ==
  /\ vmm \in [Sandbox -> [Gen -> {"none", "launched", "joined", "live", "dead"}]]
  /\ guest \in [Sandbox -> [Gen -> {"none", "ready", "running", "exited"}]]
  /\ jail \in [Sandbox -> BOOLEAN]
  /\ pidfile \in [Sandbox -> 0 .. MaxGen]
  /\ net \in [Sandbox -> BOOLEAN]

DaemonType ==
  /\ daemon \in {"down", "recovering", "up"}
  /\ todo \in SUBSET Sandbox
  /\ ports \in [Sandbox -> BOOLEAN]
  /\ alloc \in Process \cup {Free}
  /\ lock \in [Sandbox -> Process \cup {Free}]

GoroutineType ==
  /\ pc \in [Process -> Label]
  /\ at \in [Process -> Sandbox \cup {NoSandbox}]
  /\ copy \in [Process -> Record]
  /\ exit \in [Process -> Exit]
  /\ released \in [Process -> BOOLEAN]
  /\ failures \in [Process -> 0 .. MaxFailures - 1]

\* Every variable keeps its type; a monitor's failures stay below the limit.
TypeOK == StoreType /\ HostType /\ DaemonType /\ GoroutineType

\* A VMM process that runs, or that will find its jail when it gets there.
HasVMM(s) == \E g \in Gen : \/ vmm[s][g] = "live"
                            \/ vmm[s][g] \in {"launched", "joined"} /\ jail[s]

\* While a VMM of a sandbox can touch its disks, or its jail or network is still
\* there, the record reserves its volumes and memory: no handler, monitor or
\* recovery marks it exited, released, removing or deletes it too early.
ResourcesReserved ==
  \A s \in Sandbox :
    HasVMM(s) \/ jail[s] \/ net[s] => ReservesVMResources(rec[s])

\* A named volume is never attached to VMMs of two sandboxes at the same time.
VolumeExclusive ==
  \A s, t \in Sandbox :
    s # t /\ HasVMM(s) /\ HasVMM(t) => VolumesOf[s] \cap VolumesOf[t] = {}

\* The VMs on the host never exceed what admission let the memory hold.
MemoryBudget == Cardinality({s \in Sandbox : HasVMM(s)}) <= Budget

\* Sandboxes in the store have distinct slots, names and host ports.
AllocationExclusive ==
  \A s, t \in Sandbox :
    s # t /\ Present(s) /\ Present(t) =>
      rec[s].slot # rec[t].slot /\ ClaimsOf[s] \cap ClaimsOf[t] = {}

\* A recorded exit code is the one the application of the recorded generation
\* exited with: no stale monitor, stop or restart fabricates one.
ExitGenuine ==
  \A s \in Sandbox :
    Present(s) /\ rec[s].exit = "code" =>
      rec[s].gen # 0 /\ guest[s][rec[s].gen] = "exited"

\* At most one VMM of a sandbox has its disks open, whatever generation it is.
OneVMM ==
  \A s \in Sandbox : \A g, h \in Gen :
    vmm[s][g] = "live" /\ vmm[s][h] = "live" => g = h

\* The daemon serves ports and DNS for every running sandbox with a VMM, also
\* after it was restarted, except while a lifecycle step is under way.
ListenersHeld ==
  \A s \in Sandbox :
    (/\ daemon = "up" /\ lock[s] = Free
     /\ rec[s].state = "running" /\ Alive(s, rec[s].pid)) => ports[s]

\* A running or stopping record that no step is working on has its monitor, so
\* the end of its execution will be noticed, also after a restart.
Monitored ==
  \A s \in Sandbox :
    (/\ daemon = "up" /\ lock[s] = Free
     /\ rec[s].state \in {"running", "stopping"}) => pc[<<s, rec[s].gen>>] # "idle"

\* A row that goes away otherwise than by a Remove leaves an exit in the results
\* directory, where Wait finds it, and no other than the row had (a Create that
\* ends meanwhile may have cleared that).
ResultLeft ==
  [][\A s \in Sandbox :
       /\ Present(s) /\ rec'[s].state = "gone"
       /\ \A w \in Worker : pc[w] = "r_delete" /\ at[w] = s => pc'[w] = pc[w]
       => results[s] # "nil" /\ rec[s].exit \in {results[s], "nil"}]_rec

\* Every request is answered, but for a Stop that waits for an execution that goes
\* on for ever: it came before the guest's start, which it then does not prevent
\* (Agent.stop returns), or its finish was for the generation before.
RequestsReturn ==
  \A w \in Worker :
    \/ []<>(pc[w] = "idle")
    \/ <>[](/\ pc[w] = "t_wait"
           /\ rec[at[w]].state \in {"running", "stopping"}
           /\ vmm[at[w]][rec[at[w]].gen] = "live"
           /\ guest[at[w]][rec[at[w]].gen] # "exited")

\* Once the VMM of an execution is gone, or its guest reports an exit, the record
\* leaves running and stopping, provided the daemon stays up at last.
EndNoticed ==
  <>[](daemon = "up") =>
    \A s \in Sandbox, g \in Gen :
      (/\ rec[s].gen = g /\ rec[s].state \in {"running", "stopping"}
       /\ vmm[s][g] = "dead" \/ guest[s][g] = "exited")
        ~> ~(rec[s].gen = g /\ rec[s].state \in {"running", "stopping"})

-----------------------------------------------------------------------------
(* The inductive invariant behind ResourcesReserved, VolumeExclusive and       *)
(* MemoryBudget.                                                               *)

FinishLabel == {"n_lock", "n_kill", "n_lost", "n_clean", "n_update", "n_save",
                "n_delete"}
BootLabel   == {"b_kill", "b_clean", "b_update"}

\* The labels at which the sandbox's mutex is held.
Critical == {"s_alloc", "s_admit", "s_network", "s_vmm", "s_pid", "s_ready",
  "s_guest", "s_running", "f_kill", "f_clean", "f_update", "n_kill", "n_lost",
  "n_clean", "n_update", "n_save", "n_delete", "r_kill", "r_clean", "r_mark",
  "r_delete", "r_error"}

\* Locals are of the kind the label needs.
LocalsOK(p) ==
    /\ pc[p] \notin {"idle", "b_scan"} => at[p] \in Sandbox
    /\ pc[p] \in {"s_alloc", "s_admit"} => copy[p].gen < MaxGen
    /\ released[p] => pc[p] \in {"f_update", "n_update", "n_save", "n_delete",
                               "b_update"}
    /\ pc[p] \in {"n_save", "n_delete"} => released[p]
LocalsInv == \A p \in Process : LocalsOK(p)

\* Who runs which code, and when.
Role(p) ==
  /\ p \in Worker => pc[p] \notin {"b_scan", "m_get", "m_call"} \cup BootLabel
  /\ p \in Monitor => pc[p] \in {"idle", "m_get", "m_call"} \cup FinishLabel
  /\ p = boot => pc[p] \in {"idle", "b_scan"} \cup FinishLabel \cup BootLabel
  /\ daemon = "down" => pc[p] = "idle"
  /\ daemon # "up" /\ p \in Worker => pc[p] = "idle"
  /\ daemon = "up" /\ p = boot => pc[p] = "idle"
  /\ p \in Monitor /\ pc[p] # "idle" =>
       /\ at[p] = p[1]
       /\ p[1] \notin todo
       /\ pc[boot] \in FinishLabel \cup BootLabel => p[1] # at[boot]
RoleInv == /\ \A p \in Process : Role(p)
           /\ daemon = "up" => todo = {}

\* The mutexes are held where the code holds them.
Holds(p) ==
  /\ pc[p] \in Critical => lock[at[p]] = p
  /\ pc[p] \in {"c_list", "c_insert", "c_prepare", "s_admit"} => alloc = p
LockInv == \A p \in Process : Holds(p)

\* Host resources exist.
Physical(s) == HasVMM(s) \/ jail[s] \/ net[s]
\* A Start is past admission and about to make them.
Starting(s) ==
  \E w \in Worker : pc[w] \in {"s_network", "s_vmm"} /\ at[w] = s
Claims(s) == Physical(s) \/ Starting(s)

\* No resource is left when p is about to give up the reservation, or to write
\* the record of a sandbox it creates.
Cleared(p) ==
  /\ released[p] \/ pc[p] \in {"r_mark", "r_delete"} => ~Physical(at[p])
  /\ pc[p] \in {"c_list", "c_insert", "c_prepare"} => ~Claims(at[p])
\* Claims are covered by the record.
ClaimInv == /\ \A s \in Sandbox : Claims(s) => ReservesVMResources(rec[s])
            /\ \A p \in Process : Cleared(p)

\* Claims on a volume are exclusive, also with the Start about to be admitted.
VolumeInv ==
  /\ \A s, t \in Sandbox :
       s # t /\ Claims(s) /\ Claims(t) => VolumesOf[s] \cap VolumesOf[t] = {}
  /\ \A w \in Worker : pc[w] = "s_admit" =>
       \A t \in Sandbox \ {at[w]} :
         Claims(t) => VolumesOf[at[w]] \cap VolumesOf[t] = {}

\* Claims fit in the memory, also with the Start about to be admitted.
MemoryInv ==
  /\ Cardinality({s \in Sandbox : Claims(s)}) <= Budget
  /\ \A w \in Worker : pc[w] = "s_admit" =>
       Cardinality({s \in Sandbox : Claims(s)} \cup {at[w]}) <= Budget

IInv == TypeOK /\ LocalsInv /\ RoleInv /\ LockInv /\ ClaimInv
-----------------------------------------------------------------------------
\* What the documentation says and the code does not do: TLC refutes each of
\* these with the configuration that the README names.

\* A failed record is retained for inspection and removal.
FailedOnlyRemoved ==
  [][\A s \in Sandbox : rec[s].state = "failed" =>
       rec'[s].state \in {"failed", "removing", "gone"}]_rec

\* Lifecycle actions are serialized by the sandbox's mutex: the state of a record
\* whose mutex is held changes only in a step of the holder.
Serialized ==
  [][\A s \in Sandbox :
       lock[s] # Free /\ rec'[s].state # rec[s].state =>
         pc'[lock[s]] # pc[lock[s]]]_vars

\* The window between launching the jailer and committing its PID is closed: once
\* a lifecycle action is over, Kill finds every VMM the sandbox still has.
VMMInReach ==
  \A s \in Sandbox, g \in Gen :
    daemon = "up" /\ lock[s] = Free /\ vmm[s][g] = "live" =>
      g \in KillTarget(s, rec[s].pid)

\* An interrupted operation is terminated: no record stays "stopping" for ever.
StopCompletes ==
  <>[](daemon = "up") =>
    \A s \in Sandbox : rec[s].state = "stopping" ~> rec[s].state # "stopping"
=============================================================================
