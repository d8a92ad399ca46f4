--------------------------- MODULE LifecycleView ---------------------------
(***************************************************************************)
(* Lifecycle implements SandboxView: the refinement mapping, and the       *)
(* invariant that shows it.  The same invariant shows that what Create     *)
(* allocates is exclusive.                                                 *)
(***************************************************************************)
EXTENDS Lifecycle

PhaseOf(st) ==
  IF st \in {"starting", "running", "stopping"} THEN "active"
  ELSE IF st \in {"creating", "created", "exited"} THEN "idle"
  ELSE IF st = "unborn" THEN "none" ELSE st

ViewOf(r) == [phase |-> PhaseOf(r.state), gen |-> r.gen, exit |-> r.exit, ready |-> r.base]

Seen == [s \in Sandbox |-> ViewOf(rec[s])]

V == INSTANCE SandboxView WITH view <- Seen

\* Whatever requests, monitors, restarts and faults do to the rows of the store,
\* and with what stale copies, a client sees the sandboxes of SandboxView.
SandboxesAsSeen == V!Spec

-----------------------------------------------------------------------------
\* A row is there from its insertion by the Create that drew the ID; until that
\* Create is through, the row is not startable and keeps its slot.
RowOK(p) ==
  LET r == rec[at[p]] IN
  /\ pc[p] \in {"c_list", "c_insert"} => r.state = "unborn"
  /\ pc[p] \notin {"idle", "b_scan", "c_list", "c_insert"} => r.state # "unborn"
  /\ pc[p] = "c_insert" =>
       /\ copy[p].state = "creating" /\ copy[p].gen = 0 /\ copy[p].exit = "nil"
       /\ ~copy[p].base
       /\ \A t \in Sandbox : Present(t) =>
            rec[t].slot # copy[p].slot /\ ClaimsOf[t] \cap ClaimsOf[at[p]] = {}
  /\ pc[p] = "c_prepare" =>
       /\ copy[p].gen = 0 /\ copy[p].exit = "nil"
       /\ r.gen = 0 /\ ~r.base /\ (r.state \in Live => r.slot = copy[p].slot)

\* A Start that is to be admitted has the row as it is, and nobody writes to it.
AdmitOK(p) ==
  pc[p] \in {"s_alloc", "s_admit"} =>
    /\ copy[p] = rec[at[p]] /\ copy[p].state \in {"created", "exited"} /\ copy[p].base

\* finish is called with an exit.
ExitOK(p) == pc[p] \in FinishLabel => exit[p] # "nil"

CopyOK(p) == RowOK(p) /\ AdmitOK(p) /\ ExitOK(p)

ViewInv ==
  /\ \A p \in Process : CopyOK(p)
  /\ \A s \in Sandbox : rec[s].state = "gone" => rec[s] = Gone
  /\ AllocationExclusive
=============================================================================
