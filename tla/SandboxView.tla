---------------------------- MODULE SandboxView ----------------------------
(***************************************************************************)
(* What the clients of the daemon can rely on about a sandbox, as inspect  *)
(* and wait show it: it is prepared once, before it is first started;      *)
(* every start opens a new generation and only a sandbox that is idle is   *)
(* started; a generation that has ended never becomes active again; it     *)
(* ends with an exit, in a failure or with the sandbox; and an ID whose    *)
(* sandbox is gone is not used again.                                      *)
(***************************************************************************)
EXTENDS Naturals

CONSTANTS Sandbox
VARIABLES view  \* of each sandbox: phase, generation, exit, and whether it is prepared

\* The other phases are "none", before the creation, and "gone".
Here == {"idle", "active", "failed", "removing"}

Shown(p, g, x, r) == [phase |-> p, gen |-> g, exit |-> x, ready |-> r]

Put(s, a) == view' = [view EXCEPT ![s] = a]

Create(s) ==
  /\ view[s].phase = "none"
  /\ Put(s, Shown("idle", 0, "nil", FALSE))

\* Also of a sandbox that a Stop or a Remove has got hold of meanwhile.
Prepare(s) ==
  /\ view[s].phase \in Here /\ view[s].gen = 0 /\ ~view[s].ready
  /\ Put(s, Shown("idle", 0, "nil", TRUE))

Start(s) ==
  /\ view[s].phase = "idle" /\ view[s].ready
  /\ Put(s, Shown("active", view[s].gen + 1, "nil", TRUE))

\* An execution ends, or its exit is replaced by a later one.
Finish(s) ==
  /\ view[s].phase \in Here
  /\ \E p \in {"idle", "failed"}, x \in {"code", "unknown"} :
       Put(s, Shown(p, view[s].gen, x, view[s].ready))

Fail(s) ==
  /\ view[s].phase \in Here
  /\ Put(s, Shown("failed", view[s].gen, view[s].exit, view[s].ready))

Unmake(s) ==
  /\ view[s].phase \in Here
  /\ Put(s, Shown("removing", view[s].gen, view[s].exit, view[s].ready))

Delete(s) ==
  /\ view[s].phase \in Here
  /\ Put(s, Shown("gone", 0, "nil", FALSE))

Init == view = [s \in Sandbox |-> Shown("none", 0, "nil", FALSE)]

Next ==
  \E s \in Sandbox :
    \/ Create(s) \/ Prepare(s) \/ Start(s) \/ Finish(s) \/ Fail(s) \/ Unmake(s)
    \/ Delete(s)

Spec == Init /\ [][Next]_view
=============================================================================
