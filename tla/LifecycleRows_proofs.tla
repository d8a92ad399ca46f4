------------------------ MODULE LifecycleRows_proofs ------------------------
(***************************************************************************)
(* Lifecycle implements SandboxView, and what Create allocates is          *)
(* exclusive.  Both rest on ViewInv on top of IInv: what a goroutine       *)
(* writes back is computed from a copy that still fits the row.            *)
(*                                                                         *)
(* Most steps leave the rows alone and move one goroutine (MovesOn); the   *)
(* others write one row, which no Create or Start relies on at the time    *)
(* (WritesRow).  Every action gets a lemma: it preserves ViewInv, and a    *)
(* client sees a step of SandboxView or none (Implemented).                *)
(***************************************************************************)
EXTENDS LifecycleView, LifecycleFrame_proofs

\* A step of the goroutines in P leaves the others alone.
Alone(P) == \A q \in Process \ P :
  pc'[q] = pc[q] /\ at'[q] = at[q] /\ copy'[q] = copy[q] /\ exit'[q] = exit[q]

Implemented == ViewInv' /\ (V!Next \/ UNCHANGED Seen)

(* Writing one row changes what is seen of one sandbox. *)
LEMMA SeenPut ==
  ASSUME StoreType, NEW s \in Sandbox, NEW r, rec' = [rec EXCEPT ![s] = r]
  PROVE  /\ \A t \in Sandbox : rec'[t] = IF t = s THEN r ELSE rec[t]
         /\ Seen' = [Seen EXCEPT ![s] = ViewOf(r)]
         /\ Seen[s] = ViewOf(rec[s])
  <1>1. \A t \in Sandbox : rec'[t] = IF t = s THEN r ELSE rec[t]
    BY DEF StoreType
  <1>2. Seen' = [t \in Sandbox |-> ViewOf(rec'[t])]
    BY DEF Seen, ViewOf
  <1>3. Seen' = [Seen EXCEPT ![s] = ViewOf(r)]
    <2>1. \A t \in Sandbox : ViewOf(rec'[t]) = IF t = s THEN ViewOf(r) ELSE ViewOf(rec[t])
      BY <1>1
    <2>2. [Seen EXCEPT ![s] = ViewOf(r)]
            = [t \in Sandbox |-> IF t = s THEN ViewOf(r) ELSE ViewOf(rec[t])]
      BY Zenon DEF Seen
    <2> QED BY <1>2, <2>1, <2>2
  <1> QED BY <1>1, <1>3 DEF Seen

(* What Transition lets become "running" and "stopping". *)
LEMMA Predecessors ==
  ASSUME NEW r, r.state \in Live
  PROVE  /\ CanTransition(r, "running") => r.state \in {"starting", "running"}
         /\ CanTransition(r, "stopping") => r.state \in {"starting", "running", "stopping"}
  BY DEF CanTransition, transitions, Live

(* What is known of a goroutine and its row. *)
LEMMA Known ==
  ASSUME IInv, ViewInv, NEW p \in Process
  PROVE  /\ StoreType /\ GoroutineType /\ LocalsOK(p) /\ Holds(p) /\ CopyOK(p)
         /\ RowOK(p) /\ AdmitOK(p) /\ ExitOK(p)
  BY Facts DEF ViewInv, CopyOK

(* A step that leaves the rows alone and keeps the copy of its goroutine fit. *)
LEMMA Quiet ==
  ASSUME IInv, ViewInv, NEW P, Alone(P), rec' = rec,
         \A p \in Process : p \in P => CopyOK(p)'
  PROVE  Implemented
  <1>1. ASSUME NEW q \in Process, q \notin P PROVE CopyOK(q)'
    BY <1>1 DEF ViewInv, Alone, CopyOK, RowOK, AdmitOK, ExitOK, Present
  <1>2. ViewInv'
    BY <1>1 DEF ViewInv, AllocationExclusive, Present
  <1> QED BY <1>2 DEF Implemented, Seen

-----------------------------------------------------------------------------
(* The control operators move one goroutine: Goto ... *)
LEMMA GotoAlone ==
  ASSUME GoroutineType, NEW p \in Process, NEW l, Goto(p, l), UNCHANGED <<at, copy, exit>>
  PROVE  /\ Alone({p}) /\ pc'[p] = l
         /\ at'[p] = at[p] /\ copy'[p] = copy[p] /\ exit'[p] = exit[p]
  BY DEF GoroutineType, Goto, Alone

(* ... Return ... *)
LEMMA ReturnAlone ==
  ASSUME GoroutineType, NEW p \in Process, Return(p)
  PROVE  Alone({p}) /\ pc'[p] = "idle"
  BY DEF GoroutineType, Return, Goto, Forget, Alone

(* ... and the return of finish to its caller. *)
LEMMA FinishAlone ==
  ASSUME GoroutineType, NEW p \in Process, FinishReturn(p)
  PROVE  /\ Alone({p}) /\ pc'[p] \in {"t_wait", "b_scan", "idle"}
         /\ pc'[p] = "t_wait" => at'[p] = at[p]
  <1>1. /\ \A q \in Process \ {p} : copy'[q] = copy[q] /\ exit'[q] = exit[q]
        /\ \A q \in Process \ {p} : pc'[q] = pc[q]
        /\ \A q \in Process \ {p} : at'[q] = at[q]
    BY DEF GoroutineType, FinishReturn, Goto, Forget
  <1>2. /\ pc'[p] \in {"t_wait", "b_scan", "idle"}
        /\ pc'[p] = "t_wait" => at'[p] = at[p]
    BY DEF GoroutineType, FinishReturn, Goto
  <1> QED BY <1>1, <1>2 DEF Alone

\* The labels at which the copy is to fit the row, and those without a row.
Careful == {"c_list", "c_insert", "c_prepare", "s_alloc", "s_admit"}
Rowless == {"idle", "b_scan"}

(* At the other labels it is enough that the row was inserted. *)
LEMMA Fits ==
  ASSUME NEW p \in Process, pc'[p] \notin Careful,
         pc'[p] \in Rowless \/ rec'[at'[p]].state # "unborn",
         pc'[p] \in FinishLabel => exit'[p] # "nil"
  PROVE  CopyOK(p)'
  BY DEF CopyOK, RowOK, AdmitOK, ExitOK, Careful, Rowless

(* A step that goes on with the same sandbox or returns. *)
LEMMA MovesOn ==
  ASSUME IInv, ViewInv, NEW p \in Process, Alone({p}), rec' = rec, pc'[p] \notin Careful,
         \/ pc'[p] \in Rowless
         \/ pc[p] \notin Rowless \cup {"c_list", "c_insert"} /\ at'[p] = at[p],
         pc'[p] \in FinishLabel => exit'[p] # "nil"
  PROVE  Implemented
  <1>1. RowOK(p)
    BY DEF ViewInv, CopyOK
  <1>2. pc'[p] \in Rowless \/ rec'[at'[p]].state # "unborn"
    BY <1>1 DEF RowOK, Rowless
  <1>3. CopyOK(p)'
    BY <1>2, Fits
  <1> QED BY <1>3, Quiet

(* A write to a row on which no other Create or Start relies. *)
LEMMA WritesRow ==
  ASSUME IInv, ViewInv, NEW P, NEW s \in Sandbox, NEW r, Alone(P), Present(s),
         rec' = [rec EXCEPT ![s] = r],
         r = Gone \/ (r.state \in Live /\ r.slot = rec[s].slot),
         \A q \in Process \ P : at[q] = s =>
           /\ pc[q] \notin {"s_alloc", "s_admit"}
           /\ pc[q] = "c_prepare" => r.gen = 0 /\ ~r.base,
         \A p \in Process : p \in P => CopyOK(p)'
  PROVE  ViewInv'
  <1>0. \A t \in Sandbox : rec'[t] = IF t = s THEN r ELSE rec[t]
    <2>1. StoreType BY DEF IInv, TypeOK
    <2> QED BY <2>1 DEF StoreType
  <1>1. /\ r.state # "unborn" /\ (r.state = "gone" => r = Gone)
        /\ \A t \in Sandbox : Present(t)' => Present(t) /\ rec'[t].slot = rec[t].slot
    <2>1. Gone.state = "gone"
      BY DEF Gone, Unborn
    <2>2. "gone" \notin Live /\ "unborn" \notin Live
      BY DEF Live
    <2>3. /\ r.state # "unborn" /\ (r.state = "gone" => r = Gone)
          /\ r.state \in Live => r.slot = rec[s].slot
      BY <2>1, <2>2
    <2> QED BY <1>0, <2>3 DEF Present
  <1>2. ASSUME NEW q \in Process, q \notin P PROVE CopyOK(q)'
    <2>1. /\ pc'[q] = pc[q] /\ at'[q] = at[q] /\ copy'[q] = copy[q] /\ exit'[q] = exit[q]
          /\ pc[q] \notin Rowless => at[q] \in Sandbox
          /\ RowOK(q) /\ AdmitOK(q) /\ ExitOK(q)
      BY <1>2, Known DEF Alone, LocalsOK, Rowless
    <2>2. RowOK(q)'
      <3>1. /\ pc[q] \in {"c_list", "c_insert"} => rec'[at[q]].state = "unborn"
            /\ pc[q] \notin Rowless \cup {"c_list", "c_insert"} => rec'[at[q]].state # "unborn"
        BY <2>1, <1>0, <1>1 DEF RowOK, Rowless, Present, Live
      <3>2. pc[q] = "c_insert" =>
              /\ copy[q].state = "creating" /\ copy[q].gen = 0 /\ copy[q].exit = "nil"
              /\ ~copy[q].base
              /\ \A t \in Sandbox : Present(t)' =>
                   rec'[t].slot # copy[q].slot /\ ClaimsOf[t] \cap ClaimsOf[at[q]] = {}
        BY <2>1, <1>1 DEF RowOK
      <3>3. pc[q] = "c_prepare" =>
              /\ copy[q].gen = 0 /\ copy[q].exit = "nil"
              /\ rec'[at[q]].gen = 0 /\ ~rec'[at[q]].base
              /\ rec'[at[q]].state \in Live => rec'[at[q]].slot = copy[q].slot
        BY <1>2, <2>1, <1>0, <1>1 DEF RowOK, Rowless, Present
      <3> QED BY Zenon, <2>1, <3>1, <3>2, <3>3 DEF RowOK, Rowless
    <2>3. AdmitOK(q)'
      BY <1>2, <2>1, <1>0 DEF AdmitOK, Rowless
    <2> QED BY <2>1, <2>2, <2>3 DEF CopyOK, ExitOK
  <1>3. \A t \in Sandbox : rec'[t].state = "gone" => rec'[t] = Gone
    BY <1>0, <1>1 DEF ViewInv
  <1>4. AllocationExclusive'
    BY <1>1 DEF ViewInv, AllocationExclusive
  <1> QED BY <1>2, <1>3, <1>4 DEF ViewInv
-----------------------------------------------------------------------------
(* Steps that leave the rows alone. *)

(* Create takes the allocations lock for an ID that has no row. *)
LEMMA CreateLockSeen ==
  ASSUME IInv, ViewInv, NEW w \in Worker, NEW s \in Sandbox, CreateLock(w, s)
  PROVE  Implemented
  <1>1. w \in Process /\ GoroutineType
    BY Processes, Facts
  <1>2. Alone({w}) /\ pc'[w] = "c_list" /\ at'[w] = s
    BY <1>1 DEF CreateLock, Request, Goto, GoroutineType, locals, Alone
  <1>3. rec' = rec /\ rec[s].state = "unborn"
    BY DEF CreateLock, durable
  <1>4. CopyOK(w)'
    BY <1>2, <1>3 DEF CopyOK, RowOK, AdmitOK, ExitOK, FinishLabel
  <1> QED BY <1>1, <1>2, <1>3, <1>4, Quiet

(* The first reads of Start, Stop and Remove find a row. *)
LEMMA RequestSeen ==
  ASSUME IInv, ViewInv, NEW w \in Worker, NEW s \in Sandbox,
         StartGet(w, s) \/ StopGet(w, s) \/ RemoveGet(w, s)
  PROVE  Implemented
  <1>1. w \in Process /\ GoroutineType
    BY Processes, Facts
  <1>2. Alone({w}) /\ pc'[w] \in {"s_lock", "t_mark", "r_lock"} /\ at'[w] = s
    BY <1>1 DEF StartGet, StopGet, RemoveGet, Request, Goto, GoroutineType, locals, Alone
  <1>3. rec' = rec /\ Present(s)
    BY DEF StartGet, StopGet, RemoveGet, durable
  <1>4. CopyOK(w)'
    BY <1>1, <1>2, <1>3, Fits DEF Careful, FinishLabel, Present, Live
  <1> QED BY <1>1, <1>2, <1>3, <1>4, Quiet

(* Create refuses what is taken, or draws a slot nobody has. *)
LEMMA CreateListSeen ==
  ASSUME IInv, ViewInv, NEW w \in Worker, CreateList(w)
  PROVE  Implemented
  <1>1. w \in Process /\ GoroutineType /\ RowOK(w)
    BY Processes, Known
  <1>2. rec' = rec /\ pc[w] = "c_list"
    BY Zenon DEF CreateList, durable
  <1>3. CASE Return(w)
    BY Zenon, <1>1, <1>2, <1>3, ReturnAlone, MovesOn DEF Careful, Rowless, FinishLabel
  <1>4. ASSUME ~Taken(at[w]), NEW n \in FreeSlots,
               copy' = [copy EXCEPT ![w] = [Unborn EXCEPT !.state = "creating", !.slot = n]],
               Goto(w, "c_insert"), UNCHANGED <<at, exit>>
        PROVE  Implemented
    <2>1. Alone({w}) /\ pc'[w] = "c_insert" /\ at'[w] = at[w]
      BY <1>1, <1>4 DEF GoroutineType, Goto, Alone
    <2>2. /\ copy'[w].state = "creating" /\ copy'[w].gen = 0 /\ copy'[w].exit = "nil"
          /\ ~copy'[w].base /\ copy'[w].slot = n
      BY <1>1, <1>4 DEF GoroutineType, Unborn
    <2>3. \A t \in Sandbox : Present(t) =>
            rec[t].slot # n /\ ClaimsOf[t] \cap ClaimsOf[at[w]] = {}
      BY <1>4 DEF FreeSlots, Taken
    <2>4. rec[at[w]].state = "unborn"
      BY <1>1, <1>2 DEF RowOK
    <2>5. RowOK(w)'
      BY <1>2, <2>1, <2>2, <2>3, <2>4 DEF RowOK, Present
    <2>6. CopyOK(w)'
      BY <2>1, <2>5 DEF CopyOK, AdmitOK, ExitOK, FinishLabel
    <2> QED BY <1>1, <1>2, <2>1, <2>6, Quiet
  <1> QED BY Zenon, <1>3, <1>4 DEF CreateList

(* Start reads the row it will replace, under the sandbox's mutex. *)
LEMMA StartLockSeen ==
  ASSUME IInv, ViewInv, NEW w \in Worker, StartLock(w)
  PROVE  Implemented
  <1>1. w \in Process /\ GoroutineType /\ RowOK(w)
    BY Processes, Known
  <1>2. rec' = rec /\ pc[w] = "s_lock"
    BY DEF StartLock, durable
  <1>3. CASE Return(w)
    BY Zenon, <1>1, <1>2, <1>3, ReturnAlone, MovesOn DEF Careful, Rowless, FinishLabel
  <1>4. ASSUME rec[at[w]].state \in {"created", "exited"}, rec[at[w]].base,
               copy' = [copy EXCEPT ![w] = rec[at[w]]],
               Goto(w, "s_alloc"), UNCHANGED <<at, exit>>
        PROVE  Implemented
    <2>1. Alone({w}) /\ pc'[w] = "s_alloc" /\ at'[w] = at[w] /\ copy'[w] = rec[at[w]]
      BY <1>1, <1>4 DEF GoroutineType, Goto, Alone
    <2>2. CopyOK(w)'
      BY <1>2, <1>4, <2>1 DEF CopyOK, RowOK, AdmitOK, ExitOK, FinishLabel
    <2> QED BY <1>1, <1>2, <2>1, <2>2, Quiet
  <1> QED BY <1>3, <1>4 DEF StartLock

(* The admission check keeps the copy. *)
LEMMA StartAllocSeen ==
  ASSUME IInv, ViewInv, NEW w \in Worker, StartAlloc(w)
  PROVE  Implemented
  <1>1. w \in Process /\ GoroutineType /\ AdmitOK(w) /\ RowOK(w)
    BY Processes, Known
  <1>2. rec' = rec /\ pc[w] = "s_alloc"
    BY DEF StartAlloc, durable
  <1>3. CASE Return(w)
    BY Zenon, <1>1, <1>2, <1>3, ReturnAlone, MovesOn DEF Careful, Rowless, FinishLabel
  <1>4. CASE Goto(w, "s_admit") /\ UNCHANGED <<at, copy, exit>>
    <2>1. Alone({w}) /\ pc'[w] = "s_admit" /\ at'[w] = at[w] /\ copy'[w] = copy[w]
      BY <1>1, <1>4, GotoAlone
    <2>2. CopyOK(w)'
      BY <1>1, <1>2, <2>1 DEF CopyOK, RowOK, AdmitOK, ExitOK, FinishLabel
    <2> QED BY <1>1, <1>2, <2>1, <2>2, Quiet
  <1> QED BY <1>3, <1>4 DEF StartAlloc, locals

\* The goroutine has a row and goes on to label l.
Onward(p, l) ==
  /\ pc[p] \notin Rowless \cup {"c_list", "c_insert"}
  /\ l \notin Careful
  /\ l \in FinishLabel => pc[p] \in FinishLabel
  /\ Goto(p, l)

(* Going on to another label with the same locals. *)
LEMMA GoesOn ==
  ASSUME IInv, ViewInv, NEW p \in Process, NEW l, Onward(p, l),
         UNCHANGED <<rec, at, copy, exit>>
  PROVE  Implemented
  <1>1. GoroutineType /\ ExitOK(p)
    BY Known
  <1>2. /\ Alone({p}) /\ pc'[p] = l /\ at'[p] = at[p] /\ exit'[p] = exit[p]
    BY <1>1, GotoAlone DEF Onward
  <1>3. l \in FinishLabel => exit[p] # "nil"
    BY <1>1 DEF ExitOK, Onward
  <1> QED BY <1>2, <1>3, MovesOn DEF Onward

(* VM.Kill and the clean-up after it, in all four callers. *)
LEMMA KillSeen ==
  ASSUME IInv, ViewInv, NEW p \in Process, NEW from, NEW confirmed, NEW failed,
         KillStep(p, from, confirmed, failed),
         <<from, confirmed, failed>> \in
           {<<"f_kill", "f_clean", "f_update">>, <<"n_kill", "n_clean", "n_lost">>,
            <<"r_kill", "r_clean", "r_error">>, <<"b_kill", "b_clean", "b_update">>}
  PROVE  Implemented
  <1>1. UNCHANGED <<rec, at, copy, exit>>
    BY DEF KillStep, durable, locals
  <1>2. Onward(p, confirmed) \/ Onward(p, failed)
    BY DEF KillStep, Onward, Careful, Rowless, FinishLabel
  <1> QED BY <1>1, <1>2, GoesOn
(* The clean-up moves on too. *)
LEMMA CleanSeen ==
  ASSUME IInv, ViewInv, NEW p \in Process, NEW from, NEW to, CleanStep(p, from, to),
         <<from, to>> \in {<<"f_clean", "f_update">>, <<"n_clean", "n_update">>,
                           <<"b_clean", "b_update">>}
  PROVE  Implemented
  <1>1. UNCHANGED <<rec, at, copy, exit>>
    BY DEF CleanStep, durable
  <1>2. Onward(p, to)
    BY DEF CleanStep, Onward, Careful, Rowless, FinishLabel
  <1> QED BY <1>1, <1>2, GoesOn

(* The steps of Start between its writes. *)
LEMMA StartSeen ==
  ASSUME IInv, ViewInv, NEW w \in Worker,
         \/ StartNetwork(w) \/ StartVMM(w) \/ StartReady(w) \/ StartGuest(w)
         \/ StartFailKill(w) \/ StartFailClean(w)
  PROVE  Implemented
  <1>0. w \in Process
    BY Processes
  <1>1. CASE StartNetwork(w)
    BY <1>0, <1>1, GoesOn DEF StartNetwork, durable, locals, Onward, Careful, Rowless, FinishLabel
  <1>2. CASE StartVMM(w)
    <2>1. GoroutineType
      BY <1>0, Facts
    <2>2. /\ Alone({w}) /\ pc[w] = "s_vmm" /\ pc'[w] \in {"s_pid", "f_kill"}
          /\ at'[w] = at[w] /\ rec' = rec
      BY <1>0, <1>2, <2>1 DEF StartVMM, GoroutineType, Goto, durable, Alone
    <2> QED BY <1>0, <2>2, MovesOn DEF Careful, Rowless, FinishLabel
  <1>3. CASE StartReady(w)
    BY <1>0, <1>3, GoesOn DEF StartReady, durable, locals, Onward, Careful, Rowless, FinishLabel
  <1>4. CASE StartGuest(w)
    BY <1>0, <1>4, GoesOn DEF StartGuest, durable, locals, Onward, Careful, Rowless, FinishLabel
  <1>5. CASE StartFailKill(w) \/ StartFailClean(w)
    BY <1>0, <1>5, KillSeen, CleanSeen DEF StartFailKill, StartFailClean
  <1> QED BY <1>1, <1>2, <1>3, <1>4, <1>5

(* The steps of Stop but its mark. *)
LEMMA StopSeen ==
  ASSUME IInv, ViewInv, NEW w \in Worker, StopCall(w) \/ StopWait(w)
  PROVE  Implemented
  <1>0. w \in Process /\ GoroutineType
    BY Processes, Facts
  <1>1. CASE StopCall(w)
    <2>1. /\ Alone({w}) /\ pc[w] = "t_call" /\ pc'[w] \in {"t_wait", "n_lock"}
          /\ at'[w] = at[w] /\ rec' = rec /\ (pc'[w] = "n_lock" => exit'[w] = "unknown")
      BY Zenon, <1>0, <1>1 DEF StopCall, Forget, GoroutineType, Goto, durable, Alone
    <2> QED BY <1>0, <2>1, MovesOn DEF Careful, Rowless, FinishLabel
  <1>2. CASE StopWait(w)
    BY Zenon, <1>0, <1>2, ReturnAlone, MovesOn
      DEF StopWait, durable, Careful, Rowless, FinishLabel
  <1> QED BY <1>1, <1>2

(* The steps of Remove but its mark and the deletion. *)
LEMMA RemoveSeen ==
  ASSUME IInv, ViewInv, NEW w \in Worker,
         RemoveLock(w) \/ RemoveKill(w) \/ RemoveClean(w) \/ RemoveError(w)
  PROVE  Implemented
  <1>0. w \in Process /\ GoroutineType
    BY Processes, Facts
  <1>1. CASE RemoveLock(w)
    <2>1. rec' = rec /\ pc[w] = "r_lock"
      BY <1>1 DEF RemoveLock, durable
    <2>2. CASE Return(w)
      BY Zenon, <1>0, <2>1, <2>2, ReturnAlone, MovesOn DEF Careful, Rowless, FinishLabel
    <2>3. CASE ~Return(w)
      <3>1. Alone({w}) /\ pc'[w] = "r_kill" /\ at'[w] = at[w]
        BY <1>0, <1>1, <2>3 DEF RemoveLock, GoroutineType, Goto, Alone
      <3> QED BY <1>0, <2>1, <3>1, MovesOn DEF Careful, Rowless, FinishLabel
    <2> QED BY <2>2, <2>3
  <1>2. CASE RemoveKill(w)
    BY <1>0, <1>2, KillSeen DEF RemoveKill
  <1>3. CASE RemoveClean(w)
    <2>1. Onward(w, "r_error") \/ Onward(w, "r_mark")
      BY Zenon, <1>3 DEF RemoveClean, Onward, Careful, Rowless, FinishLabel
    <2> QED BY <1>0, <1>3, <2>1, GoesOn DEF RemoveClean, durable, locals
  <1>4. CASE RemoveError(w)
    BY Zenon, <1>0, <1>4, ReturnAlone, MovesOn
      DEF RemoveError, durable, Careful, Rowless, FinishLabel
  <1> QED BY <1>1, <1>2, <1>3, <1>4

(* The steps of finish but its updates. *)
LEMMA FinishSeen ==
  ASSUME IInv, ViewInv, NEW p \in Process,
         FinishLock(p) \/ FinishKill(p) \/ FinishClean(p) \/ FinishSave(p)
  PROVE  Implemented
  <1>0. GoroutineType
    BY Facts
  <1>1. CASE FinishLock(p)
    <2>1. rec' = rec /\ pc[p] = "n_lock"
      BY <1>1 DEF FinishLock, durable
    <2>2. CASE FinishReturn(p)
      BY Zenon, <1>0, <2>1, <2>2, FinishAlone, MovesOn DEF Careful, Rowless, FinishLabel
    <2>3. CASE ~FinishReturn(p)
      <3>1. Onward(p, "n_kill") /\ UNCHANGED <<at, copy, exit>>
        BY <1>1, <2>3 DEF FinishLock, locals, Onward, Careful, Rowless, FinishLabel
      <3> QED BY <2>1, <3>1, GoesOn
    <2> QED BY <2>2, <2>3
  <1>2. CASE FinishKill(p) \/ FinishClean(p)
    BY <1>2, KillSeen, CleanSeen DEF FinishKill, FinishClean
  <1>3. CASE FinishSave(p)
    <2>1. rec' = rec /\ pc[p] = "n_save"
      BY <1>3 DEF FinishSave
    <2>2. CASE FinishReturn(p)
      BY Zenon, <1>0, <2>1, <2>2, FinishAlone, MovesOn DEF Careful, Rowless, FinishLabel
    <2>3. CASE ~FinishReturn(p)
      <3>1. Onward(p, "n_delete") /\ UNCHANGED <<at, copy, exit>>
        BY <1>3, <2>3 DEF FinishSave, locals, Onward, Careful, Rowless, FinishLabel
      <3> QED BY <2>1, <3>1, GoesOn
    <2> QED BY <2>2, <2>3
  <1> QED BY <1>1, <1>2, <1>3

(* A monitor reads the row and calls the guest. *)
LEMMA MonitorSeen ==
  ASSUME IInv, ViewInv, NEW m \in Monitor, MonitorStep(m)
  PROVE  Implemented
  <1>0. m \in Process /\ GoroutineType
    BY Processes, Facts
  <1>1. CASE MonitorGet(m)
    <2>1. rec' = rec /\ pc[m] = "m_get"
      BY <1>1 DEF MonitorGet, durable
    <2>2. CASE Return(m)
      BY Zenon, <1>0, <2>1, <2>2, ReturnAlone, MovesOn DEF Careful, Rowless, FinishLabel
    <2>3. CASE ~Return(m)
      <3>1. Onward(m, "m_call") /\ UNCHANGED <<at, copy, exit>>
        BY <1>1, <2>3 DEF MonitorGet, locals, Onward, Careful, Rowless, FinishLabel
      <3> QED BY <1>0, <2>1, <3>1, GoesOn
    <2> QED BY <2>2, <2>3
  <1>2. CASE MonitorCall(m)
    <2>1. \/ \E x \in {"code", "unknown"} : MonitorFinish(m, x)
          \/ \E n : MonitorAgain(m, n)
      BY <1>2 DEF MonitorCall, MonitorAnswer, MonitorFailure
    <2>2. pc[m] = "m_call" /\ rec' = rec /\ UNCHANGED <<at, copy>>
      BY <1>2 DEF MonitorCall, durable
    <2>3. /\ Alone({m}) /\ pc'[m] \in {"n_lock", "m_get"} /\ at'[m] = at[m]
          /\ pc'[m] = "n_lock" => exit'[m] # "nil"
      BY <1>0, <2>1, <2>2 DEF MonitorFinish, MonitorAgain, GoroutineType, Goto, Alone
    <2> QED BY <1>0, <2>2, <2>3, MovesOn DEF Careful, Rowless, FinishLabel
  <1> QED BY <1>1, <1>2 DEF MonitorStep
-----------------------------------------------------------------------------
(* Steps that write a row, and what is seen of them. *)

\* Row r in the place of rec[s], with what a client sees besides the phase as before.
SameRun(s, r) == r.gen = rec[s].gen /\ r.exit = rec[s].exit /\ r.base = rec[s].base

(* The fields of what is seen. *)
LEMMA SeenFields ==
  ASSUME StoreType, NEW s \in Sandbox
  PROVE  /\ Seen[s].phase = PhaseOf(rec[s].state) /\ Seen[s].gen = rec[s].gen
         /\ Seen[s].exit = rec[s].exit /\ Seen[s].ready = rec[s].base
         /\ Present(s) => Seen[s].phase \in V!Here
  BY DEF Seen, ViewOf, V!Here, PhaseOf, Present, Live

(* A write in the same phase shows nothing. *)
LEMMA WriteHidden ==
  ASSUME StoreType, NEW s \in Sandbox, NEW r, rec' = [rec EXCEPT ![s] = r],
         SameRun(s, r), PhaseOf(r.state) = PhaseOf(rec[s].state)
  PROVE  UNCHANGED Seen
  <1>1. ViewOf(r) = ViewOf(rec[s])
    BY DEF ViewOf, SameRun
  <1>2. Seen' = [Seen EXCEPT ![s] = Seen[s]]
    BY Zenon, <1>1, SeenPut
  <1> QED BY <1>2 DEF Seen

(* A failure and the mark of Remove change the phase only. *)
LEMMA WriteFails ==
  ASSUME StoreType, NEW s \in Sandbox, Present(s), NEW r, rec' = [rec EXCEPT ![s] = r],
         SameRun(s, r), r.state \in {"failed", "removing"}
  PROVE  V!Next
  <1>1. ViewOf(r) = V!Shown(r.state, Seen[s].gen, Seen[s].exit, Seen[s].ready)
    BY SeenFields DEF ViewOf, V!Shown, SameRun, PhaseOf
  <1>2. V!Put(s, V!Shown(r.state, Seen[s].gen, Seen[s].exit, Seen[s].ready))
    <2>1. Seen' = [Seen EXCEPT ![s] = ViewOf(r)]
      BY Zenon, SeenPut
    <2> QED BY <1>1, <2>1 DEF V!Put
  <1>3. Seen[s].phase \in V!Here
    BY SeenFields
  <1>4. V!Fail(s) \/ V!Unmake(s)
    BY <1>2, <1>3 DEF V!Fail, V!Unmake
  <1> QED BY <1>4 DEF V!Next

(* finish shows an exit. *)
LEMMA WriteFinish ==
  ASSUME StoreType, NEW s \in Sandbox, Present(s), NEW r, rec' = [rec EXCEPT ![s] = r],
         r.gen = rec[s].gen, r.base = rec[s].base, r.exit \in Exit \ {"nil"},
         r.state \in {"exited", "failed"}
  PROVE  V!Next
  <1>1. PICK p \in {"idle", "failed"} : p = PhaseOf(r.state)
    BY DEF PhaseOf
  <1>2. r.exit \in {"code", "unknown"}
    BY DEF Exit
  <1>3. V!Put(s, V!Shown(p, Seen[s].gen, r.exit, Seen[s].ready))
    <2>1. ViewOf(r) = V!Shown(p, Seen[s].gen, r.exit, Seen[s].ready)
      BY <1>1, SeenFields DEF ViewOf, V!Shown
    <2> QED BY Zenon, <2>1, SeenPut DEF V!Put
  <1>4. V!Finish(s)
    BY <1>2, <1>3, SeenFields DEF V!Finish
  <1> QED BY <1>4 DEF V!Next

(* A deletion ends the sandbox. *)
LEMMA WriteGone ==
  ASSUME StoreType, NEW s \in Sandbox, Present(s), rec' = [rec EXCEPT ![s] = Gone]
  PROVE  V!Next
  <1>1. ViewOf(Gone) = V!Shown("gone", 0, "nil", FALSE)
    BY DEF ViewOf, V!Shown, Gone, Unborn, PhaseOf
  <1>2. V!Put(s, V!Shown("gone", 0, "nil", FALSE))
    <2>1. Seen' = [Seen EXCEPT ![s] = ViewOf(Gone)]
      BY Zenon, SeenPut
    <2> QED BY <1>1, <2>1 DEF V!Put
  <1>3. V!Delete(s)
    BY Zenon, <1>2, SeenFields DEF V!Delete
  <1> QED BY <1>3 DEF V!Next

(* The three writes that open something: the row, its readiness, a generation. *)
LEMMA WriteOpens ==
  ASSUME StoreType, NEW s \in Sandbox, NEW r, rec' = [rec EXCEPT ![s] = r], r.exit = "nil",
         \/ /\ rec[s].state = "unborn" /\ r.state = "creating" /\ r.gen = 0 /\ r.base = FALSE
         \/ /\ Present(s) /\ rec[s].gen = 0 /\ ~rec[s].base
            /\ r.state = "created" /\ r.gen = 0 /\ r.base = TRUE
         \/ /\ rec[s].state \in {"created", "exited"} /\ rec[s].base
            /\ r.state = "starting" /\ r.gen = rec[s].gen + 1 /\ r.base = TRUE
  PROVE  V!Next
  <1>0. V!Put(s, V!Shown(PhaseOf(r.state), r.gen, "nil", r.base))
    <2>1. ViewOf(r) = V!Shown(PhaseOf(r.state), r.gen, "nil", r.base)
      BY DEF ViewOf, V!Shown
    <2> QED BY Zenon, <2>1, SeenPut DEF V!Put
  <1>1. CASE rec[s].state = "unborn" /\ r.state = "creating" /\ r.gen = 0 /\ r.base = FALSE
    <2>1. PhaseOf(r.state) = "idle" /\ Seen[s].phase = "none"
      BY <1>1, SeenFields DEF PhaseOf
    <2>2. V!Create(s)
      BY Zenon, <1>0, <1>1, <2>1 DEF V!Create
    <2> QED BY <2>2 DEF V!Next
  <1>2. CASE /\ Present(s) /\ rec[s].gen = 0 /\ ~rec[s].base
             /\ r.state = "created" /\ r.gen = 0 /\ r.base = TRUE
    <2>1. PhaseOf(r.state) = "idle"
      BY <1>2 DEF PhaseOf
    <2>2. V!Prepare(s)
      BY Zenon, <1>0, <1>2, <2>1, SeenFields DEF V!Prepare
    <2> QED BY <2>2 DEF V!Next
  <1>3. CASE /\ rec[s].state \in {"created", "exited"} /\ rec[s].base
             /\ r.state = "starting" /\ r.gen = rec[s].gen + 1 /\ r.base = TRUE
    <2>1. PhaseOf(r.state) = "active" /\ Seen[s].phase = "idle"
      BY <1>3, SeenFields DEF PhaseOf
    <2>2. V!Start(s)
      BY Zenon, <1>0, <1>3, <2>1, SeenFields DEF V!Start
    <2> QED BY <2>2 DEF V!Next
  <1> QED BY Zenon, <1>1, <1>2, <1>3

(* A goroutine that owns the sandbox may write its row. *)
LEMMA OwnerWritesRow ==
  ASSUME IInv, ViewInv, NEW p \in Process, pc[p] \in Critical \cup BootLabel, NEW P,
         p \in P, Alone(P), Present(at[p]), NEW r, rec' = [rec EXCEPT ![at[p]] = r],
         \/ r = Gone
         \/ /\ r.state \in Live /\ r.slot = rec[at[p]].slot
            /\ r.gen = rec[at[p]].gen /\ r.base = rec[at[p]].base,
         \A q \in Process : q \in P => CopyOK(q)'
  PROVE  ViewInv'
  <1>1. at[p] \in Sandbox
    BY Zenon, Known DEF LocalsOK, Critical, BootLabel
  <1>2. ASSUME NEW q \in Process \ P, at[q] = at[p]
        PROVE  /\ pc[q] \notin {"s_alloc", "s_admit"}
               /\ pc[q] = "c_prepare" => r.gen = 0 /\ ~r.base
    <2>1. pc[q] \notin {"s_alloc", "s_admit"}
      BY <1>2, OneOwner DEF Critical
    <2>2. Gone.gen = 0 /\ ~Gone.base
      BY DEF Gone, Unborn
    <2>3. RowOK(q)
      BY Known
    <2>4. pc[q] = "c_prepare" => rec[at[p]].gen = 0 /\ ~rec[at[p]].base
      BY <1>2, <2>3 DEF RowOK
    <2> QED BY <2>1, <2>2, <2>4
  <1> QED BY Zenon, <1>1, <1>2, WritesRow

(* The same of an Update, and of a refused one. *)
LEMMA OwnerUpdates ==
  ASSUME IInv, ViewInv, NEW p \in Process, pc[p] \in Critical \cup BootLabel, Alone({p}),
         NEW r, Update(at[p], r), r.state \in Live,
         r.slot = rec[at[p]].slot, r.gen = rec[at[p]].gen, r.base = rec[at[p]].base,
         \/ SameRun(at[p], r) /\ PhaseOf(r.state) = PhaseOf(rec[at[p]].state)
         \/ SameRun(at[p], r) /\ r.state \in {"failed", "removing"}
         \/ r.exit \in Exit \ {"nil"} /\ r.state \in {"exited", "failed"},
         pc'[p] \notin Careful, pc'[p] \in Rowless \/ at'[p] = at[p],
         pc'[p] \in FinishLabel => exit'[p] # "nil"
  PROVE  Implemented
  <1>1. at[p] \in Sandbox /\ StoreType /\ pc[p] \notin Rowless \cup {"c_list", "c_insert"}
    BY Zenon, Known DEF LocalsOK, Critical, BootLabel, Rowless
  <1>2. CASE ~Present(at[p])
    BY Zenon, <1>1, <1>2, MovesOn DEF Update
  <1>3. CASE Present(at[p])
    <2>1. rec' = [rec EXCEPT ![at[p]] = r]
      BY <1>3 DEF Update
    <2>2. rec'[at[p]] = r
      BY Zenon, <1>1, <2>1 DEF StoreType
    <2>3. r.state # "unborn"
      BY Zenon DEF Live
    <2>4. CopyOK(p)'
      BY Zenon, <2>2, <2>3, Fits
    <2>5. ViewInv'
      <3>1. p \in {p} /\ \A q \in Process : q \in {p} => CopyOK(q)'
        BY Zenon, <2>4
      <3> QED BY Zenon, <1>3, <2>1, <3>1, OwnerWritesRow
    <2>6. V!Next \/ UNCHANGED Seen
      BY Zenon, <1>1, <1>3, <2>1, WriteHidden, WriteFails, WriteFinish
    <2> QED BY <2>5, <2>6 DEF Implemented
  <1> QED BY Zenon, <1>2, <1>3

(* A deletion by the owner. *)
LEMMA OwnerDeletes ==
  ASSUME IInv, ViewInv, NEW p \in Process, pc[p] \in Critical, Alone({p}),
         Delete(at[p]), pc'[p] \notin Careful, pc'[p] \in Rowless \/ at'[p] = at[p],
         pc'[p] \notin FinishLabel
  PROVE  Implemented
  <1>1. at[p] \in Sandbox /\ StoreType /\ pc[p] \notin Rowless \cup {"c_list", "c_insert"}
    BY Zenon, Known DEF LocalsOK, Critical, Rowless
  <1>2. rec' = [rec EXCEPT ![at[p]] = Gone]
    BY DEF Delete
  <1>3. CASE Present(at[p])
    <2>1. rec'[at[p]] = Gone
      BY <1>1, <1>2 DEF StoreType
    <2>2. Gone.state # "unborn"
      BY DEF Gone, Unborn
    <2>3. CopyOK(p)'
      BY <2>1, <2>2, Fits
    <2>4. ViewInv'
      <3>1. p \in {p} /\ \A q \in Process : q \in {p} => CopyOK(q)'
        BY Zenon, <2>3
      <3> QED BY Zenon, <1>2, <1>3, <3>1, OwnerWritesRow
    <2>5. V!Next
      BY Zenon, <1>1, <1>2, <1>3, WriteGone
    <2> QED BY <2>4, <2>5 DEF Implemented
  <1>4. CASE ~Present(at[p])
    <2>1. rec[at[p]].state # "unborn"
      BY <1>1, Known DEF RowOK, Rowless
    <2>2. rec[at[p]].state \in Live \cup {"unborn", "gone"}
      BY <1>1 DEF StoreType, Record
    <2>3. rec[at[p]] = Gone
      BY Zenon, <1>1, <1>4, <2>1, <2>2 DEF Present, ViewInv
    <2>4. rec' = rec
      BY <1>1, <1>2, <2>3 DEF StoreType
    <2> QED BY <1>1, <2>4, MovesOn
  <1> QED BY <1>3, <1>4

(* Start commits the PID, which no client sees. *)
LEMMA StartPIDSeen ==
  ASSUME IInv, ViewInv, NEW w \in Worker, StartPID(w)
  PROVE  Implemented
  <1>1. w \in Process /\ GoroutineType /\ StoreType /\ LocalsOK(w) /\ pc[w] = "s_pid"
    BY Processes, Known DEF StartPID
  <1>2. Alone({w}) /\ pc'[w] = "s_ready" /\ at'[w] = at[w]
    BY <1>1, GotoAlone DEF StartPID, locals
  <1>3. at[w] \in Sandbox /\ (Present(at[w]) => rec[at[w]].state \in Live)
    BY <1>1 DEF LocalsOK, Present
  <1> DEFINE r == [rec[at[w]] EXCEPT !.pid = copy[w].pid]
  <1>4. /\ r.state = rec[at[w]].state /\ r.gen = rec[at[w]].gen /\ r.exit = rec[at[w]].exit
        /\ r.base = rec[at[w]].base /\ r.slot = rec[at[w]].slot
    BY <1>1, <1>3 DEF StoreType, Record
  <1>5. Update(at[w], r)
    BY DEF StartPID
  <1> HIDE DEF r
  <1>6. CASE Present(at[w])
    BY Zenon, <1>1, <1>2, <1>3, <1>4, <1>5, <1>6, OwnerUpdates
       DEF SameRun, Critical, Careful, Rowless, FinishLabel
  <1>7. CASE ~Present(at[w])
    BY Zenon, <1>1, <1>2, <1>5, <1>7, MovesOn DEF Update, Careful, Rowless, FinishLabel
  <1> QED BY <1>6, <1>7

(* Start's fail() marks the row failed, or finds that it may not. *)
LEMMA StartFailUpdateSeen ==
  ASSUME IInv, ViewInv, NEW w \in Worker, StartFailUpdate(w)
  PROVE  Implemented
  <1>1. w \in Process /\ GoroutineType /\ StoreType /\ LocalsOK(w) /\ pc[w] = "f_update"
    BY Processes, Known DEF StartFailUpdate
  <1>2. Alone({w}) /\ pc'[w] = "idle"
    BY <1>1, ReturnAlone DEF StartFailUpdate
  <1>3. at[w] \in Sandbox
    BY <1>1 DEF LocalsOK
  <1> DEFINE v == [rec[at[w]] EXCEPT !.pid = copy[w].pid, !.released = released[w]]
             r == [v EXCEPT !.state = "failed"]
  <1>4. /\ r.state = "failed" /\ r.gen = rec[at[w]].gen /\ r.exit = rec[at[w]].exit
        /\ r.base = rec[at[w]].base /\ r.slot = rec[at[w]].slot
    BY <1>1, <1>3 DEF StoreType, Record
  <1>5. Update(at[w], r) \/ rec' = rec
    BY DEF StartFailUpdate, UpdateTransition, Update
  <1> HIDE DEF r
  <1>6. CASE Update(at[w], r)
    BY <1>1, <1>2, <1>4, <1>6, OwnerUpdates
       DEF SameRun, Critical, Careful, Rowless, FinishLabel, Live
  <1>7. CASE rec' = rec
    BY <1>1, <1>2, <1>7, MovesOn DEF Careful, Rowless, FinishLabel
  <1> QED BY <1>5, <1>6, <1>7

(* finish keeps the reservation, or records the exit. *)
LEMMA FinishUpdateSeen ==
  ASSUME IInv, ViewInv, NEW p \in Process, FinishLost(p) \/ FinishUpdate(p)
  PROVE  Implemented
  <1>1. /\ GoroutineType /\ StoreType /\ LocalsOK(p) /\ ExitOK(p)
        /\ pc[p] \in {"n_lost", "n_update"}
    BY Known DEF FinishLost, FinishUpdate
  <1>2. at[p] \in Sandbox /\ exit[p] \in Exit \ {"nil"}
    BY <1>1 DEF LocalsOK, ExitOK, FinishLabel, GoroutineType
  <1>3. /\ Alone({p}) /\ pc'[p] \in {"t_wait", "b_scan", "idle", "n_save"}
        /\ pc'[p] \in {"t_wait", "n_save"} => at'[p] = at[p]
        /\ pc'[p] = "n_save" => exit'[p] = exit[p]
    <2>1. CASE FinishReturn(p)
      BY <1>1, <2>1, FinishAlone
    <2>2. CASE ~FinishReturn(p)
      <3>1. Goto(p, "n_save") /\ UNCHANGED <<at, copy, exit>>
        BY <2>2 DEF FinishLost, FinishUpdate, locals
      <3> QED BY <1>1, <3>1, GotoAlone
    <2> QED BY <2>1, <2>2
  <1>4. CASE FinishLost(p)
    <2> DEFINE r == [rec[at[p]] EXCEPT !.state = "failed", !.released = FALSE]
    <2>1. /\ r.state = "failed" /\ r.gen = rec[at[p]].gen /\ r.exit = rec[at[p]].exit
          /\ r.base = rec[at[p]].base /\ r.slot = rec[at[p]].slot
      BY <1>1, <1>2 DEF StoreType, Record
    <2>2. Update(at[p], r)
      BY <1>4 DEF FinishLost
    <2> HIDE DEF r
    <2> QED BY <1>1, <1>2, <1>3, <2>1, <2>2, OwnerUpdates
            DEF SameRun, Critical, Careful, Rowless, FinishLabel, Live
  <1>5. CASE FinishUpdate(p)
    <2> DEFINE r == [rec[at[p]] EXCEPT !.state = IF released[p] THEN "exited" ELSE "failed",
                                       !.exit = exit[p], !.pid = 0,
                                       !.released = released[p]]
    <2>1. /\ r.state \in {"exited", "failed"} /\ r.gen = rec[at[p]].gen /\ r.exit = exit[p]
          /\ r.base = rec[at[p]].base /\ r.slot = rec[at[p]].slot
      BY <1>1, <1>2 DEF StoreType, Record
    <2>2. Update(at[p], r)
      BY <1>5 DEF FinishUpdate
    <2> HIDE DEF r
    <2> QED BY Zenon, <1>1, <1>2, <1>3, <2>1, <2>2, OwnerUpdates
            DEF SameRun, Critical, Careful, Rowless, FinishLabel, Live
  <1> QED BY <1>4, <1>5

(* The deletions of finish and of Remove. *)
LEMMA DeleteSeen ==
  ASSUME IInv, ViewInv, NEW p \in Process,
         FinishDelete(p) \/ (p \in Worker /\ RemoveDelete(p))
  PROVE  Implemented
  <1>1. GoroutineType /\ Delete(at[p]) /\ pc[p] \in {"n_delete", "r_delete"}
    BY Zenon, Known DEF FinishDelete, RemoveDelete
  <1>2. /\ Alone({p}) /\ pc'[p] \in {"t_wait", "b_scan", "idle"}
        /\ pc'[p] = "t_wait" => at'[p] = at[p]
    BY Zenon, <1>1, FinishAlone, ReturnAlone DEF FinishDelete, RemoveDelete
  <1> QED BY <1>1, <1>2, OwnerDeletes DEF Critical, Careful, Rowless, FinishLabel

(* Remove marks the row. *)
LEMMA RemoveMarkSeen ==
  ASSUME IInv, ViewInv, NEW w \in Worker, RemoveMark(w)
  PROVE  Implemented
  <1>1. w \in Process /\ GoroutineType /\ StoreType /\ LocalsOK(w) /\ pc[w] = "r_mark"
    BY Processes, Known DEF RemoveMark
  <1>2. Alone({w}) /\ pc'[w] \in {"r_delete", "r_error"} /\ at'[w] = at[w]
    BY <1>1, GotoAlone DEF RemoveMark, locals
  <1>3. at[w] \in Sandbox
    BY <1>1 DEF LocalsOK
  <1> DEFINE r == [rec[at[w]] EXCEPT !.state = "removing"]
  <1>4. /\ r.state = "removing" /\ r.gen = rec[at[w]].gen /\ r.exit = rec[at[w]].exit
        /\ r.base = rec[at[w]].base /\ r.slot = rec[at[w]].slot
    BY <1>1, <1>3 DEF StoreType, Record
  <1>5. Update(at[w], r)
    BY DEF RemoveMark
  <1> HIDE DEF r
  <1> QED BY <1>1, <1>2, <1>4, <1>5, OwnerUpdates
          DEF SameRun, Critical, Careful, Rowless, FinishLabel, Live

(* Recovery marks an interrupted operation failed, or releases a failed row. *)
LEMMA RecoverUpdateSeen ==
  ASSUME IInv, ViewInv, RecoverUpdate
  PROVE  Implemented
  <1>1. /\ boot \in Process /\ GoroutineType /\ StoreType /\ LocalsOK(boot)
        /\ pc[boot] = "b_update"
    BY Processes, Known DEF RecoverUpdate
  <1>2. /\ Alone({boot}) /\ pc'[boot] \in {"t_wait", "b_scan", "idle"}
        /\ pc'[boot] = "t_wait" => at'[boot] = at[boot]
    BY <1>1, FinishAlone DEF RecoverUpdate
  <1>3. at[boot] \in Sandbox
    BY <1>1 DEF LocalsOK
  <1> DEFINE s == at[boot]
             r1 == [rec[s] EXCEPT !.state = "failed", !.released = released[boot]]
             r2 == [rec[s] EXCEPT !.pid = 0, !.released = TRUE]
  <1>4. /\ r1.state = "failed" /\ r1.gen = rec[s].gen /\ r1.exit = rec[s].exit
        /\ r1.base = rec[s].base /\ r1.slot = rec[s].slot
    BY <1>1, <1>3 DEF StoreType, Record
  <1>5. /\ r2.state = rec[s].state /\ r2.gen = rec[s].gen /\ r2.exit = rec[s].exit
        /\ r2.base = rec[s].base /\ r2.slot = rec[s].slot
    BY <1>1, <1>3 DEF StoreType, Record
  <1>6. \/ Update(s, r1)
        \/ rec[s].state = "failed" /\ (Update(s, r2) \/ Update(s, rec[s]))
    BY DEF RecoverUpdate
  <1> HIDE DEF r1, r2
  <1> QED BY Zenon, <1>1, <1>2, <1>4, <1>5, <1>6, OwnerUpdates
          DEF SameRun, BootLabel, Careful, Rowless, FinishLabel, Live

(* Stop's mark changes an active row, which no Start is about to replace. *)
LEMMA StopMarkSeen ==
  ASSUME IInv, ViewInv, NEW w \in Worker, StopMark(w)
  PROVE  Implemented
  <1>1. w \in Process /\ GoroutineType /\ StoreType /\ LocalsOK(w) /\ pc[w] = "t_mark"
    BY Zenon, Processes, Known DEF StopMark
  <1>2. Alone({w}) /\ pc'[w] = "t_call" /\ at'[w] = at[w]
    BY Zenon, <1>1, GotoAlone DEF StopMark, locals
  <1>3. at[w] \in Sandbox
    BY <1>1 DEF LocalsOK
  <1>4. CASE rec' = rec
    BY <1>1, <1>2, <1>4, MovesOn DEF Careful, Rowless, FinishLabel
  <1>5. CASE rec' # rec
    <2> DEFINE s == at[w]
               r == [rec[s] EXCEPT !.state = "stopping"]
    <2>1. Present(s) /\ CanTransition(rec[s], "stopping") /\ rec' = [rec EXCEPT ![s] = r]
      BY <1>5 DEF StopMark, UpdateTransition
    <2>2. rec[s].state \in {"starting", "running", "stopping"}
      BY <2>1, Predecessors DEF Present
    <2>3. /\ r.state = "stopping" /\ r.gen = rec[s].gen /\ r.exit = rec[s].exit
          /\ r.base = rec[s].base /\ r.slot = rec[s].slot
      BY <1>1, <1>3 DEF StoreType, Record
    <2> HIDE DEF r
    <2>4. UNCHANGED Seen
      BY Zenon, <1>1, <1>3, <2>1, <2>2, <2>3, WriteHidden DEF SameRun, PhaseOf
    <2>5. ASSUME NEW q \in Process \ {w}, at[q] = s
          PROVE  /\ pc[q] \notin {"s_alloc", "s_admit"}
                 /\ pc[q] = "c_prepare" => r.gen = 0 /\ ~r.base
      <3>1. RowOK(q) /\ AdmitOK(q)
        BY Known
      <3> QED BY <2>2, <2>3, <2>5, <3>1 DEF RowOK, AdmitOK
    <2>6. CopyOK(w)'
      <3>1. rec'[s] = r
        BY <1>1, <1>3, <2>1 DEF StoreType
      <3> QED BY <1>1, <1>2, <2>3, <3>1, Fits DEF Careful, FinishLabel
    <2>7. r.state \in Live
      BY <2>3 DEF Live
    <2>8. ViewInv'
      <3>1. \A q \in Process : q \in {w} => CopyOK(q)'
        BY Zenon, <2>6
      <3> QED BY Zenon, <1>2, <1>3, <2>1, <2>3, <2>5, <2>7, <3>1, WritesRow
    <2> QED BY <2>4, <2>8 DEF Implemented
  <1> QED BY <1>4, <1>5

(* Nobody else creates, or is to be admitted to, the sandbox of a Create. *)
LEMMA CreatorAlone ==
  ASSUME IInv, ViewInv, NEW w \in Worker, pc[w] = "c_prepare", NEW q \in Process \ {w},
         at[q] = at[w]
  PROVE  pc[q] \notin {"s_alloc", "s_admit", "c_prepare"}
  <1>1. RowOK(w) /\ AdmitOK(q) /\ Holds(w) /\ Holds(q)
    BY Processes, Known
  <1> QED BY Zenon, <1>1 DEF RowOK, AdmitOK, Holds

(* The end of Create writes the row, if it is still there. *)
LEMMA CreateEndSeen ==
  ASSUME IInv, ViewInv, NEW w \in Worker, CreateDone(w) \/ CreateFail(w)
  PROVE  Implemented
  <1>1. /\ w \in Process /\ GoroutineType /\ StoreType /\ LocalsOK(w) /\ RowOK(w)
        /\ pc[w] = "c_prepare"
    BY Processes, Known DEF CreateDone, CreateFail
  <1>2. Alone({w}) /\ pc'[w] = "idle"
    BY <1>1, ReturnAlone DEF CreateDone, CreateFail
  <1>3. at[w] \in Sandbox
    BY <1>1 DEF LocalsOK
  <1>4. CASE rec' = rec
    BY <1>1, <1>2, <1>4, MovesOn DEF Careful, Rowless, FinishLabel
  <1>5. ASSUME Present(at[w]), NEW r, rec' = [rec EXCEPT ![at[w]] = r], r.state \in Live,
               r.slot = rec[at[w]].slot
        PROVE  ViewInv'
    <2>1. CopyOK(w)'
      BY Zenon, <1>1, <1>2, Fits DEF Careful, Rowless, FinishLabel
    <2>2. \A q \in Process : q \in {w} => CopyOK(q)'
      BY Zenon, <2>1
    <2> QED BY Zenon, <1>1, <1>2, <1>3, <1>5, <2>2, CreatorAlone, WritesRow
  <1>6. CASE rec' # rec /\ CreateDone(w)
    <2> DEFINE r == [copy[w] EXCEPT !.state = "created", !.base = TRUE]
    <2>1. Present(at[w]) /\ rec' = [rec EXCEPT ![at[w]] = r]
      BY <1>6 DEF CreateDone, Update
    <2>2. /\ r.state = "created" /\ r.gen = copy[w].gen /\ r.exit = copy[w].exit
          /\ r.base = TRUE /\ r.slot = copy[w].slot
      BY <1>1 DEF GoroutineType, Record
    <2>3. /\ copy[w].gen = 0 /\ copy[w].exit = "nil" /\ copy[w].slot = rec[at[w]].slot
          /\ rec[at[w]].gen = 0 /\ ~rec[at[w]].base
      BY <1>1, <2>1 DEF RowOK, Present
    <2> HIDE DEF r
    <2>4. V!Next
      BY Zenon, <1>1, <1>3, <2>1, <2>2, <2>3, WriteOpens
    <2> QED BY Zenon, <1>5, <2>1, <2>2, <2>3, <2>4 DEF Implemented, Live
  <1>7. CASE rec' # rec /\ CreateFail(w)
    <2> DEFINE r == [rec[at[w]] EXCEPT !.state = "failed"]
    <2>1. Present(at[w]) /\ rec' = [rec EXCEPT ![at[w]] = r]
      BY <1>7 DEF CreateFail, UpdateTransition
    <2>2. /\ r.state = "failed" /\ r.gen = rec[at[w]].gen /\ r.exit = rec[at[w]].exit
          /\ r.base = rec[at[w]].base /\ r.slot = rec[at[w]].slot
      BY <1>1, <1>3 DEF StoreType, Record
    <2> HIDE DEF r
    <2>3. V!Next
      BY Zenon, <1>1, <1>3, <2>1, <2>2, WriteFails DEF SameRun
    <2> QED BY Zenon, <1>5, <2>1, <2>2, <2>3 DEF Implemented, Live
  <1> QED BY <1>4, <1>6, <1>7

(* Store.Create inserts a row that clashes with none. *)
LEMMA CreateInsertSeen ==
  ASSUME IInv, ViewInv, NEW w \in Worker, CreateInsert(w)
  PROVE  Implemented
  <1>1. /\ w \in Process /\ GoroutineType /\ StoreType /\ LocalsOK(w) /\ RowOK(w) /\ Holds(w)
        /\ pc[w] = "c_insert"
    BY Processes, Known DEF CreateInsert
  <1>2. Alone({w}) /\ pc'[w] = "c_prepare" /\ at'[w] = at[w] /\ copy'[w] = copy[w]
    BY Zenon, <1>1, GotoAlone DEF CreateInsert, locals
  <1> DEFINE s == at[w]
             r == copy[w]
  <1>3. s \in Sandbox /\ rec' = [rec EXCEPT ![s] = r]
    BY Zenon, <1>1 DEF LocalsOK, CreateInsert
  <1>4. /\ r.state = "creating" /\ r.gen = 0 /\ r.exit = "nil" /\ ~r.base
        /\ rec[s].state = "unborn"
        /\ \A t \in Sandbox : Present(t) =>
             rec[t].slot # r.slot /\ ClaimsOf[t] \cap ClaimsOf[s] = {}
    BY Zenon, <1>1 DEF RowOK
  <1>5. r.base = FALSE
    BY Zenon, <1>1, <1>4 DEF GoroutineType, Record
  <1> HIDE DEF s, r
  <1>6. V!Next
    BY Zenon, <1>1, <1>3, <1>4, <1>5, WriteOpens
  <1>7. \A t \in Sandbox : rec'[t] = IF t = s THEN r ELSE rec[t]
    BY <1>1, <1>3 DEF StoreType
  <1>8. ASSUME NEW q \in Process, q # w PROVE CopyOK(q)'
    <2>1. /\ pc'[q] = pc[q] /\ at'[q] = at[q] /\ copy'[q] = copy[q] /\ exit'[q] = exit[q]
          /\ pc[q] \notin Rowless => at[q] \in Sandbox
          /\ RowOK(q) /\ AdmitOK(q) /\ ExitOK(q) /\ Holds(q)
      BY Zenon, <1>2, <1>8, Known DEF Alone, LocalsOK, Rowless
    <2>2. pc[q] \notin {"c_list", "c_insert", "c_prepare"}
      BY <1>1, <1>8, <2>1 DEF Holds
    <2>3. pc[q] \notin Rowless => rec'[at[q]] = rec[at[q]] /\ rec[at[q]].state # "unborn"
      BY Zenon, <1>4, <1>7, <2>1, <2>2 DEF RowOK, Rowless
    <2>4. RowOK(q)'
      BY Zenon, <2>1, <2>2, <2>3 DEF RowOK, Rowless
    <2>5. AdmitOK(q)'
      BY Zenon, <2>1, <2>3 DEF AdmitOK, Rowless
    <2> QED BY Zenon, <2>1, <2>4, <2>5 DEF CopyOK, ExitOK
  <1>9. CopyOK(w)'
    <2>1. rec'[at'[w]] = r /\ copy'[w] = r
      BY <1>2, <1>3, <1>7 DEF s, r
    <2> QED BY <1>2, <1>4, <2>1 DEF CopyOK, RowOK, AdmitOK, ExitOK, FinishLabel
  <1>10. \A t \in Sandbox : rec'[t].state = "gone" => rec'[t] = Gone
    BY <1>4, <1>7 DEF ViewInv
  <1>11. AllocationExclusive'
    <2>1. \A t \in Sandbox : t # s => (Present(t)' <=> Present(t)) /\ rec'[t] = rec[t]
      BY <1>7 DEF Present
    <2> QED BY <1>4, <1>7, <2>1 DEF ViewInv, AllocationExclusive
  <1> QED BY <1>6, <1>8, <1>9, <1>10, <1>11 DEF Implemented, ViewInv

(* Admission replaces the row it has read by the next generation. *)
LEMMA StartAdmitSeen ==
  ASSUME IInv, ViewInv, NEW w \in Worker, StartAdmit(w)
  PROVE  Implemented
  <1>1. /\ w \in Process /\ GoroutineType /\ StoreType /\ LocalsOK(w) /\ AdmitOK(w)
        /\ Holds(w) /\ pc[w] = "s_admit"
    BY Processes, Known DEF StartAdmit
  <1> DEFINE s == at[w]
             r == [copy[w] EXCEPT !.gen = @ + 1, !.state = "starting",
                                  !.exit = "nil", !.released = FALSE]
  <1>2. /\ s \in Sandbox /\ copy[w] = rec[s]
        /\ rec[s].state \in {"created", "exited"} /\ rec[s].base
    BY <1>1 DEF LocalsOK, AdmitOK
  <1>3. Present(s) /\ rec' = [rec EXCEPT ![s] = r]
    BY <1>2 DEF StartAdmit, Update, Present, Live
  <1>4. /\ r.state = "starting" /\ r.gen = rec[s].gen + 1 /\ r.exit = "nil"
        /\ r.base = rec[s].base /\ r.slot = rec[s].slot
    BY Zenon, <1>1, <1>2 DEF StoreType, Record
  <1>5. r.base = TRUE
    BY Zenon, <1>1, <1>2, <1>4 DEF StoreType, Record
  <1>6. Alone({w}) /\ pc'[w] = "s_network" /\ at'[w] = at[w]
    BY <1>1, <1>3 DEF StartAdmit, GoroutineType, Goto, Alone
  <1> HIDE DEF r
  <1>7. V!Next
    BY Zenon, <1>1, <1>2, <1>3, <1>4, <1>5, WriteOpens
  <1>8. ASSUME NEW q \in Process \ {w}, at[q] = s
        PROVE  pc[q] \notin {"s_alloc", "s_admit", "c_prepare"}
    <2>1. Holds(q)
      BY Known
    <2> QED BY <1>1, <1>8, <2>1 DEF Holds, Critical
  <1>9. \A q \in Process : q \in {w} => CopyOK(q)'
    <2>1. rec'[s] = r
      BY Zenon, <1>1, <1>2, <1>3 DEF StoreType
    <2>2. CopyOK(w)'
      BY <1>1, <1>4, <1>6, <2>1, Fits DEF Careful, FinishLabel
    <2> QED BY Zenon, <2>2
  <1>10. ViewInv'
    BY Zenon, <1>2, <1>3, <1>4, <1>6, <1>8, <1>9, WritesRow DEF Live
  <1> QED BY <1>7, <1>10 DEF Implemented

(* Start's last step is hidden; it spawns the monitor. *)
LEMMA StartRunningSeen ==
  ASSUME IInv, ViewInv, NEW w \in Worker, StartRunning(w)
  PROVE  Implemented
  <1>1. /\ w \in Process /\ GoroutineType /\ StoreType /\ LocalsOK(w) /\ RowOK(w)
        /\ pc[w] = "s_running"
    BY Processes, Known DEF StartRunning
  <1> DEFINE s == at[w]
             m == <<s, copy[w].gen>>
             r == [rec[s] EXCEPT !.state = "running"]
  <1>2. s \in Sandbox /\ rec[s].state # "unborn"
    BY <1>1 DEF LocalsOK, RowOK
  <1>3. CASE ~CanTransition(rec[s], "running")
    <2>1. rec' = rec /\ Onward(w, "f_kill") /\ UNCHANGED <<at, copy, exit>>
      BY <1>3 DEF StartRunning, UpdateTransition, locals, Onward, Careful, Rowless, FinishLabel
    <2> QED BY <1>1, <2>1, GoesOn
  <1>4. CASE CanTransition(rec[s], "running")
    <2>1. m # w
      BY <1>1, <1>2, Kinds, RecordFields DEF GoroutineType
    <2>2. /\ pc' = [pc EXCEPT ![w] = "idle", ![m] = "m_get"]
          /\ at' = [at EXCEPT ![w] = NoSandbox, ![m] = s]
          /\ copy' = [copy EXCEPT ![w] = Unborn, ![m] = copy[w]]
          /\ exit' = exit
      BY <1>4 DEF StartRunning
    <2> HIDE DEF m
    <2>3. /\ Alone({w, m}) /\ pc'[w] = "idle"
          /\ m \in Process => pc'[m] = "m_get" /\ at'[m] = s
      BY <1>1, <2>1, <2>2 DEF GoroutineType, Alone
    <2>4. ASSUME rec'[s].state # "unborn"
          PROVE  \A q \in Process : q \in {w, m} => CopyOK(q)'
      <3>1. CopyOK(w)'
        BY <1>1, <2>3, Fits DEF Careful, Rowless, FinishLabel
      <3>2. ASSUME NEW q \in Process, q = m PROVE CopyOK(q)'
        BY <2>3, <2>4, <3>2, Fits DEF Careful, Rowless, FinishLabel
      <3> QED BY <3>1, <3>2
    <2>5. CASE ~Present(s)
      <3>1. rec' = rec
        BY <2>5 DEF StartRunning, UpdateTransition
      <3> QED BY <1>2, <2>3, <2>4, <3>1, Quiet
    <2>6. CASE Present(s)
      <3>1. rec' = [rec EXCEPT ![s] = r]
        BY <1>4, <2>6 DEF StartRunning, UpdateTransition
      <3>2. /\ r.state = "running" /\ r.gen = rec[s].gen /\ r.exit = rec[s].exit
            /\ r.base = rec[s].base /\ r.slot = rec[s].slot
        BY <1>1, <1>2 DEF StoreType, Record
      <3>3. rec[s].state \in {"starting", "running"}
        BY <1>4, <2>6, Predecessors DEF Present
      <3>4. rec'[s] = r
        BY <1>1, <1>2, <3>1 DEF StoreType
      <3> HIDE DEF r
      <3>5. UNCHANGED Seen
        BY Zenon, <1>1, <1>2, <3>1, <3>2, <3>3, WriteHidden DEF SameRun, PhaseOf
      <3>6. ViewInv'
        <4>1. w \in {w, m} /\ r.state \in Live /\ pc[w] \in Critical
          BY Zenon, <1>1, <3>2 DEF Live, Critical
        <4> QED BY Zenon, <1>1, <2>3, <2>4, <2>6, <3>1, <3>2, <3>4, <4>1, OwnerWritesRow
      <3> QED BY <3>5, <3>6 DEF Implemented
    <2> QED BY <2>5, <2>6
  <1> QED BY <1>3, <1>4
-----------------------------------------------------------------------------
(* The daemon's start and end, and the processes it does not control. *)

(* Recover adopts a VMM with a monitor, or begins work on a row. *)
LEMMA RecoverScanSeen ==
  ASSUME IInv, ViewInv, NEW s \in Sandbox, RecoverScan(s)
  PROVE  Implemented
  <1>1. boot \in Process /\ GoroutineType /\ rec' = rec
    BY Zenon, Processes, Known DEF RecoverScan, durable
  <1>2. CASE RecoverAdopt(s)
    <2> DEFINE m == <<s, rec[s].gen>>
    <2>1. /\ Alone({m})
          /\ m \in Process => pc'[m] = "m_get" /\ at'[m] = s
          /\ rec[s].state # "unborn"
      BY Zenon, <1>1, <1>2 DEF RecoverAdopt, GoroutineType, Alone
    <2> HIDE DEF m
    <2>2. ASSUME NEW q \in Process, q = m PROVE CopyOK(q)'
      BY Zenon, <1>1, <2>1, <2>2, Fits DEF Careful, Rowless, FinishLabel
    <2> QED BY <1>1, <2>1, <2>2, Quiet
  <1>3. ASSUME NEW l, NEW x, RecoverWork(s, l, x), rec[s].state # "unborn",
               \/ l = "n_lock" /\ x = "unknown"
               \/ l = "b_kill"
        PROVE  Implemented
    <2>1. Alone({boot}) /\ pc'[boot] = l /\ at'[boot] = s /\ exit'[boot] = x
      BY <1>1, <1>3 DEF RecoverWork, Goto, GoroutineType, Alone
    <2>2. CopyOK(boot)'
      BY Zenon, <1>1, <1>3, <2>1, Fits DEF Careful, Rowless, FinishLabel
    <2> QED BY <1>1, <2>1, <2>2, Quiet
  <1>4. CASE UNCHANGED <<pc, at, locals>>
    <2>1. Alone({})
      BY Zenon, <1>4 DEF Alone, locals
    <2> QED BY <1>1, <2>1, Quiet
  <1>5. \/ RecoverAdopt(s)
        \/ rec[s].state \in {"running", "stopping"} /\ RecoverWork(s, "n_lock", "unknown")
        \/ /\ rec[s].state \in {"creating", "starting", "removing", "failed"}
           /\ RecoverWork(s, "b_kill", "nil")
        \/ UNCHANGED <<pc, at, locals>>
    BY Zenon DEF RecoverScan
  <1> QED BY <1>2, <1>3, <1>4, <1>5

(* The other steps of the boot goroutine. *)
LEMMA BootSeen ==
  ASSUME IInv, ViewInv, Boot \/ RecoverKill \/ RecoverClean \/ RecoverDone
  PROVE  Implemented
  <1>1. boot \in Process /\ GoroutineType
    BY Processes, Known
  <1>2. CASE Boot \/ RecoverDone
    <2>1. /\ rec' = rec /\ Alone({boot}) /\ pc'[boot] \in Rowless
      BY <1>1, <1>2 DEF Boot, RecoverDone, durable, locals, Goto, GoroutineType, Alone, Rowless
    <2> QED BY <1>1, <2>1, MovesOn DEF Careful, Rowless, FinishLabel
  <1>3. CASE RecoverKill \/ RecoverClean
    BY <1>1, <1>3, KillSeen, CleanSeen DEF RecoverKill, RecoverClean
  <1> QED BY <1>2, <1>3

(* A crash or a reboot leaves the rows and no goroutine. *)
LEMMA DownSeen ==
  ASSUME IInv, ViewInv, Crash \/ HostReboot
  PROVE  Implemented
  <1>1. rec' = rec /\ \A p \in Process : pc'[p] = "idle"
    BY DEF Crash, HostReboot, DaemonDown, durable
  <1>2. Alone(Process)
    BY DEF Alone
  <1>3. \A p \in Process : p \in Process => CopyOK(p)'
    BY <1>1, Fits DEF Careful, Rowless, FinishLabel
  <1> QED BY <1>1, <1>2, <1>3, Quiet

(* The VMMs and their applications change neither rows nor goroutines. *)
LEMMA OutsideSeen ==
  ASSUME IInv, ViewInv, UNCHANGED <<durable, memory>>
  PROVE  Implemented
  <1>1. rec' = rec /\ Alone({})
    BY DEF durable, memory, locals, Alone
  <1> QED BY <1>1, Quiet

-----------------------------------------------------------------------------
(* Initially no row is there and nothing is seen. *)
LEMMA InitSeen == Init => ViewInv /\ V!Init
  <1> SUFFICES ASSUME Init PROVE ViewInv /\ V!Init
    OBVIOUS
  <1>1. \A p \in Process : CopyOK(p)
    BY Zenon DEF Init, CopyOK, RowOK, AdmitOK, ExitOK, FinishLabel
  <1>2. \A s \in Sandbox : rec[s] = Unborn /\ rec[s].state = "unborn"
    BY DEF Init, Unborn
  <1>3. ViewInv
    BY <1>1, <1>2 DEF ViewInv, AllocationExclusive, Present, Live
  <1>4. ViewOf(Unborn) = V!Shown("none", 0, "nil", FALSE)
    BY DEF ViewOf, V!Shown, Unborn, PhaseOf
  <1>5. V!Init
    BY Zenon, <1>2, <1>4 DEF V!Init, Seen
  <1> QED BY <1>3, <1>5

(* Every step of Lifecycle keeps ViewInv and is a step of SandboxView or hidden. *)
LEMMA NextSeen ==
  ASSUME IInv, ViewInv, [Next]_vars
  PROVE  Implemented
  <1>1. ASSUME NEW w \in Worker, NEW s \in Sandbox, NewRequest(w, s) PROVE Implemented
    BY <1>1, CreateLockSeen, RequestSeen DEF NewRequest
  <1>2. ASSUME NEW w \in Worker, WorkerStep(w) PROVE Implemented
    <2>1. CASE CreateStep(w)
      BY <2>1, CreateListSeen, CreateInsertSeen, CreateEndSeen DEF CreateStep
    <2>2. CASE StartStep(w)
      BY <2>2, StartLockSeen, StartAllocSeen, StartAdmitSeen, StartSeen, StartPIDSeen,
         StartRunningSeen, StartFailUpdateSeen DEF StartStep
    <2>3. CASE StopStep(w)
      BY <2>3, StopMarkSeen, StopSeen DEF StopStep
    <2>4. CASE RemoveStep(w)
      BY <2>4, RemoveSeen, RemoveMarkSeen, DeleteSeen, Processes DEF RemoveStep
    <2> QED BY <1>2, <2>1, <2>2, <2>3, <2>4 DEF WorkerStep
  <1>3. ASSUME NEW p \in Process, FinishStep(p) PROVE Implemented
    BY <1>3, FinishSeen, FinishUpdateSeen, DeleteSeen DEF FinishStep
  <1>4. CASE RecoverStep
    BY <1>4, RecoverScanSeen, BootSeen, RecoverUpdateSeen DEF RecoverStep
  <1>5. ASSUME NEW s \in Sandbox, NEW g \in Gen, Environment(s, g) PROVE Implemented
    BY <1>5, OutsideSeen DEF Environment, JailerJoins, VMMBoots, VMMDies, AppExits
  <1>6. CASE UNCHANGED vars
    BY <1>6, OutsideSeen DEF vars
  <1> QED BY <1>1, <1>2, <1>3, <1>4, <1>5, <1>6, MonitorSeen, BootSeen, DownSeen DEF Next
=============================================================================
