----------------------------- MODULE GuestAgent -----------------------------
(***************************************************************************)
(* The agent in the VM (internal/guest/agent.go): it runs one container    *)
(* with runc and answers start, signal, stop, exec and attach, each call   *)
(* on a goroutine of its own, while another goroutine waits for the        *)
(* container's end.  Agent.mu is taken for single reads and writes of the  *)
(* agent's fields; every place where it is not held is a step of its own.  *)
(*                                                                         *)
(* Output is counted in frames.  The journal's rotation is in Logs, the    *)
(* file copies of copy.go are not modelled.  A call's deadline may pass    *)
(* wherever the code looks at it.                                          *)
(***************************************************************************)
EXTENDS Naturals, FiniteSets

CONSTANTS Caller,      \* goroutines serving a call, one call each
          Op, ExecID,  \* operation IDs of starts, IDs of execs
          MaxOutput,   \* bound: frames the application writes
          none

ASSUME AgentAssumption ==
  /\ MaxOutput \in Nat /\ none \notin Op \cup ExecID

VARIABLES
  state, op, execs, \* Agent.state (with it Agent.exit), Agent.op, Agent.execs
  tty,              \* Spec.TTY of the sandbox
  pidfile,          \* /run/niflhel/app.pid is there
  runc, killed,     \* the container and whether it got a SIGKILL
  output, journal,  \* frames the application wrote; those in the journal
  wait,             \* the goroutine of start that waits for the container
  pc, arg,          \* a call's next step and its operation or exec ID
  sent, exit,       \* attach: the cursor, and the exit as it was read
  result,           \* what a call returned
  launched, ran     \* history: containers launched; runs of each exec's command

fields == <<state, op, execs, tty>>
container == <<pidfile, runc, killed, output>>
history == <<launched, ran>>
vars == <<fields, container, journal, wait, pc, arg, sent, exit, result, history>>

Init ==
  /\ state = "ready" /\ op = none /\ execs = {} /\ tty \in BOOLEAN
  /\ pidfile = FALSE /\ runc = "none" /\ killed = FALSE
  /\ output = 0 /\ journal = 0 /\ wait = "none"
  /\ pc = [c \in Caller |-> "idle"] /\ arg = [c \in Caller |-> none]
  /\ sent = [c \in Caller |-> 0] /\ exit = [c \in Caller |-> FALSE]
  /\ result = [c \in Caller |-> "none"]
  /\ launched = 0 /\ ran = [i \in ExecID |-> 0]

Goto(c, p) == pc' = [pc EXCEPT ![c] = p] /\ UNCHANGED result
Return(c, r) == pc' = [pc EXCEPT ![c] = "done"] /\ result' = [result EXCEPT ![c] = r]

-----------------------------------------------------------------------------
(* start and awaitStarted.                                                 *)

Launch(o) ==
  /\ state' = "running" /\ op' = o /\ runc' = "launching" /\ wait' = "wait"
  /\ launched' = launched + 1

(* A start that knows its own operation only.                              *)
StartAnyState(c, o) ==
  /\ pc[c] = "idle"
  /\ \/ /\ op = o /\ Goto(c, "await")
        /\ UNCHANGED <<fields, runc, wait, launched>>
     \/ /\ op # o /\ Launch(o) /\ Goto(c, "await") /\ UNCHANGED <<execs, tty>>
  /\ UNCHANGED <<pidfile, killed, output, journal, arg, sent, exit, ran>>

(* All of start is under mu.  Building the configuration or starting runc  *)
(* may fail, and leaves the agent ready.                                   *)
Start(c, o) ==
  /\ pc[c] = "idle"
  /\ \/ /\ op = o /\ Goto(c, "await")
        /\ UNCHANGED <<fields, runc, wait, launched>>
     \/ /\ op # o /\ state # "ready" /\ Return(c, "error")
        /\ UNCHANGED <<fields, runc, wait, launched>>
     \/ /\ op # o /\ state = "ready" /\ Return(c, "error")
        /\ UNCHANGED <<fields, runc, wait, launched>>
     \/ /\ op # o /\ state = "ready" /\ Launch(o) /\ Goto(c, "await") /\ UNCHANGED <<execs, tty>>
  /\ UNCHANGED <<pidfile, killed, output, journal, arg, sent, exit, ran>>

Await(c) ==
  /\ pc[c] = "await"
  /\ IF pidfile THEN Return(c, "started") ELSE Goto(c, "await_exit")
  /\ UNCHANGED <<fields, container, journal, wait, arg, sent, exit, history>>

AwaitExit(c) ==
  /\ pc[c] = "await_exit"
  /\ IF state = "exited" THEN Return(c, "early")
     ELSE Goto(c, "await") \/ Return(c, "error")
  /\ UNCHANGED <<fields, container, journal, wait, arg, sent, exit, history>>

-----------------------------------------------------------------------------
(* The goroutine that waits for the container.                             *)

WaitStep(p) ==
  /\ wait' = p
  /\ UNCHANGED <<op, execs, tty, pidfile, killed, output, journal, pc, arg, sent, exit,
                 result, history>>

(* A wait for the process that does not wait for its output.               *)
WaitProcess ==
  /\ wait = "wait" /\ runc = "dead"
  /\ WaitStep("delete") /\ UNCHANGED <<state, runc>>

(* cmd.Wait returns when the container's init is gone and, without a       *)
(* terminal, its output is copied; a terminal is closed, what was not read *)
(* from it is lost, and its copy ends.                                     *)
WaitReturns ==
  /\ wait = "wait" /\ runc = "dead" /\ (tty \/ journal = output)
  /\ WaitStep("delete") /\ UNCHANGED <<state, runc>>

(* "runc delete --force", whose error is ignored.                          *)
WaitDelete ==
  /\ wait = "delete" /\ runc' \in {"deleted", runc}
  /\ WaitStep("publish") /\ UNCHANGED state

WaitPublish ==
  /\ wait = "publish" /\ state' = "exited"
  /\ WaitStep("done") /\ UNCHANGED runc

-----------------------------------------------------------------------------
(* signal and stop.                                                        *)

(* runc kill: it fails unless the container is there, and when the call's  *)
(* deadline cuts it off.                                                   *)
KillAnswers == runc = "running"

CallStep(c) == UNCHANGED <<fields, journal, wait, arg, sent, exit, history>>

Signal(c) ==
  /\ pc[c] = "idle"
  /\ IF state = "running" THEN Goto(c, "signal") ELSE Return(c, "error")
  /\ UNCHANGED container /\ CallStep(c)

(* A signal other than SIGKILL, which the application may ignore.          *)
SignalKill(c) ==
  /\ pc[c] = "signal"
  /\ \/ Return(c, "error")
     \/ KillAnswers /\ Return(c, "signalled")
  /\ UNCHANGED container /\ CallStep(c)

Stop(c) ==
  /\ pc[c] = "idle"
  /\ IF state = "running" THEN Goto(c, "stop") ELSE Return(c, "not_running")
  /\ UNCHANGED container /\ CallStep(c)

(* signal looks at the state again.                                        *)
StopSignal(c) ==
  /\ pc[c] = "stop"
  /\ IF state = "running" THEN Goto(c, "stop_kill") ELSE Return(c, "error")
  /\ UNCHANGED container /\ CallStep(c)

StopKill(c) ==
  /\ pc[c] = "stop_kill"
  /\ \/ Return(c, "error")
     \/ KillAnswers /\ Goto(c, "stop_loop")
  /\ UNCHANGED container /\ CallStep(c)

(* One round: the state, and then whichever of the call's deadline, the    *)
(* timer and the next round comes first.                                   *)
StopLoop(c) ==
  /\ pc[c] = "stop_loop"
  /\ IF state # "running" THEN Return(c, "stopped")
     ELSE Goto(c, "force") \/ Return(c, "error")
  /\ UNCHANGED container /\ CallStep(c)

Force(c) ==
  /\ pc[c] = "force"
  /\ IF state = "running" THEN Goto(c, "force_kill") ELSE Return(c, "error")
  /\ UNCHANGED container /\ CallStep(c)

ForceKill(c) ==
  /\ pc[c] = "force_kill"
  /\ \/ Return(c, "error") /\ killed' \in {killed, killed \/ KillAnswers}
     \/ KillAnswers /\ Return(c, "stopped") /\ killed' = TRUE
  /\ UNCHANGED <<pidfile, runc, output>> /\ CallStep(c)

-----------------------------------------------------------------------------
(* exec.                                                                   *)

(* An exec that does not record its ID.                                      *)
ExecUnrecorded(c, i) ==
  /\ pc[c] = "idle"
  /\ IF state = "running" /\ i \notin execs
       THEN Goto(c, "exec") /\ arg' = [arg EXCEPT ![c] = i]
       ELSE Return(c, "error") /\ UNCHANGED arg
  /\ UNCHANGED <<fields, container, journal, wait, sent, exit, history>>

Exec(c, i) ==
  /\ pc[c] = "idle"
  /\ IF state = "running" /\ i \notin execs
       THEN /\ Goto(c, "exec") /\ arg' = [arg EXCEPT ![c] = i]
            /\ execs' = execs \cup {i}
       ELSE Return(c, "error") /\ UNCHANGED <<arg, execs>>
  /\ UNCHANGED <<state, op, tty, container, journal, wait, sent, exit, history>>

(* The command runs if the container is still there; its preparation may   *)
(* fail.  The exit frame follows its output (the same wait as start's).    *)
ExecRun(c) ==
  /\ pc[c] = "exec"
  /\ \/ Return(c, "error") /\ UNCHANGED ran
     \/ /\ runc = "running" /\ ran' = [ran EXCEPT ![arg[c]] = @ + 1]
        /\ Return(c, "executed")
  /\ UNCHANGED <<fields, container, journal, wait, arg, sent, exit, launched>>

-----------------------------------------------------------------------------
(* attach.                                                                 *)

AttachStep == UNCHANGED <<fields, container, journal, wait, arg, history>>

Attach(c) ==
  /\ pc[c] = "idle" /\ Goto(c, "attach")
  /\ UNCHANGED <<sent, exit>> /\ AttachStep

(* The frames of one Read, any number up to all there are.                 *)
AttachRead(c) ==
  /\ pc[c] = "attach"
  /\ \E n \in sent[c] .. journal :
       /\ (n = sent[c] => journal = sent[c])
       /\ sent' = [sent EXCEPT ![c] = n]
  /\ Goto(c, "attach_exit") /\ UNCHANGED exit /\ AttachStep

(* An attach that looks for the exit while there is output only.           *)
AttachExitBehind(c) ==
  /\ pc[c] = "attach_exit"
  /\ exit' = [exit EXCEPT ![c] = state = "exited" /\ sent[c] < journal]
  /\ Goto(c, "attach_last") /\ UNCHANGED sent /\ AttachStep

AttachExit(c) ==
  /\ pc[c] = "attach_exit"
  /\ exit' = [exit EXCEPT ![c] = state = "exited"]
  /\ Goto(c, "attach_last") /\ UNCHANGED sent /\ AttachStep

(* An attach that reports the exit as soon as it sees it.                  *)
AttachLastUnchecked(c) ==
  /\ pc[c] = "attach_last"
  /\ IF exit[c] THEN Return(c, "exit")
     ELSE Goto(c, "attach") \/ Return(c, "detached")
  /\ UNCHANGED <<sent, exit>> /\ AttachStep

(* The second Read; else the next round, or the client has gone.           *)
AttachLast(c) ==
  /\ pc[c] = "attach_last"
  /\ IF exit[c] /\ journal = sent[c] THEN Return(c, "exit")
     ELSE Goto(c, "attach") \/ Return(c, "detached")
  /\ UNCHANGED <<sent, exit>> /\ AttachStep

-----------------------------------------------------------------------------
(* runc, the application and the copy of its output.                       *)

World == UNCHANGED <<fields, wait, pc, arg, sent, exit, result, history>>

RuncCreates ==
  /\ runc = "launching" /\ runc' = "running" /\ pidfile' = TRUE
  /\ UNCHANGED <<killed, output, journal>> /\ World

RuncFails ==
  /\ runc = "launching" /\ runc' = "dead"
  /\ UNCHANGED <<pidfile, killed, output, journal>> /\ World

AppWrites ==
  /\ runc = "running" /\ output < MaxOutput /\ output' = output + 1
  /\ UNCHANGED <<pidfile, runc, killed, journal>> /\ World

AppDies ==
  /\ runc = "running" /\ runc' = "dead"
  /\ UNCHANGED <<pidfile, killed, output, journal>> /\ World

Copy ==
  /\ journal < output /\ (wait = "wait" \/ ~tty) /\ journal' = journal + 1
  /\ UNCHANGED container /\ World

-----------------------------------------------------------------------------
Waiter == WaitReturns \/ WaitDelete \/ WaitPublish
Ask(c) ==
  \/ \E o \in Op : Start(c, o)
  \/ \E i \in ExecID : Exec(c, i)
  \/ Signal(c) \/ Stop(c) \/ Attach(c)
Serve(c) ==
  \/ Await(c) \/ AwaitExit(c) \/ SignalKill(c) \/ StopSignal(c) \/ StopKill(c)
  \/ StopLoop(c) \/ Force(c) \/ ForceKill(c) \/ ExecRun(c)
  \/ AttachRead(c) \/ AttachExit(c) \/ AttachLast(c)
Next ==
  \/ \E c \in Caller : Ask(c) \/ Serve(c)
  \/ Waiter \/ RuncCreates \/ RuncFails \/ AppWrites \/ AppDies \/ Copy

Spec == Init /\ [][Next]_vars

(* Goroutines run on, runc's launch ends, and a SIGKILL ends the container. *)
FairSpec ==
  /\ Spec
  /\ WF_vars(Waiter) /\ WF_vars(Copy) /\ WF_vars(RuncCreates \/ RuncFails)
  /\ WF_vars(killed /\ AppDies)
  /\ \A c \in Caller : WF_vars(Serve(c))

-----------------------------------------------------------------------------
(* Type invariant.  One container at most is launched in a VM, however     *)
(* often start is called and with whatever operation.                      *)
TypeOK ==
  /\ state \in {"ready", "running", "exited"} /\ op \in Op \cup {none} /\ tty \in BOOLEAN
  /\ execs \subseteq ExecID /\ pidfile \in BOOLEAN /\ killed \in BOOLEAN
  /\ runc \in {"none", "launching", "running", "dead", "deleted"}
  /\ output \in 0 .. MaxOutput /\ journal \in 0 .. MaxOutput
  /\ wait \in {"none", "wait", "delete", "publish", "done"}
  /\ pc \in [Caller -> {"idle", "await", "await_exit", "signal", "stop", "stop_kill",
                        "stop_loop", "force", "force_kill", "exec", "attach", "attach_exit",
                        "attach_last", "done"}]
  /\ arg \in [Caller -> ExecID \cup {none}]
  /\ sent \in [Caller -> 0 .. MaxOutput] /\ exit \in [Caller -> BOOLEAN]
  /\ result \in [Caller -> {"none", "error", "started", "early", "signalled", "stopped",
                            "not_running", "executed", "exit", "detached"}]
  /\ launched \in 0 .. 1 /\ ran \in [ExecID -> Nat]

(* Once the exit is published the journal does not grow, with a terminal   *)
(* or without: the daemon's drain, which ends at the first empty answer    *)
(* after the status says "exited", has then had all there will be.         *)
OutputFinal == [][state = "exited" => UNCHANGED journal]_vars

(* The exit frame of an attach comes after every frame of the journal,     *)
(* whatever is written between its reads; without a terminal that is all   *)
(* the application wrote.                                                  *)
ExitFrameLast ==
  \A c \in Caller :
    result[c] = "exit" => sent[c] = journal /\ (tty \/ sent[c] = output)

(* "command will not be replayed": the command of an exec runs once,       *)
(* however many calls submit it.                                           *)
ExecOnce == \A i \in ExecID : ran[i] <= 1

(* A successful stop is followed by the exit's publication, and an attach  *)
(* whose container has ended sends what is left and returns.               *)
CallsEnd ==
  /\ []<>(\A c \in Caller : result[c] = "stopped" => state = "exited")
  /\ \A c \in Caller :
       []<>~(pc[c] \in {"attach", "attach_exit", "attach_last"} /\ state = "exited")

(* "or reports the launcher's early failure": a start that says the        *)
(* runtime exited before init was started says so of one that was not.     *)
EarlyIsEarly == \A c \in Caller : result[c] = "early" => ~pidfile
=============================================================================
