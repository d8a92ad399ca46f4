-------------------------------- MODULE Logs --------------------------------
(***************************************************************************)
(* The application's output on its way to the user: the guest agent's      *)
(* journal (internal/journal in the VM), the daemon's monitor that copies  *)
(* it into the host's journal (daemon.go), and a client that follows the   *)
(* log (handler.go, cli/root.go).                                          *)
(*                                                                         *)
(* A frame has a type, the sequence number its journal gave it and, for    *)
(* the properties, the number of the write of the application it carries   *)
(* (0 for a gap marker).  All frames have one size, so that the limits in  *)
(* bytes are numbers of frames.  The lifecycle is reduced to what logs see *)
(* of it: the module Lifecycle has the rest.                               *)
(***************************************************************************)
EXTENDS Naturals, Sequences, SequencesExt

CONSTANTS Keep,        \* journal.Limit: frames kept in memory
          Full,        \* journal.Limit: frames in a file that rotates next
          Batch,       \* frames in one answer of Read
          MaxWrites,   \* bound: writes of the application
          MaxStarts,   \* bound: starts of the sandbox
          MaxCrashes,  \* bound: restarts of the daemon
          MaxErrors    \* bound: failing writes of the host's log

ASSUME LogsAssumption ==
  /\ {Keep, Full, Batch, MaxStarts} \subseteq Nat \ {0}
  /\ {MaxWrites, MaxCrashes, MaxErrors} \subseteq Nat

VARIABLES
  app, wrote,            \* the application, and the number of its writes
  frames, old, cur,      \* the guest's journal: in memory, .1 and current file
  state, starts, how,    \* the record's state, its generation, how it ended
  hold, hcur, seq,       \* the host's files, and Journal.seq of the monitor's
  torn,                  \* the host's current file ends in part of a line
  pc, cursor, saved,     \* the monitor, its cursor and its cursor file
  batch, crashes,        \* frames it has fetched; restarts of the daemon
  rpc, rold, rcursor,    \* the follower: its step, .1 as read, its cursor
  logged, trimmed,       \* history: writes in the host's log; given up before
  failed, errors,        \* history: writes the host's log failed to keep
  silent, rsilent        \* history: frames skipped without a gap marker

guest == <<app, wrote, frames, old, cur, trimmed>>
sandbox == <<state, starts, how>>
files == <<hold, hcur, seq, torn, logged, failed, errors, silent>>
monitor == <<pc, cursor, saved, batch>>
follower == <<rpc, rold, rcursor, rsilent>>
vars == <<guest, sandbox, files, monitor, crashes, follower>>

-----------------------------------------------------------------------------
(* The journal.                                                            *)

Frame == [type : {"out", "gap"}, seq : Nat, of : Nat]
Gap(n) == [type |-> "gap", seq |-> n, of |-> 0]
Latest(s, n) == SubSeq(s, Len(s) - n + 1, Len(s))

(* Journal.append: the oldest frames make room.                            *)
Kept(s) == IF Len(s) > Keep THEN Latest(s, Keep) ELSE s

(* A journal reopened from its current file only.                          *)
OpenedCurrent(o, c) == Kept(c)

(* Open.                                                                   *)
Opened(o, c) == Kept(o \o c)
LastSeq(s) == IF s = <<>> THEN 0 ELSE Last(s).seq

(* Read.                                                                   *)
ReadFrom(s, after) ==
  LET newer == SelectSeq(s, LAMBDA f : f.seq > after)
  IN (IF s # <<>> /\ after + 1 < Head(s).seq THEN <<Gap(Head(s).seq - 1)>> ELSE <<>>)
       \o SubSeq(newer, 1, IF Len(newer) < Batch THEN Len(newer) ELSE Batch)

(* A file rotated one frame late.                                          *)
RotatesLate(c) == Len(c) > Full + 1

(* The rotation in Write.                                                  *)
Rotates(c) == Len(c) > Full

Writes(s) == {s[i].of : i \in DOMAIN s}

-----------------------------------------------------------------------------
(* The guest.                                                              *)

Init ==
  /\ app = "off" /\ wrote = 0 /\ frames = <<>> /\ old = <<>> /\ cur = <<>>
  /\ state = "ended" /\ starts = 0 /\ how = "never"
  /\ hold = <<>> /\ hcur = <<>> /\ seq = 0 /\ torn = FALSE
  /\ pc = "off" /\ cursor = 0 /\ saved = 0 /\ batch = <<>> /\ crashes = 0
  /\ rpc = "idle" /\ rold = <<>> /\ rcursor = 0
  /\ logged = {} /\ trimmed = {} /\ failed = {} /\ errors = 0
  /\ silent = FALSE /\ rsilent = FALSE

(* A new generation: the agent reopens its journal on the state disk, and  *)
(* the monitor the host's; this generation has no cursor file yet.         *)
Start ==
  /\ state = "ended" /\ starts < MaxStarts /\ pc = "off"
  /\ state' = "running" /\ starts' = starts + 1 /\ how' = "never"
  /\ app' = "running" /\ frames' = Opened(old, cur)
  /\ pc' = "poll" /\ cursor' = 0 /\ saved' = 0
  /\ seq' = LastSeq(Opened(hold, hcur))
  /\ UNCHANGED <<wrote, old, cur, trimmed, hold, hcur, torn, logged, failed, errors, silent,
                 batch, crashes, follower>>

(* Write in the guest: nothing else sees its files between its steps.      *)
AppWrites ==
  /\ app = "running" /\ wrote < MaxWrites
  /\ LET f == [type |-> "out", seq |-> LastSeq(frames) + 1, of |-> wrote + 1]
     IN /\ frames' = Kept(Append(frames, f))
        /\ old' = IF Rotates(cur) THEN cur ELSE old
        /\ cur' = IF Rotates(cur) THEN <<f>> ELSE Append(cur, f)
        /\ trimmed' = trimmed \cup (Writes(Append(frames, f)) \ Writes(frames'))
  /\ wrote' = wrote + 1
  /\ UNCHANGED <<app, sandbox, files, monitor, crashes, follower>>

(* The agent publishes the exit when all output is in the journal.         *)
AppExits ==
  /\ app = "running" /\ app' = "exited"
  /\ UNCHANGED <<wrote, frames, old, cur, trimmed, sandbox, files, monitor, crashes, follower>>

(* The VM dies, and what it had not synced to the state disk is lost.      *)
GuestDies ==
  /\ app # "off" /\ app' = "off" /\ frames' = <<>>
  /\ \E n \in 0 .. Len(cur) : cur' = SubSeq(cur, 1, n)
  /\ trimmed' = trimmed \cup Writes(frames)
  /\ UNCHANGED <<wrote, old, sandbox, files, monitor, crashes, follower>>

-----------------------------------------------------------------------------
(* The monitor.                                                            *)

MonitorStep(p) == pc' = p /\ UNCHANGED <<guest, crashes, follower>>

(* The call "logs" of the loop; an answer without frames saves the cursor. *)
MonitorLogs ==
  /\ pc = "poll" /\ app # "off"
  /\ batch' = ReadFrom(frames, cursor)
  /\ MonitorStep(IF batch' = <<>> THEN "save" ELSE "write")
  /\ UNCHANGED <<sandbox, files, cursor, saved>>

(* A marker has no data of its own: the loop writes its message, the drain *)
(* writes its empty data, which is nothing.                                *)
Drops == pc = "tail" /\ Head(batch).type = "gap"

LastOf == IF hcur # <<>> THEN Last(hcur) ELSE IF hold # <<>> THEN Last(hold) ELSE Gap(0)
Skips(f) == f.type = "out" /\ LastOf.type = "out" /\ f.of > LastOf.of + 1

(* The monitor is in log.Write, with the first frame it has fetched.       *)
InWrite == pc \in {"write", "tail"} /\ ~Drops

(* It goes on with the next frame: it has not looked at Write's error.     *)
NextFrame ==
  /\ cursor' = Head(batch).seq /\ batch' = Tail(batch)
  /\ MonitorStep(IF Len(batch) > 1 THEN pc ELSE IF pc = "tail" THEN "drain" ELSE "save")
  /\ UNCHANGED <<sandbox, saved>>

(* log.Write: when the host's file is full the one before it is removed    *)
(* (an error of this is ignored, and the rename replaces the file) ...     *)
MonitorRemove ==
  /\ InWrite /\ Rotates(hcur) /\ hold # <<>> /\ hold' = <<>>
  /\ MonitorStep(pc)
  /\ UNCHANGED <<sandbox, hcur, seq, torn, logged, failed, errors, silent, cursor, saved,
                 batch>>

(* ... then the file is renamed ...                                        *)
MonitorRotate ==
  /\ InWrite /\ Rotates(hcur) /\ hold = <<>>
  /\ hold' = hcur /\ hcur' = <<>> /\ torn' = FALSE
  /\ MonitorStep(pc)
  /\ UNCHANGED <<sandbox, seq, logged, failed, errors, silent, cursor, saved, batch>>

(* ... and one frame appended.  After part of a line the frame becomes the *)
(* rest of that line, which Open cannot decode.                            *)
MonitorWrite ==
  /\ InWrite /\ ~Rotates(hcur)
  /\ LET f == Head(batch)
     IN IF torn THEN /\ failed' = failed \cup {f.of}
                     /\ UNCHANGED <<hcur, logged, silent>>
        ELSE /\ hcur' = Append(hcur, [f EXCEPT !.seq = seq + 1])
             /\ logged' = logged \cup {f.of}
             /\ silent' = (silent \/ Skips(f))
             /\ UNCHANGED failed
  /\ seq' = seq + 1 /\ torn' = FALSE
  /\ NextFrame /\ UNCHANGED <<hold, errors>>

(* The rename, the open or the append fails, the last with or without part *)
(* of the line in the file.  The frame has its number and is not in the    *)
(* file.                                                                   *)
MonitorWriteFails ==
  /\ InWrite /\ (Rotates(hcur) => hold = <<>>)
  /\ errors < MaxErrors /\ errors' = errors + 1
  /\ seq' = seq + 1 /\ failed' = failed \cup {Head(batch).of}
  /\ torn' \in (IF Rotates(hcur) THEN {torn} ELSE {torn, TRUE})
  /\ NextFrame /\ UNCHANGED <<hold, hcur, logged, silent>>

(* Write of no data does nothing.                                          *)
MonitorDrop == Drops /\ NextFrame /\ UNCHANGED files

(* A monitor that saves the number of the guest's newest frame.            *)
MonitorSaveAhead ==
  /\ pc = "save" /\ saved' = LastSeq(frames)
  /\ MonitorStep("status")
  /\ UNCHANGED <<sandbox, files, cursor, batch>>

(* The cursor file, after the frames it counts; an error is ignored.       *)
MonitorSave ==
  /\ pc = "save" /\ saved' \in {cursor, saved}
  /\ MonitorStep("status")
  /\ UNCHANGED <<sandbox, files, cursor, batch>>

(* A monitor that takes the exit for the end of the output.                *)
MonitorStatusNoDrain ==
  /\ pc = "status" /\ app # "off"
  /\ IF app = "exited" THEN pc' = "off" /\ state' = "ended" /\ how' = "exit"
     ELSE pc' = "poll" /\ UNCHANGED <<state, how>>
  /\ UNCHANGED <<guest, starts, files, cursor, saved, batch, crashes, follower>>

(* A monitor that waits for output after the exit.                         *)
MonitorStatusWaiting ==
  /\ pc = "status" /\ app # "off"
  /\ MonitorStep(IF app = "exited" /\ LastSeq(frames) > cursor THEN "drain" ELSE "poll")
  /\ UNCHANGED <<sandbox, files, cursor, saved, batch>>

(* The call "status".                                                      *)
MonitorStatus ==
  /\ pc = "status" /\ app # "off"
  /\ MonitorStep(IF app = "exited" THEN "drain" ELSE "poll")
  /\ UNCHANGED <<sandbox, files, cursor, saved, batch>>

(* finish, and with it the end of the VM.                                  *)
Finish(reason) ==
  /\ pc' = "off" /\ state' = "ended" /\ how' = reason
  /\ app' = "off" /\ frames' = <<>>
  /\ trimmed' = IF reason = "exit" THEN trimmed ELSE trimmed \cup Writes(frames)
  /\ UNCHANGED <<wrote, old, cur, starts, files, cursor, saved, crashes, follower>>

(* Calls "logs" until one answers with no frame.                           *)
MonitorDrain ==
  /\ pc = "drain" /\ app # "off"
  /\ batch' = ReadFrom(frames, cursor)
  /\ IF batch' = <<>> THEN Finish("exit")
     ELSE MonitorStep("tail") /\ UNCHANGED <<sandbox, files, cursor, saved>>

(* A call may fail, of a dead guest or of a slow one.  In the drain the    *)
(* first failure ends it, with the exit reported before; in the loop the   *)
(* fifth in a row does.  Lifecycle counts them; here one that is not the   *)
(* last leaves the files, the cursor and the guest as they are.            *)
MonitorFailure ==
  /\ pc \in {"poll", "status", "drain"}
  /\ Finish(IF pc = "drain" THEN "cut" ELSE "lost") /\ UNCHANGED batch

(* The daemon stops anywhere and is started again: Recover, and a new      *)
(* monitor of the generation with its cursor file.                         *)
Crash ==
  /\ state = "running" /\ crashes < MaxCrashes /\ crashes' = crashes + 1
  /\ pc' = "poll" /\ cursor' = saved /\ batch' = <<>>
  /\ seq' = LastSeq(Opened(hold, hcur))
  /\ UNCHANGED <<guest, sandbox, hold, hcur, torn, logged, failed, errors, silent, saved,
                 follower>>

-----------------------------------------------------------------------------
(* A client that follows the log.                                          *)

FollowerStep == UNCHANGED <<guest, sandbox, files, monitor, crashes>>

(* The handler opens the two files one after the other ...                 *)
FollowOpen ==
  /\ rpc = "idle" /\ rpc' = "open" /\ rold' = hold
  /\ UNCHANGED <<rcursor, rsilent>> /\ FollowerStep

(* ... and answers what is newer than the cursor.  The client asks again   *)
(* until there is nothing, and then for the state.                         *)
FollowRead ==
  /\ rpc = "open"
  /\ LET s == ReadFrom(Opened(rold, hcur), rcursor)
     IN /\ rcursor' = IF s = <<>> THEN rcursor ELSE Last(s).seq
        /\ rpc' = IF s = <<>> THEN "inspect" ELSE "idle"
        /\ rsilent' = (rsilent \/ \E i \in DOMAIN s : s[i].type = "out" /\
             s[i].seq > 1 + IF i = 1 THEN rcursor ELSE s[i - 1].seq)
  /\ rold' = <<>> /\ FollowerStep

(* A client that knows the state "exited" only.                            *)
FollowInspectExited ==
  /\ rpc = "inspect" /\ starts > 0
  /\ rpc' = IF state = "ended" /\ how # "lost" THEN "done" ELSE "idle"
  /\ UNCHANGED <<rold, rcursor, rsilent>> /\ FollowerStep

FollowInspect ==
  /\ rpc = "inspect" /\ starts > 0
  /\ rpc' = IF state = "ended" THEN "done" ELSE "idle"
  /\ UNCHANGED <<rold, rcursor, rsilent>> /\ FollowerStep

-----------------------------------------------------------------------------
Monitors ==
  \/ MonitorLogs \/ MonitorRemove \/ MonitorRotate \/ MonitorWrite
  \/ MonitorWriteFails \/ MonitorDrop \/ MonitorSave
  \/ MonitorStatus \/ MonitorDrain \/ MonitorFailure
Follows == FollowOpen \/ FollowRead \/ FollowInspect
Next == Start \/ AppWrites \/ AppExits \/ GuestDies \/ Crash \/ Monitors \/ Follows

Spec == Init /\ [][Next]_vars

(* The monitor's loop runs on until it ends, and so does the client's.     *)
FairSpec == Spec /\ WF_vars(Monitors) /\ WF_vars(Follows)

-----------------------------------------------------------------------------
(* Type invariant.  The host's file never grows past its limit and the one *)
(* frame that shows the excess (Write rotates before it appends).          *)
TypeOK ==
  /\ app \in {"off", "running", "exited"} /\ wrote \in 0 .. MaxWrites
  /\ {frames, old, cur, hold, hcur, batch, rold} \subseteq Seq(Frame)
  /\ Len(frames) <= Keep /\ Len(batch) <= Batch + 1
  /\ \A s \in {old, cur, hold, hcur} : Len(s) <= Full + 1
  /\ state \in {"running", "ended"} /\ starts \in 0 .. MaxStarts
  /\ how \in {"never", "exit", "cut", "lost"}
  /\ pc \in {"off", "poll", "write", "save", "status", "drain", "tail"}
  /\ {seq, cursor, saved, rcursor} \subseteq Nat /\ crashes \in 0 .. MaxCrashes
  /\ rpc \in {"idle", "open", "inspect", "done"}
  /\ logged \cup trimmed \cup failed \subseteq 0 .. MaxWrites
  /\ errors \in 0 .. MaxErrors /\ {torn, silent, rsilent} \subseteq BOOLEAN

(* What the monitor has not copied yet is in front of its cursor.          *)
Pending == Writes(batch) \cup Writes(SelectSeq(frames, LAMBDA f : f.seq > cursor))

(* No write is skipped: it has been in the host's log, is in front of the  *)
(* cursor, was given up by the guest before it was copied, or was lost to  *)
(* a failing write of the host's log, whose error the monitor ignores.  A  *)
(* restart of the daemon between any two steps of the copy changes nothing *)
(* of this (monitor saves the cursor after the frames).                    *)
NothingSkipped == 1 .. wrote \subseteq logged \cup trimmed \cup failed \cup Pending

(* An exit is recorded after every frame of the guest's journal has been   *)
(* written, unless a call of the drain fails ("Drain every remaining       *)
(* bounded batch before stopping the VM"); what is not in the host's log   *)
(* then is what the guest gave up and what the host failed to write.       *)
DrainedFirst == how = "exit" => 1 .. wrote \subseteq logged \cup trimmed \cup failed

(* Sequence numbers on the host are never given twice, whatever restarts   *)
(* between the rename of the file and the next append, so that a           *)
(* follower's cursor hides no frame from it.                               *)
SequenceContinues ==
  /\ \A i, j \in DOMAIN (hold \o hcur) :
       i < j => (hold \o hcur)[i].seq < (hold \o hcur)[j].seq
  /\ rcursor <= LastSeq(hold \o hcur)

(* Once the application has exited the drain comes to its end and the      *)
(* record is updated, output or none: every answer with frames moves the   *)
(* cursor.                                                                 *)
DrainEnds == app = "exited" ~> state = "ended"

(* A follower returns once the sandbox has ended for good.                 *)
FollowerReturns == <>[](state = "ended" /\ starts > 0) => <>(rpc = "done")

(* "Journals rotate and expose sequence gaps": frames missing in the       *)
(* host's log have a marker in their place.                                *)
GapsExposed == ~silent

(* The same of what a follower is sent.                                    *)
FollowerGapsExposed == ~rsilent
=============================================================================
