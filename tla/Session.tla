------------------------------ MODULE Session ------------------------------
(***************************************************************************)
(* Sessions: the streams of frames of internal/wire, and what runs at      *)
(* their ends.  A client (`run`, `exec`, `cp` or `base load`) is connected *)
(* to the daemon; the daemon either serves it (load, attach to a sandbox   *)
(* that has ended) or dials the guest and relays frames between the two    *)
(* connections with one goroutine per direction.                           *)
(*                                                                         *)
(*      client "c" <---> "s" daemon "u" <---> "g" guest agent              *)
(*                                                                         *)
(* inbox[e] holds what was sent to end e and not yet received: the buffers *)
(* of the kernel and of the receiving bufio.Reader.  Data frames are       *)
(* numbered, their bytes and the kind of stream are left out.              *)
(***************************************************************************)
EXTENDS Naturals, Sequences

CONSTANTS Kinds,   \* the commands
          Output,  \* bound: data frames sent to the client
          Input,   \* bound: data frames the client sends
          Cap,     \* frames a connection holds in one direction
          Keep,    \* journal.Limit: frames a journal holds
          Faults   \* what may happen besides

Kind == {"run", "exec", "exectty", "cpin", "cpout", "load"}
Fault == {"vm",      \* the VM stops while its application runs
          "daemon",  \* the daemon dies
          "client",  \* the client dies
          "source"}  \* the client cannot read what it is to send

ASSUME SessionAssumption ==
  /\ Kinds \subseteq Kind /\ Faults \subseteq Fault
  /\ Output \in Nat /\ Input \in Nat /\ {Cap, Keep} \subseteq Nat \ {0}

VARIABLES
  kind,           \* the command of this session
  inbox, closed,  \* of each end of a connection
  cli, got,       \* the client's receiver and the last data frame it has handled
  missed,         \* data frames it was told are missing
  answer,         \* what the command returns
  writer, put,    \* the client's sender and the data frames it has sent
  sentAll,        \* whether it ended without an error
  serve,          \* the daemon's handler of the session
  relay,          \* its main goroutine in Relay
  copier, held,   \* Relay's two goroutines, by the end they receive at
  handler, sent,  \* who serves the session and the last data frame it has sent
  batch,          \* frames it has read from a journal and not sent yet
  reply,          \* the answer it has sent
  used,           \* data frames it has consumed
  reader,         \* the goroutine of attach or exec that reads the input
  app, out,       \* the application, and the data frames it has written (of run:
                  \* those that were written to the journal the handler reads)
  stdin           \* data frames the application has not read yet

connections == <<inbox, closed>>
client == <<cli, got, missed, answer, writer, put, sentAll>>
daemon == <<serve, relay, copier, held>>
guest  == <<handler, sent, batch, reply, used, reader>>
world  == <<app, out, stdin>>
vars   == <<kind, connections, client, daemon, guest, world>>

-----------------------------------------------------------------------------
(* Frames and streams.                                                     *)

Data(n) == [type |-> "data", n |-> n]
Gap(n)  == [type |-> "gap", n |-> n]
Ctl(t)  == [type |-> t, n |-> 0]
NoFrame == Ctl("none")

End == {"c", "s", "u", "g"}
Peer == [c |-> "s", s |-> "c", u |-> "g", g |-> "u"]

\* Stream.Send.  An error: the stream is closed at either end, or nothing was
\* taken from it for 30 seconds.  What is written to the guest's connection
\* when the other end is closed may be accepted all the same.
Send(e, f, ok) ==
  \/ /\ ok = TRUE
     /\ ~closed[e] /\ ~closed[Peer[e]] /\ Len(inbox[Peer[e]]) < Cap
     /\ inbox' = [inbox EXCEPT ![Peer[e]] = Append(@, f)]
  \/ /\ ok = TRUE
     /\ e \in {"u", "g"} /\ ~closed[e] /\ closed[Peer[e]]
     /\ UNCHANGED inbox
  \/ /\ ok = FALSE
     /\ closed[e] \/ closed[Peer[e]] \/ Len(inbox[Peer[e]]) = Cap
     /\ UNCHANGED inbox

\* Stream.Recv.  Frames left in the bufio.Reader of a stream that is closed here
\* are ignored: whoever received one has nobody to pass it on to.
Recv(e) ==
  /\ ~closed[e] /\ inbox[e] # <<>>
  /\ inbox' = [inbox EXCEPT ![e] = Tail(@)]

Hang(E) == closed' = [e \in End |-> closed[e] \/ e \in E]

\* Stream.Close.
Close(E) == Hang(E) /\ inbox' = [e \in End |-> IF e \in E THEN <<>> ELSE inbox[e]]

\* An error of Recv closes the stream; what the peer sent before it closed is
\* received first.
RecvFails(e) ==
  /\ closed[e] \/ (closed[Peer[e]] /\ inbox[e] = <<>>)
  /\ Close({e})

-----------------------------------------------------------------------------
(* The client: App.session, copyCommand, upload, attachOrWait.             *)

Copies == {"cpin", "load"}            \* commands that send an archive
Execs == {"exec", "exectty"}
Interactive == {"run"} \cup Execs

Return(a) == cli' = "done" /\ answer' = a

CliStep == UNCHANGED <<kind, writer, put, sentAll, daemon, guest, world>>

\* Data is written out; of a gap the message is, which says that older frames
\* are missing.
CliData ==
  /\ cli = "recv" /\ Recv("c") /\ Head(inbox["c"]).type \in {"data", "gap"}
  /\ got' = Head(inbox["c"]).n
  /\ missed' = missed + IF Head(inbox["c"]).type = "gap" THEN got' - got ELSE 0
  /\ UNCHANGED <<closed, cli, answer>> /\ CliStep

\* An answer.  An exit ends the session, except that the sender of an archive
\* is asked for its result first; run asks Wait after an error.
CliAnswer ==
  /\ cli = "recv" /\ ~closed["c"] /\ inbox["c"] # <<>>
  /\ Head(inbox["c"]).type \notin {"data", "gap"}
  /\ LET t == Head(inbox["c"]).type
     IN \/ /\ t = "exit" /\ kind \in Copies
           /\ cli' = "join" /\ Recv("c") /\ UNCHANGED <<answer, closed>>
        \/ /\ t = "error" /\ kind = "run"
           /\ cli' = "wait" /\ Close({"c"}) /\ UNCHANGED answer
        \/ /\ ~(t = "exit" /\ kind \in Copies) /\ ~(t = "error" /\ kind = "run")
           /\ Return(t) /\ Close({"c"})
  /\ UNCHANGED <<got, missed>> /\ CliStep

CliJoin ==
  /\ cli = "join" /\ writer = "done"
  /\ Return(IF sentAll THEN "exit" ELSE "error") /\ Close({"c"})
  /\ UNCHANGED <<got, missed>> /\ CliStep

\* The connection ended without an answer.  In copy-out the end of the
\* connection is the end of the archive: an error in the middle of an entry,
\* and none between two.
CliCut ==
  /\ cli = "recv" /\ RecvFails("c")
  /\ \/ kind = "run" /\ cli' = "wait" /\ UNCHANGED answer
     \/ kind = "cpout" /\ cli' = "done" /\ answer' \in {"exit", "error"}
     \/ kind \notin {"run", "cpout"} /\ cli' = "done" /\ answer' = "lost"
  /\ UNCHANGED <<got, missed>> /\ CliStep

\* Wait answers when the sandbox has ended; it fails when the sandbox or the
\* daemon is gone.
CliWait ==
  /\ cli = "wait"
  /\ \/ app # "running" /\ Return("waited")
     \/ (app # "running" \/ serve = "dead") /\ Return("error")
  /\ UNCHANGED <<connections, got, missed>> /\ CliStep

\* The client is killed, or cannot write what it received.
CliLeaves ==
  /\ "client" \in Faults /\ cli # "done"
  /\ Return("left") /\ Close({"c"})
  /\ UNCHANGED <<got, missed>> /\ CliStep

WriterStep == UNCHANGED <<kind, closed, cli, got, missed, answer, daemon, guest, world>>

\* The client's process has the goroutine: it ends with it.
Writing == writer = "run" /\ cli # "done"

WriterData ==
  /\ Writing /\ kind # "cpout" /\ put < Input
  /\ \/ Send("c", Data(put + 1), TRUE) /\ put' = put + 1 /\ UNCHANGED writer
     \/ Send("c", Data(put + 1), FALSE) /\ writer' = "done" /\ UNCHANGED put
  /\ UNCHANGED sentAll /\ WriterStep

\* Standard input may end at any time, an archive is sent to its end.
WriterEof ==
  /\ Writing /\ kind # "cpout" /\ (kind \in Copies => put = Input)
  /\ \E ok \in BOOLEAN : Send("c", Ctl("eof"), ok) /\ sentAll' = ok
  /\ writer' = "done" /\ UNCHANGED put /\ WriterStep

\* The detach keys of a terminal.
WriterDetach ==
  /\ Writing /\ kind \in Interactive
  /\ \E ok \in BOOLEAN :
       /\ Send("c", Ctl("detach"), ok)
       /\ writer' = IF ok THEN "detached" ELSE "done"
  /\ UNCHANGED <<put, sentAll>> /\ WriterStep

\* The archive cannot be made: the goroutine ends and sends nothing more.
WriterFails ==
  /\ "source" \in Faults /\ Writing /\ kind \in Copies
  /\ writer' = "done" /\ UNCHANGED <<inbox, put, sentAll>> /\ WriterStep

-----------------------------------------------------------------------------
(* The daemon: wire.Serve, Daemon.Session and Relay.                       *)

DaemonStep == UNCHANGED <<kind, client, sent, batch, reply, used, app, stdin>>

\* What the daemon does with the request: an error; itself; a relay.  It knows
\* from the record whether the sandbox has ended, which may be out of date.
\* retainedAttach opens the log the host has kept: it may have none of the
\* output, part of it, or frames twice (Logs and Results say when).
ServeRequest ==
  /\ serve = "request"
  /\ \/ serve' = "refuse" /\ UNCHANGED <<relay, copier, handler, reader, out>>
     \/ /\ kind = "load" \/ (kind = "run" /\ app # "running")
        /\ serve' = "local" /\ handler' = "run"
        /\ IF kind = "run" THEN out' \in 0 .. Output ELSE UNCHANGED out
        /\ UNCHANGED <<relay, copier, reader>>
     \/ /\ kind # "load" /\ app # "off"
        /\ serve' = "relay" /\ handler' = "run" /\ relay' = "run"
        /\ copier' = [s |-> "recv", u |-> "recv"]
        /\ reader' = IF kind \in Interactive THEN "recv" ELSE "done"
        /\ UNCHANGED out
  /\ UNCHANGED <<connections, held>> /\ DaemonStep

ServeRefuse ==
  /\ serve = "refuse" /\ serve' = "done"
  /\ \E ok \in BOOLEAN : Send("s", Ctl("error"), ok)
  /\ Hang({"s"})
  /\ UNCHANGED <<relay, copier, held, handler, reader, out>> /\ DaemonStep

Opposite == [s |-> "u", u |-> "s"]
Last == {"exit", "error", "detached"}   \* frames after which a copier ends

CopierStep == UNCHANGED <<serve, relay, handler, reader, out>> /\ DaemonStep

CopierRecv(e) ==
  /\ copier[e] = "recv" /\ Recv(e)
  /\ held' = [held EXCEPT ![e] = Head(inbox[e])]
  /\ copier' = [copier EXCEPT ![e] = "send"]
  /\ UNCHANGED closed /\ CopierStep

CopierFails(e) ==
  /\ copier[e] = "recv" /\ RecvFails(e)
  /\ copier' = [copier EXCEPT ![e] = "done"]
  /\ UNCHANGED held /\ CopierStep

\* Mutant: a copier goes on when a frame could not be sent.
CopierSendGoesOn(e) ==
  /\ copier[e] = "send"
  /\ \E ok \in BOOLEAN :
       /\ Send(Opposite[e], held[e], ok)
       /\ copier' = [copier EXCEPT ![e] =
                       IF held[e].type \notin Last THEN "recv" ELSE "done"]
  /\ held' = [held EXCEPT ![e] = NoFrame]
  /\ UNCHANGED closed /\ CopierStep

CopierSend(e) ==
  /\ copier[e] = "send"
  /\ \E ok \in BOOLEAN :
       /\ Send(Opposite[e], held[e], ok)
       /\ copier' = [copier EXCEPT ![e] =
                       IF ok /\ held[e].type \notin Last THEN "recv" ELSE "done"]
  /\ held' = [held EXCEPT ![e] = NoFrame]
  /\ UNCHANGED closed /\ CopierStep

\* Mutant: only the client's connection is closed.
RelayCloseClient ==
  /\ relay = "run" /\ \E e \in {"s", "u"} : copier[e] = "done"
  /\ relay' = "close" /\ Close({"s"})
  /\ UNCHANGED <<serve, copier, held, handler, reader, out>> /\ DaemonStep

\* The first of the two to end closes both connections ...
RelayClose ==
  /\ relay = "run" /\ \E e \in {"s", "u"} : copier[e] = "done"
  /\ relay' = "close" /\ Close({"s", "u"})
  /\ UNCHANGED <<serve, copier, held, handler, reader, out>> /\ DaemonStep

\* ... and the other one is waited for.  An error Relay returns is sent on a
\* closed stream.
RelayReturn ==
  /\ relay = "close" /\ \A e \in {"s", "u"} : copier[e] = "done"
  /\ relay' = "done" /\ serve' = "done"
  /\ UNCHANGED <<connections, copier, held, handler, reader, out>> /\ DaemonStep

\* The kernel closes the daemon's connections.
DaemonDies ==
  /\ "daemon" \in Faults /\ serve # "dead" /\ serve' = "dead"
  /\ Close({"s", "u"})
  /\ relay' = "done" /\ copier' = [s |-> "done", u |-> "done"]
  /\ held' = [s |-> NoFrame, u |-> NoFrame]
  /\ handler' = IF serve \in {"request", "local"} THEN "done" ELSE handler
  /\ UNCHANGED <<reader, out>> /\ DaemonStep

-----------------------------------------------------------------------------
(* Who serves the session: attach, exec and copy in the guest, load and    *)
(* retainedAttach in the daemon.  Each ends with an answer, after which    *)
(* wire.Serve closes the stream.                                           *)

Here == IF serve = "local" THEN "s" ELSE "g"
Written == IF kind = "cpout" THEN Output ELSE out
Complete == kind = "cpout" \/ app # "running"

HandlerStep == UNCHANGED <<kind, client, serve, relay, copier, held, world>>

\* The number of the oldest frame a journal still has.
Oldest == IF out > Keep THEN out - Keep + 1 ELSE 1

\* Journal.Read in attach and retainedAttach: a marker where the frames that are
\* next are gone, and as many of the others as fit into one answer.
HandlerRead ==
  /\ handler = "run" /\ kind = "run" /\ batch = <<>> /\ sent < out
  /\ LET first == IF Oldest > sent THEN Oldest ELSE sent + 1
     IN \E n \in first .. out :
          batch' = (IF first > sent + 1 THEN <<Gap(first - 1)>> ELSE <<>>)
                     \o [i \in 1 .. n - first + 1 |-> Data(first + i - 1)]
  /\ UNCHANGED <<connections, handler, sent, reply, used, reader>> /\ HandlerStep

\* What the handler sends next: a frame it has read from the journal, or the next
\* one of the command's output or of the archive.
Upcoming == IF kind = "run" THEN Head(batch) ELSE Data(sent + 1)

HandlerOutput ==
  /\ handler = "run" /\ kind \notin Copies
  /\ IF kind = "run" THEN batch # <<>> ELSE sent < Written
  /\ batch' = IF kind = "run" THEN Tail(batch) ELSE batch
  /\ \/ Send(Here, Upcoming, TRUE) /\ sent' = Upcoming.n /\ UNCHANGED handler
     \/ Send(Here, Upcoming, FALSE) /\ handler' = "broken" /\ UNCHANGED sent
  /\ UNCHANGED <<closed, reply, used, reader>> /\ HandlerStep

Answer(t) ==
  /\ \/ Send(Here, Ctl(t), TRUE) /\ reply' = t /\ handler' = "close"
     \/ Send(Here, Ctl(t), FALSE) /\ handler' = "broken" /\ UNCHANGED reply
  /\ UNCHANGED <<closed, sent, batch, used, reader>> /\ HandlerStep

\* The exit, when a journal has no other frame or the pipes of a command are
\* through.  The terminal of one is closed, and what was not read from it is lost.
\* A retained exit without a code is an error.
HandlerExit ==
  /\ handler = "run" /\ kind \notin Copies /\ Complete
  /\ batch = <<>> /\ (kind # "exectty" => sent = Written)
  /\ \/ Answer("exit")
     \/ serve = "local" /\ Answer("error")

\* Mutant: extract returns at the end of the archive.
HandlerConsumeArchive ==
  /\ handler = "run" /\ kind \in Copies /\ Recv(Here)
  /\ Head(inbox[Here]).type = "data"
  /\ used' = Head(inbox[Here]).n
  /\ handler' = IF used' = Input THEN "ack" ELSE "run"
  /\ UNCHANGED <<closed, sent, batch, reply, reader>> /\ HandlerStep

\* extract reads the archive up to the frame that ends it ...
HandlerConsume ==
  /\ handler = "run" /\ kind \in Copies /\ Recv(Here)
  /\ \/ /\ Head(inbox[Here]).type = "data"
        /\ used' = Head(inbox[Here]).n /\ UNCHANGED handler
     \/ /\ Head(inbox[Here]).type = "eof"
        /\ handler' = "ack" /\ UNCHANGED used
  /\ UNCHANGED <<closed, sent, batch, reply, reader>> /\ HandlerStep

\* ... or the end of the connection, which between two entries is no error.
HandlerCut ==
  /\ handler = "run" /\ kind \in Copies /\ RecvFails(Here)
  /\ handler' \in {"ack", "nack"}
  /\ UNCHANGED <<sent, batch, reply, used, reader>> /\ HandlerStep

HandlerAck == handler = "ack" /\ Answer("exit")

\* An error of extract, of the archive, of the import or of the checks that
\* precede an exec.
HandlerRejects ==
  /\ \/ handler = "run" /\ kind \in Copies \cup {"cpout"}
     \/ /\ handler = "run" /\ sent = 0 /\ batch = <<>>
        /\ kind \in Execs \/ serve = "local"
     \/ handler = "ack" /\ kind = "load"
  /\ handler' = "nack"
  /\ UNCHANGED <<connections, sent, batch, reply, used, reader>> /\ HandlerStep

HandlerNack == handler = "nack" /\ Answer("error")

\* The loop of attach sees that its reader has closed the stream.
HandlerGone ==
  /\ handler = "run" /\ kind = "run" /\ Here = "g" /\ closed["g"]
  /\ handler' = "done"
  /\ UNCHANGED <<connections, sent, batch, reply, used, reader>> /\ HandlerStep

\* The handler returns and the stream is closed.  exec waits for its command; what
\* it sends after a Send has failed follows part of a frame and is not received.
HandlerReturn ==
  /\ handler \in {"close", "broken"}
  /\ (handler = "broken" /\ kind \in Execs) => app # "running"
  /\ handler' = "done" /\ Close({Here})
  /\ serve' = IF serve = "local" THEN "done" ELSE serve
  /\ UNCHANGED <<kind, client, relay, copier, held, sent, batch, reply, used, reader, world>>

-----------------------------------------------------------------------------
(* The goroutine of attach or exec that reads the client's frames.         *)

ReaderStep == UNCHANGED <<kind, client, daemon, handler, sent, batch, used, app, out>>

\* Mutant: attach knows no detach frame either.
ReaderRecvNoDetach ==
  /\ reader = "recv" /\ Recv("g")
  /\ reader' = IF Head(inbox["g"]).type = "data" THEN "write" ELSE "recv"
  /\ UNCHANGED <<closed, reply, stdin>> /\ ReaderStep

\* exec knows no detach frame.
ReaderRecv ==
  /\ reader = "recv" /\ Recv("g")
  /\ LET t == Head(inbox["g"]).type
     IN reader' = IF t = "data" THEN "write"
                  ELSE IF t = "detach" /\ kind = "run" THEN "detach" ELSE "recv"
  /\ UNCHANGED <<closed, reply, stdin>> /\ ReaderStep

ReaderFails ==
  /\ reader = "recv" /\ RecvFails("g") /\ reader' = "done"
  /\ UNCHANGED <<reply, stdin>> /\ ReaderStep

\* The pipe holds one frame; it is closed when the application has ended.
ReaderWrite ==
  /\ reader = "write" /\ reader' = "recv"
  /\ \/ app = "running" /\ stdin = 0 /\ stdin' = 1
     \/ app # "running" /\ UNCHANGED stdin
  /\ UNCHANGED <<connections, reply>> /\ ReaderStep

ReaderDetach ==
  /\ reader = "detach" /\ reader' = "done" /\ Hang({"g"})
  /\ \E ok \in BOOLEAN :
       /\ Send("g", Ctl("detached"), ok)
       /\ reply' = IF ok THEN "detached" ELSE reply
  /\ UNCHANGED stdin /\ ReaderStep

-----------------------------------------------------------------------------
(* The application or the command of exec, and the VM.                     *)

AppStep == UNCHANGED <<kind, connections, client, daemon, guest>>

AppWrites ==
  /\ kind \in Interactive /\ app = "running" /\ out < Output /\ out' = out + 1
  /\ UNCHANGED <<app, stdin>> /\ AppStep

AppReads ==
  /\ app = "running" /\ stdin > 0 /\ stdin' = 0
  /\ UNCHANGED <<app, out>> /\ AppStep

AppExits ==
  /\ kind \in Interactive /\ app = "running" /\ app' = "exited"
  /\ UNCHANGED <<out, stdin>> /\ AppStep

\* finish stops the VM of an application that has ended; a fault may stop any.
\* Frames that have not reached the daemon are lost.
VMStops ==
  /\ kind # "load" /\ app # "off"
  /\ (kind = "run" /\ app = "exited") \/ "vm" \in Faults
  /\ app' = "off" /\ Hang({"g"})
  /\ \E n \in 0 .. Len(inbox["u"]) :
       inbox' = [inbox EXCEPT !["u"] = SubSeq(@, 1, n), !["g"] = <<>>]
  /\ handler' = IF Here = "g" /\ handler # "none" THEN "done" ELSE handler
  /\ reader' = "done"
  /\ UNCHANGED <<kind, client, daemon, sent, batch, reply, used, out, stdin>>

-----------------------------------------------------------------------------
Init ==
  /\ kind \in Kinds
  /\ inbox = [e \in End |-> <<>>] /\ closed = [e \in End |-> FALSE]
  /\ cli = "recv" /\ got = 0 /\ missed = 0 /\ answer = "none"
  /\ writer = "run" /\ put = 0 /\ sentAll = FALSE
  /\ serve = "request" /\ relay = "none"
  /\ copier = [s |-> "none", u |-> "none"] /\ held = [s |-> NoFrame, u |-> NoFrame]
  /\ handler = "none" /\ sent = 0 /\ batch = <<>> /\ reply = "none" /\ used = 0 /\ reader = "done"
  /\ app = "running" /\ out = 0 /\ stdin = 0

Client == CliData \/ CliAnswer \/ CliJoin \/ CliCut \/ CliWait
Writer == WriterData \/ WriterEof \/ WriterDetach
Serve == ServeRequest \/ ServeRefuse \/ RelayClose \/ RelayReturn
Copier(e) == CopierRecv(e) \/ CopierFails(e) \/ CopierSend(e)
Handler ==
  \/ HandlerRead \/ HandlerOutput \/ HandlerExit \/ HandlerConsume \/ HandlerCut \/ HandlerAck
  \/ HandlerNack \/ HandlerGone \/ HandlerReturn
Reader == ReaderRecv \/ ReaderFails \/ ReaderWrite \/ ReaderDetach
App == AppWrites \/ AppReads \/ AppExits \/ VMStops

Next ==
  \/ Client \/ CliLeaves \/ Writer \/ WriterFails
  \/ Serve \/ (\E e \in {"s", "u"} : Copier(e)) \/ DaemonDies
  \/ Handler \/ HandlerRejects \/ Reader \/ App

Spec == Init /\ [][Next]_vars

\* Goroutines run on.  A client that sends an archive goes on sending, and an
\* application reads its input; neither need type nor write nor end.
FairSpec ==
  /\ Spec
  /\ WF_vars(Client) /\ WF_vars(Serve) /\ WF_vars(Handler) /\ WF_vars(Reader)
  /\ WF_vars(kind \in Copies /\ (Writer \/ WriterFails))
  /\ \A e \in {"s", "u"} : WF_vars(Copier(e))
  /\ WF_vars(AppReads)

-----------------------------------------------------------------------------
Frame == [type: {"data", "gap", "eof", "detach", "exit", "error", "detached", "none"}, n: Nat]

(* Type invariant; a connection never holds more than its buffers take.    *)
TypeOK ==
  /\ kind \in Kind
  /\ inbox \in [End -> Seq(Frame)] /\ \A e \in End : Len(inbox[e]) <= Cap
  /\ closed \in [End -> BOOLEAN]
  /\ cli \in {"recv", "join", "wait", "done"} /\ got \in 0 .. Output
  /\ missed \in 0 .. Output /\ batch \in Seq(Frame)
  /\ answer \in {"none", "exit", "error", "detached", "lost", "waited", "left"}
  /\ writer \in {"run", "detached", "done"} /\ put \in 0 .. Input /\ sentAll \in BOOLEAN
  /\ serve \in {"request", "refuse", "local", "relay", "done", "dead"}
  /\ relay \in {"none", "run", "close", "done"}
  /\ copier \in [{"s", "u"} -> {"none", "recv", "send", "done"}]
  /\ held \in [{"s", "u"} -> Frame]
  /\ handler \in {"none", "run", "ack", "nack", "close", "broken", "done"}
  /\ sent \in 0 .. Output /\ used \in 0 .. Input
  /\ reply \in {"none", "exit", "error", "detached"}
  /\ reader \in {"recv", "write", "detach", "done"}
  /\ app \in {"running", "exited", "off"} /\ out \in 0 .. Output /\ stdin \in 0 .. 1

(* The data of a session: for an archive that is sent, from the client to  *)
(* whoever extracts it; else to the client, from the journal or the pipes  *)
(* its handler reads.  The end of a copy from a container says nothing     *)
(* (CopyComplete), nor does that of a command with a terminal, which is    *)
(* closed before all is read from it.                                      *)
T == INSTANCE Transfer WITH
       given  <- IF kind \in Copies THEN put ELSE IF handler = "none" THEN 0 ELSE Written,
       taken  <- IF kind \in Copies THEN used ELSE got,
       missed <- missed,
       end    <- IF answer = "none" THEN "open"
                 ELSE IF answer = "exit" /\ kind \notin {"cpout", "exectty"}
                        THEN "complete" ELSE "broken"

(* Streams, Relay and the handlers at both ends together implement         *)
(* Transfer: whoever stops, stalls or closes first, a client handles the   *)
(* frames in order and without a hole, except where the journal gave some  *)
(* up and the client was told so; and a client of run, exec without a      *)
(* terminal, cp into a container or load that is given an exit has had all *)
(* up to the last frame of the journal, the pipes or the archive.          *)
Transfers == T!Spec

(* "Consume transport EOF, including tar padding, before acknowledging     *)
(* upload": when the acknowledgement arrives the client's sender is        *)
(* through, so that a copy that was made is not reported as failed.        *)
CopyAcked == cli = "join" => writer = "done" /\ sentAll

(* However a session ends, nobody is left behind.  A relay whose client or *)
(* guest has gone ends with both its goroutines, also when one of them is  *)
(* sending to a side that takes nothing; and when the daemon or the guest  *)
(* is through with it, the client does not wait for another frame.         *)
SessionEnds ==
  /\ []<>~(serve = "relay" /\ (cli = "done" \/ handler = "done"))
  /\ []<>((serve \in {"done", "dead"} \/ handler = "done") => cli \in {"done", "wait"})

(* A client that detaches from an application that reads its input gets    *)
(* its terminal back.                                                      *)
DetachReturns ==
  []<>((kind = "run" /\ writer = "detached") => cli \in {"done", "wait"})

(* A copy of "regular files/directories only" ends, with an error where    *)
(* the source has something else.                                          *)
CopyEnds == (kind \in Copies) ~> cli = "done"

(* "Copy regular files/directories to a destination directory": a copy     *)
(* from a container that succeeds has copied everything.                   *)
CopyComplete == (kind = "cpout" /\ answer = "exit") => got = Output
=============================================================================
