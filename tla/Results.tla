------------------------------ MODULE Results ------------------------------
(***************************************************************************)
(* Retained results: what is left of a sandbox created with --rm after its *)
(* row and its directory are gone.  finish saves the exit and links the    *)
(* log into the results directory before it deletes the row; the directory *)
(* is pruned by age, number and size; wait, attach and logs look in the    *)
(* store first and in the results directory when there is no row.          *)
(*                                                                         *)
(* The mutex resultMu covers the results directory, nothing covers the     *)
(* lookup of a row and the use of what it names.                           *)
(***************************************************************************)
EXTENDS Naturals, FiniteSets, FiniteSetsExt, Sequences

CONSTANTS
  Sandbox,     \* sandboxes created with --rm
  Client,      \* wait, attach and logs requests
  Key,         \* what a client names a sandbox by: its ID, a name, a prefix
  Exact,       \* [Key -> SUBSET Sandbox]: whose ID or name it is
  Prefixed,    \* [Key -> SUBSET Sandbox]: whose ID starts with it
  Sizes,       \* [Sandbox -> SUBSET Nat]: sizes its log may have
  Retention,   \* how long a result is kept (24 hours)
  MaxResults,  \* how many are kept (128)
  MaxBytes,    \* and their size (256 MiB)
  MaxNow,      \* bound: the clock
  Ops,         \* the requests of clients
  Faults,      \* what may happen besides
  keeper,      \* New and the ticker it starts
  Free         \* an unlocked mutex

Fault == {"crash",   \* the daemon dies between two steps
          "save",    \* a log cannot be linked or the result not written
          "unlink"}  \* a file of the results directory cannot be deleted

Process == Sandbox \cup Client \cup {keeper}

ASSUME ResultsAssumption ==
  /\ Exact \in [Key -> SUBSET Sandbox] /\ Prefixed \in [Key -> SUBSET Sandbox]
  /\ Sizes \in [Sandbox -> SUBSET Nat \ {{}}]
  /\ Retention \in Nat \ {0} /\ MaxResults \in Nat \ {0} /\ MaxBytes \in Nat /\ MaxNow \in Nat
  /\ Ops \subseteq {"wait", "attach", "logs"} /\ Faults \subseteq Fault
  /\ Sandbox \cap Client = {} /\ keeper \notin Sandbox \cup Client
  /\ Free \notin Process

VARIABLES
  now,      \* the clock, from 1
  row,      \* of each sandbox: "none" yet, "running", "exited", "gone"
  dir,      \* its directory, with the log, is there
  saved,    \* modification time of ID.json in the results directory, 0 if none
  log,      \* ID.log is there
  size,     \* size of the log of a sandbox, in the end
  up,       \* the daemon serves requests
  resultMu, \* holder of the mutex
  pc,       \* where each goroutine is; a sandbox stands for its finish
  queue,    \* what a prune in progress has yet to delete
  req,      \* of a client: its request
  v,        \* the sandbox it has found, and where
  answer,   \* what it was told
  savedAt,  \* history: when the result of a sandbox was saved last
  stuck,    \* history: results the last prune could not delete
  expired   \* history: results that had expired when it read the directory

disk == <<row, dir, saved, log, size>>
locals == <<queue, req, v, answer>>
history == <<savedAt, stuck, expired>>
vars == <<now, disk, up, resultMu, pc, locals, history>>

Goto(p, l) == pc' = [pc EXCEPT ![p] = l]

-----------------------------------------------------------------------------
(* Store.Get over the rows and findResult over the results: an ID or name, *)
(* else the only ID with the prefix.                                       *)

Lookup(k, S) ==
  IF Exact[k] \cap S # {} THEN Exact[k] \cap S
  ELSE IF Cardinality(Prefixed[k] \cap S) = 1 THEN Prefixed[k] \cap S ELSE {}

Rows == {s \in Sandbox : row[s] \in {"running", "exited"}}
Saved == {s \in Sandbox : saved[s] # 0}

Fresh(s, t) == t - saved[s] < Retention

-----------------------------------------------------------------------------
(* pruneResultsLocked, in the hands of p, which holds the mutex.           *)

Bytes(S) == MapThenSumSet(LAMBDA s : IF log[s] THEN size[s] ELSE 0, S)

\* The results in the order of their times; sort.Slice may leave any order
\* among equal ones.
Sorted(S) ==
  {q \in [1 .. Cardinality(S) -> S] :
     \A i, j \in DOMAIN q : i < j => q[i] # q[j] /\ saved[q[i]] <= saved[q[j]]}

\* Mutant: the logs are not counted.
KeptFromUncounted(q, t) ==
  {i \in DOMAIN q : Fresh(q[i], t) /\ Len(q) - i + 1 <= MaxResults}

\* The positions of the order at which enough has been deleted.
KeptFrom(q, t) ==
  {i \in DOMAIN q : /\ Fresh(q[i], t)
                    /\ Bytes({q[j] : j \in i .. Len(q)}) <= MaxBytes
                    /\ Len(q) - i + 1 <= MaxResults}

PruneList(p) ==
  /\ pc[p] = "prune"
  /\ \E q \in Sorted(Saved) :
       queue' = SubSeq(q, 1, Min(KeptFrom(q, now) \cup {Len(q) + 1}) - 1)
  /\ req' = IF p \in Client THEN [req EXCEPT ![p].now = now] ELSE req
  /\ stuck' = {} /\ expired' = {s \in Saved : ~Fresh(s, now)}
  /\ Goto(p, "unlink")
  /\ UNCHANGED <<now, disk, up, resultMu, v, answer, savedAt>>

\* Errors of Remove are ignored.
PruneJSON(p) ==
  /\ pc[p] = "unlink" /\ queue # <<>>
  /\ \/ /\ saved' = [saved EXCEPT ![Head(queue)] = 0]
        /\ expired' = expired \ {Head(queue)} /\ UNCHANGED stuck
     \/ /\ "unlink" \in Faults
        /\ stuck' = stuck \cup {Head(queue)} /\ UNCHANGED <<saved, expired>>
  /\ Goto(p, "unlog")
  /\ UNCHANGED <<now, row, dir, log, size, up, resultMu, locals, savedAt>>

PruneLog(p) ==
  /\ pc[p] = "unlog"
  /\ \/ log' = [log EXCEPT ![Head(queue)] = FALSE]
     \/ "unlink" \in Faults /\ UNCHANGED log
  /\ queue' = Tail(queue)
  /\ Goto(p, "unlink")
  /\ UNCHANGED <<now, row, dir, saved, size, up, resultMu, req, v, answer, history>>

\* What the prune was part of goes on.
PruneEnd(p) ==
  /\ pc[p] = "unlink" /\ queue = <<>>
  /\ Goto(p, IF p \in Client THEN "look" ELSE IF p = keeper THEN "idle" ELSE "clear")
  /\ resultMu' = IF p \in Client THEN p ELSE Free
  /\ up' = (up \/ p = keeper)
  /\ UNCHANGED <<now, disk, locals, history>>

-----------------------------------------------------------------------------
(* finish of a sandbox, from the update of its row.                        *)

\* Mutant: the directory goes before the result is saved.
FinishUpdateClears(s) ==
  /\ up /\ ((row[s] = "running" /\ pc[s] = "idle") \/ pc[s] = "deferred")
  /\ row' = [row EXCEPT ![s] = "exited"] /\ dir' = [dir EXCEPT ![s] = FALSE]
  /\ Goto(s, "save")
  /\ UNCHANGED <<now, saved, log, size, up, resultMu, locals, history>>

\* A Stop that read the record before the end may run finish once more when the
\* automatic removal was deferred.
FinishUpdate(s) ==
  /\ up /\ ((row[s] = "running" /\ pc[s] = "idle") \/ pc[s] = "deferred")
  /\ row' = [row EXCEPT ![s] = "exited"]
  /\ Goto(s, "save")
  /\ UNCHANGED <<now, dir, saved, log, size, up, resultMu, locals, history>>

\* saveResult: a log that is linked already is no error ...
SaveLink(s) ==
  /\ pc[s] = "save" /\ resultMu = Free
  /\ \/ /\ log' = [log EXCEPT ![s] = @ \/ dir[s]]
        /\ resultMu' = s /\ Goto(s, "json")
     \/ /\ "save" \in Faults
        /\ Goto(s, "deferred")
        /\ UNCHANGED <<log, resultMu>>
  /\ UNCHANGED <<now, row, dir, saved, size, up, locals, history>>

\* ... the result is written to a temporary file and renamed.
SaveJSON(s) ==
  /\ pc[s] = "json"
  /\ \/ /\ saved' = [saved EXCEPT ![s] = now]
        /\ savedAt' = [savedAt EXCEPT ![s] = now]
        /\ expired' = expired \ {s}
        /\ Goto(s, "prune") /\ UNCHANGED resultMu
     \/ /\ "save" \in Faults
        /\ Goto(s, "deferred") /\ resultMu' = Free
        /\ UNCHANGED <<saved, savedAt, expired>>
  /\ UNCHANGED <<now, row, dir, log, size, up, locals, stuck>>

FinishRemoveAll(s) ==
  /\ pc[s] = "clear"
  /\ dir' = [dir EXCEPT ![s] = FALSE]
  /\ Goto(s, "delete")
  /\ UNCHANGED <<now, row, saved, log, size, up, resultMu, locals, history>>

FinishDelete(s) ==
  /\ pc[s] = "delete"
  /\ row' = [row EXCEPT ![s] = "gone"]
  /\ Goto(s, "idle")
  /\ UNCHANGED <<now, dir, saved, log, size, up, resultMu, locals, history>>

-----------------------------------------------------------------------------
(* Requests.                                                               *)

NoRequest == [op |-> "none", key |-> CHOOSE k \in Key : TRUE, now |-> 0]
Nobody == [of |-> keeper, at |-> "none"]
NoAnswer == [type |-> "none", of |-> keeper, output |-> FALSE]

Answer(c, a) ==
  /\ answer' = [answer EXCEPT ![c] = a]
  /\ Goto(c, "told")

Leave(c) ==
  /\ pc[c] = "told"
  /\ req' = [req EXCEPT ![c] = NoRequest]
  /\ answer' = [answer EXCEPT ![c] = NoAnswer]
  /\ Goto(c, "idle")
  /\ UNCHANGED <<now, disk, up, resultMu, queue, v, history>>

Ask(c, op, k) ==
  /\ up /\ pc[c] = "idle" /\ op \in Ops
  /\ req' = [req EXCEPT ![c] = [op |-> op, key |-> k, now |-> 0]]
  /\ Goto(c, "get")
  /\ UNCHANGED <<now, disk, up, resultMu, queue, v, answer, history>>

\* Store.Get.  Wait polls a row without an exit and returns the one it has;
\* attach reads an exited row a second time in retainedAttach, which is this
\* step again; a running one is attached to in the guest.
Get(c) ==
  LET r == req[c]
      found == Lookup(r.key, Rows)
  IN /\ pc[c] = "get"
     /\ \/ /\ found = {}
           /\ Goto(c, "find") /\ UNCHANGED <<v, answer>>
        \/ \E s \in found :
             \/ /\ r.op = "wait" /\ row[s] = "exited"
                /\ Answer(c, [type |-> "exit", of |-> s, output |-> FALSE])
                /\ UNCHANGED v
             \/ /\ r.op = "attach" /\ row[s] = "running"
                /\ Answer(c, [type |-> "guest", of |-> s, output |-> FALSE])
                /\ UNCHANGED v
             \/ /\ r.op = "logs" \/ (r.op = "attach" /\ row[s] = "exited")
                /\ v' = [v EXCEPT ![c] = [of |-> s, at |-> "dir"]]
                /\ Goto(c, "open") /\ UNCHANGED answer
     /\ UNCHANGED <<now, disk, up, resultMu, queue, req, history>>

\* findResult prunes ...
FindLock(c) ==
  /\ pc[c] = "find" /\ resultMu = Free
  /\ resultMu' = c /\ Goto(c, "prune")
  /\ UNCHANGED <<now, disk, up, locals, history>>

\* Mutant: a result is refused before a prune would delete it.
FindReadEarly(c) ==
  LET found == Lookup(req[c].key, {s \in Saved : Fresh(s, req[c].now + 1)})
  IN /\ pc[c] = "look"
     /\ resultMu' = Free /\ req' = [req EXCEPT ![c].now = 0]
     /\ \/ /\ found = {}
           /\ Answer(c, [type |-> "notfound", of |-> keeper, output |-> FALSE])
           /\ UNCHANGED v
        \/ \E s \in found :
             \/ /\ req[c].op = "wait"
                /\ Answer(c, [type |-> "exit", of |-> s, output |-> FALSE])
                /\ UNCHANGED v
             \/ /\ req[c].op # "wait"
                /\ v' = [v EXCEPT ![c] = [of |-> s, at |-> "results"]]
                /\ Goto(c, "open") /\ UNCHANGED answer
     /\ UNCHANGED <<now, disk, up, queue, history>>

\* ... and looks through what is left and has not expired.
FindRead(c) ==
  LET found == Lookup(req[c].key, {s \in Saved : Fresh(s, req[c].now)})
  IN /\ pc[c] = "look"
     /\ resultMu' = Free /\ req' = [req EXCEPT ![c].now = 0]
     /\ \/ /\ found = {}
           /\ Answer(c, [type |-> "notfound", of |-> keeper, output |-> FALSE])
           /\ UNCHANGED v
        \/ \E s \in found :
             \/ /\ req[c].op = "wait"
                /\ Answer(c, [type |-> "exit", of |-> s, output |-> FALSE])
                /\ UNCHANGED v
             \/ /\ req[c].op # "wait"
                /\ v' = [v EXCEPT ![c] = [of |-> s, at |-> "results"]]
                /\ Goto(c, "open") /\ UNCHANGED answer
     /\ UNCHANGED <<now, disk, up, queue, history>>

\* journal.Open: a log that is not there is an empty one.
Open(c) ==
  LET s == v[c].of
  IN /\ pc[c] = "open"
     /\ Answer(c, [type |-> IF req[c].op = "logs" THEN "log" ELSE "exit", of |-> s,
                   output |-> IF v[c].at = "dir" THEN dir[s] ELSE log[s]])
     /\ v' = [v EXCEPT ![c] = Nobody]
     /\ UNCHANGED <<now, disk, up, resultMu, queue, req, history>>

-----------------------------------------------------------------------------
(* The daemon and its surroundings.                                        *)

\* New prunes before anything is served, the ticker once a minute.
KeeperLock ==
  /\ pc[keeper] = "idle" /\ resultMu = Free
  /\ resultMu' = keeper /\ Goto(keeper, "prune")
  /\ UNCHANGED <<now, disk, up, locals, history>>

\* Recover leaves an exited row as it is: its automatic removal is not resumed.
Crash ==
  /\ "crash" \in Faults
  /\ up' = FALSE /\ resultMu' = Free /\ queue' = <<>>
  /\ pc' = [p \in Process |-> "idle"]
  /\ req' = [c \in Client |-> NoRequest] /\ v' = [c \in Client |-> Nobody]
  /\ answer' = [c \in Client |-> NoAnswer]
  /\ stuck' = {} /\ expired' = {}
  /\ UNCHANGED <<now, disk, savedAt>>

\* Create, which refuses a name in use, and Start.
Run(s) ==
  /\ up /\ row[s] = "none"
  /\ \A k \in Key : s \in Exact[k] => Exact[k] \cap Rows = {}
  /\ row' = [row EXCEPT ![s] = "running"] /\ dir' = [dir EXCEPT ![s] = TRUE]
  /\ \E n \in Sizes[s] : size' = [size EXCEPT ![s] = n]
  /\ UNCHANGED <<now, saved, log, up, resultMu, pc, locals, history>>

\* Remove, of a row whose removal was deferred.
Remove(s) ==
  /\ up /\ row[s] = "exited" /\ pc[s] \in {"idle", "deferred"}
  /\ row' = [row EXCEPT ![s] = "gone"] /\ dir' = [dir EXCEPT ![s] = FALSE]
  /\ Goto(s, "idle")
  /\ UNCHANGED <<now, saved, log, size, up, resultMu, locals, history>>

Tick ==
  /\ now < MaxNow /\ now' = now + 1
  /\ UNCHANGED <<disk, up, resultMu, pc, locals, history>>

Init ==
  /\ now = 1
  /\ row = [s \in Sandbox |-> "none"] /\ dir = [s \in Sandbox |-> FALSE]
  /\ saved = [s \in Sandbox |-> 0] /\ log = [s \in Sandbox |-> FALSE]
  /\ size = [s \in Sandbox |-> 0]
  /\ up = FALSE /\ resultMu = Free
  /\ pc = [p \in Process |-> "idle"] /\ queue = <<>>
  /\ req = [c \in Client |-> NoRequest] /\ v = [c \in Client |-> Nobody]
  /\ answer = [c \in Client |-> NoAnswer]
  /\ savedAt = [s \in Sandbox |-> 0] /\ stuck = {} /\ expired = {}

Prune(p) == PruneList(p) \/ PruneJSON(p) \/ PruneLog(p) \/ PruneEnd(p)
Finish(s) ==
  FinishUpdate(s) \/ SaveLink(s) \/ SaveJSON(s) \/ FinishRemoveAll(s) \/ FinishDelete(s)
Serve(c) == Get(c) \/ FindLock(c) \/ FindRead(c) \/ Open(c) \/ Leave(c)

Next ==
  \/ \E p \in Process : Prune(p)
  \/ \E s \in Sandbox : Run(s) \/ Finish(s) \/ Remove(s)
  \/ \E c \in Client : Serve(c) \/ \E op \in Ops, k \in Key : Ask(c, op, k)
  \/ KeeperLock \/ Crash \/ Tick

Spec == Init /\ [][Next]_vars

-----------------------------------------------------------------------------
\* Every result that was saved no earlier than that of s, with it.
Since(s) == {t \in Sandbox : savedAt[t] >= savedAt[s]}

\* A result is gone for one of the three reasons the notes give.
Due(s) ==
  \/ now - savedAt[s] >= Retention
  \/ Cardinality(Since(s)) > MaxResults
  \/ MapThenSumSet(LAMBDA t : size[t], Since(s)) > MaxBytes

(* "so late wait/attach can receive output/status": a request that names a *)
(* sandbox by its ID when its automatic removal has left a result finds    *)
(* the row or the result, whatever finish, a prune or a restart does       *)
(* between its two lookups, unless the result was due to go.               *)
ResultDelivered ==
  [][\A c \in Client, s \in Sandbox :
       (/\ answer'[c].type = "notfound" /\ answer[c].type = "none"
        /\ Exact[req[c].key] = {s} /\ Prefixed[req[c].key] = {s}
        /\ row[s] = "gone" /\ savedAt[s] # 0) => Due(s)]_vars

(* "retained for up to 24 hours, at most 128 results and 256 MiB": so the  *)
(* results are, with the logs they account for, whenever the mutex is free *)
(* and the daemon has pruned after its start: their number and size are    *)
(* within the limits, and none had expired when the directory was last     *)
(* pruned, which happens once a minute.  Results that cannot be deleted    *)
(* are outside of this, and so are logs without a result (NoOrphans).      *)
ResultsBounded ==
  up /\ resultMu = Free =>
    /\ Cardinality(Saved \ stuck) <= MaxResults
    /\ Bytes(Saved \ stuck) <= MaxBytes
    /\ expired \subseteq stuck

(* "so late wait/attach can receive output/status": a request that has     *)
(* found a result is given the output with it, although the mutex is       *)
(* released before the log is opened, unless the result was due to go;     *)
(* finish links the log before it writes the result and a prune deletes    *)
(* both.  What is found in a row instead is the matter of LateOutput.      *)
OutputDelivered ==
  [][\A c \in Client :
       (pc[c] = "open" /\ pc'[c] = "told" /\ v[c].at = "results")
         => answer'[c].output \/ Due(v[c].of)]_vars

(* "so late wait/attach can receive output/status": an attach that is      *)
(* given the exit is given the output before it.                           *)
LateOutput ==
  \A c \in Client : req[c].op = "attach" /\ answer[c].type = "exit" => answer[c].output

(* A lookup by name answers for the sandbox that has the name, or had it   *)
(* last.                                                                   *)
LatestOfName ==
  [][\A c \in Client :
       (/\ pc[c] = "look" /\ answer'[c].type = "exit" /\ answer[c].type = "none")
         => \A s \in Exact[req[c].key] : savedAt[s] <= savedAt[answer'[c].of]]_vars

(* "at most 128 results and 256 MiB": the logs in the results directory    *)
(* are those of results, which are counted, or of sandboxes still there.   *)
NoOrphans ==
  up /\ resultMu = Free => \A s \in Sandbox : log[s] => saved[s] # 0 \/ row[s] # "gone"
=============================================================================
