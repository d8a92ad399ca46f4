# niflhel in TLA+

niflhel runs each container in a Firecracker microVM of its own. This directory
models the parts of it whose correctness depends on the order of events, checks
them with TLC on small instances and proves the main invariants with TLAPS.
`PROJECT.json` maps every definition to the lines it stands for and lists runs,
mutants, findings, hazards and theorems.

## The system

    niflhel (CLI) --unix socket--> niflheld --jailer--> Firecracker VM
                                      |  SQLite, caches     |
                                      +------vsock------> guest agent -> runc

| Part | Source under `src/internal` | Module |
| --- | --- | --- |
| sandbox lifecycle, state store, VM and network manager | `daemon/daemon.go`, `state`, `firecracker/vm.go`, `network/network.go` | `Lifecycle`, `SandboxView`, `LifecycleView` |
| DNS proxy | `network/dns.go` | `DNSAdmission` |
| image cache, base cache, volumes | `oci/store.go`, `base/base.go`, `daemon/handler.go` | `Artifacts` |
| limits on registry metadata | `oci/metadata.go` | `MetadataBudget` |
| journals, log copy, `logs --follow` | `journal`, `daemon/daemon.go` (monitor), `cli/root.go` | `Logs` |
| guest agent | `guest/agent.go` | `GuestAgent` |
| frames, relay, sessions of `run`, `exec`, `cp` and `base load` | `wire/wire.go`, `cli/session.go`, `cli/images.go`, `daemon/handler.go`, `filecopy` | `Session`, `Transfer` |
| retained results | `daemon/results.go`, `daemon/daemon.go` (finish, Wait) | `Results` |
| guest init, unpack, build, runtime spec, certificates, remaining CLI, validation | see below | not modelled |

Two modules are compositions: `Logs` has the guest's journal, the daemon's monitor,
the host's journal and the CLI's follower, and `Session` the client, the daemon's
relay and the guest's handler with the connections between them. The others meet at
these points: `Lifecycle` takes the image and base of a sandbox to be present or not
(`Artifacts` says when they are), it takes the guest to be `ready`, `running` or
`exited` (`GuestAgent`), its monitor only looks for the end (`Logs` has the copy of
the output), and a saved result is one step of it (`Results` has the directory).

## Modules

**Lifecycle.** `rec` is the table of sandboxes, `results` the retained exits;
`vmm`, `guest`, `jail`, `pidfile` and `net` are what exists on the host and
outlives the daemon; `alloc`, `lock`, `ports` and the locals of the goroutines
(`pc`, `at`, `copy`, `exit`, `released`, `failures`) are lost in a crash. A process
is a request (`Worker`), the monitor of a generation, or `boot`, which runs
`Recover`. An action is the code between two points where others may interfere:
a transaction of the store, a command, a call to the guest. Labels start with the
routine they belong to (`c_` Create, `s_` Start, `f_` its failure, `t_` Stop,
`r_` Remove, `m_` monitor, `n_` finish, `b_` Recover). `Faults` selects what may go
wrong. The jailer is followed from `launched` over `joined` (in its cgroup) to
`live` (PID file written), since Kill and Remove tell these apart. Memory is
counted in VMs of one size; all host ports of a sandbox are one claim.

**SandboxView, LifecycleView.** `SandboxView` is the abstract sandbox: what inspect and
wait show of it and how that may change. `LifecycleView` maps the rows of `Lifecycle` to
it (`Seen`) and states the invariant behind the refinement.

**DNSAdmission.** Two loops per proxy (UDP, TCP) read the clock, pass two token
buckets and take a slot of two channels; the job started gives both back. Rates
are whole tokens per tick, so that no rounding of `float64` is modelled.

**Artifacts.** Records by digest and tag, blobs, rows and files of volumes, and
the mutexes `allocations`, `Store.mu` and that of each sandbox; `Requests` selects the
requests of an instance. A sandbox that was removed stands for the next one to be
created. Waiting for a mutex is a state of a request. Pull, create,
image-rm, base-rm and the volume requests step from one file operation to the next;
of Start only the mutexes are here (`Lifecycle` has the rest). A deletion that
fails in the middle leaves what a stop at that step leaves, so `Crash` stands for
both.

**MetadataBudget.** Calls of `Limit`, `RoundTrip` and, for `metadataBody.Read`,
reservation and settlement with the network in between.

**Logs.** The application, the guest's journal (memory and two files), the
monitor with its cursor, the host's journal with its rotation, and a follower. A
file holds `Full` frames instead of a number of bytes. The monitor ignores the errors of
`log.Write` and of the cursor file, so the model has them: `MonitorWriteFails` is a
rename, an open or an append that fails, the last with or without part of the line left
in the file, which then spoils the next line; `failed` collects the frames lost this
way, and `MonitorSave` may leave the old cursor. A spoiled line takes no room in the
model. Failed polls lead to `MonitorFailure` without a count. Left out are failing
writes of the guest's own file, and a crash in the middle of a line.

**GuestAgent.** Concurrent calls `start`, `stop`, `exec`, `attach`, the goroutine
that waits for runc, and the container, with or without a terminal (`tty`): the terminal
is closed when runc has ended, and output not read from it is lost, while pipes are
read to their end. The error of `runc delete --force` is ignored, so `WaitDelete` may
leave the container and the exit is published all the same. Standard input, detaching
and copies are in `Session`; resize and shutdown are left out.

**Session, Transfer.** A session is one command between client, daemon and guest.
`inbox` has the frames under way to an end of a connection, at most `Cap` of them, so
that a sender blocks; a send also fails after its deadline. The goroutines are the
client's receiver and sender, the daemon's handler, Relay's two copiers, the guest's
handler and its reader of standard input. Data frames are numbered; their bytes, the
tar format and the kind of stream are left out. The handler of `run` reads a journal of
`Keep` frames, in batches, and sends a gap frame for those the journal has given up; the
journal of a sandbox that has ended is served by the daemon, with as much of the output
as is left. `Faults` may stop the VM, the daemon or the client, or the source of a copy.

`Transfer` is the abstract session: data is taken in order and none twice, what is left
out is reported as missing, and a transfer reported complete has come to the end of what
there was. `Session` maps to it what the handler can read: the frames written to the
journal for `run`, the archive for a copy, the output for `exec`. A log that was
deleted (`Results`) is an empty one. The exits of `exec -t` and of a copy out of a
container map to the end of a transfer that may be incomplete: the terminal is closed
when the command has ended, with output still in it, and an archive may be cut
(`DocCopyComplete`).

**Results.** finish of a sandbox with `--rm` (link the log, write the result, remove the
directory, delete the row), the ticker's prune by age, number and size, and clients
that wait, attach or read logs: each looks for the row and then, in steps of its own,
for what the row or the result names. The clock ticks at any time. `expired` and
`stuck` remember which results the last prune had to delete for their age and which it could
not delete.

`MCx` instantiates module `x`. The operators that `PROJECT.json` lists as mutants are
wrong versions of a definition below them, used to see that a property fails.

## Runs

Run one with `tlc -config <run>.cfg <MC module>`.

| Run | Instance | Shows |
| --- | --- | --- |
| LifecycleFaults | 1 sandbox, 2 requests, 2 generations; crash, reboot, directory that cannot be removed | resources stay reserved, one VMM has the disks, Recover restores listeners and monitors, exits are genuine |
| LifecycleAdmission | 2 sandboxes with one volume, one with `--rm`, 2 requests; crash, failing result | one VMM per volume; slots are distinct; a deleted row leaves its exit |
| LifecycleLive | 1 sandbox, 2 requests, 2 failed calls end a monitor, fairness; failing kills, network and jail removals | requests are answered, ends are noticed, clients see `SandboxView` |
| DNSAdmission | 1 proxy, 2 jobs, 4 ticks, fairness | slots are held by jobs and given back; rate and burst bound every bucket |
| ArtifactsImages | 2 images with a common layer, 2 requests, 1 stop | no image loses a layer; no Create finds one missing; no alias is left |
| ArtifactsUse | 2 bases with a common blob, 1 image, volume and sandbox, 2 requests, fairness | base and mounts of a sandbox stay usable; requests that take three mutexes in different orders all return |
| MetadataBudget | 3 responses, 2 limits, total 4 bytes | the budget holds |
| Logs | 3 writes, files of 1 frame, 1 crash, 1 failing write, fairness | nothing is skipped but what could not be written; all other output precedes the exit; sequence numbers go on; drain and follower end |
| GuestAgent | 3 calls, with and without a terminal, fairness | answers are true; the journal is final when the exit is published; stop and attach end |
| Session | every command, 2 frames out, 1 in, connections and journals of 1 frame, every fault, fairness | a session implements `Transfer`; a copy that is acknowledged was extracted; relay and client end; detaching returns |
| Results | 2 sandboxes with logs of 0 or 2 and of 1 unit, 1 client, 3 ticks, room for 1 result and 1 unit; crash, failing save and deletion | a result is found, and its output with it, unless it was due to go; the directory is bounded in age, number and size |
| DocLateOutput | 2 sandboxes, 1 attach, no faults | the code differs from its documentation, see below |

The bounds are the smallest at which the cases that matter occur: two generations
so that a late finish meets a newer one, two requests so that a check and a write
can be split, a file of one frame so that every write rotates, limits of one or two
so that they are reached, logs of different sizes so that either the number or the size
of the results is too large, a connection of one frame so that both ends can be blocked in a send. With one proxy the process's slots are contended by its
two loops only. Deadlock is not checked where an instance uses up its sandboxes,
writes, time or calls and stops. In `ArtifactsUse` it is the subject of `RequestsEnd`, which
also excludes that some requests wait for each other while others go on.

The type invariants of `Session`, `DNSAdmission`, `Artifacts` and `Lifecycle` are not in
their configurations; adding `TypeOK` to the first three passes; the second and the last are proved.

Each `Doc...` configuration checks one sentence of the documentation, a comment or a
test and ends in a counterexample. The first is a run of `PROJECT.json`, with the
quotation; the others are kept to be run by hand.

| Configuration | Module | What the code does | What it contradicts |
| --- | --- | --- | --- |
| DocLateOutput | MCResults | finish deletes the directory before the row, and an attach in between is given the exit without the output (`daemon.go:527`) | notes, line 22: "so late wait/attach can receive output/status" |
| DocFailedRetained | MCLifecycle | Stop turns a failed sandbox into an exited one (`daemon.go:508`) | notes, line 31; `state/store.go:139` |
| DocGapsExposed | MCLogs | the drain drops gap markers (`daemon.go:463`) | notes, line 22 |
| DocSerialized | MCLifecycle | Stop and Create write a record whose mutex another action holds (`daemon.go:542`, `:234`) | notes, line 31 |
| DocInterruptedStop | MCLifecycle | a Stop cut off by a crash is not resumed (`daemon.go:621`) | notes, line 31 |
| DocVMMInReach | MCLifecycle | a VMM without PID file escapes Kill, and Remove then deletes the file (`vm.go:428`) | comment at `vm.go:418` |
| DocDNSPerSandbox | MCDNSAdmission | a restarted sandbox has two sets of slots for a while (`network.go:216`) | notes, line 24 |
| DocRmChecked | MCArtifacts | image-rm checks one digest and may remove another (`handler.go:108`) | notes, line 25 |
| DocSharedBlobs | MCArtifacts | base-rm deletes blobs of a reference written meanwhile (`base.go:404`) | notes, line 25 |
| DocFollowerGaps | MCLogs | a rotation between two opens hides frames from a reader (`journal.go:24`) | notes, line 22 |
| DocEarlyFailure | MCGuestAgent | a short container is reported as a runtime failure (`agent.go:466`) | comment at `agent.go:173` |
| DocCopyEnds | MCSession | the source of a copy fails, nothing is sent, and both ends wait (`images.go:153`) | notes, lines 21 and 33: what is not a regular file or directory produces an error |
| DocCopyComplete | MCSession | a copy out of a container that is cut between two entries succeeds (`images.go:189`) | the command's description, `images.go:131` |
| DocLatestOfName | MCResults | of two results with the same name the first in the directory is found (`results.go:72`) | the lookup by name in `lifecycle_test.go:182` |
| DocOrphanLogs | MCResults | a log linked before a crash is neither counted nor pruned (`results.go:40`) | notes, line 22: "at most 128 results and 256 MiB" |

("notes" is `src/docs/implementation-notes.md`.) `LifecycleMemory` checks `MemoryBudget`,
which is proved, with two sandboxes and memory for one; `ArtifactsLocks` checks `RequestsEnd`
with three requests, one base and no volume.

`RequestsReturn` has an exception that two requests really reach: a Stop that read the
record before a Start may stop nothing, and then waits as long as the application
runs. It is checked without the fault `dir`: a Wait for a sandbox whose directory could
not be removed goes on until somebody removes the sandbox. With crashes, only one
request at a time was explored to the end, with the same result; no run repeats that.

`BaseKept` and `MountsBacked` are checked without stops of the daemon, and `BaseKept`
without base-pull: the code does not repair a removal or a volume request cut in
two, and promises nothing about it; with base-pull `DocSharedBlobs` refutes it.

`ResultsBounded` is about results and the logs they account for. Its age part speaks of
the last prune, which the daemon runs at its start, with every save and lookup and once
a minute. A log without a result is outside of it (`DocOrphanLogs`), and so is a result
that could not be deleted, until the next prune. `OutputDelivered` is about requests that
found a result; one that found the row is `DocLateOutput`.

## Fairness

A goroutine that can go on does (weak fairness): Go's scheduler is preemptive, and
calls to the guest, commands and dials carry deadlines. A goroutine that waits for a
mutex gets it if it is free again and again (strong fairness on the locking steps):
`sync.Mutex` hands over to a waiter after a millisecond. `Boot` is fair because
the service manager restarts the daemon; the number of crashes in a behaviour is
not bounded in `Lifecycle` and bounded by `MaxCrashes` elsewhere. In `GuestAgent`
a container dies after SIGKILL and runc's launch ends. In `Session`
the goroutines run on, the sender of an archive goes on, and the application reads its
input; a user at a terminal need not type. Nothing else is assumed of applications or
clients.

## Proofs

Checked by `tlapm <module>`, for all values of the constants that satisfy the
`ASSUME` of the module.

*Lifecycle* (`LifecycleFrame_proofs` with the lemmas on frames and labels, then
`LifecycleCreate_proofs`, `LifecycleStart_proofs` and `LifecycleEnd_proofs` with one lemma
per action, combined in `Lifecycle_proofs`): types, `ResourcesReserved`, `VolumeExclusive`
and `MemoryBudget`. None is inductive: whether a finish may write `released`
depends on what its goroutine saw before. The invariant is

    IInv == TypeOK /\ LocalsInv /\ RoleInv /\ LockInv /\ ClaimInv

`LockInv` says which labels hold which mutex, `RoleInv` which process may be at which
label (no request runs during recovery, a monitor stays with its sandbox),
`LocalsInv` what the locals are worth there. `ClaimInv` is the heart: a sandbox with
resources, or a Start past admission, is covered by its record, and a process
about to give up the reservation has seen that nothing is left; the mutex keeps
that true until it writes. `VolumeInv` and `MemoryInv` extend the two admission
checks to the Start that holds `alloc` and has not written yet.

*LifecycleView* (`LifecycleRows_proofs`, with the theorems in `Lifecycle_proofs`): `Implementation`, that
`Lifecycle` implements `SandboxView`, and `AllocationsExclusive`. Goroutines write rows
back from copies they read earlier, so both need `ViewInv`: the row of a Create in
progress is still the one it inserted, and its slot and claims are free until it does;
a Start about to be admitted has the row as it is, because the mutex keeps writers
away; finish has an exit. On top of `IInv`, one lemma per action that writes a row shows
that the step is one of `SandboxView`'s; all other actions are stutters. The proofs of
`Lifecycle` are split so that no module sees lemmas it does not need: the provers are
several times slower when it does.

*DNSAdmission* (`DNSAdmission_proofs`): `SlotsHeld`, `RateBound` and `FairShare`, from

    IInv == TypeOK /\ SlotsHeld /\ BucketInv /\ DrawnInv /\ NowInv /\ StartInv

`BucketInv` adds the tokens still in a bucket to those taken, which makes the rate
bound inductive; a refill with a stale time adds nothing, one with a new time adds
what the window grows by. `DrawnInv` counts the loops that have paid with a token of
their proxy and not yet asked the process. `StartInv` says that the loops of a proxy to
come do not run: a start would otherwise forget a slot.

*MetadataBudget* (`MetadataBudget_proofs`): `BudgetInv` says that `used` is what was
returned plus what reads in progress have reserved; the bounds follow.

Only model-checked: all liveness (the prover has no rule for fairness), the other
properties of `Lifecycle` (`OneVMM`, `ListenersHeld`, `Monitored`, `ExitGenuine`,
`ResultLeft`), and `Artifacts`, `Logs`, `GuestAgent`, `Session` and `Results` as a whole.

## Not modelled

- Guest init and unpack, build, the image and base commands that pack or unpack: sequential
  system calls on trees of files. What would be checked is the file system.
- Runtime specification, request validation, parsing of flags, signals and sizes: pure
  functions of strings and numbers, within reach of unit tests.
- Certificates and the transport's encryption.
- Registry and archive decoding, verification of digests, the JSON complexity check.
- The commands of nftables, ip and mkfs, and the configuration of Firecracker: they succeed
  or fail as one step.
- Intents and migrations of the store: intents are written and never read.
- Resize and signals: one message that changes no state of the model. The guest's
  power-off on shutdown is a VMM that dies before `Kill` (`VMMDies`).
- Composition of `Lifecycle` with `Artifacts`, `GuestAgent` or `Results`: the product of the
  instances is out of TLC's reach; the points where they meet are listed above.
