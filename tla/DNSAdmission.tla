---------------------------- MODULE DNSAdmission ----------------------------
(***************************************************************************)
(* The admission control of the DNS proxies (internal/network/dns.go and   *)
(* DNS in internal/network/network.go, started and stopped by startDNS and *)
(* stopDNS of internal/daemon/daemon.go).                                  *)
(*                                                                         *)
(* Every start of a sandbox makes a proxy: two loops, serveUDP and         *)
(* serveTCP, that share one token bucket and one channel of work slots,    *)
(* and that draw on the bucket and the channel of the whole process too.   *)
(* A loop that is admitted starts a goroutine, a job, that holds one slot  *)
(* of each channel until its deadline at the latest.                       *)
(*                                                                         *)
(* A channel of empty structs is the number of values in it: a send is     *)
(* possible below its capacity, a receive above zero.  Time is counted in  *)
(* ticks short enough that a rate is a whole number of tokens per tick;    *)
(* the time of a bucket never used is 0 and the clock starts at 1.         *)
(* Queries and answers are opaque, and a packet of a size that serveUDP    *)
(* skips changes nothing and is left out.                                  *)
(***************************************************************************)
EXTENDS Integers, FiniteSets

CONSTANTS Sandbox,
          process,      \* processDNSAdmission, as the owner of a bucket
          MaxStarts,    \* bound: proxies started for one sandbox
          Job,          \* bound: goroutines alive at once
          MaxTime,      \* bound: ticks of the clock
          LocalRate, LocalBurst, LocalLimit,     \* perSandboxDNS...
          GlobalRate, GlobalBurst, GlobalLimit   \* globalDNS...

Proxy == Sandbox \X (1 .. MaxStarts)
Loop == Proxy \X {"udp", "tcp"}
Bucket == Proxy \cup {process}

ASSUME DNSAssumption ==
  /\ IsFiniteSet(Sandbox) /\ IsFiniteSet(Job)
  /\ MaxStarts \in Nat /\ MaxTime \in Nat \ {0}
  /\ LocalRate \in Nat \ {0} /\ LocalBurst \in Nat \ {0} /\ LocalLimit \in Nat
  /\ GlobalRate \in Nat \ {0} /\ GlobalBurst \in Nat \ {0} /\ GlobalLimit \in Nat
  /\ process \notin Proxy

VARIABLES
  time,        \* the clock
  dns,         \* Daemon.dns: the proxy of a sandbox that listens, 0 for none
  starts,      \* how many proxies a sandbox had
  tokens,      \* tokenBucket.tokens
  last,        \* tokenBucket.last, 0 before the first use
  localWork,   \* dnsAdmission.localWork of each proxy
  globalWork,  \* processDNSAdmission.work
  pc, now,     \* where a loop is, and the now it read in acquire
  job, owner,  \* what a job holds, and the proxy it works for
  first,       \* history: a window of time opens at some use of a bucket,
  taken,       \* the tokens taken from the bucket since,
  drawn        \* and those of the process taken since for a proxy

clocks == <<time, dns, starts>>
buckets == <<tokens, last, first, taken, drawn>>
slots == <<localWork, globalWork>>
vars == <<clocks, buckets, slots, pc, now, job, owner>>

Rate(b) == IF b = process THEN GlobalRate ELSE LocalRate
Burst(b) == IF b = process THEN GlobalBurst ELSE LocalBurst

Init ==
  /\ time = 1
  /\ dns = [s \in Sandbox |-> 0] /\ starts = [s \in Sandbox |-> 0]
  /\ tokens = [b \in Bucket |-> Burst(b)]
  /\ last = [b \in Bucket |-> 0] /\ first = [b \in Bucket |-> 0]
  /\ taken = [b \in Bucket |-> 0] /\ drawn = [p \in Proxy |-> 0]
  /\ localWork = [p \in Proxy |-> 0] /\ globalWork = 0
  /\ pc = [l \in Loop |-> "off"] /\ now = [l \in Loop |-> 0]
  /\ job = [j \in Job |-> "idle"] /\ owner = [j \in Job |-> process]

Tick == /\ time < MaxTime
        /\ time' = time + 1
        /\ UNCHANGED <<dns, starts, buckets, slots, pc, now, job, owner>>

Listening(p) == dns[p[1]] = p[2]

-----------------------------------------------------------------------------
(* startDNS, stopDNS: both under Daemon.mu.  Closing the sockets ends the  *)
(* loops at their next read and leaves the jobs alone.                     *)

StartDNS(s) ==
  /\ dns[s] = 0 /\ starts[s] < MaxStarts
  /\ starts' = [starts EXCEPT ![s] = @ + 1]
  /\ dns' = [dns EXCEPT ![s] = starts[s] + 1]
  /\ pc' = [l \in Loop |-> IF l[1] = <<s, starts[s] + 1>> THEN "read" ELSE pc[l]]
  /\ UNCHANGED <<time, buckets, slots, now, job, owner>>

StopDNS(s) ==
  /\ dns[s] # 0
  /\ dns' = [dns EXCEPT ![s] = 0]
  /\ UNCHANGED <<time, starts, buckets, slots, pc, now, job, owner>>

LoopReturns(l) ==
  /\ pc[l] = "read" /\ ~Listening(l[1])
  /\ pc' = [pc EXCEPT ![l] = "off"]
  /\ UNCHANGED <<clocks, buckets, slots, now, job, owner>>

-----------------------------------------------------------------------------
(* acquire, called by a loop for what it read or accepted.                 *)

Receive(l) ==
  /\ pc[l] = "read" /\ Listening(l[1])
  /\ pc' = [pc EXCEPT ![l] = "local"]
  /\ now' = [now EXCEPT ![l] = time]
  /\ UNCHANGED <<clocks, buckets, slots, job, owner>>

Least(m, n) == IF m < n THEN m ELSE n

(* What allow(n) finds in a bucket before it takes a token: nothing is     *)
(* added at the first use, nor for a now that is not after the last one.   *)
RefillUncapped(b, n) == IF last[b] = 0 \/ n <= last[b] THEN tokens[b]
                        ELSE tokens[b] + (n - last[b]) * Rate(b)
Refill(b, n) == IF last[b] = 0 \/ n <= last[b] THEN tokens[b]
                ELSE Least(Burst(b), tokens[b] + (n - last[b]) * Rate(b))

(* allow(n).  Where it refills the bucket, a window may open.              *)
Allow(b, n, ok, open) ==
  /\ open => n > last[b]
  /\ last[b] = 0 => open
  /\ last' = [last EXCEPT ![b] = IF n > @ THEN n ELSE @]
  /\ first' = [first EXCEPT ![b] = IF open THEN n ELSE @]
  /\ ok = (Refill(b, n) >= 1)
  /\ tokens' = [tokens EXCEPT ![b] = Refill(b, n) - (IF ok THEN 1 ELSE 0)]
  /\ taken' = [taken EXCEPT ![b] = (IF open THEN 0 ELSE @) + (IF ok THEN 1 ELSE 0)]

(* A proxy whose own bucket is empty asking the process all the same.      *)
LocalAllowIgnored(l) ==
  /\ pc[l] = "local"
  /\ \E ok, open \in BOOLEAN :
       /\ Allow(l[1], now[l], ok, open)
       /\ drawn' = [drawn EXCEPT ![l[1]] = IF open THEN 0 ELSE @]
  /\ pc' = [pc EXCEPT ![l] = "global"]
  /\ UNCHANGED <<clocks, slots, now, job, owner>>

LocalAllow(l) ==
  /\ pc[l] = "local"
  /\ \E ok, open \in BOOLEAN :
       /\ Allow(l[1], now[l], ok, open)
       /\ drawn' = [drawn EXCEPT ![l[1]] = IF open THEN 0 ELSE @]
       /\ pc' = [pc EXCEPT ![l] = IF ok THEN "global" ELSE "read"]
       /\ now' = [now EXCEPT ![l] = IF ok THEN @ ELSE 0]
  /\ UNCHANGED <<clocks, slots, job, owner>>

GlobalAllow(l) ==
  /\ pc[l] = "global"
  /\ \E ok, open \in BOOLEAN :
       /\ Allow(process, now[l], ok, open)
       /\ pc' = [pc EXCEPT ![l] = IF ok THEN "lslot" ELSE "read"]
       /\ drawn' = [drawn EXCEPT ![l[1]] = IF ok THEN @ + 1 ELSE @]
  /\ now' = [now EXCEPT ![l] = 0]
  /\ UNCHANGED <<clocks, slots, job, owner>>

LocalSlot(l) ==
  /\ pc[l] = "lslot"
  /\ IF localWork[l[1]] < LocalLimit
     THEN /\ localWork' = [localWork EXCEPT ![l[1]] = @ + 1]
          /\ pc' = [pc EXCEPT ![l] = "gslot"]
     ELSE /\ pc' = [pc EXCEPT ![l] = "read"]
          /\ UNCHANGED localWork
  /\ UNCHANGED <<clocks, buckets, globalWork, now, job, owner>>

(* The send on globalWork, and the go statement of an admitted query.      *)
GlobalSlot(l) ==
  /\ pc[l] = "gslot" /\ globalWork < GlobalLimit
  /\ globalWork' = globalWork + 1
  /\ \E j \in Job : /\ job[j] = "idle"
                    /\ job' = [job EXCEPT ![j] = "work"]
                    /\ owner' = [owner EXCEPT ![j] = l[1]]
  /\ pc' = [pc EXCEPT ![l] = "read"]
  /\ UNCHANGED <<clocks, buckets, localWork, now>>

(* The default branch taken without giving the local slot back.            *)
GlobalFullLeaking(l) ==
  /\ pc[l] = "gslot" /\ globalWork >= GlobalLimit
  /\ pc' = [pc EXCEPT ![l] = "read"]
  /\ UNCHANGED <<clocks, buckets, slots, now, job, owner>>

(* The default branch: the process is full.                                *)
GlobalFull(l) ==
  /\ pc[l] = "gslot" /\ globalWork >= GlobalLimit
  /\ pc' = [pc EXCEPT ![l] = "back"]
  /\ UNCHANGED <<clocks, buckets, slots, now, job, owner>>

GiveBack(l) ==
  /\ pc[l] = "back" /\ localWork[l[1]] > 0
  /\ localWork' = [localWork EXCEPT ![l[1]] = @ - 1]
  /\ pc' = [pc EXCEPT ![l] = "read"]
  /\ UNCHANGED <<clocks, buckets, globalWork, now, job, owner>>

-----------------------------------------------------------------------------
(* The deferred release of a job: its two receives, in order.              *)

(* A release that does nothing once the proxy is stopped.                  *)
ReleaseGlobalListening(j) ==
  /\ job[j] = "work" /\ globalWork > 0 /\ Listening(owner[j])
  /\ globalWork' = globalWork - 1
  /\ job' = [job EXCEPT ![j] = "freed"]
  /\ UNCHANGED <<clocks, buckets, localWork, pc, now, owner>>

ReleaseGlobal(j) ==
  /\ job[j] = "work" /\ globalWork > 0
  /\ globalWork' = globalWork - 1
  /\ job' = [job EXCEPT ![j] = "freed"]
  /\ UNCHANGED <<clocks, buckets, localWork, pc, now, owner>>

ReleaseLocal(j) ==
  /\ job[j] = "freed" /\ localWork[owner[j]] > 0
  /\ localWork' = [localWork EXCEPT ![owner[j]] = @ - 1]
  /\ job' = [job EXCEPT ![j] = "idle"]
  /\ owner' = [owner EXCEPT ![j] = process]
  /\ UNCHANGED <<clocks, buckets, globalWork, pc, now>>

Acquire(l) == \/ LocalAllow(l) \/ GlobalAllow(l) \/ LocalSlot(l)
              \/ GlobalSlot(l) \/ GlobalFull(l) \/ GiveBack(l)

Next ==
  \/ Tick
  \/ \E s \in Sandbox : StartDNS(s) \/ StopDNS(s)
  \/ \E l \in Loop : Receive(l) \/ LoopReturns(l) \/ Acquire(l)
  \/ \E j \in Job : ReleaseGlobal(j) \/ ReleaseLocal(j)

Spec == Init /\ [][Next]_vars

(* acquire never waits but on mutexes held for a few instructions, and     *)
(* every job ends: its dial, reads and writes all carry deadlines.         *)
FairSpec == /\ Spec
            /\ \A l \in Loop : WF_vars(LoopReturns(l)) /\ WF_vars(Acquire(l))
            /\ \A j \in Job : WF_vars(ReleaseGlobal(j)) /\ WF_vars(ReleaseLocal(j))

-----------------------------------------------------------------------------
LoopLabel == {"off", "read", "local", "global", "lslot", "gslot", "back"}

(* Type invariant: in particular a channel holds at most its capacity.     *)
TypeOK ==
  /\ time \in 1 .. MaxTime
  /\ dns \in [Sandbox -> 0 .. MaxStarts] /\ starts \in [Sandbox -> 0 .. MaxStarts]
  /\ tokens \in [Bucket -> Nat] /\ last \in [Bucket -> 0 .. MaxTime]
  /\ first \in [Bucket -> 0 .. MaxTime] /\ taken \in [Bucket -> Nat]
  /\ drawn \in [Proxy -> Nat]
  /\ localWork \in [Proxy -> 0 .. LocalLimit] /\ globalWork \in 0 .. GlobalLimit
  /\ pc \in [Loop -> LoopLabel] /\ now \in [Loop -> 0 .. MaxTime]
  /\ job \in [Job -> {"idle", "work", "freed"}] /\ owner \in [Job -> Bucket]

Working == {j \in Job : job[j] = "work"}
JobsOf(p) == {j \in Job : job[j] # "idle" /\ owner[j] = p}
Offering(p) == {l \in Loop : l[1] = p /\ pc[l] \in {"gslot", "back"}}

(* Every slot taken is held by a goroutine that will give it back, and by  *)
(* one only (acquire, and the release it returns).  Were a channel to hold *)
(* fewer, a release would block for ever; were it to hold more, slots      *)
(* would be lost until the proxy, or the daemon, is restarted.  Nor are    *)
(* there ever more queries than slots.                                     *)
SlotsHeld ==
  /\ globalWork = Cardinality(Working) /\ globalWork <= GlobalLimit
  /\ \A p \in Proxy : localWork[p] <= LocalLimit
  /\ \A p \in Proxy : localWork[p] = Cardinality(JobsOf(p)) + Cardinality(Offering(p))

(* Whatever the window, what a proxy, and the process, admit in it is at   *)
(* most the burst and the rate times its length (allow), also when a loop  *)
(* comes late to the bucket with a now that another has passed.            *)
RateBound ==
  \A b \in Bucket : taken[b] <= Burst(b) + Rate(b) * (last[b] - first[b])

(* A proxy cannot use up the process's tokens: what it draws from them is  *)
(* bounded by its own rate, since acquire asks its own bucket first.  The  *)
(* one more is a query that its other loop had in hand as the window       *)
(* opened.                                                                 *)
FairShare ==
  \A p \in Proxy : drawn[p] <= LocalBurst + LocalRate * (last[p] - first[p]) + 1

(* Once a proxy is stopped for good its slots are all given back           *)
(* (stopDNS; the deferred release of every admitted query).                *)
Drains ==
  \A p \in Proxy : (starts[p[1]] >= p[2] /\ ~Listening(p)) ~> localWork[p] = 0

(* The notes say that the proxy shares "concurrency admission per          *)
(* sandbox": a sandbox has at most perSandboxDNSConcurrent queries in      *)
(* flight.                                                                 *)
PerSandbox ==
  \A s \in Sandbox :
    Cardinality({j \in Job : job[j] = "work" /\ owner[j][1] = s}) <= LocalLimit

-----------------------------------------------------------------------------
(* The inductive invariant that the proofs rest on.                        *)

Asking(p) == {l \in Loop : l[1] = p /\ pc[l] = "global"}

BucketInv ==
  \A b \in Bucket :
    /\ tokens[b] <= Burst(b)
    /\ first[b] <= last[b] /\ (last[b] = 0 <=> first[b] = 0)
    /\ tokens[b] + taken[b] <= Burst(b) + Rate(b) * (last[b] - first[b])

DrawnInv == \A p \in Proxy : drawn[p] + Cardinality(Asking(p)) <= taken[p] + 1

NowInv == \A l \in Loop : pc[l] \in {"local", "global"} => now[l] >= 1

\* The loops of a proxy to come do not run.
StartInv == \A l \in Loop : starts[l[1][1]] < l[1][2] => pc[l] = "off"

IInv == TypeOK /\ SlotsHeld /\ BucketInv /\ DrawnInv /\ NowInv /\ StartInv
=============================================================================
