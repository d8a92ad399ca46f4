------------------------ MODULE DNSAdmission_proofs -------------------------
(***************************************************************************)
(* Slots, rates and shares of the DNS proxies, for any number of           *)
(* sandboxes, proxies, queries and any limits.                             *)
(***************************************************************************)
EXTENDS DNSAdmission, FiniteSetTheorems, TLAPS

(* What acquire works with: the proxy of a loop, and the types of rates.   *)
LEMMA Constants ==
  /\ \A l \in Loop : l[1] \in Proxy /\ l[1] \in Bucket
  /\ \A p \in Proxy : p # process /\ Burst(p) = LocalBurst /\ Rate(p) = LocalRate
  /\ \A b \in Bucket : Burst(b) \in Nat /\ Burst(b) >= 1 /\ Rate(b) \in Nat
BY DNSAssumption DEF Loop, Bucket, Burst, Rate

(* What is left of a pair without one of its members.                      *)
LEMMA PartOfPair ==
  ASSUME NEW u, NEW t, NEW S \in SUBSET {u, t}
  PROVE  /\ IsFiniteSet(S) /\ Cardinality(S) \in Nat
         /\ (u \notin S \/ t \notin S) => Cardinality(S) <= 1
<1>1. IsFiniteSet({u}) /\ Cardinality({u}) = 1 /\ IsFiniteSet({t}) /\ Cardinality({t}) = 1
  BY FS_Singleton, Zenon
<1>2. IsFiniteSet({u} \cup {t})
  BY <1>1, FS_AddElement, Zenon
<1>3. S \in SUBSET ({u} \cup {t})
  OBVIOUS
<1>4. IsFiniteSet(S) /\ Cardinality(S) \in Nat
  BY <1>2, <1>3, FS_Subset, FS_CardinalityType, Zenon
<1>5. ASSUME NEW x, S \in SUBSET {x}, IsFiniteSet({x}), Cardinality({x}) = 1
      PROVE  Cardinality(S) <= 1
  BY <1>5, FS_Subset
<1>6. u \notin S => Cardinality(S) <= 1
  <2>1. u \notin S => S \in SUBSET {t}
    OBVIOUS
  <2> QED BY <1>1, <1>5, <2>1
<1>7. t \notin S => Cardinality(S) <= 1
  <2>1. t \notin S => S \in SUBSET {u}
    OBVIOUS
  <2> QED BY <1>1, <1>5, <2>1
<1> QED BY <1>4, <1>6, <1>7

(* A proxy has two loops.                                                  *)
LEMMA TwoLoops ==
  ASSUME NEW p \in Proxy, NEW S \in SUBSET {l \in Loop : l[1] = p}
  PROVE  /\ IsFiniteSet(S) /\ Cardinality(S) \in Nat
         /\ \A l \in Loop : (l[1] = p /\ l \notin S) => Cardinality(S) <= 1
<1>1. \A l \in Loop : l[1] = p => l = <<p, "udp">> \/ l = <<p, "tcp">>
  BY DEF Loop
<1>2. S \in SUBSET {<<p, "udp">>, <<p, "tcp">>}
  BY <1>1
<1> HIDE DEF Loop
<1> QED BY Zenon, <1>1, <1>2, PartOfPair

(* The sets of jobs that SlotsHeld counts are finite.                      *)
LEMMA FiniteJobs ==
  /\ IsFiniteSet(Working) /\ Cardinality(Working) \in Nat
  /\ \A p \in Proxy : IsFiniteSet(JobsOf(p)) /\ Cardinality(JobsOf(p)) \in Nat
<1>1. Working \in SUBSET Job /\ \A p \in Proxy : JobsOf(p) \in SUBSET Job
  BY DEF Working, JobsOf
<1> QED BY <1>1, DNSAssumption, FS_Subset, FS_CardinalityType

(* The sets of loops that SlotsHeld and DrawnInv count.                    *)
LEMMA FiniteLoops ==
  ASSUME NEW p \in Proxy
  PROVE  /\ IsFiniteSet(Offering(p)) /\ Cardinality(Offering(p)) \in Nat
         /\ IsFiniteSet(Asking(p)) /\ Cardinality(Asking(p)) \in Nat
         /\ \A l \in Loop : (l[1] = p /\ pc[l] # "global") => Cardinality(Asking(p)) <= 1
<1>1. Offering(p) \in SUBSET {l \in Loop : l[1] = p}
  BY DEF Offering
<1>2. Asking(p) \in SUBSET {l \in Loop : l[1] = p}
  BY DEF Asking
<1>3. \A l \in Loop : pc[l] # "global" => l \notin Asking(p)
  BY DEF Asking
<1> QED BY <1>1, <1>2, <1>3, TwoLoops

-----------------------------------------------------------------------------
(* Time that passes is refilled at the rate, in one step or in two.        *)
LEMMA Distribute ==
  ASSUME NEW r \in Nat, NEW f \in Nat, NEW l \in Nat, NEW n \in Nat
  PROVE  r * (n - f) = r * (l - f) + (n - l) * r
BY SMT

(* allow on one bucket: what it leaves in it, and what was taken from it,  *)
(* are covered by the burst and by the time since the window opened.       *)
LEMMA AllowKeeps ==
  ASSUME TypeOK, BucketInv, NEW b \in Bucket, NEW n \in 1 .. MaxTime,
         NEW ok \in BOOLEAN, NEW open \in BOOLEAN, Allow(b, n, ok, open)
  PROVE  /\ tokens' \in [Bucket -> Nat] /\ last' \in [Bucket -> 0 .. MaxTime]
         /\ first' \in [Bucket -> 0 .. MaxTime] /\ taken' \in [Bucket -> Nat]
         /\ BucketInv'
         /\ taken'[b] = (IF open THEN 0 ELSE taken[b]) + (IF ok THEN 1 ELSE 0)
         /\ \A c \in Bucket : c # b => taken'[c] = taken[c]
<1> DEFINE R == Refill(b, n)
           one == IF ok THEN 1 ELSE 0
<1>1. /\ tokens[b] \in Nat /\ last[b] \in 0 .. MaxTime /\ first[b] \in 0 .. MaxTime
      /\ taken[b] \in Nat /\ MaxTime \in Nat
      /\ Burst(b) \in Nat /\ Burst(b) >= 1 /\ Rate(b) \in Nat
  BY Constants, DNSAssumption DEF TypeOK
<1>2. /\ tokens[b] <= Burst(b) /\ first[b] <= last[b] /\ (last[b] = 0 <=> first[b] = 0)
      /\ tokens[b] + taken[b] <= Burst(b) + Rate(b) * (last[b] - first[b])
  BY DEF BucketInv
<1>3. (n - last[b]) * Rate(b) \in Int /\ (n > last[b] => (n - last[b]) * Rate(b) >= 0)
  BY <1>1
<1>4. R \in Nat /\ R <= Burst(b)
  BY <1>1, <1>2, <1>3 DEF Refill, Least
<1>5. one \in Nat /\ one <= R
  <2>1. ok = (R >= 1)
    BY DEF Allow
  <2> HIDE DEF R
  <2>2. ok => R >= 1
    BY Zenon, <2>1
  <2> QED BY <1>4, <2>2
<1>6. /\ tokens' = [tokens EXCEPT ![b] = R - one]
      /\ taken' = [taken EXCEPT ![b] = (IF open THEN 0 ELSE @) + one]
      /\ last' = [last EXCEPT ![b] = IF n > @ THEN n ELSE @]
      /\ first' = [first EXCEPT ![b] = IF open THEN n ELSE @]
      /\ open => n > last[b]
      /\ last[b] = 0 => open
  BY DEF Allow
<1> HIDE DEF R, one
<1>7. /\ tokens' \in [Bucket -> Nat] /\ last' \in [Bucket -> 0 .. MaxTime]
      /\ first' \in [Bucket -> 0 .. MaxTime] /\ taken' \in [Bucket -> Nat]
  BY <1>1, <1>4, <1>5, <1>6 DEF TypeOK
<1>8. /\ tokens'[b] = R - one /\ taken'[b] = (IF open THEN 0 ELSE taken[b]) + one
      /\ last'[b] = (IF n > last[b] THEN n ELSE last[b])
      /\ first'[b] = (IF open THEN n ELSE first[b])
  BY <1>6 DEF TypeOK
<1>9. /\ tokens'[b] <= Burst(b)
      /\ first'[b] <= last'[b] /\ (last'[b] = 0 <=> first'[b] = 0)
  BY <1>1, <1>2, <1>4, <1>5, <1>6, <1>8
<1>10. tokens'[b] + taken'[b] <= Burst(b) + Rate(b) * (last'[b] - first'[b])
  <2>1. CASE open
    <3>1. last'[b] - first'[b] = 0 /\ tokens'[b] + taken'[b] = R
      BY <2>1, <1>1, <1>4, <1>5, <1>6, <1>8
    <3> QED BY <3>1, <1>1, <1>4
  <2>2. CASE ~open /\ n <= last[b]
    <3>1. R = tokens[b]
      BY <2>2 DEF R, Refill
    <3>2. last'[b] = last[b] /\ first'[b] = first[b] /\ tokens'[b] + taken'[b] = R + taken[b]
      BY <2>2, <1>1, <1>4, <1>5, <1>8
    <3> QED BY <3>1, <3>2, <1>2
  <2>3. CASE ~open /\ n > last[b]
    <3>1. R <= tokens[b] + (n - last[b]) * Rate(b)
      BY <2>3, <1>1, <1>3, <1>6 DEF R, Refill, Least
    <3>2. last'[b] = n /\ first'[b] = first[b] /\ tokens'[b] + taken'[b] = R + taken[b]
      BY <2>3, <1>1, <1>4, <1>5, <1>8
    <3>3. Rate(b) * (n - first[b]) = Rate(b) * (last[b] - first[b]) + (n - last[b]) * Rate(b)
      BY <1>1, Distribute
    <3>4. Rate(b) * (last[b] - first[b]) \in Int
      BY <1>1
    <3> QED BY <3>1, <3>2, <3>3, <3>4, <1>1, <1>2, <1>3, <1>4
  <2> QED BY <2>1, <2>2, <2>3, <1>1
<1>11. ASSUME NEW c \in Bucket, c # b
       PROVE  /\ tokens'[c] = tokens[c] /\ taken'[c] = taken[c]
              /\ last'[c] = last[c] /\ first'[c] = first[c]
  BY <1>6, <1>11 DEF TypeOK
<1>12. BucketInv'
  <2>1. \A c : Burst(c)' = Burst(c) /\ Rate(c)' = Rate(c)
    BY DEF Burst, Rate
  <2> QED BY <1>9, <1>10, <1>11, <2>1 DEF BucketInv
<1> QED BY <1>7, <1>8, <1>11, <1>12 DEF one

-----------------------------------------------------------------------------
(* A step that leaves the buckets alone, and asks no more of the process.  *)
LEMMA BucketsKept ==
  ASSUME IInv, UNCHANGED buckets, \A l \in Loop : pc'[l] = "global" => pc[l] = "global"
  PROVE  BucketInv' /\ DrawnInv'
<1>1. BucketInv'
  BY DEF IInv, BucketInv, buckets, Burst, Rate
<1>2. ASSUME NEW p \in Proxy PROVE drawn'[p] + Cardinality(Asking(p)') <= taken'[p] + 1
  <2>1. Asking(p)' \in SUBSET Asking(p)
    BY DEF Asking
  <2>2. /\ Cardinality(Asking(p)') \in Nat /\ Cardinality(Asking(p)) \in Nat
        /\ Cardinality(Asking(p)') <= Cardinality(Asking(p))
    BY <2>1, FiniteLoops, FS_Subset, FS_CardinalityType
  <2>3. drawn'[p] = drawn[p] /\ taken'[p] = taken[p]
    BY DEF buckets
  <2>4. drawn[p] \in Nat /\ taken[p] \in Nat
    BY DEF IInv, TypeOK, Bucket
  <2>5. drawn[p] + Cardinality(Asking(p)) <= taken[p] + 1
    BY DEF IInv, DrawnInv
  <2> QED BY <2>2, <2>3, <2>4, <2>5
<1> QED BY <1>1, <1>2 DEF DrawnInv

(* A step that takes no slot and gives none back.                          *)
LEMMA SlotsKept ==
  ASSUME IInv, UNCHANGED <<slots, job, owner>>,
         \A l \in Loop : pc'[l] \in {"gslot", "back"} <=> pc[l] \in {"gslot", "back"}
  PROVE  SlotsHeld'
<1>1. Working' = Working /\ \A p \in Proxy : JobsOf(p)' = JobsOf(p)
  BY DEF Working, JobsOf
<1>2. \A p \in Proxy : Offering(p)' = Offering(p)
  BY DEF Offering
<1>3. UNCHANGED <<localWork, globalWork>>
  BY DEF slots
<1> QED BY <1>1, <1>2, <1>3 DEF IInv, SlotsHeld

(* startDNS, stopDNS, the clock, and the reads of a loop.                  *)
LEMMA QuietStep ==
  ASSUME IInv,
         \/ Tick
         \/ \E s \in Sandbox : StartDNS(s) \/ StopDNS(s)
         \/ \E l \in Loop : Receive(l) \/ LoopReturns(l)
  PROVE  IInv'
<1> USE DEF IInv
<1>1. CASE Tick
  <2>1. TypeOK' /\ NowInv' /\ StartInv'
    BY <1>1, DNSAssumption DEF TypeOK, NowInv, StartInv, Tick, buckets, slots
  <2> QED BY <1>1, <2>1, BucketsKept, SlotsKept DEF Tick
<1>2. ASSUME NEW s \in Sandbox, StartDNS(s) PROVE IInv'
  <2> DEFINE p == <<s, starts[s] + 1>>
  <2>1. starts[s] \in 0 .. MaxStarts /\ MaxStarts \in Nat /\ starts[s] < MaxStarts
    BY <1>2, DNSAssumption DEF TypeOK, StartDNS
  <2>2. \A l \in Loop : l[1] = p => pc[l] = "off"
    BY <2>1 DEF StartInv
  <2>3. pc' = [l \in Loop |-> IF l[1] = p THEN "read" ELSE pc[l]]
    BY <1>2 DEF StartDNS
  <2>4. \A l \in Loop : pc'[l] # pc[l] => pc[l] = "off" /\ pc'[l] = "read" /\ l[1] = p
    BY <2>2, <2>3
  <2>5. /\ \A l \in Loop : pc'[l] \in {"gslot", "back"} <=> pc[l] \in {"gslot", "back"}
        /\ \A l \in Loop : pc'[l] = "global" => pc[l] = "global"
    BY <2>4
  <2>6. UNCHANGED <<buckets, slots, job, owner, now, time>>
    BY <1>2 DEF StartDNS
  <2>7. TypeOK'
    BY SMTT(30), <1>2, <2>1, <2>3, <2>6 DEF TypeOK, StartDNS, buckets, slots, LoopLabel
  <2>8. NowInv'
    BY <2>4, <2>6 DEF NowInv
  <2>9. StartInv'
    <3> SUFFICES ASSUME NEW l \in Loop, starts'[l[1][1]] < l[1][2] PROVE pc'[l] = "off"
      BY DEF StartInv
    <3>1. l[1][1] \in Sandbox /\ l[1][2] \in 1 .. MaxStarts
      BY DEF Loop, Proxy
    <3>2. starts[l[1][1]] \in Nat
      BY <3>1, DNSAssumption DEF TypeOK
    <3>3. starts'[l[1][1]] = IF l[1][1] = s THEN starts[s] + 1 ELSE starts[l[1][1]]
      BY SMTT(30), <1>2, <3>1 DEF StartDNS, TypeOK
    <3>4. l[1] # p /\ starts[l[1][1]] < l[1][2]
      BY <2>1, <3>1, <3>2, <3>3, DNSAssumption
    <3> QED BY <3>4, <2>3 DEF StartInv
  <2> QED BY <2>5, <2>6, <2>7, <2>8, <2>9, BucketsKept, SlotsKept
<1>3. ASSUME NEW s \in Sandbox, StopDNS(s) PROVE IInv'
  <2>1. TypeOK' /\ NowInv' /\ StartInv'
    BY <1>3, DNSAssumption DEF TypeOK, NowInv, StartInv, StopDNS, buckets, slots
  <2> QED BY <1>3, <2>1, BucketsKept, SlotsKept DEF StopDNS
<1>4. ASSUME NEW l \in Loop, Receive(l) \/ LoopReturns(l) PROVE IInv'
  <2>1. /\ pc[l] = "read" /\ UNCHANGED <<clocks, buckets, slots, job, owner>>
        /\ \E x \in {"local", "off"} : pc' = [pc EXCEPT ![l] = x]
        /\ now' = now \/ now' = [now EXCEPT ![l] = time]
    BY <1>4 DEF Receive, LoopReturns
  <2>2. TypeOK'
    BY <2>1, DNSAssumption DEF TypeOK, buckets, slots, clocks, LoopLabel
  <2>3. NowInv'
    BY <1>4, DNSAssumption DEF TypeOK, NowInv, Receive, LoopReturns
  <2>4. StartInv'
    BY <2>1, DNSAssumption DEF TypeOK, StartInv, clocks
  <2>5. /\ \A k \in Loop : pc'[k] \in {"gslot", "back"} <=> pc[k] \in {"gslot", "back"}
        /\ \A k \in Loop : pc'[k] = "global" => pc[k] = "global"
    BY <2>1 DEF TypeOK
  <2> QED BY <2>1, <2>2, <2>3, <2>4, <2>5, BucketsKept, SlotsKept
<1> QED BY <1>1, <1>2, <1>3, <1>4

(* A loop that is under way belongs to a proxy that was started; whatever  *)
(* it does next, that stays so.                                            *)
LEMMA LoopMoves ==
  ASSUME TypeOK, StartInv, NEW l \in Loop, pc[l] # "off", NEW x \in LoopLabel,
         pc' = [pc EXCEPT ![l] = x], UNCHANGED starts
  PROVE  StartInv' /\ pc' \in [Loop -> LoopLabel]
BY DEF TypeOK, StartInv

(* allow of the proxy's own bucket.                                        *)
LEMMA LocalAllowStep ==
  ASSUME IInv, NEW l \in Loop, LocalAllow(l)
  PROVE  IInv'
<1> USE DEF IInv
<1> DEFINE q == l[1]
<1>1. q \in Proxy /\ q \in Bucket /\ now[l] \in 1 .. MaxTime /\ pc[l] = "local"
  BY Constants, DNSAssumption DEF TypeOK, NowInv, LocalAllow
<1>2. PICK ok \in BOOLEAN, open \in BOOLEAN :
        /\ Allow(q, now[l], ok, open)
        /\ drawn' = [drawn EXCEPT ![q] = IF open THEN 0 ELSE @]
        /\ pc' = [pc EXCEPT ![l] = IF ok THEN "global" ELSE "read"]
        /\ now' = [now EXCEPT ![l] = IF ok THEN @ ELSE 0]
  BY Zenon DEF LocalAllow
<1>3. UNCHANGED <<clocks, slots, job, owner>>
  BY DEF LocalAllow
<1>4. /\ tokens' \in [Bucket -> Nat] /\ last' \in [Bucket -> 0 .. MaxTime]
      /\ first' \in [Bucket -> 0 .. MaxTime] /\ taken' \in [Bucket -> Nat]
      /\ BucketInv'
      /\ taken'[q] = (IF open THEN 0 ELSE taken[q]) + (IF ok THEN 1 ELSE 0)
      /\ \A c \in Bucket : c # q => taken'[c] = taken[c]
  BY <1>1, <1>2, AllowKeeps
<1>5. /\ drawn' \in [Proxy -> Nat] /\ drawn'[q] = (IF open THEN 0 ELSE drawn[q])
      /\ \A p \in Proxy : p # q => drawn'[p] = drawn[p]
  BY <1>1, <1>2 DEF TypeOK
<1>6. StartInv' /\ pc' \in [Loop -> LoopLabel]
  BY Zenon, <1>1, <1>2, <1>3, LoopMoves DEF clocks, LoopLabel
<1>7. now' \in [Loop -> 0 .. MaxTime] /\ NowInv'
  BY <1>1, <1>2, DNSAssumption DEF TypeOK, NowInv
<1>8. TypeOK'
  BY <1>3, <1>4, <1>5, <1>6, <1>7 DEF TypeOK, clocks, slots
<1>9. SlotsHeld'
  <2>1. \A k \in Loop : pc'[k] \in {"gslot", "back"} <=> pc[k] \in {"gslot", "back"}
    BY <1>1, <1>2 DEF TypeOK
  <2> QED BY <1>3, <2>1, SlotsKept
<1>10. ASSUME NEW p \in Proxy PROVE drawn'[p] + Cardinality(Asking(p)') <= taken'[p] + 1
  <2>1. /\ IsFiniteSet(Asking(p)) /\ Cardinality(Asking(p)) \in Nat
        /\ p = q => Cardinality(Asking(p)) <= 1
    BY <1>1, FiniteLoops
  <2>2. /\ drawn[p] + Cardinality(Asking(p)) <= taken[p] + 1
        /\ drawn[p] \in Nat /\ taken[p] \in Nat
    BY DEF DrawnInv, TypeOK, Bucket
  <2>3. Asking(p)' = IF ok /\ p = q THEN Asking(p) \cup {l} ELSE Asking(p)
    BY <1>1, <1>2 DEF Asking, TypeOK
  <2>4. l \notin Asking(p)
    BY <1>1 DEF Asking
  <2>5. Cardinality(Asking(p) \cup {l}) = Cardinality(Asking(p)) + 1
    BY Zenon, <2>1, <2>4, FS_AddElement
  <2>6. CASE p = q
    <3>1. Cardinality(Asking(p)') = Cardinality(Asking(p)) + (IF ok THEN 1 ELSE 0)
      BY <2>1, <2>3, <2>5, <2>6
    <3> QED BY <3>1, <2>1, <2>2, <2>6, <1>4, <1>5
  <2>7. CASE p # q
    <3>1. Asking(p)' = Asking(p) /\ drawn'[p] = drawn[p] /\ taken'[p] = taken[p]
      BY <2>3, <2>7, <1>4, <1>5 DEF Bucket
    <3> QED BY <3>1, <2>2
  <2> QED BY <2>6, <2>7
<1> QED BY <1>4, <1>6, <1>7, <1>8, <1>9, <1>10 DEF DrawnInv

(* allow of the process's bucket.                                          *)
LEMMA GlobalAllowStep ==
  ASSUME IInv, NEW l \in Loop, GlobalAllow(l)
  PROVE  IInv'
<1> USE DEF IInv
<1> DEFINE q == l[1]
<1>1. /\ q \in Proxy /\ process \in Bucket /\ process \notin Proxy
      /\ now[l] \in 1 .. MaxTime /\ pc[l] = "global"
  BY Constants, DNSAssumption DEF TypeOK, NowInv, GlobalAllow, Bucket
<1>2. PICK ok \in BOOLEAN, open \in BOOLEAN :
        /\ Allow(process, now[l], ok, open)
        /\ pc' = [pc EXCEPT ![l] = IF ok THEN "lslot" ELSE "read"]
        /\ drawn' = [drawn EXCEPT ![q] = IF ok THEN @ + 1 ELSE @]
  BY Zenon DEF GlobalAllow
<1>3. UNCHANGED <<clocks, slots, job, owner>> /\ now' = [now EXCEPT ![l] = 0]
  BY DEF GlobalAllow
<1>4. /\ tokens' \in [Bucket -> Nat] /\ last' \in [Bucket -> 0 .. MaxTime]
      /\ first' \in [Bucket -> 0 .. MaxTime] /\ taken' \in [Bucket -> Nat]
      /\ BucketInv'
      /\ \A c \in Bucket : c # process => taken'[c] = taken[c]
  BY <1>1, <1>2, AllowKeeps
<1>5. drawn' \in [Proxy -> Nat] /\ \A p \in Proxy :
        drawn'[p] = drawn[p] + (IF ok /\ p = q THEN 1 ELSE 0)
  BY <1>1, <1>2 DEF TypeOK
<1>6. StartInv' /\ pc' \in [Loop -> LoopLabel]
  BY Zenon, <1>1, <1>2, <1>3, LoopMoves DEF clocks, LoopLabel
<1>7. now' \in [Loop -> 0 .. MaxTime] /\ NowInv'
  BY <1>1, <1>2, <1>3, DNSAssumption DEF TypeOK, NowInv
<1>8. TypeOK'
  BY <1>3, <1>4, <1>5, <1>6, <1>7 DEF TypeOK, clocks, slots
<1>9. SlotsHeld'
  <2>1. \A k \in Loop : pc'[k] \in {"gslot", "back"} <=> pc[k] \in {"gslot", "back"}
    BY <1>1, <1>2 DEF TypeOK
  <2> QED BY <1>3, <2>1, SlotsKept
<1>10. ASSUME NEW p \in Proxy PROVE drawn'[p] + Cardinality(Asking(p)') <= taken'[p] + 1
  <2>1. IsFiniteSet(Asking(p)) /\ Cardinality(Asking(p)) \in Nat
    BY FiniteLoops
  <2>2. /\ drawn[p] + Cardinality(Asking(p)) <= taken[p] + 1
        /\ drawn[p] \in Nat /\ taken[p] \in Nat /\ taken'[p] = taken[p]
    BY <1>1, <1>4 DEF DrawnInv, TypeOK, Bucket
  <2>3. Asking(p)' = Asking(p) \ {l} /\ (l \in Asking(p) <=> p = q)
    BY <1>1, <1>2 DEF Asking, TypeOK
  <2>4. Cardinality(Asking(p) \ {l}) = Cardinality(Asking(p)) - (IF p = q THEN 1 ELSE 0)
    <3>1. Cardinality(Asking(p) \ {l}) =
            IF l \in Asking(p) THEN Cardinality(Asking(p)) - 1 ELSE Cardinality(Asking(p))
      BY <2>1, FS_RemoveElement, Zenon
    <3> QED BY <2>1, <2>3, <3>1
  <2> QED BY <1>5, <2>1, <2>2, <2>3, <2>4
<1> QED BY <1>4, <1>6, <1>7, <1>8, <1>9, <1>10 DEF DrawnInv

-----------------------------------------------------------------------------
(* What SlotsHeld says of one proxy, with the counts it adds.              *)
LEMMA Counts ==
  ASSUME IInv, NEW p \in Proxy
  PROVE  /\ localWork[p] \in 0 .. LocalLimit /\ globalWork \in 0 .. GlobalLimit
         /\ localWork[p] = Cardinality(JobsOf(p)) + Cardinality(Offering(p))
         /\ globalWork = Cardinality(Working)
         /\ IsFiniteSet(JobsOf(p)) /\ Cardinality(JobsOf(p)) \in Nat
         /\ IsFiniteSet(Offering(p)) /\ Cardinality(Offering(p)) \in Nat
         /\ IsFiniteSet(Working) /\ Cardinality(Working) \in Nat
BY FiniteJobs, FiniteLoops DEF IInv, TypeOK, SlotsHeld

(* The cardinality of a set that gains a member, or loses one.             *)
LEMMA Count ==
  ASSUME NEW S, IsFiniteSet(S), NEW x
  PROVE  /\ x \notin S => Cardinality(S \cup {x}) = Cardinality(S) + 1
         /\ x \in S => Cardinality(S \ {x}) = Cardinality(S) - 1
BY FS_AddElement, FS_RemoveElement, Zenon

(* The send on a proxy's channel of slots.                                 *)
LEMMA LocalSlotStep ==
  ASSUME IInv, NEW l \in Loop, LocalSlot(l)
  PROVE  IInv'
<1> USE DEF IInv
<1> DEFINE q == l[1]
<1>1. q \in Proxy /\ pc[l] = "lslot" /\ UNCHANGED <<clocks, buckets, globalWork, now, job, owner>>
  BY Constants DEF LocalSlot
<1>2. PICK x \in {"gslot", "read"} : pc' = [pc EXCEPT ![l] = x]
  BY DEF LocalSlot
<1>3. StartInv' /\ pc' \in [Loop -> LoopLabel]
  BY Zenon, <1>1, <1>2, LoopMoves DEF clocks, LoopLabel
<1>4. NowInv'
  BY <1>1, <1>2 DEF NowInv, TypeOK
<1>5. BucketInv' /\ DrawnInv'
  BY <1>1, <1>2, BucketsKept DEF TypeOK
<1>6. CASE ~(localWork[q] < LocalLimit)
  <2>1. pc' = [pc EXCEPT ![l] = "read"] /\ UNCHANGED localWork
    BY <1>6 DEF LocalSlot
  <2>2. TypeOK'
    BY <1>1, <1>3, <2>1 DEF TypeOK, clocks, buckets
  <2>3. SlotsHeld'
    BY <1>1, <2>1, SlotsKept DEF TypeOK, slots
  <2> QED BY <1>3, <1>4, <1>5, <2>2, <2>3
<1>7. CASE localWork[q] < LocalLimit
  <2>1. pc' = [pc EXCEPT ![l] = "gslot"] /\ localWork' = [localWork EXCEPT ![q] = @ + 1]
    BY <1>7 DEF LocalSlot
  <2>2. localWork' \in [Proxy -> 0 .. LocalLimit]
    BY <1>1, <1>7, <2>1, DNSAssumption DEF TypeOK
  <2>3. TypeOK'
    BY <1>1, <1>3, <2>2 DEF TypeOK, clocks, buckets
  <2>4. Working' = Working /\ \A p \in Proxy : JobsOf(p)' = JobsOf(p)
    BY <1>1 DEF Working, JobsOf
  <2>5. ASSUME NEW p \in Proxy
        PROVE  localWork'[p] = Cardinality(JobsOf(p)) + Cardinality(Offering(p)')
    <3>1. l \notin Offering(p)
      BY <1>1 DEF Offering
    <3>2. Offering(p)' = IF p = q THEN Offering(p) \cup {l} ELSE Offering(p)
      BY <2>1 DEF Offering, TypeOK
    <3>3. Cardinality(Offering(p) \cup {l}) = Cardinality(Offering(p)) + 1
      BY <3>1, Counts, Count
    <3>4. localWork'[p] = IF p = q THEN localWork[p] + 1 ELSE localWork[p]
      BY <1>1, <2>1 DEF TypeOK
    <3> QED BY <3>2, <3>3, <3>4, Counts
  <2>6. SlotsHeld'
    BY <1>1, <2>2, <2>4, <2>5, DNSAssumption DEF SlotsHeld
  <2> QED BY <1>3, <1>4, <1>5, <2>3, <2>6
<1> QED BY <1>6, <1>7

(* The send on the process's channel, and the goroutine that then holds    *)
(* the two slots in the place of the loop.                                 *)
LEMMA GlobalSlotStep ==
  ASSUME IInv, NEW l \in Loop, GlobalSlot(l)
  PROVE  IInv'
<1> USE DEF IInv
<1> DEFINE q == l[1]
<1>1. /\ q \in Proxy /\ pc[l] = "gslot" /\ globalWork < GlobalLimit /\ globalWork' = globalWork + 1
      /\ pc' = [pc EXCEPT ![l] = "read"] /\ UNCHANGED <<clocks, buckets, localWork, now>>
  BY Constants DEF GlobalSlot
<1>2. PICK j \in Job : /\ job[j] = "idle" /\ job' = [job EXCEPT ![j] = "work"]
                       /\ owner' = [owner EXCEPT ![j] = q]
  BY Zenon DEF GlobalSlot
<1>3. StartInv' /\ pc' \in [Loop -> LoopLabel]
  BY Zenon, <1>1, LoopMoves DEF clocks, LoopLabel
<1>4. NowInv'
  BY <1>1 DEF NowInv, TypeOK
<1>5. BucketInv' /\ DrawnInv'
  BY <1>1, BucketsKept DEF TypeOK
<1>6. globalWork' \in 0 .. GlobalLimit
  BY <1>1, DNSAssumption DEF TypeOK
<1>7. TypeOK'
  BY SMTT(30), <1>1, <1>2, <1>3, <1>6 DEF TypeOK, clocks, buckets, Bucket
<1>8. globalWork' = Cardinality(Working')
  <2>1. Working' = Working \cup {j} /\ j \notin Working
    BY <1>2 DEF Working, TypeOK
  <2> QED BY <1>1, <2>1, Counts, Count
<1>9. ASSUME NEW p \in Proxy
      PROVE  localWork'[p] = Cardinality(JobsOf(p)') + Cardinality(Offering(p)')
  <2>1. CASE p = q
    <3>1. JobsOf(p)' = JobsOf(p) \cup {j} /\ j \notin JobsOf(p)
      BY <1>2, <2>1 DEF JobsOf, TypeOK
    <3>2. Offering(p)' = Offering(p) \ {l} /\ l \in Offering(p)
      BY <1>1, <2>1 DEF Offering, TypeOK
    <3>3. /\ Cardinality(JobsOf(p)') = Cardinality(JobsOf(p)) + 1
          /\ Cardinality(Offering(p)') = Cardinality(Offering(p)) - 1
      BY <3>1, <3>2, Counts, Count
    <3> QED BY <1>1, <3>3, Counts
  <2>2. CASE p # q
    <3>1. JobsOf(p)' = JobsOf(p) /\ Offering(p)' = Offering(p)
      BY <1>1, <1>2, <2>2 DEF JobsOf, Offering, TypeOK
    <3> QED BY SMTT(30), <1>1, <3>1, Counts
  <2> QED BY <2>1, <2>2
<1>10. SlotsHeld'
  BY SMTT(30), <1>1, <1>6, <1>8, <1>9, DNSAssumption DEF SlotsHeld
<1> QED BY <1>3, <1>4, <1>5, <1>7, <1>10

(* The default branch, when the process is full: the loop gives its local  *)
(* slot back.                                                              *)
LEMMA GiveBackStep ==
  ASSUME IInv, NEW l \in Loop, GlobalFull(l) \/ GiveBack(l)
  PROVE  IInv'
<1> USE DEF IInv
<1> DEFINE q == l[1]
<1>1. /\ q \in Proxy /\ pc[l] \in {"gslot", "back"}
      /\ UNCHANGED <<clocks, buckets, globalWork, now, job, owner>>
  BY Constants DEF GlobalFull, GiveBack, slots
<1>2. PICK x \in {"back", "read"} : pc' = [pc EXCEPT ![l] = x]
  BY DEF GlobalFull, GiveBack
<1>3. StartInv' /\ pc' \in [Loop -> LoopLabel]
  BY Zenon, <1>1, <1>2, LoopMoves DEF clocks, LoopLabel
<1>4. NowInv'
  BY <1>1, <1>2 DEF NowInv, TypeOK
<1>5. BucketInv' /\ DrawnInv'
  BY <1>1, <1>2, BucketsKept DEF TypeOK
<1>6. CASE GlobalFull(l)
  <2>1. pc[l] = "gslot" /\ pc' = [pc EXCEPT ![l] = "back"] /\ UNCHANGED slots
    BY <1>6 DEF GlobalFull
  <2>2. TypeOK'
    BY SMTT(30), <1>1, <1>3, <2>1 DEF TypeOK, clocks, buckets, slots
  <2>3. SlotsHeld'
    BY <1>1, <2>1, SlotsKept DEF TypeOK
  <2> QED BY <1>3, <1>4, <1>5, <2>2, <2>3
<1>7. CASE GiveBack(l)
  <2>1. /\ pc' = [pc EXCEPT ![l] = "read"] /\ localWork[q] > 0
        /\ localWork' = [localWork EXCEPT ![q] = @ - 1]
    BY <1>7 DEF GiveBack
  <2>2. localWork' \in [Proxy -> 0 .. LocalLimit]
    BY <1>1, <2>1, DNSAssumption DEF TypeOK
  <2>3. TypeOK'
    BY <1>1, <1>3, <2>2 DEF TypeOK, clocks, buckets
  <2>4. Working' = Working /\ \A p \in Proxy : JobsOf(p)' = JobsOf(p)
    BY <1>1 DEF Working, JobsOf
  <2>5. ASSUME NEW p \in Proxy
        PROVE  localWork'[p] = Cardinality(JobsOf(p)) + Cardinality(Offering(p)')
    <3>1. /\ p = q => Offering(p)' = Offering(p) \ {l} /\ l \in Offering(p)
          /\ p # q => Offering(p)' = Offering(p)
      BY <1>1, <2>1 DEF Offering, TypeOK
    <3>2. p = q => Cardinality(Offering(p)') = Cardinality(Offering(p)) - 1
      BY SMTT(30), <3>1, Counts, Count
    <3>3. localWork'[p] = IF p = q THEN localWork[p] - 1 ELSE localWork[p]
      BY <1>1, <2>1 DEF TypeOK
    <3> QED BY SMTT(30), <3>1, <3>2, <3>3, Counts
  <2>6. SlotsHeld'
    BY SMTT(30), <1>1, <2>2, <2>4, <2>5, DNSAssumption DEF SlotsHeld
  <2> QED BY <1>3, <1>4, <1>5, <2>3, <2>6
<1> QED BY <1>6, <1>7

(* The first receive of a release.                                         *)
LEMMA ReleaseGlobalStep ==
  ASSUME IInv, NEW j \in Job, ReleaseGlobal(j)
  PROVE  IInv'
<1> USE DEF IInv
<1>1. /\ job[j] = "work" /\ globalWork > 0 /\ globalWork' = globalWork - 1
      /\ job' = [job EXCEPT ![j] = "freed"]
      /\ UNCHANGED <<clocks, buckets, localWork, pc, now, owner>>
  BY DEF ReleaseGlobal
<1>2. globalWork' \in 0 .. GlobalLimit
  BY <1>1, DNSAssumption DEF TypeOK
<1>3. TypeOK' /\ NowInv' /\ StartInv'
  BY SMTT(30), <1>1, <1>2 DEF TypeOK, NowInv, StartInv, clocks, buckets
<1>4. BucketInv' /\ DrawnInv'
  BY <1>1, BucketsKept
<1>5. globalWork' = Cardinality(Working')
  <2>1. Working' = Working \ {j} /\ j \in Working
    BY <1>1 DEF Working, TypeOK
  <2>2. IsFiniteSet(Working) /\ Cardinality(Working) \in Nat /\ globalWork = Cardinality(Working)
    BY FiniteJobs DEF SlotsHeld
  <2> QED BY <1>1, <2>1, <2>2, Count
<1>6. \A p \in Proxy : JobsOf(p)' = JobsOf(p) /\ Offering(p)' = Offering(p)
  BY <1>1 DEF JobsOf, Offering, TypeOK
<1>7. SlotsHeld'
  BY <1>1, <1>2, <1>5, <1>6, DNSAssumption DEF SlotsHeld
<1> QED BY <1>3, <1>4, <1>7

(* The second receive of a release, and the end of the goroutine.          *)
LEMMA ReleaseLocalStep ==
  ASSUME IInv, NEW j \in Job, ReleaseLocal(j)
  PROVE  IInv'
<1> USE DEF IInv
<1> DEFINE q == owner[j]
<1>1. /\ job[j] = "freed" /\ localWork[q] > 0
      /\ localWork' = [localWork EXCEPT ![q] = @ - 1]
      /\ job' = [job EXCEPT ![j] = "idle"] /\ owner' = [owner EXCEPT ![j] = process]
      /\ UNCHANGED <<clocks, buckets, globalWork, pc, now>>
  BY DEF ReleaseLocal
<1>2. \A p \in Proxy : localWork'[p] = IF p = q THEN localWork[p] - 1 ELSE localWork[p]
  BY <1>1 DEF TypeOK
<1>3. localWork' \in [Proxy -> 0 .. LocalLimit]
  <2>1. localWork \in [Proxy -> 0 .. LocalLimit] /\ LocalLimit \in Nat
    BY DNSAssumption DEF TypeOK
  <2>2. \A p \in Proxy : localWork'[p] \in 0 .. LocalLimit
    BY <1>1, <1>2, <2>1
  <2>3. localWork' = [p \in Proxy |-> localWork'[p]]
    BY <1>1, <2>1, Zenon
  <2> QED BY <2>2, <2>3
<1>4. TypeOK' /\ NowInv' /\ StartInv'
  BY Zenon, <1>1, <1>3 DEF TypeOK, NowInv, StartInv, clocks, buckets, Bucket
<1>5. BucketInv' /\ DrawnInv'
  BY <1>1, BucketsKept
<1>6. Working' = Working
  BY <1>1 DEF Working, TypeOK
<1>7. ASSUME NEW p \in Proxy
      PROVE  localWork'[p] = Cardinality(JobsOf(p)') + Cardinality(Offering(p)')
  <2>1. Offering(p)' = Offering(p)
    BY <1>1 DEF Offering
  <2>2. CASE p = q
    <3>1. JobsOf(p)' = JobsOf(p) \ {j} /\ j \in JobsOf(p)
      BY <1>1, <2>2 DEF JobsOf, TypeOK
    <3>2. Cardinality(JobsOf(p)') = Cardinality(JobsOf(p)) - 1
      BY <3>1, Counts, Count
    <3> QED BY <1>2, <2>1, <2>2, <3>2, Counts
  <2>3. CASE p # q
    <3>1. p # process
      BY Constants
    <3>2. JobsOf(p)' = JobsOf(p)
      BY <1>1, <2>3, <3>1 DEF JobsOf, TypeOK
    <3> QED BY SMTT(30), <1>2, <2>1, <2>3, <3>2, Counts
  <2> QED BY <2>2, <2>3
<1>8. SlotsHeld'
  BY <1>1, <1>3, <1>6, <1>7, DNSAssumption DEF SlotsHeld
<1> QED BY <1>4, <1>5, <1>8

-----------------------------------------------------------------------------
(* Nothing is taken, held or asked for at first.                           *)
LEMMA InitInv ==
  ASSUME Init PROVE IInv
<1>1. TypeOK
  <2>1. \A b \in Bucket : Burst(b) \in Nat
    BY Constants
  <2>2. process \in Bucket
    BY DEF Bucket
  <2> QED BY <2>1, <2>2, DNSAssumption DEF Init, TypeOK, LoopLabel
<1>2. Working = {} /\ \A p \in Proxy : JobsOf(p) = {} /\ Offering(p) = {} /\ Asking(p) = {}
  BY DEF Init, Working, JobsOf, Offering, Asking
<1>3. Cardinality({}) = 0
  BY FS_EmptySet
<1>4. SlotsHeld
  <2>1. globalWork = 0 /\ \A p \in Proxy : localWork[p] = 0
    BY DEF Init
  <2>2. /\ Cardinality(Working) = 0
        /\ \A p \in Proxy : Cardinality(JobsOf(p)) = 0 /\ Cardinality(Offering(p)) = 0
    BY <1>2, <1>3, Zenon
  <2> QED BY <2>1, <2>2, DNSAssumption DEF SlotsHeld
<1>5. BucketInv
  <2>1. \A b \in Bucket : tokens[b] = Burst(b) /\ last[b] = 0 /\ first[b] = 0 /\ taken[b] = 0
    BY DEF Init
  <2>2. \A b \in Bucket : Burst(b) \in Nat /\ Rate(b) \in Nat /\ Rate(b) * (0 - 0) = 0
    BY Constants
  <2> QED BY SMTT(30), <2>1, <2>2 DEF BucketInv
<1>6. DrawnInv
  BY SMTT(30), <1>2, <1>3 DEF Init, DrawnInv, Bucket
<1>7. NowInv /\ StartInv
  BY DEF Init, NowInv, StartInv
<1> QED BY <1>1, <1>4, <1>5, <1>6, <1>7 DEF IInv

(* IInv is an invariant: the slots counted are those held, the tokens of   *)
(* every bucket are accounted for, and the proxies' own tokens pay for     *)
(* what they ask of the process.                                           *)
THEOREM Invariance == Spec => []IInv
<1>1. Init => IInv
  BY InitInv
<1>2. IInv /\ [Next]_vars => IInv'
  <2> SUFFICES ASSUME IInv, [Next]_vars PROVE IInv'
    OBVIOUS
  <2>1. CASE UNCHANGED vars
    BY SMTT(30), <2>1 DEF IInv, TypeOK, SlotsHeld, BucketInv, DrawnInv, NowInv, StartInv, vars, clocks,
                buckets, slots, Working, JobsOf, Offering, Asking, Burst, Rate
  <2>2. CASE Next
    BY <2>2, QuietStep, LocalAllowStep, GlobalAllowStep, LocalSlotStep, GlobalSlotStep,
       GiveBackStep, ReleaseGlobalStep, ReleaseLocalStep DEF Next, Acquire
  <2> QED BY <2>1, <2>2
<1> QED BY <1>1, <1>2, PTL DEF Spec

(* acquire and the release it returns: every slot taken, of a proxy or of  *)
(* the process, is held by one goroutine, and limits are not exceeded.     *)
THEOREM Slots == Spec => []SlotsHeld
<1>1. IInv => SlotsHeld
  BY DEF IInv
<1> QED BY <1>1, Invariance, PTL

(* allow: in any window of time, what a proxy or the process admits is at  *)
(* most the burst and the rate times the length of the window.             *)
THEOREM Rates == Spec => []RateBound
<1>1. IInv => RateBound
  <2> SUFFICES ASSUME IInv, NEW b \in Bucket
               PROVE  taken[b] <= Burst(b) + Rate(b) * (last[b] - first[b])
    BY DEF RateBound
  <2>1. /\ tokens[b] \in Nat /\ taken[b] \in Nat /\ last[b] \in Nat /\ first[b] \in Nat
        /\ Burst(b) \in Nat /\ Rate(b) \in Nat
    BY Constants, DNSAssumption DEF IInv, TypeOK
  <2>2. tokens[b] + taken[b] <= Burst(b) + Rate(b) * (last[b] - first[b])
    BY SMTT(30) DEF IInv, BucketInv
  <2>3. Rate(b) * (last[b] - first[b]) \in Int
    BY SMTT(30), <2>1
  <2> QED BY <2>1, <2>2, <2>3
<1> QED BY <1>1, Invariance, PTL

(* acquire asks a proxy's own bucket first: in any window of time, what a  *)
(* proxy draws from the tokens of the process is bounded by its own rate.  *)
THEOREM Shares == Spec => []FairShare
<1>1. IInv /\ RateBound => FairShare
  <2> SUFFICES ASSUME IInv, RateBound, NEW p \in Proxy
               PROVE  drawn[p] <= LocalBurst + LocalRate * (last[p] - first[p]) + 1
    BY DEF FairShare
  <2>1. /\ p \in Bucket /\ Burst(p) = LocalBurst /\ Rate(p) = LocalRate
        /\ drawn[p] \in Nat /\ taken[p] \in Nat /\ last[p] \in Nat /\ first[p] \in Nat
        /\ LocalBurst \in Nat /\ LocalRate \in Nat
    BY SMTT(30), Constants, DNSAssumption DEF IInv, TypeOK, Bucket
  <2>2. taken[p] <= LocalBurst + LocalRate * (last[p] - first[p])
    BY <2>1 DEF RateBound
  <2>3. drawn[p] + Cardinality(Asking(p)) <= taken[p] + 1 /\ Cardinality(Asking(p)) \in Nat
    BY SMTT(30), FiniteLoops DEF IInv, DrawnInv
  <2>4. LocalRate * (last[p] - first[p]) \in Int
    BY <2>1
  <2> QED BY <2>1, <2>2, <2>3, <2>4
<1> QED BY <1>1, Invariance, Rates, PTL
=============================================================================
