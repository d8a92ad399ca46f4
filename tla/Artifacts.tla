----------------------------- MODULE Artifacts ------------------------------
(***************************************************************************)
(* What sandboxes are made of and who may delete it: the cache of          *)
(* application images (internal/oci/store.go), the cache of bases          *)
(* (internal/base/base.go) and the named volumes, with the requests of     *)
(* internal/daemon that use them: create, pull, load, image-rm, base-rm,   *)
(* volume-create and volume-rm.                                            *)
(*                                                                         *)
(* A cache is a directory of records, one per reference and one per        *)
(* digest, and a directory of blobs, each written beside its name and      *)
(* renamed into place once its digest is verified.  The two caches do the  *)
(* same steps; only the image store has a mutex.  Requests run             *)
(* concurrently, one step per file or database operation; the daemon may   *)
(* stop between any two of them.                                           *)
(*                                                                         *)
(* An artifact stands for its digest and has a set of blobs: the layers of *)
(* an image, the kernel and root filesystem of a base.  What a registry    *)
(* serves for a tag is any artifact, at each pull anew.  What the life of  *)
(* a sandbox does after its creation is the matter of Lifecycle.           *)
(***************************************************************************)
EXTENDS Naturals, FiniteSets

CONSTANTS Worker, Sandbox, Image, Base, Tag, Blob, Volume,
          layers,       \* the blobs of an artifact
          Requests,     \* kinds of requests issued
          MaxCrashes,   \* bound: stops of the daemon
          none

Artifact == Image \cup Base
Key == Tag \cup Artifact
Kind == {"images", "bases"}
Of(k) == IF k = "images" THEN Image ELSE Base

ASSUME ArtifactsAssumption ==
  /\ layers \in [Artifact -> SUBSET Blob] /\ Image \cap Base = {}
  /\ Tag \cap Artifact = {}
  /\ Requests \subseteq {"pull", "base-pull", "create", "start", "rm", "volume"}
  /\ MaxCrashes \in Nat
  /\ none \notin Worker \cup Sandbox \cup Key \cup Volume

VARIABLES
  record, blobs,       \* refs/ and blobs/ of the two caches
  state, image, base, mounts,   \* the sandboxes of the database
  vols, files,         \* the volumes of the database, their files
  alloc, mu, lock,     \* holders of lock("allocations"), oci.Store.mu, lock(id)
  pc, kind, ref, art, rest, used,  \* locals of a request in a cache
  box, img, vol,       \* locals of a create, or of a volume request
  crashes

disk == <<record, blobs>>
boxes == <<state, image, base, mounts>>
volumes == <<vols, files>>
locals == <<kind, ref, art, rest, used, box, img, vol>>
vars == <<disk, boxes, volumes, alloc, mu, lock, pc, locals, crashes>>

Init ==
  /\ record = [k \in Kind |-> [r \in Key |-> none]]
  /\ blobs = [k \in Kind |-> {}]
  /\ state = [s \in Sandbox |-> "none"]
  /\ image = [s \in Sandbox |-> none] /\ base = [s \in Sandbox |-> none]
  /\ mounts = [s \in Sandbox |-> {}]
  /\ vols = {} /\ files = {}
  /\ alloc = none /\ mu = none /\ lock = [s \in Sandbox |-> none]
  /\ pc = [w \in Worker |-> "idle"]
  /\ kind = [w \in Worker |-> "images"]
  /\ ref = [w \in Worker |-> none] /\ art = [w \in Worker |-> none]
  /\ rest = [w \in Worker |-> {}] /\ used = [w \in Worker |-> {}]
  /\ box = [w \in Worker |-> none] /\ img = [w \in Worker |-> none]
  /\ vol = [w \in Worker |-> none]
  /\ crashes = 0

-----------------------------------------------------------------------------
Goto(w, l) == pc' = [pc EXCEPT ![w] = l]

(* The end of a request: its locals go, and the locks it holds.            *)
Return(w) ==
  /\ Goto(w, "idle")
  /\ alloc' = IF alloc = w THEN none ELSE alloc
  /\ mu' = IF mu = w THEN none ELSE mu
  /\ lock' = [s \in Sandbox |-> IF lock[s] = w THEN none ELSE lock[s]]
  /\ kind' = [kind EXCEPT ![w] = "images"]
  /\ ref' = [ref EXCEPT ![w] = none] /\ art' = [art EXCEPT ![w] = none]
  /\ rest' = [rest EXCEPT ![w] = {}] /\ used' = [used EXCEPT ![w] = {}]
  /\ box' = [box EXCEPT ![w] = none] /\ img' = [img EXCEPT ![w] = none]
  /\ vol' = [vol EXCEPT ![w] = none]

(* A request that takes lock("allocations") first waits for it.  What it   *)
(* asks for matters to nobody before it has it.                            *)
Ask(w) ==
  /\ pc[w] = "idle" /\ Requests \cap {"create", "rm", "volume"} # {}
  /\ Goto(w, "lock")
  /\ UNCHANGED <<disk, boxes, volumes, alloc, mu, lock, locals, crashes>>

(* The first of its checks fails, and it returns.                          *)
Refuse(w) ==
  /\ pc[w] = "lock" /\ alloc = none
  /\ Return(w)
  /\ UNCHANGED <<disk, boxes, volumes, crashes>>

(* Get: a record whose blobs are all there with their digests.             *)
Got(k, r) == record[k][r] # none /\ layers[record[k][r]] \subseteq blobs[k]

-----------------------------------------------------------------------------
(* Pull of either store: called for pull and base-pull, for the import of  *)
(* a load, and twice by Create.                                            *)

Pull(w, k, r) ==
  /\ (IF k = "images" THEN "pull" ELSE "base-pull") \in Requests /\ pc[w] = "idle"
  /\ Goto(w, "p_lock")
  /\ kind' = [kind EXCEPT ![w] = k] /\ ref' = [ref EXCEPT ![w] = r]
  /\ UNCHANGED <<disk, boxes, volumes, alloc, mu, lock, art, rest, used, box, img, vol, crashes>>

PullLock(w) ==
  /\ pc[w] = "p_lock"
  /\ IF kind[w] = "images" THEN mu = none /\ mu' = w ELSE UNCHANGED mu
  /\ Goto(w, "p_get")
  /\ UNCHANGED <<disk, boxes, volumes, alloc, lock, locals, crashes>>

(* A Pull returns the artifact a to its caller: the mutex is released, and *)
(* a Create goes on with the base, then with the disks.                    *)
PullReturn(w, a) ==
  \/ /\ box[w] = none
     /\ Return(w)
  \/ /\ box[w] # none
     /\ mu' = IF mu = w THEN none ELSE mu
     /\ rest' = [rest EXCEPT ![w] = {}]
     /\ IF kind[w] = "images"
        THEN /\ Goto(w, "p_lock")
             /\ img' = [img EXCEPT ![w] = a]
             /\ art' = [art EXCEPT ![w] = none]
             /\ kind' = [kind EXCEPT ![w] = "bases"]
             /\ \E t \in Tag : ref' = [ref EXCEPT ![w] = t]
        ELSE /\ Goto(w, "c_carrier")
             /\ art' = [art EXCEPT ![w] = a]
             /\ UNCHANGED <<img, kind, ref>>
     /\ UNCHANGED <<alloc, lock, used, box, vol>>

(* A Pull fails: for a Create, its fail function follows.                  *)
PullFail(w) ==
  /\ pc[w] \in {"p_get", "p_blobs"}
  /\ \/ box[w] = none /\ Return(w)
     \/ /\ box[w] # none
        /\ Goto(w, "c_fail")
        /\ mu' = IF mu = w THEN none ELSE mu
        /\ UNCHANGED <<alloc, lock, locals>>
  /\ UNCHANGED <<disk, boxes, volumes, crashes>>

(* The cached artifact, unless the policy is "always".                     *)
PullCached(w) ==
  /\ pc[w] = "p_get" /\ box[w] # none
  /\ Got(kind[w], ref[w])
  /\ PullReturn(w, record[kind[w]][ref[w]])
  /\ UNCHANGED <<disk, boxes, volumes, crashes>>

PullFetch(w) ==
  /\ pc[w] = "p_get"
  /\ \E a \in Of(kind[w]) : /\ art' = [art EXCEPT ![w] = a]
                            /\ rest' = [rest EXCEPT ![w] = layers[a]]
  /\ Goto(w, "p_blobs")
  /\ UNCHANGED <<disk, boxes, volumes, alloc, mu, lock, kind, ref, used, box, img, vol, crashes>>

(* WriteVerified, or nothing where the image store has the blob already.   *)
PullBlob(w) ==
  /\ pc[w] = "p_blobs"
  /\ \E b \in rest[w] : /\ blobs' = [blobs EXCEPT ![kind[w]] = @ \cup {b}]
                        /\ rest' = [rest EXCEPT ![w] = @ \ {b}]
  /\ UNCHANGED <<record, boxes, volumes, alloc, mu, lock, pc, kind, ref, art, used, box, img,
                 vol, crashes>>

PullDigest(w) ==
  /\ pc[w] = "p_blobs" /\ rest[w] = {}
  /\ record' = [record EXCEPT ![kind[w]][art[w]] = art[w]]
  /\ Goto(w, "p_ref")
  /\ UNCHANGED <<blobs, boxes, volumes, alloc, mu, lock, locals, crashes>>

(* A Pull that waits for the allocations lock to write its reference.      *)
PullRefLocked(w) ==
  /\ pc[w] = "p_ref" /\ alloc \in {none, w}
  /\ record' = [record EXCEPT ![kind[w]][ref[w]] = art[w]]
  /\ PullReturn(w, art[w])
  /\ UNCHANGED <<blobs, boxes, volumes, crashes>>

PullRef(w) ==
  /\ pc[w] = "p_ref"
  /\ record' = [record EXCEPT ![kind[w]][ref[w]] = art[w]]
  /\ PullReturn(w, art[w])
  /\ UNCHANGED <<blobs, boxes, volumes, crashes>>

-----------------------------------------------------------------------------
(* Create: the whole request under lock("allocations").                    *)

Create(w, s, m, t) ==
  /\ "create" \in Requests /\ pc[w] = "lock" /\ alloc = none
  /\ state[s] = "none" /\ m \subseteq vols
  /\ alloc' = w
  /\ state' = [state EXCEPT ![s] = "creating"]
  /\ mounts' = [mounts EXCEPT ![s] = m]
  /\ box' = [box EXCEPT ![w] = s] /\ ref' = [ref EXCEPT ![w] = t]
  /\ Goto(w, "p_lock")
  /\ UNCHANGED <<disk, image, base, volumes, mu, lock, kind, art, rest, used, img, vol, crashes>>

(* Carrier links every layer that Pull returned, and the disks are made.   *)
CreateCarrier(w) ==
  /\ pc[w] = "c_carrier"
  /\ \/ layers[img[w]] \subseteq blobs["images"] /\ Goto(w, "c_update")
     \/ Goto(w, "c_fail")
  /\ UNCHANGED <<disk, boxes, volumes, alloc, mu, lock, locals, crashes>>

CreateUpdate(w) ==
  LET s == box[w] IN
  /\ pc[w] = "c_update"
  /\ IF state[s] # "none"
     THEN /\ state' = [state EXCEPT ![s] = "created"]
          /\ image' = [image EXCEPT ![s] = img[w]]
          /\ base' = [base EXCEPT ![s] = art[w]]
          /\ UNCHANGED mounts
     ELSE UNCHANGED boxes
  /\ Return(w)
  /\ UNCHANGED <<disk, volumes, crashes>>

CreateFail(w) ==
  /\ pc[w] = "c_fail"
  /\ state' = [state EXCEPT ![box[w]] = IF @ = "none" THEN @ ELSE "failed"]
  /\ Return(w)
  /\ UNCHANGED <<disk, image, base, mounts, volumes, crashes>>

(* Start, with its locks only: the rest is the matter of Lifecycle.        *)
Start(w, s) ==
  /\ "start" \in Requests /\ pc[w] = "idle" /\ state[s] # "none"
  /\ Goto(w, "s_lock") /\ box' = [box EXCEPT ![w] = s]
  /\ UNCHANGED <<disk, boxes, volumes, alloc, mu, lock, kind, ref, art, rest, used, img, vol,
                 crashes>>

(* The record is read again under the sandbox's mutex, and its base.       *)
StartLock(w) ==
  LET s == box[w] IN
  /\ pc[w] = "s_lock" /\ lock[s] = none
  /\ \/ /\ state[s] = "created" /\ Got("bases", base[s])
        /\ Goto(w, "s_alloc") /\ lock' = [lock EXCEPT ![s] = w]
        /\ UNCHANGED <<alloc, mu, locals>>
     \/ Return(w)
  /\ UNCHANGED <<disk, boxes, volumes, crashes>>

(* The admission, for which the allocations lock is held.                  *)
StartAdmit(w) ==
  /\ pc[w] = "s_alloc" /\ alloc = none
  /\ Goto(w, "s_vm")
  /\ UNCHANGED <<disk, boxes, volumes, alloc, mu, lock, locals, crashes>>

StartDone(w) ==
  /\ pc[w] = "s_vm"
  /\ Return(w)
  /\ UNCHANGED <<disk, boxes, volumes, crashes>>

(* Remove of a sandbox ends with the deletion of its record, after which   *)
(* s stands for a sandbox yet to be created.                               *)
RemoveSandbox(s) ==
  /\ state[s] \in {"creating", "created", "failed"} /\ lock[s] = none
  /\ state' = [state EXCEPT ![s] = "none"]
  /\ image' = [image EXCEPT ![s] = none] /\ base' = [base EXCEPT ![s] = none]
  /\ mounts' = [mounts EXCEPT ![s] = {}]
  /\ UNCHANGED <<disk, volumes, alloc, mu, lock, pc, locals, crashes>>

-----------------------------------------------------------------------------
(* image-rm and base-rm: the reference check of the handler, then Remove,  *)
(* which reads the record of the reference anew.                           *)

Referenced(a) == \E s \in Sandbox : image[s] = a \/ base[s] = a

(* The check made without lock("allocations").                             *)
RmCheckNoLock(w, k, r) ==
  /\ "rm" \in Requests /\ pc[w] = "lock"
  /\ Got(k, r) /\ ~Referenced(record[k][r])
  /\ kind' = [kind EXCEPT ![w] = k] /\ ref' = [ref EXCEPT ![w] = r]
  /\ Goto(w, "r_lock")
  /\ UNCHANGED <<disk, boxes, volumes, alloc, mu, lock, art, rest, used, box, img, vol, crashes>>

RmCheck(w, k, r) ==
  /\ "rm" \in Requests /\ pc[w] = "lock" /\ alloc = none
  /\ Got(k, r) /\ ~Referenced(record[k][r])
  /\ alloc' = w
  /\ kind' = [kind EXCEPT ![w] = k] /\ ref' = [ref EXCEPT ![w] = r]
  /\ Goto(w, "r_lock")
  /\ UNCHANGED <<disk, boxes, volumes, mu, lock, art, rest, used, box, img, vol, crashes>>

(* Get and ReadDir of Remove.                                              *)
RmOpen(w) ==
  /\ pc[w] = "r_lock"
  /\ kind[w] = "images" => mu = none
  /\ IF Got(kind[w], ref[w])
     THEN /\ mu' = IF kind[w] = "images" THEN w ELSE mu
          /\ art' = [art EXCEPT ![w] = record[kind[w]][ref[w]]]
          /\ rest' = [rest EXCEPT ![w] = {r \in Key : record[kind[w]][r] # none}]
          /\ Goto(w, "r_entries")
          /\ UNCHANGED <<alloc, lock, kind, ref, used, box, img, vol>>
     ELSE Return(w)
  /\ UNCHANGED <<disk, boxes, volumes, crashes>>

(* A Remove that deletes only the reference it was given.                  *)
RmEntryRefOnly(w) ==
  /\ pc[w] = "r_entries" /\ rest[w] # {}
  /\ \E r \in rest[w] :
       LET k == kind[w]
           a == record[k][r]
       IN  /\ a # none
           /\ rest' = [rest EXCEPT ![w] = @ \ {r}]
           /\ IF r = ref[w]
              THEN record' = [record EXCEPT ![k][r] = none] /\ UNCHANGED used
              ELSE UNCHANGED record /\ used' = [used EXCEPT ![w] = @ \cup layers[a]]
  /\ UNCHANGED <<blobs, boxes, volumes, alloc, mu, lock, pc, kind, ref, art, box, img, vol,
                 crashes>>

(* One record of the listing: deleted with the digest's other aliases, or  *)
(* its blobs are in use; a record that is gone ends the request.           *)
RmEntry(w) ==
  /\ pc[w] = "r_entries" /\ rest[w] # {}
  /\ \E r \in rest[w] :
       LET k == kind[w]
           a == record[k][r]
       IN  IF a = none THEN UNCHANGED record /\ Return(w)
           ELSE /\ rest' = [rest EXCEPT ![w] = @ \ {r}]
                /\ IF a = art[w]
                   THEN record' = [record EXCEPT ![k][r] = none] /\ UNCHANGED used
                   ELSE UNCHANGED record /\ used' = [used EXCEPT ![w] = @ \cup layers[a]]
                /\ UNCHANGED <<alloc, mu, lock, pc, kind, ref, art, box, img, vol>>
  /\ UNCHANGED <<blobs, boxes, volumes, crashes>>

(* Every blob deleted, also those that other artifacts use.                *)
RmScannedAll(w) ==
  /\ pc[w] = "r_entries" /\ rest[w] = {}
  /\ rest' = [rest EXCEPT ![w] = layers[art[w]]]
  /\ Goto(w, "r_blobs")
  /\ UNCHANGED <<disk, boxes, volumes, alloc, mu, lock, kind, ref, art, used, box, img, vol,
                 crashes>>

RmScanned(w) ==
  /\ pc[w] = "r_entries" /\ rest[w] = {}
  /\ rest' = [rest EXCEPT ![w] = layers[art[w]] \ used[w]]
  /\ Goto(w, "r_blobs")
  /\ UNCHANGED <<disk, boxes, volumes, alloc, mu, lock, kind, ref, art, used, box, img, vol,
                 crashes>>

RmBlob(w) ==
  /\ pc[w] = "r_blobs"
  /\ \E b \in rest[w] : /\ blobs' = [blobs EXCEPT ![kind[w]] = @ \ {b}]
                        /\ rest' = [rest EXCEPT ![w] = @ \ {b}]
  /\ UNCHANGED <<record, boxes, volumes, alloc, mu, lock, pc, kind, ref, art, used, box, img,
                 vol, crashes>>

RmDone(w) ==
  /\ pc[w] = "r_blobs" /\ rest[w] = {}
  /\ Return(w)
  /\ UNCHANGED <<disk, boxes, volumes, crashes>>

-----------------------------------------------------------------------------
(* volume-create and volume-rm, each under lock("allocations").            *)

(* Disk creates the file exclusively.                                      *)
VolumeCreate(w, v) ==
  /\ "volume" \in Requests /\ pc[w] = "lock" /\ alloc = none /\ v \notin files
  /\ alloc' = w /\ files' = files \cup {v}
  /\ vol' = [vol EXCEPT ![w] = v]
  /\ Goto(w, "v_put")
  /\ UNCHANGED <<disk, boxes, vols, mu, lock, kind, ref, art, rest, used, box, img, crashes>>

(* PutVolume inserts; a volume of that name in the database fails it, and  *)
(* the file is removed again.                                              *)
VolumePut(w) ==
  /\ pc[w] = "v_put"
  /\ IF vol[w] \in vols
     THEN files' = files \ {vol[w]} /\ UNCHANGED vols
     ELSE vols' = vols \cup {vol[w]} /\ UNCHANGED files
  /\ Return(w)
  /\ UNCHANGED <<disk, boxes, crashes>>

(* A volume deleted although a sandbox that is not running mounts it.      *)
VolumeRmUnchecked(w, v) ==
  /\ "volume" \in Requests /\ pc[w] = "lock" /\ alloc = none /\ v \in vols
  /\ alloc' = w /\ files' = files \ {v}
  /\ vol' = [vol EXCEPT ![w] = v]
  /\ Goto(w, "v_delete")
  /\ UNCHANGED <<disk, boxes, vols, mu, lock, kind, ref, art, rest, used, box, img, crashes>>

VolumeRm(w, v) ==
  /\ "volume" \in Requests /\ pc[w] = "lock" /\ alloc = none /\ v \in vols
  /\ \A s \in Sandbox : v \notin mounts[s]
  /\ alloc' = w /\ files' = files \ {v}
  /\ vol' = [vol EXCEPT ![w] = v]
  /\ Goto(w, "v_delete")
  /\ UNCHANGED <<disk, boxes, vols, mu, lock, kind, ref, art, rest, used, box, img, crashes>>

VolumeDelete(w) ==
  /\ pc[w] = "v_delete"
  /\ vols' = vols \ {vol[w]}
  /\ Return(w)
  /\ UNCHANGED <<disk, boxes, files, crashes>>

-----------------------------------------------------------------------------
(* The daemon stops and is started again: Recover fails what was in        *)
(* creation.  Pending files of unfinished writes are of no account.        *)
Crash ==
  /\ crashes < MaxCrashes
  /\ crashes' = crashes + 1
  /\ state' = [s \in Sandbox |-> IF state[s] = "creating" THEN "failed" ELSE state[s]]
  /\ alloc' = none /\ mu' = none /\ lock' = [s \in Sandbox |-> none]
  /\ pc' = [w \in Worker |-> "idle"]
  /\ kind' = [w \in Worker |-> "images"]
  /\ ref' = [w \in Worker |-> none] /\ art' = [w \in Worker |-> none]
  /\ rest' = [w \in Worker |-> {}] /\ used' = [w \in Worker |-> {}]
  /\ box' = [w \in Worker |-> none] /\ img' = [w \in Worker |-> none]
  /\ vol' = [w \in Worker |-> none]
  /\ UNCHANGED <<disk, image, base, mounts, volumes>>

(* The request gets the lock.                                              *)
Allocate(w) ==
  \/ \E s \in Sandbox, m \in SUBSET Volume, t \in Tag : Create(w, s, m, t)
  \/ \E k \in Kind, r \in Key : RmCheck(w, k, r)
  \/ \E v \in Volume : VolumeCreate(w, v) \/ VolumeRm(w, v)

Step(w) ==
  \/ Refuse(w) \/ Allocate(w)
  \/ StartLock(w) \/ StartAdmit(w) \/ StartDone(w)
  \/ PullLock(w) \/ PullFail(w) \/ PullCached(w) \/ PullFetch(w)
  \/ PullBlob(w) \/ PullDigest(w) \/ PullRef(w)
  \/ CreateCarrier(w) \/ CreateUpdate(w) \/ CreateFail(w)
  \/ RmOpen(w) \/ RmEntry(w) \/ RmScanned(w) \/ RmBlob(w) \/ RmDone(w)
  \/ VolumePut(w) \/ VolumeDelete(w)

Request(w) ==
  \/ Ask(w)
  \/ \E k \in Kind, t \in Tag : Pull(w, k, t)
  \/ \E s \in Sandbox : Start(w, s)

Next == \/ \E w \in Worker : Request(w) \/ Step(w)
        \/ \E s \in Sandbox : RemoveSandbox(s)
        \/ Crash

Spec == Init /\ [][Next]_vars

(* A request goes on as long as it is not waiting, and a Go mutex is       *)
(* starvation-free: a waiter that finds it free again and again gets it.   *)
FairSpec == Spec /\ \A w \in Worker : SF_vars(Step(w))

-----------------------------------------------------------------------------
Label == {"idle", "lock", "p_lock", "p_get", "p_blobs", "p_ref", "c_carrier", "c_update",
          "c_fail", "s_lock", "s_alloc", "s_vm", "r_lock", "r_entries", "r_blobs", "v_put",
          "v_delete"}

(* Type invariant.                                                         *)
TypeOK ==
  /\ record \in [Kind -> [Key -> Artifact \cup {none}]]
  /\ blobs \in [Kind -> SUBSET Blob]
  /\ state \in [Sandbox -> {"none", "creating", "created", "failed"}]
  /\ image \in [Sandbox -> Image \cup {none}] /\ base \in [Sandbox -> Base \cup {none}]
  /\ mounts \in [Sandbox -> SUBSET Volume]
  /\ vols \subseteq Volume /\ files \subseteq Volume
  /\ alloc \in Worker \cup {none} /\ mu \in Worker \cup {none}
  /\ lock \in [Sandbox -> Worker \cup {none}]
  /\ pc \in [Worker -> Label] /\ kind \in [Worker -> Kind]
  /\ ref \in [Worker -> Key \cup {none}] /\ art \in [Worker -> Artifact \cup {none}]
  /\ rest \in [Worker -> SUBSET (Blob \cup Key)] /\ used \in [Worker -> SUBSET Blob]
  /\ box \in [Worker -> Sandbox \cup {none}] /\ img \in [Worker -> Image \cup {none}]
  /\ vol \in [Worker -> Volume \cup {none}]
  /\ crashes \in 0 .. MaxCrashes

Intact(k) ==
  \A r \in Key : record[k][r] # none => layers[record[k][r]] \subseteq blobs[k]

(* Every image in the cache has all its layers, at every step of every     *)
(* import and removal and across stops of the daemon: importImage writes   *)
(* records after blobs, Remove deletes them before, and the mutex keeps    *)
(* the two apart.                                                          *)
ImagesIntact == Intact("images")

(* The layers that Pull returned to Create are still there when Carrier    *)
(* links them, although Images.mu was released in between: image-rm waits  *)
(* for the allocations lock that Create holds.                             *)
CarrierLinks ==
  \A w \in Worker :
    pc[w] = "c_carrier" => layers[img[w]] \subseteq blobs["images"]

(* Once image-rm deletes blobs no alias of the digest is left: no import   *)
(* slips in between the listing and the deletions.                         *)
AliasesGone ==
  \A w \in Worker :
    pc[w] = "r_blobs" /\ kind[w] = "images" =>
      \A r \in Key : record["images"][r] # art[w]

(* What Start needs of the base: Bases.Get of the digest in the sandbox's  *)
(* record succeeds as long as the record is there.  Creates and base-rm    *)
(* see to this with the allocations lock alone; a base-pull, which takes   *)
(* no lock, and a stop of the daemon in a base-rm are outside the promise  *)
(* (BasesIntact shows the former).                                         *)
BaseKept ==
  \A s \in Sandbox : base[s] # none => Got("bases", base[s])

(* The notes say that image-rm and base-rm remove the selected digest      *)
(* "after checking sandbox references": no sandbox refers to the artifact  *)
(* whose records and blobs Remove deletes.                                 *)
RmChecked ==
  \A w \in Worker : pc[w] \in {"r_entries", "r_blobs"} => ~Referenced(art[w])

(* The notes say that shared blobs "are retained while other cached images *)
(* reference them": a base in the cache has its kernel and its root.       *)
BasesIntact == Intact("bases")

(* A volume that a sandbox mounts is in the database and has its file, as  *)
(* long as no volume request is cut short by a stop of the daemon.         *)
MountsBacked == \A s \in Sandbox : mounts[s] \subseteq vols \cap files

(* Every request ends.  Create and image-rm take the allocations lock and  *)
(* then Images.mu, a Start its sandbox's mutex and then allocations, a     *)
(* pull Images.mu alone, and each waits for a lock with what it holds; a   *)
(* request that holds one never waits for a request behind it.             *)
RequestsEnd == \A w \in Worker : []<>(pc[w] = "idle")
=============================================================================
