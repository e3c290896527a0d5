------------------------------ MODULE CaseStore ------------------------------
(***************************************************************************)
(* The case store of internal/recovery/casestore: the commit protocol of   *)
(* one case directory, step by step, as several processes run it over one  *)
(* file system.                                                            *)
(*                                                                         *)
(* Each directory is modelled twice: what a process sees in it             *)
(* (snapshots, blobs, commits) and what a power loss is sure to leave of   *)
(* it (dSnapshots, dBlobs, dCommits).  File contents are synced before     *)
(* every rename in the code, so only directory entries differ between the  *)
(* two.  Bytes, hashes and paths are abstracted: a snapshot is a value of  *)
(* Snap (its id is the hash of its content), a blob a value of Blob, and   *)
(* the commit id, a hash over content and time, a fresh number.            *)
(***************************************************************************)
EXTENDS Naturals, FiniteSets, Sequences

CONSTANTS Proc,       \* processes (or goroutines) that open the store
          NoProc,     \* the case lock is free
          Snap,       \* snapshots that may be committed
          NoSnap,     \* the snapshot of an empty chain
          Blob,       \* artifact blobs
          NoBlob,
          BlobsOf,    \* the blobs each snapshot refers to
          Faults,     \* the faults the environment may inject
          FreshCase,  \* TRUE: the case directory does not exist initially
          MaxId       \* bound: at most MaxId commit records are ever written

ASSUME ProcAssumption == NoProc \notin Proc
ASSUME SnapAssumption == NoSnap \notin Snap
ASSUME BlobAssumption == /\ NoBlob \notin Blob
                         /\ BlobsOf \in [Snap -> SUBSET Blob]
ASSUME FaultAssumption == /\ Faults \subseteq {"crash", "sync", "rot", "power"}
                          /\ FreshCase \in BOOLEAN
                          /\ MaxId \in Nat

VARIABLES
  tree,       \* the case directory: "absent", "visible" or "durable"
  snapshots, dSnapshots,   \* published snapshot directories
  blobs, dBlobs,           \* artifact blobs
  commits, dCommits,       \* final commit records
  damaged,    \* snapshot directories whose files were damaged on disk
  staging,    \* processes whose txn-* staging directory exists
  temps,      \* processes whose temporary file exists
  litter,     \* what dead or failed attempts left behind
  lock,       \* holder of case.lock
  pc,         \* where each process is
  req,        \* the call it is executing
  txn,        \* its in-memory transaction
  view,       \* head id it last loaded or committed (0: none)
  outcome,    \* result of its last call
  nextId,     \* the next commit id
  acked       \* history: commit records some call reported as committed

seen    == <<snapshots, blobs, commits>>
durable == <<dSnapshots, dBlobs, dCommits>>
scratch == <<staging, temps, litter>>
history == <<nextId, acked>>
vars    == <<tree, seen, durable, damaged, scratch, lock, pc, req, txn, view,
             outcome, history>>

Commits == [id : Nat, seq : Nat, parent : Nat, snap : Snap]
Root    == [id |-> 0, seq |-> 0, parent |-> 0, snap |-> NoSnap]

Modes     == {"unspecified", "absent", "commit"}
Request   == [op : {"commit"}, snap : Snap, mode : Modes, expected : Nat]
NoRequest == [op |-> "none", snap |-> NoSnap, mode |-> "unspecified", expected |-> 0]
Cleanup   == [NoRequest EXCEPT !.op = "cleanup"]
Results   == {"none", "ok", "idempotent", "locked", "exists", "conflict",
              "integrity", "failed", "unknown"}

(* base: the head read under the lock; todo: artifacts still to ingest;     *)
(* cur: the artifact being published; mine: id of the published record.     *)
Txn   == [base : Commits \cup {Root}, todo : SUBSET Blob,
          cur : Blob \cup {NoBlob}, mine : Nat]
NoTxn == [base |-> Root, todo |-> {}, cur |-> NoBlob, mine |-> 0]

(* The steps of a call: before the lock, and while the lock is held.        *)
Unlocked == {"idle", "dirs", "dirsync", "lock"}
Syncing  == {"dirsync", "blobsync", "snapsync", "commitsync"}
Writing  == {"stage", "docs", "blobs", "blobtemp", "blobsync", "publish",
             "snapsync", "record", "rename"}
Locked   == Writing \cup {"load", "commitsync", "clean"}

-----------------------------------------------------------------------------
(* Reading the chain.                                                       *)

(* The records of C form the sequence 1, 2, ... with each one's parent the  *)
(* record before it.                                                        *)
ChainValid(C) ==
  /\ \A c, d \in C : c.seq = d.seq => c = d
  /\ \A c \in C : IF c.seq = 1 THEN c.parent = 0
                  ELSE \E d \in C : d.seq + 1 = c.seq /\ d.id = c.parent

(* The snapshot of a commit verifies: directory, documents and blobs.       *)
SnapshotVerifies(s) == s \in snapshots \ damaged /\ BlobsOf[s] \subseteq blobs

CaseLoads == /\ ChainValid(commits)
             /\ \A c \in commits : SnapshotVerifies(c.snap)

(* The head of the chain, Root when there is none.                          *)
Heads(C) == IF C = {} THEN {Root}
            ELSE {c \in C : \A d \in C : d.seq <= c.seq}

(* ParentExpectation.check against the head h.                              *)
Expects(r, h) == /\ r.mode = "absent" => h = Root
                 /\ r.mode = "commit" => h.id = r.expected

-----------------------------------------------------------------------------
Init ==
  /\ tree = IF FreshCase THEN "absent" ELSE "durable"
  /\ snapshots = {} /\ dSnapshots = {}
  /\ blobs = {} /\ dBlobs = {}
  /\ commits = {} /\ dCommits = {}
  /\ damaged = {}
  /\ staging = {} /\ temps = {} /\ litter = {}
  /\ lock = NoProc
  /\ pc = [p \in Proc |-> "idle"]
  /\ req = [p \in Proc |-> NoRequest]
  /\ txn = [p \in Proc |-> NoTxn]
  /\ view = [p \in Proc |-> 0]
  /\ outcome = [p \in Proc |-> "none"]
  /\ nextId = 1
  /\ acked = {}

Goto(p, from, to) == pc[p] = from /\ pc' = [pc EXCEPT ![p] = to]

(* Mutant: the deferred unlock is forgotten.                                *)
ReturnHoldingLock(p, result) ==
  /\ pc' = [pc EXCEPT ![p] = "idle"]
  /\ outcome' = [outcome EXCEPT ![p] = result]
  /\ req' = [req EXCEPT ![p] = NoRequest]
  /\ txn' = [txn EXCEPT ![p] = NoTxn]
  /\ staging' = staging \ {p}
  /\ temps' = temps \ {p}
  /\ litter' = IF p \in staging THEN litter \cup {"txn"} ELSE litter
  /\ UNCHANGED lock

(* The call returns: the deferred unlock runs, and the deferred removal of  *)
(* its temporary file; an unpublished staging directory stays behind.       *)
Return(p, result) ==
  /\ pc' = [pc EXCEPT ![p] = "idle"]
  /\ lock' = IF lock = p THEN NoProc ELSE lock
  /\ outcome' = [outcome EXCEPT ![p] = result]
  /\ req' = [req EXCEPT ![p] = NoRequest]
  /\ txn' = [txn EXCEPT ![p] = NoTxn]
  /\ staging' = staging \ {p}
  /\ temps' = temps \ {p}
  /\ litter' = IF p \in staging THEN litter \cup {"txn"} ELSE litter

-----------------------------------------------------------------------------
(* Entry: the case directories are created before the lock is taken, then   *)
(* the lock is tried once.                                                  *)

(* Calls that may still write a record, so that MaxId bounds the records.   *)
Committing == {p \in Proc : req[p].op = "commit"}

BeginCommit(p) ==
  /\ nextId + Cardinality(Committing) <= MaxId
  /\ Goto(p, "idle", "dirs")
  /\ \E s \in Snap, m \in Modes :
       /\ m = "commit" => view[p] # 0
       /\ req' = [req EXCEPT ![p] = [op |-> "commit", snap |-> s, mode |-> m,
                    expected |-> IF m = "commit" THEN view[p] ELSE 0]]
  /\ outcome' = [outcome EXCEPT ![p] = "none"]
  /\ UNCHANGED <<tree, seen, durable, damaged, scratch, lock, txn, view,
                 history>>

(* Mutant: the cleanup does not take the lock.                              *)
CleanupWithoutLock(p) ==
  /\ Goto(p, "idle", "clean")
  /\ req' = [req EXCEPT ![p] = Cleanup]
  /\ outcome' = [outcome EXCEPT ![p] = "none"]
  /\ UNCHANGED <<tree, seen, durable, damaged, scratch, lock, txn, view,
                 history>>

BeginCleanup(p) ==
  /\ Goto(p, "idle", "dirs")
  /\ req' = [req EXCEPT ![p] = Cleanup]
  /\ outcome' = [outcome EXCEPT ![p] = "none"]
  /\ UNCHANGED <<tree, seen, durable, damaged, scratch, lock, txn, view,
                 history>>

(* A directory that exists is taken as it is; a new one is made ...         *)
EnsureCaseDirs(p) ==
  /\ pc[p] = "dirs"
  /\ IF tree = "absent"
     THEN tree' = "visible" /\ pc' = [pc EXCEPT ![p] = "dirsync"]
     ELSE UNCHANGED tree /\ pc' = [pc EXCEPT ![p] = "lock"]
  /\ UNCHANGED <<seen, durable, damaged, scratch, lock, req, txn, view,
                 outcome, history>>

(* ... and its parent synced by the process that made it.                   *)
SyncCaseDirs(p) ==
  /\ Goto(p, "dirsync", "lock")
  /\ tree' = "durable"
  /\ UNCHANGED <<seen, durable, damaged, scratch, lock, req, txn, view,
                 outcome, history>>

(* Mutants: the lock does not exclude; a cleanup continues as a commit.     *)
AcquireLockShared(p) ==
  /\ Goto(p, "lock", IF req[p].op = "cleanup" THEN "clean" ELSE "load")
  /\ lock' = p
  /\ UNCHANGED <<tree, seen, durable, damaged, scratch, req, txn, view,
                 outcome, history>>

AcquireLockAndLoad(p) ==
  /\ lock = NoProc
  /\ Goto(p, "lock", "load")
  /\ lock' = p
  /\ UNCHANGED <<tree, seen, durable, damaged, scratch, req, txn, view,
                 outcome, history>>

AcquireLock(p) ==
  /\ lock = NoProc
  /\ Goto(p, "lock", IF req[p].op = "cleanup" THEN "clean" ELSE "load")
  /\ lock' = p
  /\ UNCHANGED <<tree, seen, durable, damaged, scratch, req, txn, view,
                 outcome, history>>

LockBusy(p) ==
  /\ pc[p] = "lock"
  /\ lock # NoProc
  /\ Return(p, "locked")
  /\ UNCHANGED <<tree, seen, durable, damaged, view, history>>

-----------------------------------------------------------------------------
(* Under the lock: load and verify the chain, then decide.                  *)

ChainCorrupt(p) ==
  /\ pc[p] = "load"
  /\ ~CaseLoads
  /\ Return(p, "integrity")
  /\ UNCHANGED <<tree, seen, durable, damaged, view, history>>

(* Mutant: a retry is recognised by its parent instead of its content.      *)
RetryByParent(r, h) == /\ r.mode = "commit"
                       /\ h.parent = r.expected /\ h.snap = r.snap

(* The head already is the requested snapshot: success without a write.     *)
IsRetry(r, h) == h # Root /\ r.mode # "absent" /\ h.snap = r.snap

IdempotentRetry(p) ==
  /\ pc[p] = "load"
  /\ CaseLoads
  /\ \E h \in Heads(commits) :
       /\ IsRetry(req[p], h)
       /\ acked' = acked \cup {h}
       /\ view' = [view EXCEPT ![p] = h.id]
  /\ Return(p, "idempotent")
  /\ UNCHANGED <<tree, seen, durable, damaged, nextId>>

ParentRefused(p) ==
  /\ pc[p] = "load"
  /\ CaseLoads
  /\ \E h \in Heads(commits) : ~IsRetry(req[p], h) /\ ~Expects(req[p], h)
  /\ Return(p, IF req[p].mode = "absent" THEN "exists" ELSE "conflict")
  /\ UNCHANGED <<tree, seen, durable, damaged, view, history>>

(* Mutant: the parent expectation is not checked.                           *)
ParentUnchecked(p) ==
  /\ CaseLoads
  /\ Goto(p, "load", "stage")
  /\ \E h \in Heads(commits) :
       ~IsRetry(req[p], h) /\ txn' = [txn EXCEPT ![p].base = h]
  /\ UNCHANGED <<tree, seen, durable, damaged, scratch, lock, req, view,
                 outcome, history>>

ParentAccepted(p) ==
  /\ CaseLoads
  /\ Goto(p, "load", "stage")
  /\ \E h \in Heads(commits) :
       /\ ~IsRetry(req[p], h)
       /\ Expects(req[p], h)
       /\ txn' = [txn EXCEPT ![p].base = h]
  /\ UNCHANGED <<tree, seen, durable, damaged, scratch, lock, req, view,
                 outcome, history>>

-----------------------------------------------------------------------------
(* Staging, artifacts, publication of the snapshot.                         *)

CreateStaging(p) ==
  /\ Goto(p, "stage", "docs")
  /\ staging' = staging \cup {p}
  /\ UNCHANGED <<tree, seen, durable, damaged, temps, litter, lock, req, txn,
                 view, outcome, history>>

WriteDocuments(p) ==
  /\ Goto(p, "docs", "blobs")
  /\ txn' = [txn EXCEPT ![p].todo = BlobsOf[req[p].snap]]
  /\ UNCHANGED <<tree, seen, durable, damaged, scratch, lock, req, view,
                 outcome, history>>

(* A blob that exists and verifies is used as it is: nothing is synced.     *)
ReuseBlob(p) ==
  /\ pc[p] = "blobs"
  /\ \E b \in txn[p].todo \cap blobs : txn' = [txn EXCEPT ![p].todo = @ \ {b}]
  /\ UNCHANGED <<tree, seen, durable, damaged, scratch, lock, pc, req, view,
                 outcome, history>>

WriteBlobTemp(p) ==
  /\ Goto(p, "blobs", "blobtemp")
  /\ \E b \in txn[p].todo \ blobs :
       txn' = [txn EXCEPT ![p].todo = @ \ {b}, ![p].cur = b]
  /\ temps' = temps \cup {p}
  /\ UNCHANGED <<tree, seen, durable, damaged, staging, litter, lock, req,
                 view, outcome, history>>

RenameBlob(p) ==
  /\ Goto(p, "blobtemp", "blobsync")
  /\ p \in temps
  /\ blobs' = blobs \cup {txn[p].cur}
  /\ temps' = temps \ {p}
  /\ UNCHANGED <<tree, snapshots, commits, durable, damaged, staging, litter,
                 lock, req, txn, view, outcome, history>>

(* Each blob has a hash-prefix directory of its own.                        *)
SyncBlob(p) ==
  /\ Goto(p, "blobsync", "blobs")
  /\ dBlobs' = dBlobs \cup {txn[p].cur}
  /\ UNCHANGED <<tree, seen, dSnapshots, dCommits, damaged, scratch, lock, req,
                 txn, view, outcome, history>>

(* Mutant: the manifest does not wait for the artifacts.                    *)
ManifestTooEarly(p) ==
  /\ Goto(p, "blobs", "publish")
  /\ UNCHANGED <<tree, seen, durable, damaged, scratch, lock, req, txn, view,
                 outcome, history>>

WriteManifest(p) ==
  /\ txn[p].todo = {}
  /\ Goto(p, "blobs", "publish")
  /\ UNCHANGED <<tree, seen, durable, damaged, scratch, lock, req, txn, view,
                 outcome, history>>

PublishSnapshot(p) ==
  /\ req[p].snap \notin snapshots
  /\ p \in staging
  /\ Goto(p, "publish", "snapsync")
  /\ snapshots' = snapshots \cup {req[p].snap}
  /\ staging' = staging \ {p}
  /\ UNCHANGED <<tree, blobs, commits, durable, damaged, temps, litter, lock,
                 req, txn, view, outcome, history>>

(* Mutant: the snapshots directory is not synced.                           *)
SkipSnapshotSync(p) ==
  /\ Goto(p, "snapsync", "record")
  /\ UNCHANGED <<tree, seen, durable, damaged, scratch, lock, req, txn, view,
                 outcome, history>>

SyncSnapshots(p) ==
  /\ Goto(p, "snapsync", "record")
  /\ dSnapshots' = snapshots
  /\ UNCHANGED <<tree, seen, dBlobs, dCommits, damaged, scratch, lock, req,
                 txn, view, outcome, history>>

(* The directory is there already, an orphan of an earlier attempt or the   *)
(* snapshot of an earlier commit: verified, reused and not synced.          *)
ReuseSnapshot(p) ==
  /\ req[p].snap \in snapshots
  /\ SnapshotVerifies(req[p].snap)
  /\ Goto(p, "publish", "record")
  /\ staging' = staging \ {p}
  /\ UNCHANGED <<tree, seen, durable, damaged, temps, litter, lock, req, txn,
                 view, outcome, history>>

ReuseRefused(p) ==
  /\ pc[p] = "publish"
  /\ req[p].snap \in snapshots
  /\ ~SnapshotVerifies(req[p].snap)
  /\ Return(p, "integrity")
  /\ UNCHANGED <<tree, seen, durable, damaged, view, history>>

-----------------------------------------------------------------------------
(* The commit record: its rename is the commit point.                       *)

WriteCommitTemp(p) ==
  /\ Goto(p, "record", "rename")
  /\ temps' = temps \cup {p}
  /\ UNCHANGED <<tree, seen, durable, damaged, staging, litter, lock, req, txn,
                 view, outcome, history>>

Record(p) == [id |-> nextId, seq |-> txn[p].base.seq + 1,
              parent |-> txn[p].base.id, snap |-> req[p].snap]

PublishCommit(p) ==
  /\ Goto(p, "rename", "commitsync")
  /\ p \in temps
  /\ commits' = commits \cup {Record(p)}
  /\ temps' = temps \ {p}
  /\ txn' = [txn EXCEPT ![p].mine = nextId]
  /\ nextId' = nextId + 1
  /\ UNCHANGED <<tree, snapshots, blobs, durable, damaged, staging, litter,
                 lock, req, view, outcome, acked>>

(* Mutant: success is reported before the commits directory is synced.      *)
SkipCommitSync(p) ==
  /\ pc[p] = "commitsync"
  /\ acked' = acked \cup {c \in commits : c.id = txn[p].mine}
  /\ view' = [view EXCEPT ![p] = txn[p].mine]
  /\ Return(p, "ok")
  /\ UNCHANGED <<tree, seen, durable, damaged, nextId>>

SyncCommits(p) ==
  /\ pc[p] = "commitsync"
  /\ dCommits' = commits
  /\ acked' = acked \cup {c \in commits : c.id = txn[p].mine}
  /\ view' = [view EXCEPT ![p] = txn[p].mine]
  /\ Return(p, "ok")
  /\ UNCHANGED <<tree, seen, dSnapshots, dBlobs, damaged, nextId>>

-----------------------------------------------------------------------------
(* CleanupStaging and LoadLatest.                                           *)

(* What cannot be removed is reported as a warning.                         *)
RemoveLitter(p) ==
  /\ pc[p] = "clean"
  /\ pc' = [pc EXCEPT ![p] = "idle"]
  /\ lock' = NoProc
  /\ staging' = {} /\ temps' = {}
  /\ litter' \in SUBSET litter
  /\ req' = [req EXCEPT ![p] = NoRequest]
  /\ outcome' = [outcome EXCEPT ![p] = "ok"]
  /\ UNCHANGED <<tree, seen, durable, damaged, txn, view, history>>

(* Read-only and lock-free.  Nothing it reads is ever removed, so reading   *)
(* the directory listing and then the snapshots is one step.                *)
LoadLatest(p) ==
  /\ pc[p] = "idle"
  /\ IF CaseLoads
     THEN /\ \E h \in Heads(commits) : view' = [view EXCEPT ![p] = h.id]
          /\ UNCHANGED outcome
     ELSE /\ outcome' = [outcome EXCEPT ![p] = "integrity"]
          /\ UNCHANGED view
  /\ UNCHANGED <<tree, seen, durable, damaged, scratch, lock, pc, req, txn,
                 history>>

-----------------------------------------------------------------------------
(* Failures.                                                                *)

(* A cancelled context, a failing artifact provider or a failing write: the *)
(* call returns an error before the commit point.                           *)
Abort(p) ==
  /\ pc[p] \in (Writing \ Syncing) \cup {"dirs", "lock", "load", "clean"}
  /\ Return(p, "failed")
  /\ UNCHANGED <<tree, seen, durable, damaged, view, history>>

(* Mutant: the failed sync of a published record is a plain error.          *)
SyncFailsPlainly(p) ==
  /\ "sync" \in Faults
  /\ pc[p] \in Syncing
  /\ Return(p, "failed")
  /\ UNCHANGED <<tree, seen, durable, damaged, view, history>>

(* A directory sync fails: a plain error before the commit point, an        *)
(* unknown outcome after it.                                                *)
SyncFails(p) ==
  /\ "sync" \in Faults
  /\ pc[p] \in Syncing
  /\ Return(p, IF pc[p] = "commitsync" THEN "unknown" ELSE "failed")
  /\ UNCHANGED <<tree, seen, durable, damaged, view, history>>

(* The process dies: the operating system releases its lock, its staging    *)
(* directory and temporary file stay behind.                                *)
Crash(p) ==
  /\ "crash" \in Faults
  /\ pc[p] # "idle"
  /\ pc' = [pc EXCEPT ![p] = "idle"]
  /\ lock' = IF lock = p THEN NoProc ELSE lock
  /\ req' = [req EXCEPT ![p] = NoRequest]
  /\ txn' = [txn EXCEPT ![p] = NoTxn]
  /\ view' = [view EXCEPT ![p] = 0]
  /\ outcome' = [outcome EXCEPT ![p] = "none"]
  /\ staging' = staging \ {p}
  /\ temps' = temps \ {p}
  /\ litter' = litter \cup (IF p \in staging THEN {"txn"} ELSE {})
                      \cup (IF p \in temps THEN {"tmp"} ELSE {})
  /\ UNCHANGED <<tree, seen, durable, damaged, history>>

(* A file of a published snapshot directory is damaged.                     *)
Damage(s) ==
  /\ "rot" \in Faults
  /\ damaged = {}
  /\ s \in snapshots
  /\ damaged' = {s}
  /\ UNCHANGED <<tree, seen, durable, scratch, lock, pc, req, txn, view,
                 outcome, history>>

(* What a power loss may leave of a directory: the durable entries and any  *)
(* of the others.                                                           *)
Survivors(entries, synced) == {synced \cup x : x \in SUBSET (entries \ synced)}

PowerLoss ==
  /\ "power" \in Faults
  /\ \/ /\ tree # "absent"
        /\ tree' = "durable"
        /\ snapshots' \in Survivors(snapshots, dSnapshots)
        /\ blobs' \in Survivors(blobs, dBlobs)
        /\ commits' \in Survivors(commits, dCommits)
        /\ litter' \in {litter, {}}
     \/ /\ tree = "visible"
        /\ tree' = "absent"
        /\ snapshots' = {} /\ blobs' = {} /\ commits' = {} /\ litter' = {}
  /\ dSnapshots' = snapshots' /\ dBlobs' = blobs' /\ dCommits' = commits'
  /\ staging' = {} /\ temps' = {}
  /\ lock' = NoProc
  /\ pc' = [p \in Proc |-> "idle"]
  /\ req' = [p \in Proc |-> NoRequest]
  /\ txn' = [p \in Proc |-> NoTxn]
  /\ view' = [p \in Proc |-> 0]
  /\ outcome' = [p \in Proc |-> "none"]
  /\ UNCHANGED <<damaged, history>>

-----------------------------------------------------------------------------
Step(p) ==
  \/ EnsureCaseDirs(p) \/ SyncCaseDirs(p) \/ AcquireLock(p) \/ LockBusy(p)
  \/ ChainCorrupt(p) \/ IdempotentRetry(p) \/ ParentRefused(p)
  \/ ParentAccepted(p) \/ CreateStaging(p) \/ WriteDocuments(p)
  \/ ReuseBlob(p) \/ WriteBlobTemp(p) \/ RenameBlob(p) \/ SyncBlob(p)
  \/ WriteManifest(p) \/ PublishSnapshot(p) \/ SyncSnapshots(p)
  \/ ReuseSnapshot(p) \/ ReuseRefused(p) \/ WriteCommitTemp(p)
  \/ PublishCommit(p) \/ SyncCommits(p) \/ RemoveLitter(p)

Next ==
  \/ \E p \in Proc : BeginCommit(p) \/ BeginCleanup(p) \/ LoadLatest(p) \/ Step(p)
  \/ \E p \in Proc : Abort(p) \/ SyncFails(p) \/ Crash(p)
  \/ \E s \in Snap : Damage(s)
  \/ PowerLoss

Spec == Init /\ [][Next]_vars

(* A started call keeps running: nothing in it waits for another process.   *)
FairSpec == Spec /\ \A p \in Proc : WF_vars(Step(p))

-----------------------------------------------------------------------------
(* Properties.                                                              *)

(* Every variable has its type.                                             *)
TypeOK ==
  /\ tree \in {"absent", "visible", "durable"}
  /\ snapshots \subseteq Snap /\ dSnapshots \subseteq Snap
  /\ blobs \subseteq Blob /\ dBlobs \subseteq Blob
  /\ commits \subseteq Commits /\ dCommits \subseteq Commits
  /\ damaged \subseteq Snap
  /\ staging \subseteq Proc /\ temps \subseteq Proc
  /\ litter \subseteq {"txn", "tmp"}
  /\ lock \in Proc \cup {NoProc}
  /\ pc \in [Proc -> Unlocked \cup Locked]
  /\ req \in [Proc -> Request \cup {NoRequest, Cleanup}]
  /\ txn \in [Proc -> Txn]
  /\ \A p \in Proc : /\ pc[p] # "idle" => req[p] # NoRequest
                     /\ pc[p] \in Locked \ {"clean"} => req[p] \in Request
                     /\ pc[p] \in {"blobtemp", "blobsync"} => txn[p].cur \in Blob
  /\ view \in [Proc -> Nat]
  /\ outcome \in [Proc -> Results]
  /\ nextId \in Nat \ {0}
  /\ acked \subseteq Commits

(* No interleaving of commits, retries, cleanups and crashed attempts ever  *)
(* leaves a chain that loadCommitChain refuses: no gap, no fork, no record  *)
(* with a foreign parent.                                                   *)
ChainIntact == ChainValid(commits)

(* Every committed record refers to a snapshot directory and blobs that     *)
(* exist: what is committed can be loaded.                                  *)
CommittedComplete == \A c \in commits : /\ c.snap \in snapshots
                                        /\ BlobsOf[c.snap] \subseteq blobs

(* A record is published on the parent its caller expected, although the    *)
(* expectation was checked several steps earlier.                           *)
ExpectationHonoured ==
  [][\A p \in Proc : pc[p] = "rename" /\ pc'[p] = "commitsync" =>
        \E h \in Heads(commits) : Expects(req[p], h)]_vars

(* Repeating a commit, after any error or crash, never appends the same     *)
(* snapshot twice in a row.                                                 *)
NoDuplicateHead == \A c, d \in commits : d.parent = c.id => d.snap # c.snap

(* A call that returns a plain error has committed nothing: only "unknown"   *)
(* leaves the caller in doubt.                                              *)
ErrorMeansNotCommitted ==
  [][\A p \in Proc :
        /\ pc[p] # "idle" /\ pc'[p] = "idle"
        /\ outcome'[p] \in {"locked", "exists", "conflict", "integrity", "failed"}
        => txn[p].mine = 0]_vars

(* A cleanup never takes the staging directory or the temporary file away   *)
(* from a commit that is under way.                                         *)
ScratchSafe ==
  \A p \in Proc : /\ pc[p] \in {"docs", "blobs", "blobtemp", "blobsync", "publish"}
                       => p \in staging
                  /\ pc[p] \in {"blobtemp", "rename"} => p \in temps

(* Whoever holds the case lock gives it back, whichever way its call ends.  *)
LockReleased == \A p \in Proc : lock = p ~> lock # p

(* While no power is lost, the state between two steps of a commit: the     *)
(* lock excludes other writers, what was read under it stays the head, and  *)
(* what the record will refer to is in place before the record is.          *)
LockHeld == \A p \in Proc : pc[p] \in Locked => lock = p

ChainInv ==
  /\ ChainValid(commits)
  /\ \A c \in commits : /\ 0 < c.id /\ c.id < nextId
                        /\ c.parent < nextId
                        /\ 0 < c.seq
  /\ \A c, d \in commits : c.id = d.id => c = d

BaseInv == \A p \in Proc : pc[p] \in Writing =>
              /\ txn[p].base \in Heads(commits)
              /\ Expects(req[p], txn[p].base)
              /\ ~IsRetry(req[p], txn[p].base)

FilesInv == \A p \in Proc :
  /\ pc[p] \in {"blobs", "blobtemp", "blobsync"} =>
       BlobsOf[req[p].snap] \subseteq
          blobs \cup txn[p].todo \cup (IF pc[p] = "blobtemp" THEN {txn[p].cur} ELSE {})
  /\ pc[p] \in {"publish", "snapsync", "record", "rename"} =>
       BlobsOf[req[p].snap] \subseteq blobs
  /\ pc[p] \in {"snapsync", "record", "rename"} => req[p].snap \in snapshots

MineInv == \A p \in Proc : pc[p] # "commitsync" => txn[p].mine = 0

IInv == LockHeld /\ ChainInv /\ BaseInv /\ FilesInv /\ MineInv
        /\ CommittedComplete /\ NoDuplicateHead /\ ScratchSafe

(* What a call reported as committed is still there, power loss or not.     *)
AckedDurable == acked \subseteq commits

(* What the coordinator relies on: the chain in order of sequence is an     *)
(* append-only log, and the acknowledged records are a prefix of it.        *)
LogOf(C) == [i \in 1..Cardinality(C) |-> (CHOOSE c \in C : c.seq = i).snap]
SafeOf(C) == IF C = {} THEN 0 ELSE CHOOSE n \in {c.seq : c \in C} : \A c \in C : c.seq <= n

Log == INSTANCE CaseLog WITH log <- LogOf(commits), safe <- SafeOf(acked)

(* The store keeps the promise of CaseLog: the head is appended to and, as  *)
(* long as nobody was told of it, lost by a power failure; nothing else     *)
(* ever happens to the log.                                                 *)
ImplementsCaseLog == Log!Spec
==============================================================================
