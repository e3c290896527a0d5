--------------------------- MODULE CaseStoreProofs ---------------------------
(* What holds of CaseStore for every set of processes, snapshots and blobs. *)
EXTENDS CaseStore, FiniteSetTheorems, SequenceTheorems, TLAPS

(* The values that stand for "none" have the types they are used at.        *)
LEMMA EmptyTypes ==
  /\ NoTxn \in Txn
  /\ NoRequest \notin Request /\ Cleanup \notin Request /\ Cleanup # NoRequest
  /\ NoRequest.op = "none" /\ Cleanup.op = "cleanup"
  /\ \A r \in Request : r.op = "commit" /\ r.snap \in Snap
  BY DEF Root, NoTxn, Txn, NoRequest, Cleanup, Request

(* The head a process reads is a committed record or Root.                  *)
LEMMA HeadsType ==
  ASSUME NEW C, C \subseteq Commits, NEW h \in Heads(C)
  PROVE  /\ h \in Commits \cup {Root}
         /\ h.id \in Nat /\ h.seq \in Nat
         /\ h = Root <=> C = {}
         /\ C # {} => h \in C
  <1>1. CASE C = {}
    BY <1>1 DEF Heads, Root
  <1>2. CASE C # {}
    <2>1. h \in C /\ h \in Commits
      BY <1>2 DEF Heads
    <2>2. h.snap \in Snap /\ h.id \in Nat /\ h.seq \in Nat
      BY <2>1 DEF Commits
    <2>3. h # Root
      BY <2>2, SnapAssumption DEF Root
    <2>4. QED BY <1>2, <2>1, <2>2, <2>3
  <1>3. QED BY <1>1, <1>2

(* Returning from a call keeps the types of everything it touches.          *)
LEMMA ReturnType ==
  ASSUME TypeOK, NEW p \in Proc, NEW result \in Results, Return(p, result),
         UNCHANGED <<tree, snapshots, blobs, commits, dSnapshots, dBlobs,
                     damaged, nextId>>,
         dCommits' \subseteq Commits, acked' \subseteq Commits,
         view' \in [Proc -> Nat]
  PROVE  TypeOK'
  BY EmptyTypes DEF TypeOK, Return, Unlocked, Locked, Writing

(* Every variable keeps its type, and every call its request, whatever the  *)
(* constants.                                                               *)
THEOREM TypeCorrect == Spec => []TypeOK
<1>1. Init => TypeOK
  <2> SUFFICES ASSUME Init PROVE TypeOK
    OBVIOUS
  <2> QED
    BY EmptyTypes, FaultAssumption
    DEF Init, TypeOK, Unlocked, Locked, Writing, Results
<1>2. TypeOK /\ [Next]_vars => TypeOK'
  <2> SUFFICES ASSUME TypeOK, [Next]_vars PROVE TypeOK'
    OBVIOUS
  <2> USE EmptyTypes DEF seen, durable, scratch, history, Unlocked, Locked, Writing
  <2>1. ASSUME NEW p \in Proc, BeginCommit(p) PROVE TypeOK'
    <3>1. PICK s \in Snap, m \in Modes :
            req' = [req EXCEPT ![p] = [op |-> "commit", snap |-> s, mode |-> m,
                      expected |-> IF m = "commit" THEN view[p] ELSE 0]]
      BY <2>1 DEF BeginCommit
    <3>2. [op |-> "commit", snap |-> s, mode |-> m,
           expected |-> IF m = "commit" THEN view[p] ELSE 0] \in Request
      BY DEF TypeOK, Request
    <3> QED
      BY <2>1, <3>1, <3>2 DEF BeginCommit, TypeOK, Goto, Results
  <2>2. ASSUME NEW p \in Proc, BeginCleanup(p) PROVE TypeOK'
    BY <2>2 DEF BeginCleanup, TypeOK, Goto, Results
  <2>3. ASSUME NEW p \in Proc, EnsureCaseDirs(p) PROVE TypeOK'
    BY <2>3 DEF EnsureCaseDirs, TypeOK
  <2>4. ASSUME NEW p \in Proc, SyncCaseDirs(p) PROVE TypeOK'
    BY <2>4 DEF SyncCaseDirs, TypeOK, Goto
  <2>5. ASSUME NEW p \in Proc, AcquireLock(p) PROVE TypeOK'
    BY <2>5 DEF AcquireLock, TypeOK, Goto
  <2>6. ASSUME NEW p \in Proc, LockBusy(p) PROVE TypeOK'
    BY <2>6, ReturnType DEF LockBusy, TypeOK, Results
  <2>7. ASSUME NEW p \in Proc, ChainCorrupt(p) PROVE TypeOK'
    BY <2>7, ReturnType DEF ChainCorrupt, TypeOK, Results
  <2>8. ASSUME NEW p \in Proc, IdempotentRetry(p) PROVE TypeOK'
    <3>1. PICK h \in Heads(commits) : /\ IsRetry(req[p], h)
                                      /\ acked' = acked \cup {h}
                                      /\ view' = [view EXCEPT ![p] = h.id]
      BY <2>8 DEF IdempotentRetry
    <3>2. h \in commits /\ h.id \in Nat
      BY <3>1, HeadsType DEF TypeOK, IsRetry
    <3>3. acked' \subseteq Commits /\ view' \in [Proc -> Nat]
      BY <3>1, <3>2 DEF TypeOK
    <3>4. QED
      BY <2>8, <3>3, ReturnType DEF IdempotentRetry, TypeOK, Results
  <2>9. ASSUME NEW p \in Proc, ParentRefused(p) PROVE TypeOK'
    <3>1. PICK result \in {"exists", "conflict"} : Return(p, result)
      BY <2>9 DEF ParentRefused
    <3> QED
      BY <2>9, <3>1, ReturnType DEF ParentRefused, TypeOK, Results
  <2>10. ASSUME NEW p \in Proc, ParentAccepted(p) PROVE TypeOK'
    <3>1. PICK h \in Heads(commits) : txn' = [txn EXCEPT ![p].base = h]
      BY <2>10 DEF ParentAccepted
    <3>a. h \in Commits \cup {Root}
      BY HeadsType DEF TypeOK
    <3>2. txn' \in [Proc -> Txn]
      BY <3>1, <3>a DEF TypeOK, Txn
    <3>3. pc[p] = "load" /\ pc' = [pc EXCEPT ![p] = "stage"]
      BY <2>10 DEF ParentAccepted, Goto
    <3>4. \A q \in Proc : txn'[q].cur = txn[q].cur
      BY <3>1 DEF TypeOK, Txn
    <3> QED
      BY <2>10, <3>2, <3>3, <3>4 DEF ParentAccepted, TypeOK
  <2>11. ASSUME NEW p \in Proc, CreateStaging(p) PROVE TypeOK'
    BY <2>11 DEF CreateStaging, TypeOK, Goto
  <2>12. ASSUME NEW p \in Proc, WriteDocuments(p) PROVE TypeOK'
    <3>1. req[p].snap \in Snap
      BY <2>12 DEF WriteDocuments, Goto, TypeOK
    <3>2. txn' \in [Proc -> Txn] /\ \A q \in Proc : txn'[q].cur = txn[q].cur
      BY <2>12, <3>1, BlobAssumption DEF WriteDocuments, TypeOK, Txn
    <3> QED
      BY <2>12, <3>2 DEF WriteDocuments, TypeOK, Goto
  <2>13. ASSUME NEW p \in Proc, ReuseBlob(p) PROVE TypeOK'
    <3>1. PICK b \in blobs : txn' = [txn EXCEPT ![p].todo = @ \ {b}]
      BY <2>13 DEF ReuseBlob
    <3>2. txn' \in [Proc -> Txn] /\ \A q \in Proc : txn'[q].cur = txn[q].cur
      BY <3>1 DEF TypeOK, Txn
    <3> QED
      BY <2>13, <3>2 DEF ReuseBlob, TypeOK
  <2>14. ASSUME NEW p \in Proc, WriteBlobTemp(p) PROVE TypeOK'
    <3>1. PICK b \in txn[p].todo \ blobs :
            txn' = [txn EXCEPT ![p].todo = @ \ {b}, ![p].cur = b]
      BY <2>14 DEF WriteBlobTemp
    <3>2. b \in Blob
      BY <3>1 DEF TypeOK, Txn
    <3>3. /\ txn' \in [Proc -> Txn]
          /\ \A q \in Proc : txn'[q].cur = IF q = p THEN b ELSE txn[q].cur
      BY <3>1, <3>2 DEF TypeOK, Txn
    <3> QED
      BY <2>14, <3>2, <3>3 DEF WriteBlobTemp, TypeOK, Goto
  <2>15. ASSUME NEW p \in Proc, RenameBlob(p) PROVE TypeOK'
    BY <2>15 DEF RenameBlob, TypeOK, Goto
  <2>16. ASSUME NEW p \in Proc, SyncBlob(p) PROVE TypeOK'
    BY <2>16 DEF SyncBlob, TypeOK, Goto
  <2>17. ASSUME NEW p \in Proc, WriteManifest(p) PROVE TypeOK'
    BY <2>17 DEF WriteManifest, TypeOK, Goto
  <2>18. ASSUME NEW p \in Proc, PublishSnapshot(p) PROVE TypeOK'
    BY <2>18 DEF PublishSnapshot, TypeOK, Goto
  <2>19. ASSUME NEW p \in Proc, SyncSnapshots(p) PROVE TypeOK'
    BY <2>19 DEF SyncSnapshots, TypeOK, Goto
  <2>20. ASSUME NEW p \in Proc, ReuseSnapshot(p) PROVE TypeOK'
    BY <2>20 DEF ReuseSnapshot, TypeOK, Goto
  <2>21. ASSUME NEW p \in Proc, ReuseRefused(p) PROVE TypeOK'
    BY <2>21, ReturnType DEF ReuseRefused, TypeOK, Results
  <2>22. ASSUME NEW p \in Proc, WriteCommitTemp(p) PROVE TypeOK'
    BY <2>22 DEF WriteCommitTemp, TypeOK, Goto
  <2>23. ASSUME NEW p \in Proc, PublishCommit(p) PROVE TypeOK'
    <3>1. /\ txn[p].base \in Commits \cup {Root} /\ req[p].snap \in Snap
      BY <2>23 DEF PublishCommit, Goto, TypeOK, Txn
    <3>2. txn[p].base.id \in Nat /\ txn[p].base.seq \in Nat
      BY <3>1 DEF Commits, Root
    <3>3. Record(p) \in Commits
      BY <3>1, <3>2 DEF Record, Commits, TypeOK
    <3>4. txn' \in [Proc -> Txn] /\ \A q \in Proc : txn'[q].cur = txn[q].cur
      BY <2>23 DEF PublishCommit, TypeOK, Txn
    <3> QED
      BY <2>23, <3>3, <3>4 DEF PublishCommit, TypeOK, Goto
  <2>24. ASSUME NEW p \in Proc, SyncCommits(p) PROVE TypeOK'
    <3>1. acked' \subseteq Commits /\ dCommits' \subseteq Commits
      BY <2>24 DEF SyncCommits, TypeOK
    <3>2. view' \in [Proc -> Nat]
      BY <2>24 DEF SyncCommits, TypeOK, Txn
    <3> QED
      BY <2>24, <3>1, <3>2, ReturnType DEF SyncCommits, TypeOK, Results
  <2>25. ASSUME NEW p \in Proc, RemoveLitter(p) PROVE TypeOK'
    BY <2>25 DEF RemoveLitter, TypeOK, Results
  <2>26. ASSUME NEW p \in Proc, LoadLatest(p) PROVE TypeOK'
    <3>1. view' \in [Proc -> Nat] /\ outcome' \in [Proc -> Results]
      BY <2>26, HeadsType DEF LoadLatest, TypeOK, Results
    <3> QED
      BY <2>26, <3>1 DEF LoadLatest, TypeOK
  <2>27. ASSUME NEW p \in Proc, Abort(p) PROVE TypeOK'
    BY <2>27, ReturnType DEF Abort, TypeOK, Results
  <2>28. ASSUME NEW p \in Proc, SyncFails(p) PROVE TypeOK'
    <3>1. PICK result \in {"unknown", "failed"} : Return(p, result)
      BY <2>28 DEF SyncFails
    <3> QED
      BY <2>28, <3>1, ReturnType DEF SyncFails, TypeOK, Results
  <2>29. ASSUME NEW p \in Proc, Crash(p) PROVE TypeOK'
    BY <2>29 DEF Crash, TypeOK, Results
  <2>30. ASSUME NEW s \in Snap, Damage(s) PROVE TypeOK'
    BY <2>30 DEF Damage, TypeOK
  <2>31. CASE PowerLoss
    BY <2>31 DEF PowerLoss, Survivors, TypeOK, Results
  <2>32. CASE UNCHANGED vars
    BY <2>32 DEF vars, TypeOK
  <2>33. QED
    BY <2>1, <2>2, <2>3, <2>4, <2>5, <2>6, <2>7, <2>8, <2>9, <2>10, <2>11,
       <2>12, <2>13, <2>14, <2>15, <2>16, <2>17, <2>18, <2>19, <2>20, <2>21,
       <2>22, <2>23, <2>24, <2>25, <2>26, <2>27, <2>28, <2>29, <2>30, <2>31,
       <2>32
    DEF Next, Step
<1>3. QED BY <1>1, <1>2, PTL DEF Spec

-----------------------------------------------------------------------------
(* The inductive invariant IInv of CaseStore.  Without power loss nothing a *)
(* commit relies on disappears; the lock keeps the head it read the head.   *)

(* Returning from a call keeps IInv: only the returning process leaves the  *)
(* locked region, and what it did not publish nobody refers to.             *)
LEMMA ReturnKeeps ==
  ASSUME TypeOK, IInv, NEW p \in Proc, NEW result, Return(p, result),
         UNCHANGED <<snapshots, blobs, commits, nextId>>
  PROVE  IInv'
  <1> USE DEF Locked, Writing
  <1>1. /\ pc'[p] = "idle" /\ txn'[p] = NoTxn
        /\ \A q \in Proc : q # p => /\ pc'[q] = pc[q] /\ txn'[q] = txn[q]
                                    /\ req'[q] = req[q]
                                    /\ q \in staging => q \in staging'
                                    /\ q \in temps => q \in temps'
    BY DEF Return, TypeOK
  <1>2. LockHeld'
    BY <1>1 DEF Return, IInv, LockHeld, TypeOK
  <1>3. ChainInv' /\ NoDuplicateHead' /\ CommittedComplete'
    BY DEF IInv, ChainInv, NoDuplicateHead, CommittedComplete
  <1>4. BaseInv'
    BY <1>1 DEF IInv, BaseInv
  <1>5. FilesInv'
    BY <1>1 DEF IInv, FilesInv
  <1>6. MineInv'
    BY <1>1 DEF IInv, MineInv, NoTxn
  <1>7. ScratchSafe'
    BY <1>1 DEF IInv, ScratchSafe
  <1> QED BY <1>2, <1>3, <1>4, <1>5, <1>6, <1>7 DEF IInv

(* The new record extends a valid chain to a valid chain whose head it is.  *)
LEMMA AppendKeepsChain ==
  ASSUME NEW C, C \subseteq Commits, NEW n \in Nat, 0 < n,
         ChainValid(C), NEW h \in Heads(C),
         \A c \in C : 0 < c.id /\ c.id < n /\ c.parent < n /\ 0 < c.seq,
         \A c, d \in C : c.id = d.id => c = d,
         \A c, d \in C : d.parent = c.id => d.snap # c.snap,
         NEW s \in Snap, s # h.snap,
         NEW r, r = [id |-> n, seq |-> h.seq + 1, parent |-> h.id, snap |-> s]
  PROVE  /\ ChainValid(C \cup {r})
         /\ \A c \in C \cup {r} : 0 < c.id /\ c.id < n + 1 /\ c.parent < n + 1 /\ 0 < c.seq
         /\ \A c, d \in C \cup {r} : c.id = d.id => c = d
         /\ \A c, d \in C \cup {r} : d.parent = c.id => d.snap # c.snap
  <1>1. \A c \in C : /\ c.id \in Nat /\ c.seq \in Nat /\ c.parent \in Nat
    BY DEF Commits
  <1>2. h.id \in Nat /\ h.seq \in Nat /\ (h = Root <=> C = {}) /\ (C # {} => h \in C)
    BY HeadsType
  <1>3. /\ r.id = n /\ r.seq = h.seq + 1 /\ r.parent = h.id /\ r.snap = s
    OBVIOUS
  <1>4. \A d \in C : d.seq <= h.seq
    BY DEF Heads
  <1>5. C # {} => h.seq > 0 /\ h.id > 0
    BY <1>1, <1>2
  <1>6. C = {} => h.seq = 0 /\ h.id = 0
    BY <1>2 DEF Root
  <1>7. h.id < n
    BY <1>2, <1>6
  <1>8. ChainValid(C \cup {r})
    <2>1. \A c, d \in C \cup {r} : c.seq = d.seq => c = d
      BY <1>1, <1>2, <1>3, <1>4 DEF ChainValid
    <2>2. \A c \in C : IF c.seq = 1 THEN c.parent = 0
                       ELSE \E d \in C \cup {r} : d.seq + 1 = c.seq /\ d.id = c.parent
      BY DEF ChainValid
    <2>3. IF r.seq = 1 THEN r.parent = 0
          ELSE \E d \in C \cup {r} : d.seq + 1 = r.seq /\ d.id = r.parent
      BY <1>2, <1>3, <1>5, <1>6
    <2> QED BY <2>1, <2>2, <2>3 DEF ChainValid
  <1>9. \A c \in C \cup {r} : 0 < c.id /\ c.id < n + 1 /\ c.parent < n + 1 /\ 0 < c.seq
    BY <1>1, <1>2, <1>3, <1>7
  <1>10. \A c, d \in C \cup {r} : c.id = d.id => c = d
    BY <1>1, <1>3
  <1>11. \A c, d \in C \cup {r} : d.parent = c.id => d.snap # c.snap
    <2>1. \A c \in C : r.parent = c.id => c = h
      BY <1>2, <1>3, <1>6
    <2>2. \A d \in C : d.parent # r.id
      BY <1>1, <1>3
    <2>3. r.parent # r.id
      BY <1>2, <1>3, <1>7
    <2> QED BY <1>3, <2>1, <2>2, <2>3
  <1> QED BY <1>8, <1>9, <1>10, <1>11

(* Steps that only move a process along, or add files, keep what concerns   *)
(* the committed chain.                                                     *)
LEMMA ChainFrame ==
  ASSUME IInv, UNCHANGED <<commits, nextId>>,
         snapshots \subseteq snapshots', blobs \subseteq blobs'
  PROVE  ChainInv' /\ NoDuplicateHead' /\ CommittedComplete'
  BY DEF IInv, ChainInv, NoDuplicateHead, CommittedComplete

(* Publication of the commit record keeps IInv.                             *)
LEMMA PublishKeeps ==
  ASSUME TypeOK, IInv, NEW p \in Proc, PublishCommit(p)
  PROVE  IInv'
  <1> USE DEF Locked, Writing
  <1>1. /\ pc[p] = "rename" /\ pc' = [pc EXCEPT ![p] = "commitsync"]
        /\ commits' = commits \cup {Record(p)} /\ nextId' = nextId + 1
        /\ txn' = [txn EXCEPT ![p].mine = nextId] /\ temps' = temps \ {p}
        /\ UNCHANGED <<snapshots, blobs, staging, lock, req>>
    BY DEF PublishCommit, Goto
  <1>2. lock = p
    BY <1>1 DEF IInv, LockHeld
  <1>3. \A q \in Proc : q # p => pc[q] \notin Locked
    BY <1>2 DEF IInv, LockHeld
  <1>4. \A q \in Proc : q # p => pc'[q] = pc[q] /\ txn'[q] = txn[q]
    BY <1>1 DEF TypeOK
  <1>5. pc'[p] = "commitsync"
    BY <1>1 DEF TypeOK
  <1>6. /\ txn[p].base \in Heads(commits) /\ Expects(req[p], txn[p].base)
        /\ ~IsRetry(req[p], txn[p].base)
    BY <1>1 DEF IInv, BaseInv
  <1>7. req[p] \in Request /\ req[p].snap \in Snap
    BY <1>1, EmptyTypes DEF TypeOK
  <1>8. req[p].snap # txn[p].base.snap
    <2>1. CASE txn[p].base = Root
      BY <2>1, <1>7, SnapAssumption DEF Root
    <2>2. CASE txn[p].base # Root
      BY <2>2, <1>6 DEF IsRetry, Expects
    <2> QED BY <2>1, <2>2
  <1>9. ChainInv' /\ NoDuplicateHead'
    <2>1. Record(p) = [id |-> nextId, seq |-> txn[p].base.seq + 1,
                       parent |-> txn[p].base.id, snap |-> req[p].snap]
      BY DEF Record
    <2>2. commits \subseteq Commits /\ nextId \in Nat /\ 0 < nextId
      BY DEF TypeOK
    <2>3. /\ ChainValid(commits)
          /\ \A c \in commits : 0 < c.id /\ c.id < nextId /\ c.parent < nextId /\ 0 < c.seq
          /\ \A c, d \in commits : c.id = d.id => c = d
          /\ \A c, d \in commits : d.parent = c.id => d.snap # c.snap
      BY DEF IInv, ChainInv, NoDuplicateHead
    <2> DEFINE h == txn[p].base
               s == req[p].snap
    <2>4. h \in Heads(commits) /\ s \in Snap /\ s # h.snap
          /\ Record(p) = [id |-> nextId, seq |-> h.seq + 1, parent |-> h.id, snap |-> s]
      BY <1>6, <1>7, <1>8, <2>1
    <2> HIDE DEF Locked, Writing, h, s
    <2>5. /\ ChainValid(commits \cup {Record(p)})
          /\ \A c \in commits \cup {Record(p)} :
               0 < c.id /\ c.id < nextId + 1 /\ c.parent < nextId + 1 /\ 0 < c.seq
          /\ \A c, d \in commits \cup {Record(p)} : c.id = d.id => c = d
          /\ \A c, d \in commits \cup {Record(p)} : d.parent = c.id => d.snap # c.snap
      BY <2>2, <2>3, <2>4, AppendKeepsChain
    <2> QED BY <2>5, <1>1 DEF ChainInv, NoDuplicateHead
  <1>10. CommittedComplete'
    <2>1. Record(p).snap \in snapshots /\ BlobsOf[Record(p).snap] \subseteq blobs
      BY <1>1 DEF IInv, FilesInv, Record
    <2> QED BY <1>1, <2>1 DEF IInv, CommittedComplete
  <1>11. LockHeld' /\ BaseInv' /\ FilesInv' /\ MineInv'
    BY <1>1, <1>2, <1>3, <1>4, <1>5 DEF IInv, LockHeld, BaseInv, FilesInv, MineInv
  <1>12. ScratchSafe'
    <2>1. \A q \in Proc : q # p => pc'[q] \in Unlocked
      BY <1>3, <1>4 DEF TypeOK
    <2>2. \A q \in Proc : /\ pc'[q] \notin {"docs", "blobs", "blobtemp", "blobsync", "publish"}
                          /\ pc'[q] \notin {"blobtemp", "rename"}
      BY <2>1, <1>5 DEF Unlocked
    <2> QED BY <2>2 DEF ScratchSafe
  <1> QED BY <1>9, <1>10, <1>11, <1>12 DEF IInv

(* A step keeps IInv, unless the power fails.                               *)
LEMMA StepKeeps ==
  ASSUME TypeOK, IInv, [Next]_vars, ~PowerLoss
  PROVE  IInv'
<1> USE EmptyTypes DEF seen, durable, scratch, history, Locked, Writing
<1> DEFINE Invs == /\ LockHeld /\ BaseInv /\ FilesInv
                   /\ MineInv /\ ScratchSafe
<1>a. /\ UNCHANGED <<commits, nextId>> /\ snapshots \subseteq snapshots'
      /\ blobs \subseteq blobs' /\ Invs'
      => IInv'
  BY ChainFrame DEF IInv
<1> HIDE DEF Invs
<1>1. ASSUME NEW p \in Proc, BeginCommit(p) PROVE IInv'
  <2>1. Invs'
    BY <1>1 DEF BeginCommit, Goto, TypeOK, IInv, Invs, LockHeld, BaseInv, FilesInv,
                MineInv, ScratchSafe
  <2> QED BY <1>1, <1>a, <2>1 DEF BeginCommit
<1>2. ASSUME NEW p \in Proc, BeginCleanup(p) PROVE IInv'
  <2>1. Invs'
    BY <1>2 DEF BeginCleanup, Goto, TypeOK, IInv, Invs, LockHeld, BaseInv, FilesInv,
                MineInv, ScratchSafe
  <2> QED BY <1>2, <1>a, <2>1 DEF BeginCleanup
<1>3. ASSUME NEW p \in Proc, EnsureCaseDirs(p) PROVE IInv'
  <2>1. Invs'
    BY <1>3 DEF EnsureCaseDirs, TypeOK, IInv, Invs, LockHeld, BaseInv, FilesInv,
                MineInv, ScratchSafe
  <2> QED BY <1>3, <1>a, <2>1 DEF EnsureCaseDirs
<1>4. ASSUME NEW p \in Proc, SyncCaseDirs(p) PROVE IInv'
  <2>1. Invs'
    BY <1>4 DEF SyncCaseDirs, Goto, TypeOK, IInv, Invs, LockHeld, BaseInv, FilesInv,
                MineInv, ScratchSafe
  <2> QED BY <1>4, <1>a, <2>1 DEF SyncCaseDirs
<1>5. ASSUME NEW p \in Proc, AcquireLock(p) PROVE IInv'
  <2>1. \A q \in Proc : pc[q] \notin Locked
    BY <1>5, ProcAssumption DEF AcquireLock, IInv, LockHeld
  <2>2. Invs'
    BY <1>5, <2>1 DEF AcquireLock, Goto, TypeOK, IInv, Invs, LockHeld, BaseInv, FilesInv,
                MineInv, ScratchSafe
  <2> QED BY <1>5, <1>a, <2>2 DEF AcquireLock
<1>6. ASSUME NEW p \in Proc, LockBusy(p) PROVE IInv'
  BY <1>6, ReturnKeeps DEF LockBusy
<1>7. ASSUME NEW p \in Proc, ChainCorrupt(p) PROVE IInv'
  BY <1>7, ReturnKeeps DEF ChainCorrupt
<1>8. ASSUME NEW p \in Proc, IdempotentRetry(p) PROVE IInv'
  BY <1>8, ReturnKeeps DEF IdempotentRetry
<1>9. ASSUME NEW p \in Proc, ParentRefused(p) PROVE IInv'
  BY <1>9, ReturnKeeps DEF ParentRefused
<1>10. ASSUME NEW p \in Proc, ParentAccepted(p) PROVE IInv'
  <2>1. PICK h \in Heads(commits) : /\ ~IsRetry(req[p], h)
                                    /\ Expects(req[p], h)
                                    /\ txn' = [txn EXCEPT ![p].base = h]
    BY <1>10 DEF ParentAccepted
  <2>2. /\ txn'[p].base = h /\ txn'[p].mine = txn[p].mine
        /\ \A q \in Proc : q # p => txn'[q] = txn[q]
    BY <2>1 DEF TypeOK, Txn
  <2>3. /\ pc[p] = "load" /\ pc'[p] = "stage"
        /\ \A q \in Proc : q # p => pc'[q] = pc[q]
    BY <1>10 DEF ParentAccepted, Goto, TypeOK
  <2>4. UNCHANGED <<commits, nextId, snapshots, blobs, lock, req, staging, temps>>
    BY <1>10 DEF ParentAccepted
  <2>5. LockHeld' /\ FilesInv' /\ MineInv' /\ ScratchSafe'
    BY <2>2, <2>3, <2>4 DEF IInv, LockHeld, FilesInv, MineInv, ScratchSafe
  <2>6. BaseInv'
    BY <2>1, <2>2, <2>3, <2>4 DEF IInv, BaseInv
  <2> QED BY <1>a, <2>4, <2>5, <2>6 DEF Invs
<1>11. ASSUME NEW p \in Proc, CreateStaging(p) PROVE IInv'
  <2>1. Invs'
    BY <1>11 DEF CreateStaging, Goto, TypeOK, IInv, Invs, LockHeld, BaseInv, FilesInv,
                 MineInv, ScratchSafe
  <2> QED BY <1>11, <1>a, <2>1 DEF CreateStaging
<1>12. ASSUME NEW p \in Proc, WriteDocuments(p) PROVE IInv'
  <2>1. /\ txn'[p].base = txn[p].base /\ txn'[p].mine = txn[p].mine
        /\ txn'[p].todo = BlobsOf[req[p].snap]
        /\ \A q \in Proc : q # p => txn'[q] = txn[q]
    BY <1>12 DEF WriteDocuments, TypeOK, Txn
  <2>2. Invs'
    BY <1>12, <2>1 DEF WriteDocuments, Goto, TypeOK, IInv, Invs, LockHeld, BaseInv,
                 FilesInv, MineInv, ScratchSafe
  <2> QED BY <1>12, <1>a, <2>2 DEF WriteDocuments
<1>13. ASSUME NEW p \in Proc, ReuseBlob(p) PROVE IInv'
  <2>1. PICK b \in blobs : txn' = [txn EXCEPT ![p].todo = @ \ {b}]
    BY <1>13 DEF ReuseBlob
  <2>2. /\ txn'[p].base = txn[p].base /\ txn'[p].mine = txn[p].mine
        /\ txn'[p].todo = txn[p].todo \ {b}
        /\ \A q \in Proc : q # p => txn'[q] = txn[q]
    BY <2>1 DEF TypeOK, Txn
  <2>3. Invs'
    BY <1>13, <2>2 DEF ReuseBlob, TypeOK, IInv, Invs, LockHeld, BaseInv,
                 FilesInv, MineInv, ScratchSafe
  <2> QED BY <1>13, <1>a, <2>3 DEF ReuseBlob
<1>14. ASSUME NEW p \in Proc, WriteBlobTemp(p) PROVE IInv'
  <2>1. PICK b \in txn[p].todo \ blobs :
          txn' = [txn EXCEPT ![p].todo = @ \ {b}, ![p].cur = b]
    BY <1>14 DEF WriteBlobTemp
  <2>2. /\ txn'[p].base = txn[p].base /\ txn'[p].mine = txn[p].mine
        /\ txn'[p].todo = txn[p].todo \ {b} /\ txn'[p].cur = b
        /\ \A q \in Proc : q # p => txn'[q] = txn[q]
    BY <2>1 DEF TypeOK, Txn
  <2>4. LockHeld' /\ BaseInv' /\ ScratchSafe'
    BY <1>14, <2>2 DEF WriteBlobTemp, Goto, TypeOK, IInv, Invs, LockHeld, BaseInv, ScratchSafe
  <2>6. /\ pc[p] = "blobs" /\ pc'[p] = "blobtemp" /\ UNCHANGED <<req, blobs, snapshots>>
        /\ \A q \in Proc : q # p => pc'[q] = pc[q]
    BY <1>14 DEF WriteBlobTemp, Goto, TypeOK
  <2>7. FilesInv /\ MineInv
    BY DEF IInv
  <2>5. FilesInv' /\ MineInv'
    BY <2>2, <2>6, <2>7 DEF FilesInv, MineInv
  <2>3. Invs'
    BY <1>14, <2>4, <2>5 DEF WriteBlobTemp, IInv, Invs
  <2> QED BY <1>14, <1>a, <2>3 DEF WriteBlobTemp
<1>15. ASSUME NEW p \in Proc, RenameBlob(p) PROVE IInv'
  <2>1. Invs'
    BY <1>15 DEF RenameBlob, Goto, TypeOK, IInv, Invs, LockHeld, BaseInv, FilesInv,
                 MineInv, ScratchSafe
  <2> QED BY <1>15, <1>a, <2>1 DEF RenameBlob
<1>16. ASSUME NEW p \in Proc, SyncBlob(p) PROVE IInv'
  <2>1. Invs'
    BY <1>16 DEF SyncBlob, Goto, TypeOK, IInv, Invs, LockHeld, BaseInv, FilesInv,
                 MineInv, ScratchSafe
  <2> QED BY <1>16, <1>a, <2>1 DEF SyncBlob
<1>17. ASSUME NEW p \in Proc, WriteManifest(p) PROVE IInv'
  <2>1. Invs'
    BY <1>17 DEF WriteManifest, Goto, TypeOK, IInv, Invs, LockHeld, BaseInv, FilesInv,
                 MineInv, ScratchSafe
  <2> QED BY <1>17, <1>a, <2>1 DEF WriteManifest
<1>18. ASSUME NEW p \in Proc, PublishSnapshot(p) PROVE IInv'
  <2>1. Invs'
    BY <1>18 DEF PublishSnapshot, Goto, TypeOK, IInv, Invs, LockHeld, BaseInv, FilesInv,
                 MineInv, ScratchSafe
  <2> QED BY <1>18, <1>a, <2>1 DEF PublishSnapshot
<1>19. ASSUME NEW p \in Proc, SyncSnapshots(p) PROVE IInv'
  <2>1. Invs'
    BY <1>19 DEF SyncSnapshots, Goto, TypeOK, IInv, Invs, LockHeld, BaseInv, FilesInv,
                 MineInv, ScratchSafe
  <2> QED BY <1>19, <1>a, <2>1 DEF SyncSnapshots
<1>20. ASSUME NEW p \in Proc, ReuseSnapshot(p) PROVE IInv'
  <2>1. Invs'
    BY <1>20 DEF ReuseSnapshot, Goto, TypeOK, IInv, Invs, LockHeld, BaseInv, FilesInv,
                 MineInv, ScratchSafe
  <2> QED BY <1>20, <1>a, <2>1 DEF ReuseSnapshot
<1>21. ASSUME NEW p \in Proc, ReuseRefused(p) PROVE IInv'
  BY <1>21, ReturnKeeps DEF ReuseRefused
<1>22. ASSUME NEW p \in Proc, WriteCommitTemp(p) PROVE IInv'
  <2>1. Invs'
    BY <1>22 DEF WriteCommitTemp, Goto, TypeOK, IInv, Invs, LockHeld, BaseInv, FilesInv,
                 MineInv, ScratchSafe
  <2> QED BY <1>22, <1>a, <2>1 DEF WriteCommitTemp
<1>23. ASSUME NEW p \in Proc, PublishCommit(p) PROVE IInv'
  BY <1>23, PublishKeeps
<1>24. ASSUME NEW p \in Proc, SyncCommits(p) PROVE IInv'
  BY <1>24, ReturnKeeps DEF SyncCommits
<1>25. ASSUME NEW p \in Proc, RemoveLitter(p) PROVE IInv'
  <2>1. lock = p /\ \A q \in Proc : q # p => pc[q] \notin Locked
    BY <1>25 DEF RemoveLitter, IInv, LockHeld
  <2>2. Invs'
    BY <1>25, <2>1 DEF RemoveLitter, TypeOK, IInv, Invs, LockHeld, BaseInv, FilesInv,
                 MineInv, ScratchSafe
  <2> QED BY <1>25, <1>a, <2>2 DEF RemoveLitter
<1>26. ASSUME NEW p \in Proc, LoadLatest(p) PROVE IInv'
  <2>1. Invs'
    BY <1>26 DEF LoadLatest, IInv, Invs, LockHeld, BaseInv, FilesInv, MineInv, ScratchSafe
  <2> QED BY <1>26, <1>a, <2>1 DEF LoadLatest
<1>27. ASSUME NEW p \in Proc, Abort(p) PROVE IInv'
  BY <1>27, ReturnKeeps DEF Abort
<1>28. ASSUME NEW p \in Proc, SyncFails(p) PROVE IInv'
  BY <1>28, ReturnKeeps DEF SyncFails
<1>29. ASSUME NEW p \in Proc, Crash(p) PROVE IInv'
  <2>1. /\ pc'[p] = "idle" /\ txn'[p] = NoTxn
        /\ \A q \in Proc : q # p => /\ pc'[q] = pc[q] /\ txn'[q] = txn[q]
                                    /\ req'[q] = req[q]
        /\ staging' = staging \ {p} /\ temps' = temps \ {p}
        /\ lock' = IF lock = p THEN NoProc ELSE lock
        /\ UNCHANGED <<snapshots, blobs, commits, nextId>>
    BY <1>29 DEF Crash, TypeOK
  <2>2. Invs'
    BY <2>1 DEF TypeOK, IInv, Invs, LockHeld, BaseInv, FilesInv, MineInv, ScratchSafe, NoTxn
  <2> QED BY <2>1, <1>a, <2>2
<1>30. ASSUME NEW s \in Snap, Damage(s) PROVE IInv'
  <2>1. Invs'
    BY <1>30 DEF Damage, IInv, Invs, LockHeld, BaseInv, FilesInv, MineInv, ScratchSafe
  <2> QED BY <1>30, <1>a, <2>1 DEF Damage
<1>32. CASE UNCHANGED vars
  <2>1. Invs'
    BY <1>32 DEF vars, IInv, Invs, LockHeld, BaseInv, FilesInv, MineInv, ScratchSafe
  <2> QED BY <1>32, <1>a, <2>1 DEF vars
<1>33. QED
  BY <1>1, <1>2, <1>3, <1>4, <1>5, <1>6, <1>7, <1>8, <1>9, <1>10, <1>11,
     <1>12, <1>13, <1>14, <1>15, <1>16, <1>17, <1>18, <1>19, <1>20, <1>21,
     <1>22, <1>23, <1>24, <1>25, <1>26, <1>27, <1>28, <1>29, <1>30,
     <1>32
  DEF Next, Step

(* IInv is inductive as long as no power is lost.                           *)
THEOREM Inductive == "power" \notin Faults => (Spec => []IInv)
<1> SUFFICES ASSUME "power" \notin Faults PROVE Spec => []IInv
  OBVIOUS
<1>1. Init => IInv
  <2> SUFFICES ASSUME Init PROVE IInv
    OBVIOUS
  <2>1. ChainInv /\ NoDuplicateHead /\ CommittedComplete
    BY DEF Init, ChainInv, ChainValid, NoDuplicateHead, CommittedComplete
  <2>2. LockHeld /\ BaseInv /\ FilesInv /\ MineInv /\ ScratchSafe
    BY DEF Init, LockHeld, BaseInv, FilesInv, MineInv, ScratchSafe, NoTxn,
           Locked, Writing
  <2> QED BY <2>1, <2>2 DEF IInv
<1>2. TypeOK /\ IInv /\ [Next]_vars => IInv'
  BY StepKeeps DEF PowerLoss
<1>3. QED BY <1>1, <1>2, TypeCorrect, PTL DEF Spec

-----------------------------------------------------------------------------
(* What a reader of the code relies on, for any number of processes, any    *)
(* snapshots and blobs, and any mix of crashes, failing syncs and damage.   *)

(* No interleaving leaves a chain that loadCommitChain refuses.             *)
THEOREM ChainStaysIntact == "power" \notin Faults => (Spec => []ChainIntact)
<1>1. IInv => ChainIntact
  BY DEF IInv, ChainInv, ChainIntact
<1>2. QED BY <1>1, Inductive, PTL

(* Every committed record can be loaded: its directory and blobs exist.     *)
THEOREM CommittedStaysComplete ==
  "power" \notin Faults => (Spec => []CommittedComplete)
<1>1. IInv => CommittedComplete
  BY DEF IInv
<1>2. QED BY <1>1, Inductive, PTL

(* Retrying a commit never appends the same snapshot twice in a row.        *)
THEOREM NeverDuplicated == "power" \notin Faults => (Spec => []NoDuplicateHead)
<1>1. IInv => NoDuplicateHead
  BY DEF IInv
<1>2. QED BY <1>1, Inductive, PTL

(* CleanupStaging never removes the files of a commit under way.            *)
THEOREM ScratchStaysSafe == "power" \notin Faults => (Spec => []ScratchSafe)
<1>1. IInv => ScratchSafe
  BY DEF IInv
<1>2. QED BY <1>1, Inductive, PTL

(* The expectation checked when the call read the head still holds when its *)
(* record is published, however many steps and other calls lie between.     *)
THEOREM ExpectationStillHolds == "power" \notin Faults => (Spec => ExpectationHonoured)
<1>1. IInv => \A p \in Proc : pc[p] = "rename" /\ pc'[p] = "commitsync" =>
                 \E h \in Heads(commits) : Expects(req[p], h)
  BY DEF IInv, BaseInv, Writing
<1>2. QED BY <1>1, Inductive, PTL DEF ExpectationHonoured

(* A call that has published its record never returns a plain error.        *)
THEOREM ErrorsCommitNothing ==
  "power" \notin Faults => (Spec => ErrorMeansNotCommitted)
<1> DEFINE Errors == {"locked", "exists", "conflict", "integrity", "failed"}
<1>1. ASSUME TypeOK, IInv, [Next]_vars, NEW p \in Proc,
             pc[p] = "commitsync", pc'[p] = "idle", outcome'[p] \in Errors
      PROVE  FALSE
  <2>1. ASSUME NEW q \in Proc, q # p, pc' = [pc EXCEPT ![q] = "idle"] PROVE FALSE
    BY <1>1, <2>1 DEF TypeOK
  <2>2. ASSUME NEW q \in Proc, Step(q) PROVE FALSE
    BY <1>1, <2>1, <2>2
    DEF TypeOK, Step, Goto, Return, EnsureCaseDirs, SyncCaseDirs, AcquireLock,
        LockBusy, ChainCorrupt, IdempotentRetry, ParentRefused, ParentAccepted,
        CreateStaging, WriteDocuments, ReuseBlob, WriteBlobTemp, RenameBlob,
        SyncBlob, WriteManifest, PublishSnapshot, SyncSnapshots, ReuseSnapshot,
        ReuseRefused, WriteCommitTemp, PublishCommit, SyncCommits, RemoveLitter
  <2>3. ASSUME NEW q \in Proc, BeginCommit(q) \/ BeginCleanup(q) \/ LoadLatest(q)
        PROVE  FALSE
    BY <1>1, <2>3 DEF TypeOK, Goto, BeginCommit, BeginCleanup, LoadLatest
  <2>4. ASSUME NEW q \in Proc, Abort(q) \/ SyncFails(q) \/ Crash(q) PROVE FALSE
    BY <1>1, <2>1, <2>4
    DEF TypeOK, Return, Abort, SyncFails, Crash, Writing, Syncing
  <2>5. CASE PowerLoss \/ (\E s \in Snap : Damage(s)) \/ UNCHANGED vars
    BY <1>1, <2>5 DEF TypeOK, PowerLoss, Damage, vars
  <2>6. QED BY <1>1, <2>2, <2>3, <2>4, <2>5 DEF Next
<1>2. TypeOK /\ IInv /\ [Next]_vars =>
        \A p \in Proc :
          /\ pc[p] # "idle" /\ pc'[p] = "idle"
          /\ outcome'[p] \in {"locked", "exists", "conflict", "integrity", "failed"}
          => txn[p].mine = 0
  BY <1>1 DEF IInv, MineInv
<1>3. QED BY <1>2, TypeCorrect, Inductive, PTL DEF Spec, ErrorMeansNotCommitted

-----------------------------------------------------------------------------
(***************************************************************************)
(* What the case store keeps when the machine loses power, for any number  *)
(* of processes, snapshots and blobs: nothing that a caller was told of is *)
(* lost, and the store implements CaseLog.  Assumed is what README section *)
(* 5 shows to be needed: the case directory is there, no directory sync    *)
(* fails and no process dies by itself between a rename and its sync.      *)
(***************************************************************************)
Dependable == FreshCase = FALSE /\ "crash" \notin Faults /\ "sync" \notin Faults

-----------------------------------------------------------------------------
(* The invariant.                                                           *)

(* What is seen in a directory is durable, but for the one entry whose      *)
(* directory its writer, which holds the lock, is about to sync.            *)
FilesSynced ==
  /\ tree = "durable"
  /\ dSnapshots \subseteq snapshots /\ dBlobs \subseteq blobs
  /\ snapshots = dSnapshots \/ \E p \in Proc : pc[p] = "snapsync"
  /\ \A b \in blobs \ dBlobs : \E p \in Proc : pc[p] = "blobsync" /\ txn[p].cur = b
  /\ \A p \in Proc : pc[p] = "blobsync" => txn[p].cur \in blobs

RecordsSynced ==
  /\ dCommits \subseteq commits
  /\ \A c \in commits \ dCommits : \E p \in Proc : pc[p] = "commitsync"
  /\ \A p \in Proc : pc[p] = "commitsync" =>
       \E h \in Heads(commits) : /\ h \in commits /\ h.id = txn[p].mine
                                 /\ commits \ {h} \subseteq dCommits /\ h \notin acked

(* What a committed record refers to is durable before the record is seen.  *)
KeptFiles == \A c \in commits : c.snap \in dSnapshots /\ BlobsOf[c.snap] \subseteq dBlobs

(* A caller is told of durable records, and of the last of them last.       *)
AckedKept == /\ acked \subseteq dCommits
             /\ acked # {} => \E a \in acked : \A c \in acked : c.seq <= a.seq

(* The records are numbered from 1 to their number.                         *)
Numbered(C) ==
  /\ IsFiniteSet(C)
  /\ \A c \in C : c.seq \in 1..Cardinality(C)
  /\ \A i \in 1..Cardinality(C) : \E c \in C : c.seq = i
  /\ \A c, d \in C : c.seq = d.seq => c = d

DInv == IInv /\ FilesSynced /\ RecordsSynced /\ KeptFiles /\ AckedKept /\ Numbered(commits)

-----------------------------------------------------------------------------
(* Numbered records.                                                        *)

(* The head bears the number of the records.                                *)
LEMMA HeadNumber ==
  ASSUME NEW C, C \subseteq Commits, Numbered(C), NEW h \in Heads(C)
  PROVE  /\ Cardinality(C) \in Nat /\ h.seq = Cardinality(C)
         /\ C # {} => h \in C
<1>1. Cardinality(C) \in Nat
  BY FS_CardinalityType DEF Numbered
<1>2. CASE C = {}
  BY <1>2, FS_EmptySet DEF Heads, Root
<1>3. CASE C # {}
  <2>1. h \in C /\ \A d \in C : d.seq <= h.seq
    BY <1>3 DEF Heads
  <2>2. h.seq \in 1..Cardinality(C)
    BY <2>1 DEF Numbered
  <2>3. Cardinality(C) \in 1..Cardinality(C)
    BY <1>1, <2>2
  <2>4. PICK d \in C : d.seq = Cardinality(C)
    BY <2>3 DEF Numbered
  <2> QED
    BY <1>1, <2>1, <2>2, <2>4
<1> QED
  BY <1>2, <1>3

(* A record after the head takes the next number ...                        *)
LEMMA NumberNext ==
  ASSUME NEW C, C \subseteq Commits, Numbered(C), NEW r, r.seq = Cardinality(C) + 1
  PROVE  /\ Numbered(C \cup {r}) /\ r \notin C
         /\ Cardinality(C \cup {r}) = Cardinality(C) + 1
<1> DEFINE n == Cardinality(C)
<1>1. n \in Nat /\ IsFiniteSet(C)
  BY FS_CardinalityType DEF Numbered
<1>2. /\ \A c \in C : c.seq \in 1..n
      /\ \A i \in 1..n : \E c \in C : c.seq = i
      /\ \A c, d \in C : c.seq = d.seq => c = d
  BY DEF Numbered
<1> HIDE DEF n
<1>3. \A c \in C : c.seq # n + 1
  BY <1>1, <1>2
<1>4. r \notin C /\ r.seq = n + 1
  BY <1>3 DEF n
<1>5. IsFiniteSet(C \cup {r}) /\ Cardinality(C \cup {r}) = n + 1
  BY <1>1, <1>4, FS_AddElement DEF n
<1>6. \A c \in C \cup {r} : c.seq \in 1..n + 1
  BY <1>1, <1>2, <1>4
<1>7. \A i \in 1..n + 1 : \E c \in C \cup {r} : c.seq = i
  <2>1. \A i \in 1..n + 1 : i \in 1..n \/ i = n + 1
    BY <1>1
  <2> QED
    BY <1>2, <1>4, <2>1
<1>8. \A c, d \in C \cup {r} : c.seq = d.seq => c = d
  BY <1>2, <1>3, <1>4
<1> QED
  BY <1>4, <1>5, <1>6, <1>7, <1>8 DEF Numbered, n

(* ... and the numbers are as they were when the head is lost.              *)
LEMMA NumberLost ==
  ASSUME NEW C, C \subseteq Commits, Numbered(C), NEW h \in C, h.seq = Cardinality(C)
  PROVE  Numbered(C \ {h}) /\ Cardinality(C \ {h}) = Cardinality(C) - 1
<1> DEFINE n == Cardinality(C)
<1>1. n \in Nat /\ IsFiniteSet(C)
  BY FS_CardinalityType DEF Numbered
<1>2. /\ \A c \in C : c.seq \in 1..n
      /\ \A i \in 1..n : \E c \in C : c.seq = i
      /\ \A c, d \in C : c.seq = d.seq => c = d
      /\ h.seq = n
  BY DEF Numbered
<1>3. IsFiniteSet(C \ {h}) /\ Cardinality(C \ {h}) = n - 1
  BY <1>1, FS_RemoveElement
<1> HIDE DEF n
<1>4. \A c \in C \ {h} : c.seq \in 1..n - 1
  <2>1. \A c \in C \ {h} : c.seq \in 1..n /\ c.seq # n
    BY <1>2
  <2> QED
    BY <1>1, <2>1
<1>5. \A i \in 1..n - 1 : \E c \in C \ {h} : c.seq = i
  <2>1. \A i \in 1..n - 1 : i \in 1..n /\ i # n
    BY <1>1
  <2> QED
    BY <1>2, <2>1
<1> QED
  BY <1>2, <1>3, <1>4, <1>5 DEF Numbered

-----------------------------------------------------------------------------
(* Steps.                                                                   *)

Pending == {"snapsync", "blobsync", "commitsync"}

(* The lock keeps all other processes out of the directories.               *)
LEMMA Alone ==
  ASSUME DInv, NEW p \in Proc, pc[p] \in Locked
  PROVE  /\ \A q \in Proc : pc[q] \in Locked => q = p
         /\ pc[p] # "snapsync" => snapshots = dSnapshots
         /\ pc[p] # "blobsync" => blobs = dBlobs
         /\ pc[p] # "commitsync" => commits = dCommits
<1>1. \A q \in Proc : pc[q] \in Locked => q = p
  BY DEF DInv, IInv, LockHeld
<1>2. /\ "snapsync" \in Locked /\ "blobsync" \in Locked /\ "commitsync" \in Locked
      /\ FilesSynced /\ RecordsSynced
  BY DEF Locked, Writing, DInv
<1>3. ASSUME NEW at \in {"snapsync", "blobsync", "commitsync"}, pc[p] # at
      PROVE  ~ \E q \in Proc : pc[q] = at
  BY <1>1, <1>2, <1>3
<1>4. pc[p] # "snapsync" => snapshots = dSnapshots
  BY <1>2, <1>3 DEF FilesSynced
<1>5. pc[p] # "blobsync" => blobs = dBlobs
  BY <1>2, <1>3 DEF FilesSynced
<1>6. pc[p] # "commitsync" => commits = dCommits
  BY <1>2, <1>3 DEF RecordsSynced
<1> QED
  BY <1>1, <1>4, <1>5, <1>6

(* A step that touches no directory, and no process whose entry is waiting. *)
Quiet ==
  /\ UNCHANGED <<snapshots, dSnapshots, blobs, dBlobs, commits, dCommits, acked>>
  /\ tree' = "durable"
  /\ \A p \in Proc : pc[p] \in Pending \/ pc'[p] \in Pending =>
       pc'[p] = pc[p] /\ txn'[p].cur = txn[p].cur /\ txn'[p].mine = txn[p].mine

Durably == FilesSynced /\ RecordsSynced /\ KeptFiles /\ AckedKept /\ Numbered(commits)

LEMMA QuietKeeps ==
  ASSUME DInv, Quiet
  PROVE  Durably'
<1>1. FilesSynced'
  BY DEF DInv, FilesSynced, Quiet, Pending
<1>2. RecordsSynced'
  BY DEF DInv, RecordsSynced, Quiet, Pending, Heads
<1>3. KeptFiles' /\ AckedKept' /\ Numbered(commits)'
  BY DEF DInv, KeptFiles, AckedKept, Numbered, Quiet
<1> QED
  BY <1>1, <1>2, <1>3 DEF Durably

(* Every step of a call that ends nowhere near a sync is quiet.             *)
LEMMA ReturnIsQuiet ==
  ASSUME DInv, TypeOK, NEW p \in Proc, NEW result, Return(p, result), pc[p] \notin Pending,
         UNCHANGED <<tree, snapshots, dSnapshots, blobs, dBlobs, commits, dCommits, acked>>
  PROVE  Quiet
BY DEF Return, Quiet, Pending, TypeOK, DInv, FilesSynced

LEMMA QuietSteps ==
  ASSUME DInv, TypeOK, Dependable, [Next]_vars, ~PowerLoss,
         \A p \in Proc : /\ ~IdempotentRetry(p) /\ ~RenameBlob(p) /\ ~SyncBlob(p)
                         /\ ~PublishSnapshot(p) /\ ~SyncSnapshots(p)
                         /\ ~PublishCommit(p) /\ ~SyncCommits(p)
  PROVE  Quiet
<1> USE DEF seen, durable, scratch, history
<1>1. tree = "durable"
  BY DEF DInv, FilesSynced
<1>2. ASSUME NEW p \in Proc, LockBusy(p) \/ ChainCorrupt(p) \/ ParentRefused(p) \/ ReuseRefused(p)
      PROVE  Quiet
  <2>1. PICK result : Return(p, result)
    BY <1>2 DEF LockBusy, ChainCorrupt, ParentRefused, ReuseRefused
  <2>2. pc[p] \notin Pending
    BY <1>2 DEF LockBusy, ChainCorrupt, ParentRefused, ReuseRefused, Pending
  <2> QED
    BY <1>2, <2>1, <2>2, ReturnIsQuiet DEF LockBusy, ChainCorrupt, ParentRefused, ReuseRefused
<1>3. ASSUME NEW p \in Proc, Abort(p) PROVE Quiet
  <2>1. pc[p] \notin Pending
    BY <1>3 DEF Abort, Writing, Syncing, Pending
  <2> QED
    BY <1>3, <2>1, ReturnIsQuiet DEF Abort
<1>4. ASSUME NEW p \in Proc, BeginCommit(p) \/ BeginCleanup(p) \/ EnsureCaseDirs(p) \/ SyncCaseDirs(p)
      PROVE  Quiet
  BY <1>1, <1>4 DEF BeginCommit, BeginCleanup, EnsureCaseDirs, SyncCaseDirs, Goto, Quiet, Pending, TypeOK
<1>5. ASSUME NEW p \in Proc, \/ AcquireLock(p) \/ CreateStaging(p) \/ WriteManifest(p) \/ ReuseSnapshot(p)
                             \/ WriteCommitTemp(p) \/ RemoveLitter(p) \/ LoadLatest(p)
      PROVE  Quiet
  BY <1>1, <1>5 DEF AcquireLock, CreateStaging, WriteManifest, ReuseSnapshot, WriteCommitTemp,
                    RemoveLitter, LoadLatest, Goto, Quiet, Pending, TypeOK
<1>6. ASSUME NEW p \in Proc, ParentAccepted(p) \/ WriteDocuments(p) \/ ReuseBlob(p) \/ WriteBlobTemp(p)
      PROVE  Quiet
  <2>1. /\ \A q \in Proc \ {p} : txn'[q] = txn[q] /\ pc'[q] = pc[q]
        /\ pc[p] \notin Pending /\ pc'[p] \notin Pending
    BY <1>6 DEF ParentAccepted, WriteDocuments, ReuseBlob, WriteBlobTemp, Goto, Pending, TypeOK
  <2> QED
    BY <1>1, <1>6, <2>1 DEF ParentAccepted, WriteDocuments, ReuseBlob, WriteBlobTemp, Quiet
<1>7. ASSUME NEW p \in Proc, SyncFails(p) \/ Crash(p) PROVE FALSE
  BY <1>7 DEF SyncFails, Crash, Dependable
<1>8. CASE (\E s \in Snap : Damage(s)) \/ UNCHANGED vars
  BY <1>1, <1>8 DEF Damage, vars, Quiet
<1> QED
  BY <1>2, <1>3, <1>4, <1>5, <1>6, <1>7, <1>8 DEF Next, Step

(* A retry is told of the head, which is durable as nobody else is writing. *)
LEMMA RetryKeeps ==
  ASSUME DInv, TypeOK, NEW p \in Proc, IdempotentRetry(p)
  PROVE  Durably' /\ \E h \in Heads(commits) : h \in commits /\ acked' = acked \cup {h}
<1>1. pc[p] = "load" /\ pc' = [pc EXCEPT ![p] = "idle"]
      /\ UNCHANGED <<tree, snapshots, dSnapshots, blobs, dBlobs, commits, dCommits>>
  BY DEF IdempotentRetry, Return, seen, durable
<1>2. PICK h \in Heads(commits) : IsRetry(req[p], h) /\ acked' = acked \cup {h}
  BY DEF IdempotentRetry
<1>3. h \in commits /\ \A c \in commits : c.seq <= h.seq
  BY <1>2, HeadsType DEF TypeOK, IsRetry, Heads
<1>4. snapshots = dSnapshots /\ blobs = dBlobs /\ commits = dCommits
      /\ \A q \in Proc : pc[q] \in Locked => q = p
  BY <1>1, Alone DEF Locked
<1>5. \A q \in Proc : pc'[q] \notin Pending
  BY <1>1, <1>4 DEF Locked, Writing, Pending, TypeOK
<1>6. FilesSynced' /\ RecordsSynced'
  BY <1>1, <1>4, <1>5 DEF FilesSynced, RecordsSynced, DInv, Pending
<1>7. AckedKept'
  <2>1. acked' \subseteq dCommits'
    BY <1>1, <1>2, <1>3, <1>4 DEF DInv, AckedKept
  <2>2. h \in acked' /\ \A c \in acked' : c.seq <= h.seq
    BY <1>1, <1>2, <1>3, <1>4, <2>1
  <2> QED
    BY <2>1, <2>2 DEF AckedKept
<1> QED
  BY <1>1, <1>2, <1>3, <1>6, <1>7 DEF Durably, DInv, KeptFiles, Numbered

(* A blob or a snapshot directory is renamed, and then its parent synced.   *)
LEMMA PublicationKeeps ==
  ASSUME DInv, TypeOK, NEW p \in Proc,
         RenameBlob(p) \/ SyncBlob(p) \/ PublishSnapshot(p) \/ SyncSnapshots(p)
  PROVE  Durably'
<1> USE DEF seen, durable, scratch, history, Goto
<1>1. pc[p] \in Locked /\ pc[p] # "commitsync"
  BY DEF RenameBlob, SyncBlob, PublishSnapshot, SyncSnapshots, Locked, Writing
<1>2. commits = dCommits /\ \A q \in Proc : pc[q] \in Locked => q = p
  BY <1>1, Alone
<1>3. UNCHANGED <<tree, commits, dCommits, acked, txn>>
  BY DEF RenameBlob, SyncBlob, PublishSnapshot, SyncSnapshots
<1>4. \A q \in Proc : pc'[q] # "commitsync"
  BY <1>2 DEF RenameBlob, SyncBlob, PublishSnapshot, SyncSnapshots, TypeOK, Locked
<1>5. RecordsSynced' /\ AckedKept' /\ Numbered(commits)'
  BY <1>2, <1>3, <1>4 DEF DInv, RecordsSynced, AckedKept, Numbered
<1>6. \A q \in Proc \ {p} : pc[q] \notin Pending /\ pc'[q] = pc[q]
  BY <1>2 DEF RenameBlob, SyncBlob, PublishSnapshot, SyncSnapshots, TypeOK, Pending, Locked, Writing
<1>7. FilesSynced'
  <2>1. CASE RenameBlob(p)
    <3>1. snapshots = dSnapshots /\ blobs = dBlobs
      BY <2>1, <1>1, Alone DEF RenameBlob
    <3> QED
      BY <2>1, <1>3, <1>6, <3>1 DEF RenameBlob, FilesSynced, DInv, TypeOK, Pending
  <2>2. CASE SyncBlob(p)
    <3>1. snapshots = dSnapshots
      BY <2>2, <1>1, Alone DEF SyncBlob
    <3>2. blobs' = dBlobs'
      BY <2>2, <1>6 DEF SyncBlob, FilesSynced, DInv, Pending
    <3> QED
      BY <2>2, <1>3, <1>6, <3>1, <3>2 DEF SyncBlob, FilesSynced, DInv, TypeOK, Pending
  <2>3. CASE PublishSnapshot(p)
    <3>1. snapshots = dSnapshots /\ blobs = dBlobs
      BY <2>3, <1>1, Alone DEF PublishSnapshot
    <3> QED
      BY <2>3, <1>3, <1>6, <3>1 DEF PublishSnapshot, FilesSynced, DInv, TypeOK, Pending
  <2>4. CASE SyncSnapshots(p)
    <3>1. blobs = dBlobs
      BY <2>4, <1>1, Alone DEF SyncSnapshots
    <3> QED
      BY <2>4, <1>3, <1>6, <3>1 DEF SyncSnapshots, FilesSynced, DInv, TypeOK, Pending
  <2> QED
    BY <2>1, <2>2, <2>3, <2>4
<1>8. KeptFiles'
  <2>1. dSnapshots \subseteq dSnapshots' /\ dBlobs \subseteq dBlobs'
    BY DEF RenameBlob, SyncBlob, PublishSnapshot, SyncSnapshots, DInv, FilesSynced
  <2> QED
    BY <1>3, <2>1 DEF DInv, KeptFiles
<1> QED
  BY <1>5, <1>7, <1>8 DEF Durably

(* The record is published on the head; what it refers to is durable.       *)
LEMMA RecordKeeps ==
  ASSUME DInv, TypeOK, NEW p \in Proc, PublishCommit(p)
  PROVE  /\ Durably' /\ Record(p) \notin commits
         /\ Record(p).seq = Cardinality(commits) + 1
         /\ Numbered(commits \cup {Record(p)})
         /\ Cardinality(commits \cup {Record(p)}) = Cardinality(commits) + 1
<1> DEFINE r == Record(p)
<1>1. pc[p] = "rename" /\ pc' = [pc EXCEPT ![p] = "commitsync"]
      /\ commits' = commits \cup {r} /\ txn' = [txn EXCEPT ![p].mine = nextId]
      /\ UNCHANGED <<tree, snapshots, dSnapshots, blobs, dBlobs, dCommits, acked>>
  BY DEF PublishCommit, Goto, durable
<1>2. snapshots = dSnapshots /\ blobs = dBlobs /\ commits = dCommits
      /\ \A q \in Proc : pc[q] \in Locked => q = p
  BY <1>1, Alone DEF Locked, Writing
<1>3. \A q \in Proc \ {p} : pc'[q] = pc[q] /\ pc'[q] \notin Pending
  BY <1>1, <1>2 DEF TypeOK, Locked, Writing, Pending
<1>4. txn[p].base \in Heads(commits)
  BY <1>1 DEF DInv, IInv, BaseInv, Writing
<1>5. r.seq = txn[p].base.seq + 1 /\ r.id = nextId /\ r.snap = req[p].snap
  BY DEF Record
<1>6. r.seq = Cardinality(commits) + 1 /\ commits \subseteq Commits /\ Numbered(commits)
  BY <1>4, <1>5, HeadNumber DEF DInv, TypeOK
<1> HIDE DEF r
<1>7. Numbered(commits \cup {r}) /\ r \notin commits
      /\ Cardinality(commits \cup {r}) = Cardinality(commits) + 1
  BY <1>6, NumberNext
<1>8. \A c \in commits : c.seq <= r.seq
  <2>1. Cardinality(commits) \in Nat /\ \A c \in commits : c.seq \in 1..Cardinality(commits)
    BY <1>6, FS_CardinalityType DEF Numbered
  <2> QED
    BY <1>6, <2>1
<1>9. r \in Heads(commits')
  <2>1. r.seq <= r.seq
    <3>1. r.seq \in Nat
      BY <1>6, FS_CardinalityType DEF Numbered
    <3> QED
      BY <3>1
  <2> QED
    BY <1>1, <1>8, <2>1 DEF Heads
<1>10. txn'[p].mine = nextId
  BY <1>1 DEF TypeOK, Txn
<1>11. RecordsSynced'
  BY <1>1, <1>2, <1>3, <1>5, <1>7, <1>9, <1>10 DEF RecordsSynced, DInv, AckedKept, Pending, TypeOK
<1>12. FilesSynced'
  BY <1>1, <1>2, <1>3 DEF FilesSynced, DInv, Pending, TypeOK
<1>13. KeptFiles'
  <2>1. req[p].snap \in snapshots /\ BlobsOf[req[p].snap] \subseteq blobs
    BY <1>1 DEF DInv, IInv, FilesInv
  <2> QED
    BY <1>1, <1>2, <1>5, <2>1 DEF DInv, KeptFiles
<1>14. AckedKept' /\ Numbered(commits)'
  BY <1>1, <1>7 DEF AckedKept, DInv
<1> QED
  BY <1>6, <1>7, <1>11, <1>12, <1>13, <1>14 DEF Durably, r

(* The caller is told of the one record that has become durable.            *)
LEMMA SyncKeeps ==
  ASSUME DInv, TypeOK, NEW p \in Proc, SyncCommits(p)
  PROVE  Durably' /\ \E h \in Heads(commits) : h \in commits /\ acked' = acked \cup {h}
<1>1. pc[p] = "commitsync" /\ pc' = [pc EXCEPT ![p] = "idle"] /\ dCommits' = commits
      /\ acked' = acked \cup {c \in commits : c.id = txn[p].mine}
      /\ UNCHANGED <<tree, snapshots, dSnapshots, blobs, dBlobs, commits>>
  BY DEF SyncCommits, Return, seen
<1>2. snapshots = dSnapshots /\ blobs = dBlobs
      /\ \A q \in Proc : pc[q] \in Locked => q = p
  BY <1>1, Alone DEF Locked
<1>3. \A q \in Proc : pc'[q] \notin Pending
  BY <1>1, <1>2 DEF Locked, Writing, Pending, TypeOK
<1>4. PICK h \in Heads(commits) : h \in commits /\ h.id = txn[p].mine
  BY <1>1 DEF DInv, RecordsSynced
<1>5. {c \in commits : c.id = txn[p].mine} = {h}
  BY <1>4 DEF DInv, IInv, ChainInv
<1>6. acked' = acked \cup {h} /\ \A c \in commits : c.seq <= h.seq
  BY <1>1, <1>4, <1>5 DEF Heads
<1>7. FilesSynced' /\ RecordsSynced'
  BY <1>1, <1>2, <1>3 DEF FilesSynced, RecordsSynced, DInv, Pending
<1>8. AckedKept'
  <2>1. acked' \subseteq commits
    BY <1>4, <1>6 DEF DInv, AckedKept, RecordsSynced
  <2> QED
    BY <1>1, <1>6, <2>1 DEF AckedKept
<1> QED
  BY <1>1, <1>4, <1>6, <1>7, <1>8 DEF Durably, DInv, KeptFiles, Numbered

(* A power failure takes at most the record whose directory was not synced, *)
(* which is the head and which no caller was told of.                       *)
LEMMA PowerKeeps ==
  ASSUME DInv, TypeOK, PowerLoss
  PROVE  /\ DInv' /\ acked' = acked
         /\ \/ commits' = commits
            \/ \E h \in commits : h.seq = Cardinality(commits) /\ commits' = commits \ {h}
<1>1. /\ tree' = "durable"
      /\ dSnapshots \subseteq snapshots' /\ dBlobs \subseteq blobs'
      /\ dCommits \subseteq commits' /\ commits' \subseteq commits
      /\ dSnapshots' = snapshots' /\ dBlobs' = blobs' /\ dCommits' = commits'
      /\ pc' = [p \in Proc |-> "idle"] /\ txn' = [p \in Proc |-> NoTxn]
      /\ UNCHANGED <<nextId, acked>>
  BY DEF PowerLoss, Survivors, DInv, FilesSynced, RecordsSynced, history
<1>2. \/ commits' = commits
      \/ \E h \in commits : /\ h.seq = Cardinality(commits) /\ commits' = commits \ {h}
                            /\ \A c \in commits : c.seq <= h.seq
  <2>1. CASE commits = dCommits
    BY <1>1, <2>1
  <2>2. CASE commits # dCommits
    <3>1. PICK h \in Heads(commits) : h \in commits /\ commits \ {h} \subseteq dCommits
      BY <2>2 DEF DInv, RecordsSynced
    <3>2. h.seq = Cardinality(commits)
      BY <3>1, HeadNumber DEF DInv, TypeOK
    <3>3. \A c \in commits : c.seq <= h.seq
      BY <3>1 DEF Heads
    <3> QED
      BY <1>1, <3>1, <3>2, <3>3
  <2> QED
    BY <2>1, <2>2
<1>3. Numbered(commits)'
  <2>1. Numbered(commits) /\ commits \subseteq Commits
    BY DEF DInv, TypeOK
  <2>2. Numbered(commits')
    BY <1>2, <2>1, NumberLost
  <2> QED
    BY <2>2 DEF Numbered
<1>4. ChainInv'
  <2>1. \A c \in commits : c.seq \in Nat
    BY DEF TypeOK, Commits
  <2>2. ChainValid(commits)
    BY DEF DInv, IInv, ChainInv
  <2>3. ChainValid(commits)'
    <3>1. CASE commits' = commits
      BY <2>2, <3>1 DEF ChainValid
    <3>2. CASE \E h \in commits : commits' = commits \ {h} /\ \A c \in commits : c.seq <= h.seq
      <4>1. PICK h \in commits : commits' = commits \ {h} /\ \A c \in commits : c.seq <= h.seq
        BY <3>2
      <4>2. \A c \in commits, d \in commits : d.seq + 1 = c.seq => d # h
        BY <2>1, <4>1
      <4> QED
        BY <2>2, <4>1, <4>2 DEF ChainValid
    <3> QED
      BY <1>2, <3>1, <3>2
  <2> QED
    BY <1>1, <2>3 DEF DInv, IInv, ChainInv
<1>5. LockHeld' /\ BaseInv' /\ FilesInv' /\ MineInv' /\ ScratchSafe'
  BY <1>1 DEF LockHeld, BaseInv, FilesInv, MineInv, ScratchSafe, Locked, Writing, NoTxn
<1>6. CommittedComplete' /\ NoDuplicateHead' /\ KeptFiles'
  BY <1>1 DEF DInv, IInv, KeptFiles, CommittedComplete, NoDuplicateHead
<1>7. FilesSynced' /\ RecordsSynced' /\ AckedKept'
  BY <1>1 DEF DInv, FilesSynced, RecordsSynced, AckedKept
<1> QED
  BY <1>1, <1>2, <1>3, <1>4, <1>5, <1>6, <1>7 DEF DInv, IInv

(* No step of any process, and no loss of power, breaks the invariant.      *)
THEOREM DurabilityInductive == Dependable => (Spec => []DInv)
<1> SUFFICES ASSUME Dependable PROVE Spec => []DInv
  OBVIOUS
<1>1. ASSUME Init PROVE DInv
  <2>1. Numbered({})
    BY FS_EmptySet DEF Numbered
  <2>2. IInv
    BY <1>1, FaultAssumption DEF Init, IInv, LockHeld, ChainInv, ChainValid, BaseInv, FilesInv,
       MineInv, CommittedComplete, NoDuplicateHead, ScratchSafe, Locked, Writing, NoTxn
  <2>3. FilesSynced /\ RecordsSynced /\ KeptFiles /\ AckedKept
    BY <1>1 DEF Init, Dependable, FilesSynced, RecordsSynced, KeptFiles, AckedKept
  <2> QED
    BY <1>1, <2>1, <2>2, <2>3 DEF Init, DInv
<1>2. ASSUME TypeOK, DInv, [Next]_vars PROVE DInv'
  <2>1. CASE PowerLoss
    BY <1>2, <2>1, PowerKeeps
  <2>2. CASE ~PowerLoss
    <3>1. IInv'
      BY <1>2, <2>2, StepKeeps DEF DInv
    <3>2. Durably'
      BY <1>2, <2>2, RetryKeeps, PublicationKeeps, RecordKeeps, SyncKeeps, QuietSteps, QuietKeeps
    <3> QED
      BY <3>1, <3>2 DEF DInv, Durably
  <2> QED
    BY <2>1, <2>2
<1> QED
  BY <1>1, <1>2, TypeCorrect, PTL DEF Spec

(* A record that some call reported as committed is never gone, through any *)
(* number of power losses.                                                  *)
THEOREM AckedStaysDurable == Dependable => (Spec => []AckedDurable)
<1>1. DInv => AckedDurable
  BY DEF DInv, AckedKept, RecordsSynced, AckedDurable
<1> QED
  BY <1>1, DurabilityInductive, PTL

(* A power loss leaves a chain that loads: numbered without a gap, complete *)
(* with its snapshots and blobs, no snapshot twice in a row.                *)
THEOREM ChainSurvivesPowerLoss ==
  Dependable => (Spec => [](ChainIntact /\ CommittedComplete /\ NoDuplicateHead))
<1>1. DInv => ChainIntact /\ CommittedComplete /\ NoDuplicateHead
  BY DEF DInv, IInv, ChainInv, ChainIntact
<1> QED
  BY <1>1, DurabilityInductive, PTL

-----------------------------------------------------------------------------
(* The store implements CaseLog.                                            *)

(* The log of numbered records: as many entries, each one's snapshot at its *)
(* number.                                                                  *)
LEMMA LogEntries ==
  ASSUME NEW C, C \subseteq Commits, Numbered(C)
  PROVE  /\ LogOf(C) \in Seq(Snap) /\ Len(LogOf(C)) = Cardinality(C)
         /\ \A c \in C : LogOf(C)[c.seq] = c.snap
<1> DEFINE n == Cardinality(C)
           At(i) == CHOOSE c \in C : c.seq = i
<1>1. n \in Nat /\ \A c \in C : c.seq \in 1..n
  BY FS_CardinalityType DEF Numbered
<1>2. \A i \in 1..n : At(i) \in C /\ At(i).seq = i
  BY DEF Numbered
<1>3. \A c \in C : At(c.seq) = c
  BY <1>1, <1>2 DEF Numbered
<1>4. \A c \in C : c.snap \in Snap
  BY DEF Commits
<1>5. LogOf(C) = [i \in 1..n |-> At(i).snap]
  BY DEF LogOf
<1> HIDE DEF n, At
<1>6. LogOf(C) \in [1..n -> Snap]
  BY <1>2, <1>4, <1>5
<1>7. LogOf(C) \in Seq(Snap) /\ Len(LogOf(C)) = n
  BY <1>1, <1>6
<1>8. \A c \in C : LogOf(C)[c.seq] = c.snap
  BY <1>1, <1>3, <1>5
<1> QED
  BY <1>7, <1>8 DEF n

(* A log is known by the numbers and the snapshots of its records.          *)
LEMMA LogIs ==
  ASSUME NEW C, C \subseteq Commits, Numbered(C),
         NEW s \in Seq(Snap), Len(s) = Cardinality(C), \A c \in C : s[c.seq] = c.snap
  PROVE  LogOf(C) = s
<1>1. LogOf(C) \in Seq(Snap) /\ Len(LogOf(C)) = Len(s)
      /\ \A c \in C : LogOf(C)[c.seq] = c.snap
  BY LogEntries
<1>2. \A i \in 1..Len(s) : LogOf(C)[i] = s[i]
  <2>1. \A i \in 1..Len(s) : \E c \in C : c.seq = i
    BY DEF Numbered
  <2> QED
    BY <1>1, <2>1
<1> QED
  BY <1>1, <1>2, SeqEqual

(* A new record appends its snapshot to the log ...                         *)
LEMMA LogAppends ==
  ASSUME NEW C, C \subseteq Commits, Numbered(C), NEW r \in Commits,
         r.seq = Cardinality(C) + 1, Numbered(C \cup {r}),
         Cardinality(C \cup {r}) = Cardinality(C) + 1
  PROVE  LogOf(C \cup {r}) = Append(LogOf(C), r.snap)
<1> DEFINE s == LogOf(C)
           t == Append(s, r.snap)
<1>1. s \in Seq(Snap) /\ Len(s) = Cardinality(C) /\ \A c \in C : s[c.seq] = c.snap
  BY LogEntries
<1>2. \A c \in C : c.seq \in 1..Len(s)
  BY <1>1 DEF Numbered
<1>3. r.snap \in Snap
  BY DEF Commits
<1> HIDE DEF s
<1>4. /\ t \in Seq(Snap) /\ Len(t) = Len(s) + 1
      /\ \A i \in 1..Len(s) : t[i] = s[i]
      /\ t[Len(s) + 1] = r.snap
  BY <1>1, <1>3, AppendProperties
<1> HIDE DEF t
<1>5. \A c \in C \cup {r} : t[c.seq] = c.snap
  <2>1. r.seq = Len(s) + 1
    BY <1>1
  <2>2. \A c \in C : t[c.seq] = c.snap
    BY <1>1, <1>2, <1>4
  <2>3. t[r.seq] = r.snap
    BY <1>4, <2>1
  <2> QED
    BY <2>2, <2>3
<1>6. LogOf(C \cup {r}) = t
  BY <1>1, <1>4, <1>5, LogIs
<1> QED
  BY <1>6 DEF t, s

(* ... and the loss of the head shortens it by one.                         *)
LEMMA LogLoses ==
  ASSUME NEW C, C \subseteq Commits, Numbered(C), NEW h \in C, h.seq = Cardinality(C)
  PROVE  LogOf(C \ {h}) = SubSeq(LogOf(C), 1, Cardinality(C) - 1)
<1> DEFINE s == LogOf(C)
           n == Cardinality(C)
           t == SubSeq(s, 1, n - 1)
<1>1. s \in Seq(Snap) /\ Len(s) = n /\ \A c \in C : s[c.seq] = c.snap
  BY LogEntries
<1>2. n \in Nat /\ h.seq = n /\ \A c \in C : c.seq \in 1..n
  BY FS_CardinalityType DEF Numbered
<1>3. \A c \in C \ {h} : c.seq # n
  BY <1>2 DEF Numbered
<1>4. Numbered(C \ {h}) /\ Cardinality(C \ {h}) = n - 1
  BY NumberLost
<1> HIDE DEF s, n
<1>5. n - 1 \in Nat /\ \A c \in C \ {h} : c.seq \in 1..n - 1
  BY <1>2, <1>3
<1>6. t \in Seq(Snap) /\ Len(t) = n - 1 /\ \A i \in 1..n - 1 : t[i] = s[i]
  <2>1. 1 \in 1..Len(s) + 1 /\ n - 1 \in 1 - 1 .. Len(s)
    BY <1>1, <1>2, <1>5
  <2>2. t \in Seq(Snap) /\ Len(t) = n - 1
    BY <1>1, <1>5, <2>1, SubSeqProperties
  <2>3. \A i \in 1..n - 1 : t[i] = s[i]
    BY <1>1, <1>5
  <2> QED
    BY <2>2, <2>3
<1> HIDE DEF t
<1>7. \A c \in C \ {h} : t[c.seq] = c.snap
  BY <1>1, <1>5, <1>6
<1>8. LogOf(C \ {h}) = t
  BY <1>4, <1>6, <1>7, LogIs
<1> QED
  BY <1>8 DEF t, s, n

(* How many entries are safe: the highest number among the records.         *)
LEMMA SafeIs ==
  ASSUME NEW C, C \subseteq Commits, NEW a \in C, \A c \in C : c.seq <= a.seq
  PROVE  SafeOf(C) = a.seq
<1>1. \A c \in C : c.seq \in Nat
  BY DEF Commits
<1> DEFINE top(n) == n \in {c.seq : c \in C} /\ \A c \in C : c.seq <= n
<1>2. top(a.seq)
  OBVIOUS
<1>3. \A n : top(n) => n = a.seq
  BY <1>1
<1>4. SafeOf(C) = CHOOSE n \in {c.seq : c \in C} : \A c \in C : c.seq <= n
  BY DEF SafeOf
<1>5. top(SafeOf(C))
  BY <1>2, <1>4
<1> QED
  BY <1>3, <1>5

(* The state of the store is one of the log: an entry per record, and the   *)
(* acknowledged entries are a prefix that ends with a record.               *)
LEMMA SafeInLog ==
  ASSUME NEW C, C \subseteq Commits, Numbered(C), NEW A, A \subseteq C,
         A # {} => \E a \in A : \A c \in A : c.seq <= a.seq
  PROVE  SafeOf(A) \in 0..Cardinality(C)
<1>1. CASE A = {}
  BY <1>1, FS_CardinalityType DEF SafeOf, Numbered
<1>2. CASE A # {}
  <2>1. PICK a \in A : \A c \in A : c.seq <= a.seq
    BY <1>2
  <2>2. SafeOf(A) = a.seq
    BY <2>1, SafeIs
  <2> QED
    BY <2>1, <2>2, FS_CardinalityType DEF Numbered
<1> QED
  BY <1>1, <1>2

(* Telling a caller of the head acknowledges the whole log.                 *)
LEMMA HeadAcknowledged ==
  ASSUME DInv, TypeOK, commits' = commits,
         NEW h \in Heads(commits), h \in commits, acked' = acked \cup {h}
  PROVE  [Log!Next]_Log!vars
<1> DEFINE n == Cardinality(commits)
<1>1. n \in Nat /\ h.seq = n /\ Len(LogOf(commits)) = n
  BY HeadNumber, LogEntries DEF DInv, TypeOK
<1>2. SafeOf(acked') = n
  <2>1. acked' \subseteq Commits /\ \A c \in acked' : c.seq <= h.seq
    BY DEF DInv, AckedKept, RecordsSynced, TypeOK, Heads
  <2> QED
    BY <1>1, <2>1, SafeIs
<1>3. SafeOf(acked) \in 0..n
  BY SafeInLog DEF DInv, AckedKept, RecordsSynced, TypeOK
<1>4. (SafeOf(acked))' = SafeOf(acked') /\ (LogOf(commits))' = LogOf(commits)
  BY DEF SafeOf, LogOf
<1> HIDE DEF n
<1>5. CASE SafeOf(acked) = n
  BY <1>2, <1>4, <1>5 DEF Log!vars
<1>6. CASE SafeOf(acked) # n
  <2>1. n \in SafeOf(acked) + 1 .. n /\ n \in 0..n
    BY <1>1, <1>3, <1>6
  <2> QED
    BY <1>1, <1>2, <1>4, <2>1 DEF Log!Next, Log!Acknowledge
<1> QED
  BY <1>5, <1>6

(* Publishing a record appends a snapshot that is not the head already.     *)
LEMMA RecordAppends ==
  ASSUME DInv, TypeOK, NEW p \in Proc, PublishCommit(p)
  PROVE  [Log!Next]_Log!vars
<1> DEFINE r == Record(p)
           C == commits
<1>1. pc[p] = "rename" /\ commits' = C \cup {r} /\ acked' = acked
      /\ C \subseteq Commits /\ Numbered(C)
  BY DEF PublishCommit, Goto, DInv, TypeOK
<1>2. req[p] \in Request /\ txn[p].base.id \in Nat /\ txn[p].base.seq \in Nat /\ nextId \in Nat
  BY <1>1 DEF TypeOK, Locked, Writing, Txn, Commits, Root
<1>3. r \in Commits /\ r.snap = req[p].snap /\ r.snap \in Snap
  BY <1>2, EmptyTypes DEF Record, Commits
<1>4. r.seq = Cardinality(C) + 1 /\ Numbered(C \cup {r}) /\ Cardinality(C \cup {r}) = Cardinality(C) + 1
  BY RecordKeeps
<1>5. txn[p].base \in Heads(C) /\ Expects(req[p], txn[p].base) /\ ~IsRetry(req[p], txn[p].base)
  BY <1>1 DEF DInv, IInv, BaseInv, Writing
<1>6. (SafeOf(acked))' = SafeOf(acked) /\ (LogOf(commits))' = LogOf(C \cup {r})
  BY <1>1 DEF SafeOf, LogOf
<1> HIDE DEF r, C
<1>7. LogOf(C \cup {r}) = Append(LogOf(C), r.snap)
  BY <1>1, <1>3, <1>4, LogAppends
<1>8. LogOf(C) # <<>> => LogOf(C)[Len(LogOf(C))] # r.snap
  <2> SUFFICES ASSUME LogOf(C) # <<>> PROVE LogOf(C)[Len(LogOf(C))] # r.snap
    OBVIOUS
  <2> DEFINE h == txn[p].base
  <2>1. /\ LogOf(C) \in Seq(Snap) /\ Len(LogOf(C)) = Cardinality(C)
        /\ \A c \in C : LogOf(C)[c.seq] = c.snap
    BY <1>1, LogEntries
  <2>2. C # {}
    <3>1. C = {} => Len(LogOf(C)) = 0
      BY <2>1, FS_EmptySet
    <3>2. Len(LogOf(C)) = 0 => LogOf(C) = <<>>
      BY <2>1, EmptySeq
    <3> QED
      BY <3>1, <3>2
  <2>3. h \in C /\ h.seq = Cardinality(C) /\ h # Root
    BY <1>1, <1>5, <2>2, HeadNumber, HeadsType
  <2>4. h.snap # r.snap
    BY <1>3, <1>5, <2>3 DEF Expects, IsRetry
  <2> QED
    BY <2>1, <2>3, <2>4
<1> QED
  BY <1>3, <1>6, <1>7, <1>8 DEF Log!Next, Log!AppendSnapshot, C

(* A power loss is a loss of the head, which was not acknowledged.          *)
LEMMA PowerLoses ==
  ASSUME DInv, TypeOK, TypeOK', PowerLoss
  PROVE  [Log!Next]_Log!vars
<1> DEFINE n == Cardinality(commits)
<1>1. DInv' /\ acked' = acked
      /\ \/ commits' = commits
         \/ \E h \in commits : h.seq = n /\ commits' = commits \ {h}
  BY PowerKeeps
<1>2. (SafeOf(acked))' = SafeOf(acked) /\ (LogOf(commits))' = LogOf(commits')
  BY <1>1 DEF SafeOf, LogOf
<1>3. CASE commits' = commits
  BY <1>2, <1>3 DEF Log!vars
<1>4. ASSUME NEW h \in commits, h.seq = n, commits' = commits \ {h} PROVE Log!Next
  <2>1. commits \subseteq Commits /\ Numbered(commits)
    BY DEF DInv, TypeOK
  <2>2. LogOf(commits') = SubSeq(LogOf(commits), 1, n - 1)
    BY <1>4, <2>1, LogLoses
  <2>3. Len(LogOf(commits)) = n /\ n \in Nat /\ n \in 1..n
    BY <1>4, <2>1, LogEntries, FS_CardinalityType DEF Numbered
  <2>4. SafeOf(acked) \in 0..n - 1
    <3>1. Cardinality(commits') = n - 1
      BY <1>4, <2>1, NumberLost
    <3>2. Numbered(commits') /\ commits' \subseteq Commits
      BY <1>4, <2>1, NumberLost
    <3>3. acked \subseteq commits' /\ (acked # {} => \E a \in acked : \A c \in acked : c.seq <= a.seq)
      BY <1>1 DEF DInv, AckedKept, RecordsSynced
    <3>4. SafeOf(acked) \in 0..Cardinality(commits')
      BY <3>2, <3>3, SafeInLog
    <3> QED
      BY <3>1, <3>4
  <2> HIDE DEF n
  <2>5. n - 1 \in SafeOf(acked) .. n /\ n - 1 \in 0..n
    BY <2>3, <2>4
  <2> QED
    BY <1>2, <2>2, <2>3, <2>5 DEF Log!Next, Log!Lose
<1> QED
  BY <1>1, <1>3, <1>4

(* The case store implements the append-only log its callers rely on: the   *)
(* log only grows, a snapshot is never appended to itself, and a power loss *)
(* takes nothing that was acknowledged.                                     *)
THEOREM StoreImplementsLog == Dependable => (Spec => ImplementsCaseLog)
<1> SUFFICES ASSUME Dependable PROVE Spec => ImplementsCaseLog
  OBVIOUS
<1>1. ASSUME Init PROVE Log!Init
  <2>1. Cardinality({}) = 0
    BY FS_EmptySet
  <2> QED
    BY <1>1, <2>1 DEF Init, Log!Init, LogOf, SafeOf
<1>2. ASSUME TypeOK, TypeOK', DInv, [Next]_vars PROVE [Log!Next]_Log!vars
  <2>1. CASE PowerLoss
    BY <1>2, <2>1, PowerLoses
  <2>2. ASSUME NEW p \in Proc, IdempotentRetry(p) \/ SyncCommits(p) PROVE [Log!Next]_Log!vars
    <3>1. PICK h \in Heads(commits) : h \in commits /\ acked' = acked \cup {h}
      BY <1>2, <2>2, RetryKeeps, SyncKeeps
    <3>2. commits' = commits
      BY <2>2 DEF IdempotentRetry, SyncCommits, seen
    <3> QED
      BY <1>2, <3>1, <3>2, HeadAcknowledged
  <2>3. ASSUME NEW p \in Proc, PublishCommit(p) PROVE [Log!Next]_Log!vars
    BY <1>2, <2>3, RecordAppends
  <2>4. ASSUME ~PowerLoss, \A p \in Proc : ~IdempotentRetry(p) /\ ~SyncCommits(p) /\ ~PublishCommit(p)
        PROVE  UNCHANGED Log!vars
    <3>1. CASE \E p \in Proc : RenameBlob(p) \/ SyncBlob(p) \/ PublishSnapshot(p) \/ SyncSnapshots(p)
      <4>1. commits' = commits /\ acked' = acked
        BY <3>1 DEF RenameBlob, SyncBlob, PublishSnapshot, SyncSnapshots, seen, history
      <4> QED
        BY <4>1 DEF Log!vars, LogOf, SafeOf
    <3>2. CASE \A p \in Proc : ~RenameBlob(p) /\ ~SyncBlob(p) /\ ~PublishSnapshot(p) /\ ~SyncSnapshots(p)
      <4>1. commits' = commits /\ acked' = acked
        BY <1>2, <2>4, <3>2, QuietSteps DEF Quiet
      <4> QED
        BY <4>1 DEF Log!vars, LogOf, SafeOf
    <3> QED
      BY <3>1, <3>2
  <2> QED
    BY <2>1, <2>2, <2>3, <2>4
<1> QED
  BY <1>1, <1>2, TypeCorrect, DurabilityInductive, PTL DEF Spec, ImplementsCaseLog, Log!Spec
==============================================================================
