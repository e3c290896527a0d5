----------------------------- MODULE Coordinator -----------------------------
(***************************************************************************)
(* The recovery coordinator of internal/recovery/coordinator: several      *)
(* callers move one case through its workflow.  A call loads the head of   *)
(* the case, decides, builds the next snapshot in memory and hands it to   *)
(* the case store with the commit it was built on; nothing is locked in    *)
(* between.  The store is a CaseLog: a commit id is a position in the log, *)
(* and the caller of a commit may never learn that it happened.            *)
(*                                                                         *)
(* Abstracted: documents are named, not spelled out.  Evidence is named by *)
(* its kind and by the commit it was acquired on (its id is a hash), a     *)
(* finding by the evidence it rests on, an event by its content and the    *)
(* caller that made it (its id is random).                                 *)
(***************************************************************************)
EXTENDS Naturals, Sequences, FiniteSets

CONSTANTS Client,     \* concurrent callers of one case
          Actor,      \* actor types a caller may claim
          AcqReq,     \* acquisition request ids
          BootReq,    \* Boot Doctor request ids
          ConsultReq, \* consultation request ids
          Body,       \* what a consultation says
          Command,    \* command ids a caller may set
          NoId,       \* no request, command or plan
          Plan,       \* repair plans
          Rank,       \* the lexicographic order of evidence ids, by source
          MaxTime,    \* bound on the clock
          MaxCommits, \* bound on the length of the log
          Faults      \* "unknown", "crash", "power"

ASSUME CoordinatorAssumption ==
  /\ NoId \notin AcqReq \cup BootReq \cup ConsultReq \cup Command \cup Plan
  /\ MaxTime \in Nat /\ MaxCommits \in Nat
  /\ Rank \in [0..MaxCommits -> Nat]
  /\ Faults \subseteq {"unknown", "crash", "power"}

VARIABLES log,    \* the committed snapshots of the case
          safe,   \* how many of them some caller was told are committed
          pc,     \* per client: where its call is
          job,    \* per client: the call in progress
          reply   \* what the last step returned to its caller, if it did

vars == <<log, safe, pc, job, reply>>

States   == {"none", "evidence_collected", "analyzed", "plan_proposed",
             "failed", "cancelled"}
Terminal == {"failed", "cancelled"}
Kinds    == {"observation", "topology"}
Evidence == [kind : Kinds \cup {"initial"}, source : Nat]
Initial  == [kind |-> "initial", source |-> 0]

Event == [type : {"case_created", "legacy_case_adopted", "analysis_committed",
                  "plan_committed", "case_failed", "case_cancelled"},
          prev : States \cup {"created"}, next : States, actor : Actor,
          rev : Nat, parent : Nat, command : Command \cup BootReq \cup {NoId},
          refs : SUBSET Evidence, plan : Plan \cup {NoId},
          by : Client, at : Nat]
Acquisition  == [req : AcqReq, kind : Kinds, source : Nat,
                 inputs : SUBSET Evidence, added : Evidence, by : Client]
Consultation == [req : ConsultReq, body : Body, source : Nat]
Snapshot == [state : States, rev : Nat, at : Nat, events : SUBSET Event,
             evidence : SUBSET Evidence, findings : SUBSET Evidence,
             plan : Plan \cup {NoId}, acqs : SUBSET Acquisition,
             consults : SUBSET Consultation]

(* What the legacy importer produces: evidence and no workflow.             *)
Imported == [state |-> "none", rev |-> 0, at |-> 0, events |-> {},
             evidence |-> {Initial}, findings |-> {}, plan |-> NoId,
             acqs |-> {}, consults |-> {}]

Store == INSTANCE CaseLog WITH Snap <- Snapshot

Ops      == {"workflow", "create", "adopt", "analysis", "plan", "failed", "cancelled",
             "acquire", "consult", "boot"}
Request  == AcqReq \cup BootReq \cup ConsultReq \cup {NoId}
Statuses == {"ok", "idempotent", "busy", "conflict", "exists", "transition", "actor",
             "duplicate", "missing", "notfound", "argument", "invalid", "failed",
             "unknown"}

(* parent 0: the case must not exist yet.  refs, pinned, actor and command  *)
(* are a Boot Doctor call's, commit is what the store returned.             *)
Job   == [op : Ops \cup {"none"}, req : Request, parent : Nat, next : Snapshot,
          refs : SUBSET Evidence, pinned : BOOLEAN, actor : Actor \cup {NoId},
          command : Command \cup {NoId}, commit : Nat]
NoJob == [op |-> "none", req |-> NoId, parent |-> 0, next |-> Imported, refs |-> {},
          pinned |-> FALSE, actor |-> NoId, command |-> NoId, commit |-> 0]

(* kind and refs: what an acquisition or Boot Doctor request asked for.     *)
Reply   == [op : Ops, req : Request, kind : Kinds \cup {NoId},
            refs : SUBSET Evidence, status : Statuses, commit : Nat]
NoReply == [op |-> "none", req |-> NoId, kind |-> NoId, refs |-> {},
            status |-> "none", commit |-> 0]

Latest == log[Len(log)]

-----------------------------------------------------------------------------
(* Workflow rules shared by the coordinator (transitions.go) and the store  *)
(* (coordinator_event_semantics.go).                                        *)

Transition(type, prev, next) ==
  CASE type = "case_created"        -> prev = "created" /\ next = "evidence_collected"
    [] type = "legacy_case_adopted" -> prev = "none" /\ next = "evidence_collected"
    [] type = "analysis_committed"  -> /\ prev \in {"evidence_collected", "analyzed"}
                                       /\ next = "analyzed"
    [] type = "plan_committed"      -> prev = "analyzed" /\ next = "plan_proposed"
    [] type = "case_failed"         -> prev \in States \ (Terminal \cup {"none"}) /\ next = "failed"
    [] type = "case_cancelled"      -> prev \in States \ (Terminal \cup {"none"}) /\ next = "cancelled"

MayEmit(actor, type) ==
  CASE type \in {"case_created", "legacy_case_adopted"} -> actor \in {"system", "technician"}
    [] type = "analysis_committed" -> actor \in {"system", "deterministic_analyzer"}
    [] OTHER -> actor \in {"system", "technician", "deterministic_analyzer"}

(* Snapshot.Validate, as far as it relates documents to each other.         *)
EventAt(s, r) == CHOOSE e \in s.events : e.rev = r
Acquired(s)   == {a.added : a \in s.acqs}

RevisionsContiguous(s) ==
  /\ Cardinality(s.events) = s.rev
  /\ {e.rev : e \in s.events} = 1..s.rev

HistoryChained(s) ==
  \A r \in 2..s.rev : /\ EventAt(s, r).prev = EventAt(s, r - 1).next
                      /\ EventAt(s, r).at >= EventAt(s, r - 1).at

EventsAuthorised(s) ==
  \A e \in s.events :
    /\ Transition(e.type, e.prev, e.next)
    /\ MayEmit(e.actor, e.type)
    /\ (e.rev = 1) <=> (e.type \in {"case_created", "legacy_case_adopted"})
    /\ (e.parent = 0) <=> (e.type = "case_created")

ReferencesExact(s) ==
  \A e \in s.events :
    CASE e.rev = 1                     -> e.refs = s.evidence \ Acquired(s)
      [] e.type = "analysis_committed" -> e.refs # {} /\ e.refs \subseteq s.findings
      [] OTHER                         -> e.plan = s.plan

FindingsAudited(s) ==
  /\ s.findings \subseteq s.evidence
  /\ s.findings \subseteq UNION {e.refs : e \in {x \in s.events : x.type = "analysis_committed"}}
  /\ s.plan # NoId => \E e \in s.events : e.type = "plan_committed" /\ e.plan = s.plan

StateFits(s) ==
  /\ EventAt(s, s.rev).next = s.state
  /\ EventAt(s, s.rev).at = s.at
  /\ s.state = "evidence_collected" => s.findings = {} /\ s.plan = NoId
  /\ s.state = "analyzed" => s.findings # {} /\ s.plan = NoId
  /\ s.state = "plan_proposed" => s.findings # {} /\ s.plan # NoId

OriginsUnique(s) ==
  /\ \A a, b \in s.acqs : (a.req = b.req \/ a.added = b.added) => a = b
  /\ \A a \in s.acqs : a.inputs \cup {a.added} \subseteq s.evidence
  /\ \A x, y \in s.consults : x.req = y.req => x = y

Valid(s) ==
  IF s.state = "none"
  THEN s.events = {} /\ s.findings = {} /\ s.acqs = {} /\ s.consults = {}
  ELSE /\ RevisionsContiguous(s) /\ HistoryChained(s) /\ EventsAuthorised(s)
       /\ ReferencesExact(s) /\ FindingsAudited(s) /\ StateFits(s)
       /\ OriginsUnique(s)

(* validateAcquisitionCommitProvenance for a snapshot that follows chain.   *)
Provenance(s, chain) ==
  \A a \in s.acqs : /\ a.source \in 1..Len(chain)
                    /\ a.inputs \subseteq chain[a.source].evidence
                    /\ a.added \notin chain[a.source].evidence

-----------------------------------------------------------------------------
Init ==
  /\ log \in {<<>>, <<Imported>>}
  /\ safe = Len(log)
  /\ pc = [c \in Client |-> "idle"]
  /\ job = [c \in Client |-> NoJob]
  /\ reply = NoReply

Told(op, req, status, commit) ==
  [NoReply EXCEPT !.op = op, !.req = req, !.status = status, !.commit = commit]

(* A call ends at once, without a write: refused, or answered from the head. *)
Answer(r) == reply' = r /\ UNCHANGED <<pc, job>>

(* A call in progress ends.                                                 *)
End(c, status, commit) ==
  /\ pc' = [pc EXCEPT ![c] = "idle"]
  /\ job' = [job EXCEPT ![c] = NoJob]
  /\ reply' = Told(job[c].op, job[c].req, status, commit)

(* The built snapshot is validated and then handed to the store.            *)
Submit(c, op, req, parent, next) ==
  IF Valid(next)
  THEN /\ pc' = [pc EXCEPT ![c] = "commit"]
       /\ job' = [job EXCEPT ![c] = [NoJob EXCEPT !.op = op, !.req = req,
                                       !.parent = parent, !.next = next]]
       /\ reply' = NoReply
  ELSE /\ pc' = [pc EXCEPT ![c] = "idle"]
       /\ job' = [job EXCEPT ![c] = NoJob]
       /\ reply' = Told(op, req, "invalid", 0)

(* Mutant: the wall clock is trusted.                                       *)
WallClock(s, now) == now

(* Wall clocks are not trusted: a timestamp never precedes the last one.    *)
MonotonicNow(s, now) == IF now < s.at THEN s.at ELSE now

(* appendEvent, setWorkflow and stampAuditEvent.                            *)
Advance(s, e, now) ==
  LET at == MonotonicNow(s, now) IN
    [s EXCEPT !.state = e.next, !.rev = @ + 1, !.at = at,
              !.events = @ \cup {[e EXCEPT !.rev = s.rev + 1, !.at = at]}]

NewEvent(c, type, prev, next, actor, parent) ==
  [type |-> type, prev |-> prev, next |-> next, actor |-> actor, rev |-> 0,
   parent |-> parent, command |-> NoId, refs |-> {}, plan |-> NoId, by |-> c, at |-> 0]

(* validateTransition.                                                      *)
Allowed(e) == Transition(e.type, e.prev, e.next) /\ MayEmit(e.actor, e.type)
Refusal(e) == IF Transition(e.type, e.prev, e.next) THEN "actor" ELSE "transition"

(* The commits a caller may name: the head or, out of date, an earlier one. *)
Known == 1..Len(log)

-----------------------------------------------------------------------------
(* A call is refused before it reads the case: its context has ended, or an *)
(* argument is malformed.                                                   *)
RefusedAtOnce(c, op, req) ==
  /\ pc[c] = "idle"
  /\ \E status \in {"failed", "argument"} : Answer(Told(op, req, status, 0))
  /\ UNCHANGED <<log, safe>>

(* Creating a case: no head is read, the store is asked to refuse one.      *)
CreateCase(c, actor, now) ==
  /\ pc[c] = "idle"
  /\ LET e == [NewEvent(c, "case_created", "created", "evidence_collected", actor, 0)
                 EXCEPT !.refs = Imported.evidence]
     IN \/ ~Allowed(e) /\ Answer(Told("create", NoId, Refusal(e), 0))
        \/ Allowed(e) /\ Submit(c, "create", NoId, 0, Advance(Imported, e, now))
  /\ UNCHANGED <<log, safe>>

(* loadExpected fails: no such case, or its head is not the commit that the *)
(* workflow command was decided on.                                         *)
Stale(c) ==
  /\ pc[c] = "idle"
  /\ log = <<>> \/ \E expected \in Known : expected # Len(log)
  /\ Answer(Told("workflow", NoId, IF log = <<>> THEN "notfound" ELSE "conflict", 0))
  /\ UNCHANGED <<log, safe>>

AdoptLegacyCase(c, actor, now) ==
  /\ pc[c] = "idle"
  /\ log # <<>>
  /\ LET e == [NewEvent(c, "legacy_case_adopted", "none", "evidence_collected",
                        actor, Len(log)) EXCEPT !.refs = Latest.evidence]
     IN \/ Latest.state # "none" /\ Answer(Told("adopt", NoId, "transition", 0))
        \/ /\ Latest.state = "none"
           /\ Submit(c, "adopt", NoId, Len(log), Advance(Latest, e, now))
  /\ UNCHANGED <<log, safe>>

(* A workflow command on the head: the event e leads to s.                  *)
Move(c, op, s, e, now) ==
  /\ pc[c] = "idle"
  /\ \/ ~Allowed(e) /\ Answer(Told("workflow", NoId, Refusal(e), 0))
     \/ Allowed(e) /\ Submit(c, op, NoId, Len(log), Advance(s, e, now))
  /\ UNCHANGED <<log, safe>>

Topologies(s) == {e \in s.evidence : e.kind = "topology"}

(* Findings are only added.  Those that rest on a topology are the Boot     *)
(* Doctor's.                                                                *)
CommitAnalysis(c, actor, now) ==
  /\ log # <<>>
  /\ \E f \in Latest.evidence \ Topologies(Latest) :
       Move(c, "analysis", [Latest EXCEPT !.findings = @ \cup {f}],
            [NewEvent(c, "analysis_committed", Latest.state, "analyzed", actor, Len(log))
               EXCEPT !.refs = {f}], now)

CommitPlan(c, actor, now) ==
  /\ log # <<>>
  /\ \E p \in Plan :
       Move(c, "plan", [Latest EXCEPT !.plan = p],
            [NewEvent(c, "plan_committed", Latest.state, "plan_proposed", actor, Len(log))
               EXCEPT !.plan = p], now)

FailCase(c, actor, now) ==
  /\ log # <<>>
  /\ Move(c, "failed", Latest,
          [NewEvent(c, "case_failed", Latest.state, "failed", actor, Len(log))
             EXCEPT !.plan = Latest.plan], now)

CancelCase(c, actor, now) ==
  /\ log # <<>>
  /\ Move(c, "cancelled", Latest,
          [NewEvent(c, "case_cancelled", Latest.state, "cancelled", actor, Len(log))
             EXCEPT !.plan = Latest.plan], now)

-----------------------------------------------------------------------------
(* ExecuteReadOperation and ResolveWindowsBootTopology: the workflow state  *)
(* is checked first, then a replay is looked for, then the expected commit. *)
MayAcquire(actor)  == actor \in {"system", "technician"}
OpenForEvidence(s) == s.state \in {"evidence_collected", "analyzed"}

AcquireTold(req, kind, status, commit) ==
  [Told("acquire", req, status, commit) EXCEPT !.kind = kind]

AcquireRefused(c, actor, req, kind) ==
  /\ pc[c] = "idle"
  /\ \/ ~MayAcquire(actor) /\ Answer(AcquireTold(req, kind, "actor", 0))
     \/ MayAcquire(actor) /\ log = <<>> /\ Answer(AcquireTold(req, kind, "notfound", 0))
     \/ /\ MayAcquire(actor) /\ log # <<>> /\ ~OpenForEvidence(Latest)
        /\ Answer(AcquireTold(req, kind, "transition", 0))
  /\ UNCHANGED <<log, safe>>

AcquireAgain(c, actor, req, kind) ==
  /\ pc[c] = "idle"
  /\ MayAcquire(actor) /\ log # <<>> /\ OpenForEvidence(Latest)
  /\ \E a \in Latest.acqs :
       /\ a.req = req
       /\ Answer(IF a.kind = kind THEN AcquireTold(req, kind, "idempotent", Len(log))
                 ELSE AcquireTold(req, kind, "duplicate", 0))
  /\ UNCHANGED <<log, safe>>

Acquire(c, actor, req, kind, expected) ==
  /\ pc[c] = "idle"
  /\ MayAcquire(actor) /\ log # <<>> /\ OpenForEvidence(Latest)
  /\ \A a \in Latest.acqs : a.req # req
  /\ LET added == [kind |-> kind, source |-> expected]
         acq == [req |-> req, kind |-> kind, source |-> expected,
                 inputs |-> Latest.evidence, added |-> added, by |-> c]
     IN \/ expected # Len(log) /\ Answer(AcquireTold(req, kind, "conflict", 0))
        \/ /\ expected = Len(log)
           /\ Submit(c, "acquire", req, expected,
                     [Latest EXCEPT !.evidence = @ \cup {added}, !.acqs = @ \cup {acq}])
  /\ UNCHANGED <<log, safe>>

(* CommitAgentConsultation: an omitted source commit (0) is filled in with  *)
(* the head before a replay is looked for.                                  *)
Consult(c, actor, req, body, source, expected) ==
  /\ pc[c] = "idle"
  /\ log # <<>>
  /\ IF actor = "deterministic_analyzer" \/ Latest.state # "analyzed"
     THEN Answer(Told("consult", req, IF Latest.state = "analyzed" THEN "actor"
                                         ELSE "transition", 0))
     ELSE LET cons == [req |-> req, body |-> body,
                       source |-> IF source = 0 THEN Len(log) ELSE source]
              recorded == {x \in Latest.consults : x.req = req}
          IN \/ cons \in recorded /\ Answer(Told("consult", req, "idempotent", Len(log)))
             \/ recorded \ {cons} # {} /\ Answer(Told("consult", req, "duplicate", 0))
             \/ /\ recorded = {} /\ expected # Len(log)
                /\ Answer(Told("consult", req, "conflict", 0))
             \/ /\ recorded = {} /\ expected = Len(log)
                /\ Submit(c, "consult", req, expected,
                          [Latest EXCEPT !.consults = @ \cup {cons}])
  /\ UNCHANGED <<log, safe>>

-----------------------------------------------------------------------------
(* CommitBootDoctorAnalysis reads the head, analyses a topology, and calls  *)
(* CommitAnalysis, which reads the head again.                              *)
(* selectTopologyEvidence: the last one in the order of evidence ids.       *)
DefaultTopology(s) ==
  {e \in Topologies(s) : \A x \in Topologies(s) : Rank[x.source] <= Rank[e.source]}

Selected(s, pinned) == IF pinned THEN Topologies(s) ELSE DefaultTopology(s)

(* findBootDoctorReplay: an analysis whose command id is this request.      *)
BootReplays(s, req) == {e \in s.events : e.type = "analysis_committed" /\ e.command = req}

BootDoctorRefused(c, actor, req) ==
  /\ pc[c] = "idle"
  /\ log # <<>>
  /\ \/ actor = "llm_advisor" /\ Answer(Told("boot", req, "actor", 0))
     \/ /\ actor # "llm_advisor" /\ Topologies(Latest) = {}
        /\ Answer(Told("boot", req, "missing", 0))
  /\ UNCHANGED <<log, safe>>

BootDoctorAgain(c, actor, req, pinned) ==
  /\ pc[c] = "idle"
  /\ log # <<>> /\ actor # "llm_advisor"
  /\ BootReplays(Latest, req) # {}
  /\ \E topology \in Selected(Latest, pinned) :
       Answer(IF topology \in Latest.findings
              THEN [Told("boot", req, "idempotent", Len(log)) EXCEPT !.refs = {topology}]
              ELSE Told("boot", req, "duplicate", 0))
  /\ UNCHANGED <<log, safe>>

StartBootDoctor(c, actor, req, command, pinned, expected) ==
  /\ pc[c] = "idle"
  /\ log # <<>> /\ actor # "llm_advisor"
  /\ BootReplays(Latest, req) = {}
  /\ \E topology \in Selected(Latest, pinned) :
       \/ expected # Len(log) /\ Answer(Told("boot", req, "conflict", 0))
       \/ /\ expected = Len(log)
          /\ pc' = [pc EXCEPT ![c] = "analyse"]
          /\ job' = [job EXCEPT ![c] =
               [NoJob EXCEPT !.op = "boot", !.req = req, !.parent = expected,
                  !.refs = {topology}, !.pinned = pinned, !.actor = actor,
                  !.command = command]]
          /\ reply' = NoReply
  /\ UNCHANGED <<log, safe>>

(* Mutant: the head is not compared with the expected commit again.         *)
FinishOnMovedHead(c, now) ==
  /\ pc[c] = "analyse"
  /\ LET j == job[c]
         e == [NewEvent(c, "analysis_committed", Latest.state, "analyzed", j.actor, j.parent)
                 EXCEPT !.refs = j.refs]
     IN /\ Allowed(e)
        /\ Submit(c, "boot", j.req, Len(log),
                  Advance([Latest EXCEPT !.findings = @ \cup j.refs], e, now))
  /\ UNCHANGED <<log, safe>>

FinishBootDoctor(c, now) ==
  /\ pc[c] = "analyse"
  /\ LET j == job[c]
         e == [NewEvent(c, "analysis_committed", Latest.state, "analyzed", j.actor, j.parent)
                 EXCEPT !.refs = j.refs,
                        !.command = IF j.command = NoId THEN j.req ELSE j.command]
     IN \/ j.parent # Len(log) /\ End(c, "conflict", 0)
        \/ j.parent = Len(log) /\ ~Allowed(e) /\ End(c, Refusal(e), 0)
        \/ /\ j.parent = Len(log) /\ Allowed(e)
           /\ Submit(c, "boot", j.req, j.parent,
                     Advance([Latest EXCEPT !.findings = @ \cup j.refs], e, now))
  /\ UNCHANGED <<log, safe>>

-----------------------------------------------------------------------------
(* The commit.  While a client is "published" it holds the case lock.       *)
LockFree == \A c \in Client : pc[c] # "published"

(* The head already is this very snapshot.                                  *)
AlreadyHead(j) == log # <<>> /\ j.parent # 0 /\ Latest = j.next

(* Mutant: the parent of the commit is not checked.                         *)
PublishUnchecked(c) ==
  /\ pc[c] = "commit"
  /\ LockFree
  /\ Len(log) < MaxCommits
  /\ Store!AppendSnapshot(job[c].next)
  /\ pc' = [pc EXCEPT ![c] = "published"]
  /\ job' = [job EXCEPT ![c].commit = Len(log) + 1]
  /\ reply' = NoReply

(* The parent the snapshot was built on is still the head: it is written    *)
(* and becomes visible ...                                                  *)
Publish(c) ==
  /\ pc[c] = "commit"
  /\ LockFree
  /\ ~AlreadyHead(job[c])
  /\ job[c].parent = Len(log)
  /\ Len(log) < MaxCommits
  /\ Provenance(job[c].next, log)
  /\ Store!AppendSnapshot(job[c].next)
  /\ pc' = [pc EXCEPT ![c] = "published"]
  /\ job' = [job EXCEPT ![c].commit = Len(log) + 1]
  /\ reply' = NoReply

(* ... durable, and the lock is released: Commit returns.                   *)
Committed(c) ==
  /\ pc[c] = "published"
  /\ Store!Acknowledge(job[c].commit)
  /\ pc' = [pc EXCEPT ![c] = "returning"]
  /\ reply' = NoReply
  /\ UNCHANGED job

(* A repeated commit returns the head as it is.  Its caller is told that it *)
(* is committed, but nothing is synced: a head whose own sync failed may    *)
(* still go with the power, any other may not.                              *)
CommittedBefore(c) ==
  /\ pc[c] = "commit"
  /\ LockFree
  /\ AlreadyHead(job[c])
  /\ Store!Acknowledge(Len(log)) \/ UNCHANGED <<log, safe>>
  /\ pc' = [pc EXCEPT ![c] = "returning"]
  /\ job' = [job EXCEPT ![c].commit = Len(log)]
  /\ reply' = NoReply

(* Mutant: the view is made from what the head is by now.                   *)
ReturnReloaded(c) ==
  /\ pc[c] = "returning"
  /\ End(c, "ok", Len(log))
  /\ UNCHANGED <<log, safe>>

(* The caller's view is made from its own snapshot and commit.              *)
Return(c) ==
  /\ pc[c] = "returning"
  /\ End(c, "ok", job[c].commit)
  /\ UNCHANGED <<log, safe>>

CommitRefused(c) ==
  /\ pc[c] = "commit"
  /\ LockFree
  /\ ~AlreadyHead(job[c])
  /\ job[c].parent # Len(log)
  /\ End(c, IF job[c].parent = 0 THEN "exists" ELSE "conflict", 0)
  /\ UNCHANGED <<log, safe>>

(* The lock is held by another commit: mapStoreWriteError looks at the head *)
(* to tell a conflict from a busy case.                                     *)
CommitLocked(c) ==
  /\ pc[c] = "commit"
  /\ \E d \in Client \ {c} : pc[d] \in {"commit", "published"}
  /\ End(c, IF job[c].parent # 0 /\ job[c].parent # Len(log) THEN "conflict" ELSE "busy", 0)
  /\ UNCHANGED <<log, safe>>

(* A cancelled context or an i/o error before the commit point.             *)
CallFails(c) ==
  /\ pc[c] \in {"analyse", "commit"}
  /\ End(c, "failed", 0)
  /\ UNCHANGED <<log, safe>>

(* The directory sync after the commit point fails.                         *)
OutcomeUnknown(c) ==
  /\ "unknown" \in Faults
  /\ pc[c] = "published"
  /\ End(c, "unknown", 0)
  /\ UNCHANGED <<log, safe>>

Crash(c) ==
  /\ "crash" \in Faults
  /\ pc[c] # "idle"
  /\ pc' = [pc EXCEPT ![c] = "idle"]
  /\ job' = [job EXCEPT ![c] = NoJob]
  /\ reply' = NoReply
  /\ UNCHANGED <<log, safe>>

PowerLoss ==
  /\ "power" \in Faults
  /\ \E n \in 0..Len(log) : Store!Lose(n)
  /\ pc' = [c \in Client |-> "idle"]
  /\ job' = [c \in Client |-> NoJob]
  /\ reply' = NoReply

-----------------------------------------------------------------------------
Workflow(c) ==
  \/ Stale(c)
  \/ \E actor \in Actor, now \in 0..MaxTime :
       \/ CreateCase(c, actor, now) \/ AdoptLegacyCase(c, actor, now)
       \/ CommitAnalysis(c, actor, now) \/ CommitPlan(c, actor, now)
       \/ FailCase(c, actor, now) \/ CancelCase(c, actor, now)

Enrich(c) ==
  \E actor \in Actor :
    \/ \E req \in AcqReq, kind \in Kinds :
         \/ AcquireRefused(c, actor, req, kind) \/ AcquireAgain(c, actor, req, kind)
         \/ \E expected \in Known : Acquire(c, actor, req, kind, expected)
    \/ \E req \in ConsultReq, body \in Body, source \in Known \cup {0}, expected \in Known :
         Consult(c, actor, req, body, source, expected)

BootDoctor(c) ==
  \/ \E actor \in Actor, req \in BootReq :
       \/ BootDoctorRefused(c, actor, req)
       \/ \E pinned \in BOOLEAN :
            \/ BootDoctorAgain(c, actor, req, pinned)
            \/ \E command \in Command \cup {NoId}, expected \in Known :
                 StartBootDoctor(c, actor, req, command, pinned, expected)
  \/ \E now \in 0..MaxTime : FinishBootDoctor(c, now)

Commit(c) == \/ Publish(c) \/ Committed(c) \/ CommittedBefore(c) \/ Return(c)
             \/ CommitRefused(c) \/ CommitLocked(c) \/ CallFails(c)
             \/ OutcomeUnknown(c) \/ Crash(c)

Refused(c) == \E op \in Ops, req \in Request : RefusedAtOnce(c, op, req)

Call(c) == Workflow(c) \/ Enrich(c) \/ BootDoctor(c) \/ Commit(c) \/ Refused(c)

Next == (\E c \in Client : Call(c)) \/ PowerLoss

Spec == Init /\ [][Next]_vars

-----------------------------------------------------------------------------
(* Properties.                                                              *)

(* Every variable has its type.                                             *)
TypeOK ==
  /\ log \in Seq(Snapshot)
  /\ safe \in 0..Len(log)
  /\ pc \in [Client -> {"idle", "analyse", "commit", "published", "returning"}]
  /\ job \in [Client -> Job]
  /\ reply \in Reply \cup {NoReply}

(* What the coordinator builds on any history passes Snapshot.Validate, and *)
(* the provenance check of the commit: only an adoption claimed by an actor *)
(* that may not adopt is stopped there.                                     *)
NeverInvalid ==
  [][/\ reply'.status = "invalid" =>
          /\ reply'.op = "adopt"
          /\ ~\E c \in Client, actor \in Actor, now \in 0..MaxTime :
                MayEmit(actor, "legacy_case_adopted") /\ AdoptLegacyCase(c, actor, now)
     /\ \A c \in Client : pc[c] = "commit" /\ job[c].parent = Len(log)
          => Provenance(job[c].next, log)]_vars

(* Each commit keeps every document of the one before: concurrent callers   *)
(* never overwrite one another's events, findings, plan, evidence,          *)
(* acquisitions or consultations.                                           *)
Extends(s, t) == /\ s.events \subseteq t.events
                 /\ s.evidence \subseteq t.evidence
                 /\ s.findings \subseteq t.findings
                 /\ s.plan # NoId => t.plan = s.plan
                 /\ s.acqs \subseteq t.acqs
                 /\ s.consults \subseteq t.consults

NothingLost == \A i \in 2..Len(log) : Extends(log[i - 1], log[i])

(* The audit trail names the commits as they happened: an event's parent,   *)
(* and the source of an acquisition, is the commit just before the one that *)
(* introduced it, whatever was committed while the call was under way.      *)
AuditMatchesChain ==
  \A i \in 1..Len(log) :
    LET earlier == IF i = 1 THEN Imported ELSE log[i - 1]
    IN /\ \A e \in log[i].events \ earlier.events : e.parent = i - 1
       /\ \A a \in log[i].acqs \ earlier.acqs : a.source = i - 1

(* A failed or cancelled case is over: calls that were under way when it    *)
(* ended commit nothing after it.                                           *)
TerminalIsFinal == \A i \in 1..Len(log) - 1 : log[i].state \notin Terminal

(* A caller that is told its commit is shown its own snapshot, however far  *)
(* the case has moved on meanwhile.                                         *)
ReplyExact ==
  [][\A c \in Client : pc[c] = "returning" /\ pc'[c] = "idle" /\ reply'.status = "ok"
       => log[reply'.commit] = job[c].next]_vars

(* A Boot Doctor call that names no topology analyses the latest one        *)
(* (coordinator/bootdoctor.go:23).                                          *)
LatestTopology ==
  \A c \in Client : pc[c] = "analyse" /\ ~job[c].pinned =>
    \A t \in job[c].refs : \A e \in Topologies(log[job[c].parent]) : e.source <= t.source
==============================================================================
