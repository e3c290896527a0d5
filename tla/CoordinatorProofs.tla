-------------------------- MODULE CoordinatorProofs --------------------------
(* What holds of Coordinator for every set of callers, requests, evidence   *)
(* orders, faults and bounds.                                               *)
EXTENDS Coordinator, SequenceTheorems, TLAPS

-----------------------------------------------------------------------------
(* Types.                                                                   *)

(* A call under way has an operation; a Boot Doctor's also a request id and *)
(* an actor.                                                                *)
JobTyped == \A c \in Client :
  /\ pc[c] # "idle" => job[c].op \in Ops
  /\ pc[c] = "analyse" => /\ job[c].req \in BootReq
                          /\ job[c].actor \in Actor
                          /\ job[c].parent \in 1..Len(log)

TypeInv == TypeOK /\ JobTyped

(* The values that stand for "none" have the types they are used at.        *)
LEMMA EmptyTypes ==
  /\ Initial \in Evidence
  /\ Imported \in Snapshot
  /\ NoJob \in Job
  BY DEF Initial, Imported, NoJob, Evidence, Snapshot, Job, Request, States, Ops

(* The head of a log that is not empty is a snapshot.                       *)
LEMMA LatestType ==
  ASSUME TypeOK, log # <<>>
  PROVE  Latest \in Snapshot /\ Len(log) \in Nat \ {0}
  BY DEF TypeOK, Latest

(* What a new event may be given.                                           *)
LEMMA StampType ==
  ASSUME NEW e \in Event, NEW rev \in Nat, NEW at \in Nat
  PROVE  [e EXCEPT !.rev = rev, !.at = at] \in Event
  BY DEF Event

(* An event that is applied to a snapshot gives a snapshot.                 *)
LEMMA AdvanceType ==
  ASSUME NEW s \in Snapshot, NEW e \in Event, NEW now \in Nat
  PROVE  Advance(s, e, now) \in Snapshot
  <1>1. MonotonicNow(s, now) \in Nat /\ s.rev \in Nat /\ s.rev + 1 \in Nat
    BY DEF MonotonicNow, Snapshot
  <1>2. [e EXCEPT !.rev = s.rev + 1, !.at = MonotonicNow(s, now)] \in Event
    BY <1>1, StampType
  <1>3. e.next \in States
    BY DEF Event
  <1>4. QED
    BY <1>1, <1>2, <1>3 DEF Advance, Snapshot

(* Answers keep the types.                                                  *)
LEMMA AnswerType ==
  ASSUME TypeInv, NEW r \in Reply, Answer(r), UNCHANGED <<log, safe>>
  PROVE  TypeInv'
  BY DEF TypeInv, TypeOK, JobTyped, Answer

(* What is answered has its type.                                           *)
LEMMA ToldType ==
  ASSUME NEW op \in Ops, NEW req \in Request, NEW status \in Statuses, NEW commit \in Nat
  PROVE  Told(op, req, status, commit) \in Reply
  BY DEF Told, NoReply, Reply

(* So do calls that end ...                                                 *)
LEMMA EndType ==
  ASSUME TypeInv, NEW c \in Client, NEW status \in Statuses, NEW commit \in Nat,
         pc[c] # "idle",
         End(c, status, commit), UNCHANGED <<log, safe>>
  PROVE  TypeInv'
  <1>1. Told(job[c].op, job[c].req, status, commit) \in Reply
    BY ToldType DEF TypeInv, TypeOK, JobTyped, Job
  <1>2. QED
    BY <1>1, EmptyTypes DEF TypeInv, TypeOK, JobTyped, End

(* ... and snapshots that are handed to the store.                          *)
LEMMA SubmitType ==
  ASSUME TypeInv, NEW c \in Client, NEW op \in Ops, NEW req \in Request,
         NEW parent \in Nat, NEW next \in Snapshot,
         Submit(c, op, req, parent, next), UNCHANGED <<log, safe>>
  PROVE  TypeInv'
  <1>1. [NoJob EXCEPT !.op = op, !.req = req, !.parent = parent, !.next = next] \in Job
    BY EmptyTypes DEF Job, NoJob, Ops
  <1>2. Told(op, req, "invalid", 0) \in Reply
    BY ToldType DEF Statuses
  <1>3. TypeOK'
    BY <1>1, <1>2, EmptyTypes DEF TypeInv, TypeOK, Submit
  <1>4. JobTyped'
    <2>1. CASE Valid(next)
      <3>1. job' = [job EXCEPT ![c] = [NoJob EXCEPT !.op = op, !.req = req,
                                         !.parent = parent, !.next = next]]
        BY <2>1 DEF Submit
      <3>2. pc' = [pc EXCEPT ![c] = "commit"]
        BY <2>1 DEF Submit
      <3>3. job'[c].op = op /\ \A d \in Client \ {c} : job'[d] = job[d] /\ pc'[d] = pc[d]
        BY <3>1, <3>2 DEF TypeInv, TypeOK, NoJob
      <3>4. pc'[c] = "commit"
        BY <3>2 DEF TypeInv, TypeOK
      <3>5. QED BY <3>3, <3>4 DEF TypeInv, JobTyped
    <2>2. CASE ~Valid(next)
      BY <2>2 DEF Submit, TypeInv, TypeOK, JobTyped
    <2>3. QED BY <2>1, <2>2
  <1>5. QED BY <1>3, <1>4 DEF TypeInv

(* Each operation on the head keeps the types.                              *)
LEMMA MoveType ==
  ASSUME TypeInv, NEW c \in Client, NEW op \in Ops, NEW s \in Snapshot,
         NEW e \in Event, NEW now \in Nat, Move(c, op, s, e, now)
  PROVE  TypeInv'
  <1>1. Refusal(e) \in Statuses /\ "workflow" \in Ops /\ NoId \in Request /\ Len(log) \in Nat
    BY DEF Refusal, Statuses, Ops, Request, TypeInv, TypeOK
  <1>2. CASE Answer(Told("workflow", NoId, Refusal(e), 0)) /\ UNCHANGED <<log, safe>>
    BY <1>1, <1>2, ToldType, AnswerType
  <1>3. CASE /\ Submit(c, op, NoId, Len(log), Advance(s, e, now))
             /\ UNCHANGED <<log, safe>>
    BY <1>1, <1>3, AdvanceType, SubmitType
  <1>4. QED BY <1>2, <1>3 DEF Move

(* Every operation on the workflow keeps the types ...                      *)
LEMMA WorkflowType ==
  ASSUME TypeInv, NEW c \in Client, Workflow(c)
  PROVE  TypeInv'
  <1> USE DEF Ops, Request, Statuses
  <1>0. /\ 0..MaxTime \subseteq Nat
        /\ {"evidence_collected", "analyzed", "plan_proposed", "failed", "cancelled", "none"}
             \subseteq States
        /\ {} \subseteq Evidence /\ NoId \in Plan \cup {NoId}
    BY CoordinatorAssumption DEF States
  <1>1. CASE Stale(c)
    <2>1. \A x \in {"notfound", "conflict"} : Told("workflow", NoId, x, 0) \in Reply
      BY ToldType
    <2>2. QED BY <1>1, <2>1, AnswerType DEF Stale
  <1>2. ASSUME NEW actor \in Actor, NEW now \in 0..MaxTime, CreateCase(c, actor, now)
        PROVE  TypeInv'
    <2> DEFINE e == [NewEvent(c, "case_created", "created", "evidence_collected", actor, 0)
                       EXCEPT !.refs = Imported.evidence]
    <2>1. e \in Event
      <3>1. Imported.evidence \in SUBSET Evidence
        BY EmptyTypes DEF Snapshot
      <3>2. QED BY <3>1, <1>0 DEF NewEvent, Event
    <2>2. Advance(Imported, e, now) \in Snapshot
      BY <1>0, <2>1, EmptyTypes, AdvanceType
    <2>3. Told("create", NoId, Refusal(e), 0) \in Reply
      BY ToldType DEF Refusal
    <2> HIDE DEF e
    <2>4. \/ Answer(Told("create", NoId, Refusal(e), 0))
          \/ Submit(c, "create", NoId, 0, Advance(Imported, e, now))
      BY <1>2 DEF CreateCase, e
    <2>5. UNCHANGED <<log, safe>>
      BY <1>2 DEF CreateCase
    <2>6. QED BY <2>2, <2>3, <2>4, <2>5, AnswerType, SubmitType
  <1>3. ASSUME NEW actor \in Actor, NEW now \in 0..MaxTime, AdoptLegacyCase(c, actor, now)
        PROVE  TypeInv'
    <2> DEFINE e == [NewEvent(c, "legacy_case_adopted", "none", "evidence_collected",
                              actor, Len(log)) EXCEPT !.refs = Latest.evidence]
    <2>1. Latest \in Snapshot /\ Len(log) \in Nat
      BY <1>3, LatestType DEF AdoptLegacyCase, TypeInv
    <2>2. e \in Event
      <3>1. Latest.evidence \in SUBSET Evidence
        BY <2>1 DEF Snapshot
      <3>2. QED BY <2>1, <3>1, <1>0 DEF NewEvent, Event
    <2>3. Advance(Latest, e, now) \in Snapshot
      BY <1>0, <2>1, <2>2, AdvanceType
    <2>4. Told("adopt", NoId, "transition", 0) \in Reply
      BY ToldType
    <2> HIDE DEF e
    <2>5. \/ Answer(Told("adopt", NoId, "transition", 0))
          \/ Submit(c, "adopt", NoId, Len(log), Advance(Latest, e, now))
      BY <1>3 DEF AdoptLegacyCase, e
    <2>6. UNCHANGED <<log, safe>>
      BY <1>3 DEF AdoptLegacyCase
    <2>7. QED BY <2>1, <2>3, <2>4, <2>5, <2>6, AnswerType, SubmitType
  <1>4. ASSUME NEW actor \in Actor, NEW now \in 0..MaxTime, CommitAnalysis(c, actor, now)
        PROVE  TypeInv'
    <2>1. Latest \in Snapshot /\ Len(log) \in Nat
      BY <1>4, LatestType DEF CommitAnalysis, TypeInv
    <2>2. PICK f \in Latest.evidence :
            Move(c, "analysis", [Latest EXCEPT !.findings = @ \cup {f}],
                 [NewEvent(c, "analysis_committed", Latest.state, "analyzed", actor, Len(log))
                    EXCEPT !.refs = {f}], now)
      BY <1>4 DEF CommitAnalysis
    <2>3. {f} \in SUBSET Evidence /\ Latest.state \in States \cup {"created"}
      BY <2>1, <2>2 DEF Snapshot
    <2>4. [Latest EXCEPT !.findings = @ \cup {f}] \in Snapshot
      BY <2>1, <2>3 DEF Snapshot
    <2>5. [NewEvent(c, "analysis_committed", Latest.state, "analyzed", actor, Len(log))
             EXCEPT !.refs = {f}] \in Event
      BY <2>1, <2>3, <1>0 DEF NewEvent, Event
    <2>6. QED BY <2>2, <2>4, <2>5, <1>0, MoveType
  <1>5. ASSUME NEW actor \in Actor, NEW now \in 0..MaxTime, CommitPlan(c, actor, now)
        PROVE  TypeInv'
    <2>1. Latest \in Snapshot /\ Len(log) \in Nat
      BY <1>5, LatestType DEF CommitPlan, TypeInv
    <2>2. PICK p \in Plan :
            Move(c, "plan", [Latest EXCEPT !.plan = p],
                 [NewEvent(c, "plan_committed", Latest.state, "plan_proposed", actor, Len(log))
                    EXCEPT !.plan = p], now)
      BY <1>5 DEF CommitPlan
    <2>3. Latest.state \in States \cup {"created"}
      BY <2>1 DEF Snapshot
    <2>4. [Latest EXCEPT !.plan = p] \in Snapshot
      BY <2>1 DEF Snapshot
    <2>5. [NewEvent(c, "plan_committed", Latest.state, "plan_proposed", actor, Len(log))
             EXCEPT !.plan = p] \in Event
      BY <2>1, <2>3, <1>0 DEF NewEvent, Event
    <2>6. QED BY <2>2, <2>4, <2>5, <1>0, MoveType
  <1>6. ASSUME NEW actor \in Actor, NEW now \in 0..MaxTime,
               FailCase(c, actor, now) \/ CancelCase(c, actor, now)
        PROVE  TypeInv'
    <2>1. Latest \in Snapshot /\ Len(log) \in Nat
      BY <1>6, LatestType DEF FailCase, CancelCase, TypeInv
    <2>2. Latest.state \in States \cup {"created"} /\ Latest.plan \in Plan \cup {NoId}
      BY <2>1 DEF Snapshot
    <2>3. /\ [NewEvent(c, "case_failed", Latest.state, "failed", actor, Len(log))
               EXCEPT !.plan = Latest.plan] \in Event
          /\ [NewEvent(c, "case_cancelled", Latest.state, "cancelled", actor, Len(log))
               EXCEPT !.plan = Latest.plan] \in Event
      BY <2>1, <2>2, <1>0 DEF NewEvent, Event
    <2>4. QED BY <1>6, <2>1, <2>3, <1>0, MoveType DEF FailCase, CancelCase
  <1>7. QED BY <1>1, <1>2, <1>3, <1>4, <1>5, <1>6 DEF Workflow

(* ... and every acquisition or consultation ...                            *)
LEMMA EnrichType ==
  ASSUME TypeInv, NEW c \in Client, Enrich(c)
  PROVE  TypeInv'
  <1> USE DEF Ops, Request, Statuses
  <1>1. \A req \in AcqReq, kind \in Kinds, commit \in Nat,
           x \in {"actor", "notfound", "transition", "idempotent", "duplicate", "conflict"} :
          AcquireTold(req, kind, x, commit) \in Reply
    <2>1. SUFFICES ASSUME NEW req \in AcqReq, NEW kind \in Kinds, NEW commit \in Nat,
                          NEW x \in {"actor", "notfound", "transition", "idempotent",
                                     "duplicate", "conflict"}
                   PROVE  AcquireTold(req, kind, x, commit) \in Reply
      OBVIOUS
    <2>2. Told("acquire", req, x, commit) \in Reply
      BY ToldType
    <2>3. QED BY <2>2 DEF AcquireTold, Reply
  <1>2. ASSUME NEW actor \in Actor, NEW req \in AcqReq, NEW kind \in Kinds,
               AcquireRefused(c, actor, req, kind)
        PROVE  TypeInv'
    BY <1>1, <1>2, AnswerType DEF AcquireRefused
  <1>3. ASSUME NEW actor \in Actor, NEW req \in AcqReq, NEW kind \in Kinds,
               AcquireAgain(c, actor, req, kind)
        PROVE  TypeInv'
    <2>1. Len(log) \in Nat
      BY DEF TypeInv, TypeOK
    <2>2. PICK r \in {AcquireTold(req, kind, "idempotent", Len(log)),
                      AcquireTold(req, kind, "duplicate", 0)} : Answer(r)
      BY <1>3 DEF AcquireAgain
    <2>3. UNCHANGED <<log, safe>>
      BY <1>3 DEF AcquireAgain
    <2>4. r \in Reply
      BY <2>1, <2>2, <1>1
    <2>5. QED BY <2>2, <2>3, <2>4, AnswerType
  <1>4. ASSUME NEW actor \in Actor, NEW req \in AcqReq, NEW kind \in Kinds,
               NEW expected \in Known, Acquire(c, actor, req, kind, expected)
        PROVE  TypeInv'
    <2> DEFINE added == [kind |-> kind, source |-> expected]
               acq == [req |-> req, kind |-> kind, source |-> expected,
                       inputs |-> Latest.evidence, added |-> added, by |-> c]
               next == [Latest EXCEPT !.evidence = @ \cup {added}, !.acqs = @ \cup {acq}]
    <2>1. Latest \in Snapshot /\ expected \in Nat
      BY <1>4, LatestType DEF Acquire, TypeInv, Known
    <2>2. added \in Evidence /\ acq \in Acquisition
      BY <2>1 DEF Evidence, Acquisition, Snapshot
    <2>3. next \in Snapshot
      BY <2>1, <2>2 DEF Snapshot
    <2>4. UNCHANGED <<log, safe>>
      BY <1>4 DEF Acquire
    <2>5. \/ Answer(AcquireTold(req, kind, "conflict", 0))
          \/ Submit(c, "acquire", req, expected, next)
      BY <1>4 DEF Acquire
    <2> HIDE DEF next
    <2>6. QED BY <1>1, <2>1, <2>3, <2>4, <2>5, AnswerType, SubmitType
  <1>5. ASSUME NEW actor \in Actor, NEW req \in ConsultReq, NEW body \in Body,
               NEW source \in Known \cup {0}, NEW expected \in Known,
               Consult(c, actor, req, body, source, expected)
        PROVE  TypeInv'
    <2> DEFINE cons == [req |-> req, body |-> body,
                        source |-> IF source = 0 THEN Len(log) ELSE source]
               next == [Latest EXCEPT !.consults = @ \cup {cons}]
               said == {Told("consult", req, x, n) :
                          x \in {"actor", "transition", "idempotent", "duplicate", "conflict"},
                          n \in {0, Len(log)}}
    <2>1. Latest \in Snapshot /\ expected \in Nat /\ source \in Nat /\ Len(log) \in Nat
      BY <1>5, LatestType DEF Consult, TypeInv, Known
    <2>2. next \in Snapshot
      BY <2>1 DEF Snapshot, Consultation
    <2>3. UNCHANGED <<log, safe>>
      BY <1>5 DEF Consult
    <2>4. \A r \in said : r \in Reply
      BY <2>1, ToldType
    <2>5. (\E r \in said : Answer(r)) \/ Submit(c, "consult", req, expected, next)
      BY <1>5 DEF Consult
    <2> HIDE DEF next, said
    <2>6. QED BY <2>1, <2>2, <2>3, <2>4, <2>5, AnswerType, SubmitType
  <1>6. QED BY <1>2, <1>3, <1>4, <1>5 DEF Enrich

(* ... and the Boot Doctor, between its two reads of the head ...           *)
LEMMA BootDoctorType ==
  ASSUME TypeInv, NEW c \in Client, BootDoctor(c)
  PROVE  TypeInv'
  <1> USE DEF Ops, Request, Statuses
  <1>0. Len(log) \in Nat
    BY DEF TypeInv, TypeOK
  <1>1. ASSUME NEW actor \in Actor, NEW req \in BootReq, BootDoctorRefused(c, actor, req)
        PROVE  TypeInv'
    BY <1>1, ToldType, AnswerType DEF BootDoctorRefused
  <1>2. ASSUME NEW actor \in Actor, NEW req \in BootReq, NEW pinned \in BOOLEAN,
               BootDoctorAgain(c, actor, req, pinned)
        PROVE  TypeInv'
    <2>1. Latest \in Snapshot
      BY <1>2, LatestType DEF BootDoctorAgain, TypeInv
    <2>2. PICK topology \in Selected(Latest, pinned) :
            Answer(IF topology \in Latest.findings
                   THEN [Told("boot", req, "idempotent", Len(log)) EXCEPT !.refs = {topology}]
                   ELSE Told("boot", req, "duplicate", 0))
      BY <1>2 DEF BootDoctorAgain
    <2>3. Told("boot", req, "idempotent", Len(log)) \in Reply /\ Told("boot", req, "duplicate", 0) \in Reply
      BY <1>0, ToldType
    <2>4. topology \in Latest.findings => topology \in Evidence
      BY <2>1 DEF Snapshot
    <2>5. topology \in Latest.findings =>
            [Told("boot", req, "idempotent", Len(log)) EXCEPT !.refs = {topology}] \in Reply
      BY <2>3, <2>4 DEF Reply
    <2>6. UNCHANGED <<log, safe>>
      BY <1>2 DEF BootDoctorAgain
    <2>7. QED BY <2>2, <2>3, <2>5, <2>6, AnswerType
  <1>3. ASSUME NEW actor \in Actor, NEW req \in BootReq, NEW pinned \in BOOLEAN,
               NEW command \in Command \cup {NoId}, NEW expected \in Known,
               StartBootDoctor(c, actor, req, command, pinned, expected)
        PROVE  TypeInv'
    <2>1. Latest \in Snapshot /\ expected \in Nat /\ log # <<>>
      BY <1>3, LatestType DEF StartBootDoctor, TypeInv, Known
    <2>2. PICK topology \in Selected(Latest, pinned) :
            \/ Answer(Told("boot", req, "conflict", 0))
            \/ /\ expected = Len(log)
               /\ pc' = [pc EXCEPT ![c] = "analyse"]
               /\ job' = [job EXCEPT ![c] =
                    [NoJob EXCEPT !.op = "boot", !.req = req, !.parent = expected,
                       !.refs = {topology}, !.pinned = pinned, !.actor = actor,
                       !.command = command]]
               /\ reply' = NoReply
      BY <1>3 DEF StartBootDoctor
    <2>3. UNCHANGED <<log, safe>>
      BY <1>3 DEF StartBootDoctor
    <2>4. CASE Answer(Told("boot", req, "conflict", 0))
      BY <2>3, <2>4, ToldType, AnswerType
    <2>5. CASE /\ expected = Len(log)
               /\ pc' = [pc EXCEPT ![c] = "analyse"]
               /\ job' = [job EXCEPT ![c] =
                    [NoJob EXCEPT !.op = "boot", !.req = req, !.parent = expected,
                       !.refs = {topology}, !.pinned = pinned, !.actor = actor,
                       !.command = command]]
               /\ reply' = NoReply
      <3> DEFINE j == [NoJob EXCEPT !.op = "boot", !.req = req, !.parent = expected,
                         !.refs = {topology}, !.pinned = pinned, !.actor = actor,
                         !.command = command]
      <3>1. topology \in Evidence
        <4>1. topology \in Topologies(Latest)
          BY <2>2 DEF Selected, DefaultTopology
        <4>2. QED BY <4>1, <2>1 DEF Topologies, Snapshot
      <3>2. j \in Job
        BY <2>1, <3>1, EmptyTypes DEF Job, NoJob
      <3>3. j.op = "boot" /\ j.req = req /\ j.actor = actor /\ j.parent = expected
        BY DEF NoJob
      <3> HIDE DEF j
      <3>4. QED BY <1>0, <2>1, <2>3, <2>5, <3>2, <3>3 DEF TypeInv, TypeOK, JobTyped, j
    <2>6. QED BY <2>2, <2>4, <2>5
  <1>4. ASSUME NEW now \in 0..MaxTime, FinishBootDoctor(c, now)
        PROVE  TypeInv'
    <2> DEFINE j == job[c]
               cmd == IF j.command = NoId THEN j.req ELSE j.command
               e == [NewEvent(c, "analysis_committed", Latest.state, "analyzed", j.actor, j.parent)
                       EXCEPT !.refs = j.refs, !.command = cmd]
               s == [Latest EXCEPT !.findings = @ \cup j.refs]
    <2>1. pc[c] = "analyse" /\ UNCHANGED <<log, safe>>
      BY <1>4 DEF FinishBootDoctor
    <2>2. /\ j \in Job /\ j.req \in BootReq /\ j.actor \in Actor
          /\ j.parent \in Nat /\ log # <<>>
      BY <2>1 DEF TypeInv, TypeOK, JobTyped
    <2>3. /\ j.refs \in SUBSET Evidence /\ cmd \in Command \cup BootReq \cup {NoId}
          /\ j.req \in Request
      BY <2>2 DEF Job
    <2>4. Latest \in Snapshot
      BY <2>2, LatestType DEF TypeInv
    <2>5. Latest.state \in States \cup {"created"} /\ "analyzed" \in States
      BY <2>4 DEF Snapshot, States
    <2>6. e \in Event
      BY <2>2, <2>3, <2>5 DEF NewEvent, Event
    <2>7. s \in Snapshot
      BY <2>3, <2>4 DEF Snapshot
    <2>8. now \in Nat
      BY CoordinatorAssumption
    <2>9. Advance(s, e, now) \in Snapshot
      BY <2>6, <2>7, <2>8, AdvanceType
    <2>10. \/ End(c, "conflict", 0)
           \/ End(c, Refusal(e), 0)
           \/ Submit(c, "boot", j.req, j.parent, Advance(s, e, now))
      BY <1>4 DEF FinishBootDoctor
    <2>11. Refusal(e) \in Statuses
      BY DEF Refusal
    <2> HIDE DEF e, s, j
    <2>12. CASE End(c, "conflict", 0)
      BY <2>1, <2>12, EndType
    <2>13. CASE End(c, Refusal(e), 0)
      BY <2>1, <2>11, <2>13, EndType
    <2>14. CASE Submit(c, "boot", j.req, j.parent, Advance(s, e, now))
      BY <2>1, <2>2, <2>3, <2>9, <2>14, SubmitType
    <2>15. QED BY <2>10, <2>12, <2>13, <2>14
  <1>5. QED BY <1>1, <1>2, <1>3, <1>4 DEF BootDoctor

(* ... and every step of a commit ...                                       *)
LEMMA CommitType ==
  ASSUME TypeInv, NEW c \in Client, Commit(c)
  PROVE  TypeInv'
  <1> USE DEF Statuses
  <1>0. Len(log) \in Nat /\ log \in Seq(Snapshot) /\ job[c] \in Job
    BY DEF TypeInv, TypeOK
  <1>1. CASE Publish(c)
    <2>1. pc[c] = "commit" /\ job[c].next \in Snapshot /\ job[c].op \in Ops
      BY <1>0, <1>1 DEF Publish, TypeInv, JobTyped, Job
    <2>2. log' = Append(log, job[c].next) /\ safe' = safe
      BY <1>1 DEF Publish, Store!AppendSnapshot
    <2>3. log' \in Seq(Snapshot) /\ Len(log') = Len(log) + 1
      BY <1>0, <2>1, <2>2, AppendProperties
    <2>4. /\ pc' = [pc EXCEPT ![c] = "published"]
          /\ job' = [job EXCEPT ![c] = [job[c] EXCEPT !.commit = Len(log) + 1]]
          /\ reply' = NoReply
      BY <1>1 DEF Publish
    <2>5. [job[c] EXCEPT !.commit = Len(log) + 1] \in Job
      BY <1>0 DEF Job
    <2>6. TypeOK'
      BY <2>2, <2>3, <2>4, <2>5, <1>0 DEF TypeInv, TypeOK
    <2>7. JobTyped'
      <3>1. SUFFICES ASSUME NEW d \in Client
                     PROVE  /\ pc'[d] # "idle" => job'[d].op \in Ops
                            /\ pc'[d] = "analyse" => /\ job'[d].req \in BootReq
                                                     /\ job'[d].actor \in Actor
                                                     /\ job'[d].parent \in 1..Len(log')
        BY DEF JobTyped
      <3>2. CASE d = c
        <4>1. pc'[d] = "published" /\ job'[d].op = job[c].op
          BY <2>4, <3>2, <1>0 DEF TypeInv, TypeOK, Job
        <4>2. QED BY <4>1, <2>1
      <3>3. CASE d # c
        BY <2>3, <2>4, <3>3, <1>0 DEF TypeInv, TypeOK, JobTyped
      <3>4. QED BY <3>2, <3>3
    <2>8. QED BY <2>6, <2>7 DEF TypeInv
  <1>2. CASE Committed(c)
    <2>1. safe' \in 0..Len(log) /\ log' = log
      BY <1>0, <1>2 DEF Committed, Store!Acknowledge, TypeInv, TypeOK
    <2>2. QED BY <1>2, <2>1 DEF Committed, TypeInv, TypeOK, JobTyped
  <1>3. CASE CommittedBefore(c)
    <2>1. [job[c] EXCEPT !.commit = Len(log)] \in Job
      BY <1>0 DEF Job
    <2>2. [job[c] EXCEPT !.commit = Len(log)].op = job[c].op
      BY <1>0 DEF Job
    <2>3. job' = [job EXCEPT ![c] = [job[c] EXCEPT !.commit = Len(log)]]
      BY <1>3 DEF CommittedBefore
    <2>4. /\ pc' = [pc EXCEPT ![c] = "returning"] /\ pc[c] = "commit"
          /\ reply' = NoReply /\ log' = log /\ safe' \in 0..Len(log)
      BY <1>0, <1>3 DEF CommittedBefore, Store!Acknowledge, TypeInv, TypeOK
    <2> HIDE DEF Statuses
    <2>5. TypeOK'
      BY <2>1, <2>3, <2>4 DEF TypeInv, TypeOK
    <2>6. JobTyped'
      BY <2>2, <2>3, <2>4 DEF TypeInv, TypeOK, JobTyped
    <2>7. QED BY <2>5, <2>6 DEF TypeInv
  <1>4. CASE Return(c)
    <2>1. pc[c] # "idle" /\ job[c].commit \in Nat
      BY <1>0, <1>4 DEF Return, Job
    <2>2. QED BY <1>4, <2>1, EndType DEF Return
  <1>5. CASE CommitRefused(c)
    BY <1>5, EndType DEF CommitRefused
  <1>6. CASE CommitLocked(c)
    BY <1>6, EndType DEF CommitLocked
  <1>7. CASE CallFails(c)
    BY <1>7, EndType DEF CallFails
  <1>8. CASE OutcomeUnknown(c)
    BY <1>8, EndType DEF OutcomeUnknown
  <1>9. CASE Crash(c)
    BY <1>9, EmptyTypes DEF Crash, TypeInv, TypeOK, JobTyped
  <1>10. QED BY <1>1, <1>2, <1>3, <1>4, <1>5, <1>6, <1>7, <1>8, <1>9 DEF Commit

(* ... and a refusal ...                                                    *)
LEMMA RefusedType ==
  ASSUME TypeInv, NEW c \in Client, Refused(c)
  PROVE  TypeInv'
  <1>1. PICK op \in Ops, req \in Request, status \in {"failed", "argument"} :
          Answer(Told(op, req, status, 0)) /\ UNCHANGED <<log, safe>>
    BY DEF Refused, RefusedAtOnce
  <1>2. Told(op, req, status, 0) \in Reply
    BY ToldType DEF Statuses
  <1>3. QED BY <1>1, <1>2, AnswerType

(* ... and a loss of power.                                                 *)
LEMMA PowerLossType ==
  ASSUME TypeInv, PowerLoss
  PROVE  TypeInv'
  <1>1. PICK n \in safe..Len(log) : log' = SubSeq(log, 1, n) /\ safe' = safe
    BY DEF PowerLoss, Store!Lose
  <1>2. log \in Seq(Snapshot) /\ safe \in 0..Len(log) /\ Len(log) \in Nat
    BY DEF TypeInv, TypeOK
  <1>3. n \in Nat /\ \A i \in 1..n : log[i] \in Snapshot
    BY <1>2
  <1>4. log' \in Seq(Snapshot) /\ Len(log') = n
    BY <1>1, <1>2, <1>3, SubSeqProperties
  <1>5. safe' \in 0..Len(log')
    BY <1>1, <1>2, <1>4
  <1>6. QED BY <1>4, <1>5, EmptyTypes DEF PowerLoss, TypeInv, TypeOK, JobTyped

(* The types are inductive.                                                 *)
LEMMA TypeInvInductive ==
  /\ Init => TypeInv
  /\ TypeInv /\ [Next]_vars => TypeInv'
  <1>1. ASSUME Init PROVE TypeInv
    <2>1. <<>> \in Seq(Snapshot) /\ <<Imported>> \in Seq(Snapshot)
      BY EmptyTypes
    <2>2. log \in Seq(Snapshot) /\ safe = Len(log) /\ Len(log) \in Nat
      BY <1>1, <2>1, LenProperties DEF Init
    <2>3. safe \in 0..Len(log)
      BY <2>2
    <2>4. TypeOK
      BY <1>1, <2>2, <2>3, EmptyTypes DEF Init, TypeOK
    <2>5. JobTyped
      BY <1>1 DEF Init, JobTyped
    <2>6. QED BY <2>4, <2>5 DEF TypeInv
  <1>2. ASSUME TypeInv, [Next]_vars PROVE TypeInv'
    <2>1. CASE UNCHANGED vars
      BY <1>2, <2>1 DEF vars, TypeInv, TypeOK, JobTyped
    <2>2. CASE Next
      BY <1>2, <2>2, WorkflowType, EnrichType, BootDoctorType, CommitType, RefusedType,
         PowerLossType DEF Next, Call
    <2>3. QED BY <1>2, <2>1, <2>2
  <1>3. QED BY <1>1, <1>2

(* Every variable of the coordinator has its type, at every point of every  *)
(* call.                                                                    *)
THEOREM TypeCorrect == Spec => []TypeOK
  <1>1. TypeInv => TypeOK
    BY DEF TypeInv
  <1>2. QED BY <1>1, TypeInvInductive, PTL DEF Spec

-----------------------------------------------------------------------------
(* Safety.  A call builds its snapshot on the commit that is the head when  *)
(* it reads the case, and the store publishes it only while that commit     *)
(* still is the head.                                                       *)

(* What commit n left for the next call; before the first there is only     *)
(* what the importer produced.                                              *)
Earlier(n) == IF n = 0 THEN Imported ELSE log[n]

(* t adds documents to s, which is commit n.                                *)
Grows(s, t, n) ==
  /\ Extends(s, t)
  /\ s.state \notin Terminal
  /\ \A e \in t.events \ s.events : e.parent = n
  /\ \A a \in t.acqs \ s.acqs : a.source = n

(* t is a legal successor of s: no plan is overwritten after it, because    *)
(* where one may be proposed there is none yet.                             *)
BuiltOn(s, t, n) == Grows(s, t, n) /\ (t.state = "analyzed" => t.plan = NoId)

ChainBuilt == \A i \in 1..Len(log) : BuiltOn(Earlier(i - 1), log[i], i - 1)

(* A call that is about to commit holds a successor of its parent, however  *)
(* far the case has moved on; one that has committed, what it committed.    *)
JobBuilt ==
  \A c \in Client :
    /\ pc[c] = "commit" => /\ job[c].parent \in 0..Len(log)
                           /\ BuiltOn(Earlier(job[c].parent), job[c].next, job[c].parent)
    /\ pc[c] \in {"published", "returning"} => /\ job[c].commit \in 1..Len(log)
                                               /\ log[job[c].commit] = job[c].next

IInv == TypeInv /\ ChainBuilt /\ JobBuilt

(* The three facts that the properties are made of.                         *)
LEMMA ChainGives ==
  ASSUME IInv
  PROVE  NothingLost /\ AuditMatchesChain /\ TerminalIsFinal
  <1>1. Len(log) \in Nat
    BY DEF IInv, TypeInv, TypeOK
  <1>2. ASSUME NEW i \in 1..Len(log)
        PROVE  BuiltOn(IF i = 1 THEN Imported ELSE log[i - 1], log[i], i - 1)
    BY <1>1 DEF IInv, ChainBuilt, Earlier
  <1>3. NothingLost
    <2>1. SUFFICES ASSUME NEW i \in 2..Len(log) PROVE Extends(log[i - 1], log[i])
      BY DEF NothingLost
    <2>2. i \in 1..Len(log) /\ i # 1
      BY <1>1
    <2>3. QED BY <1>2, <2>2 DEF BuiltOn, Grows
  <1>4. AuditMatchesChain
    BY <1>2 DEF BuiltOn, Grows, AuditMatchesChain
  <1>5. TerminalIsFinal
    <2>1. SUFFICES ASSUME NEW i \in 1..Len(log) - 1 PROVE log[i].state \notin Terminal
      BY DEF TerminalIsFinal
    <2>2. i + 1 \in 1..Len(log) /\ i + 1 # 1 /\ (i + 1) - 1 = i
      BY <1>1
    <2>3. BuiltOn(log[i], log[i + 1], i)
      BY <1>2, <2>2
    <2>4. QED BY <2>3 DEF BuiltOn, Grows
  <1>6. QED BY <1>3, <1>4, <1>5

(* The step of a client that has not committed: the log stays, other        *)
(* clients' calls stay, and what it is left holding is built on a commit.   *)
Prepared(c) ==
  /\ log' = log
  /\ pc[c] \in {"idle", "analyse", "commit"}
  /\ \A d \in Client \ {c} : pc'[d] = pc[d] /\ job'[d] = job[d]
  /\ \/ pc'[c] \in {"idle", "analyse"}
     \/ /\ pc'[c] = "commit"
        /\ job'[c].parent \in 0..Len(log)
        /\ BuiltOn(Earlier(job'[c].parent), job'[c].next, job'[c].parent)

(* A call answered at once holds nothing ...                                *)
LEMMA AnswerPrepares ==
  ASSUME TypeInv, NEW c \in Client, pc[c] \in {"idle", "analyse"},
         NEW r, Answer(r), log' = log
  PROVE  Prepared(c)
  BY DEF Answer, Prepared

(* ... nor does one that ends ...                                           *)
LEMMA EndPrepares ==
  ASSUME TypeInv, NEW c \in Client, pc[c] \in {"idle", "analyse", "commit"},
         NEW status, NEW commit, End(c, status, commit), log' = log
  PROVE  Prepared(c)
  BY DEF End, Prepared, TypeInv, TypeOK

(* ... and one that is submitted holds a legal successor ...                *)
LEMMA SubmitPrepares ==
  ASSUME TypeInv, NEW c \in Client, pc[c] \in {"idle", "analyse"},
         NEW op, NEW req, NEW parent \in 0..Len(log), NEW next,
         Grows(Earlier(parent), next, parent),
         Submit(c, op, req, parent, next), log' = log
  PROVE  Prepared(c)
  <1>1. CASE Valid(next)
    <2> DEFINE j == [NoJob EXCEPT !.op = op, !.req = req, !.parent = parent, !.next = next]
    <2>1. pc' = [pc EXCEPT ![c] = "commit"] /\ job' = [job EXCEPT ![c] = j]
      BY <1>1 DEF Submit
    <2>2. j.parent = parent /\ j.next = next
      BY DEF NoJob
    <2> HIDE DEF j
    <2>3. pc'[c] = "commit" /\ job'[c] = j
      BY <2>1 DEF TypeInv, TypeOK
    <2>4. \A d \in Client \ {c} : pc'[d] = pc[d] /\ job'[d] = job[d]
      BY <2>1 DEF TypeInv, TypeOK
    <2>5. next.state = "analyzed" => next.plan = NoId
      BY <1>1 DEF Valid, StateFits
    <2>6. BuiltOn(Earlier(parent), next, parent)
      BY <2>5 DEF BuiltOn
    <2>7. QED BY <2>2, <2>3, <2>4, <2>6 DEF Prepared
  <1>2. CASE ~Valid(next)
    BY <1>2 DEF Submit, Prepared, TypeInv, TypeOK
  <1>3. QED BY <1>1, <1>2

(* An event that is applied to a successor, of the commit that it names,    *)
(* gives a successor.                                                       *)
LEMMA AdvanceBuilds ==
  ASSUME NEW n \in Nat, NEW s \in Snapshot, NEW t \in Snapshot, NEW e \in Event,
         NEW now \in Nat, Grows(s, t, n), e.parent = n
  PROVE  Grows(s, Advance(t, e, now), n)
  <1> DEFINE u == Advance(t, e, now)
             f == [e EXCEPT !.rev = t.rev + 1, !.at = MonotonicNow(t, now)]
  <1>1. f.parent = n
    BY DEF Event
  <1>2. /\ u.events = t.events \cup {f}
        /\ u.evidence = t.evidence /\ u.findings = t.findings /\ u.plan = t.plan
        /\ u.acqs = t.acqs /\ u.consults = t.consults
    BY DEF Advance, Snapshot
  <1> HIDE DEF u, f
  <1>3. QED BY <1>1, <1>2 DEF Grows, Extends, u

(* No event leaves a terminal state.                                        *)
LEMMA AllowedLeaves ==
  ASSUME NEW e \in Event, Allowed(e)
  PROVE  e.prev \notin Terminal
  BY DEF Allowed, Transition, Event, Terminal

(* ... as every move of the workflow is ...                                 *)
LEMMA MovePrepares ==
  ASSUME TypeInv, NEW c \in Client, NEW op, NEW s \in Snapshot, NEW e \in Event,
         NEW now \in Nat, log # <<>>, Allowed(e) => Extends(Latest, s),
         s.events = Latest.events, s.acqs = Latest.acqs,
         e.prev = Latest.state, e.parent = Len(log), Move(c, op, s, e, now)
  PROVE  Prepared(c)
  <1>1. pc[c] = "idle" /\ log' = log
    BY DEF Move
  <1>2. Latest \in Snapshot /\ Len(log) \in Nat \ {0} /\ Earlier(Len(log)) = Latest
    BY LatestType DEF TypeInv, Earlier, Latest
  <1>3. CASE Answer(Told("workflow", NoId, Refusal(e), 0))
    BY <1>1, <1>3, AnswerPrepares
  <1>4. CASE Allowed(e) /\ Submit(c, op, NoId, Len(log), Advance(s, e, now))
    <2>1. Grows(Latest, s, Len(log))
      BY <1>4, AllowedLeaves DEF Grows
    <2>2. Grows(Latest, Advance(s, e, now), Len(log))
      BY <1>2, <2>1, AdvanceBuilds
    <2>3. QED BY <1>1, <1>2, <1>4, <2>2, SubmitPrepares
  <1>5. QED BY <1>3, <1>4 DEF Move

(* ... in each of its operations.                                           *)
LEMMA WorkflowPrepares ==
  ASSUME IInv, NEW c \in Client, Workflow(c)
  PROVE  Prepared(c)
  <1>0. /\ 0..MaxTime \subseteq Nat
        /\ {"evidence_collected", "analyzed", "plan_proposed", "failed", "cancelled", "none"}
             \subseteq States
        /\ NoId \in Plan \cup {NoId} /\ Len(log) \in Nat
    BY CoordinatorAssumption DEF States, IInv, TypeInv, TypeOK
  <1> TypeInv
    BY DEF IInv
  <1>1. CASE Stale(c)
    BY <1>1, AnswerPrepares DEF Stale
  <1>2. ASSUME NEW actor \in Actor, NEW now \in 0..MaxTime, CreateCase(c, actor, now)
        PROVE  Prepared(c)
    <2> DEFINE e == [NewEvent(c, "case_created", "created", "evidence_collected", actor, 0)
                       EXCEPT !.refs = Imported.evidence]
    <2>1. Imported \in Snapshot /\ Imported.evidence \in SUBSET Evidence
      BY EmptyTypes DEF Snapshot
    <2>2. e \in Event /\ e.parent = 0
      <3>1. e \in Event
        BY <2>1, <1>0 DEF NewEvent, Event
      <3>2. e.parent = 0
        BY DEF NewEvent
      <3>3. QED BY <3>1, <3>2
    <2>3. /\ pc[c] = "idle" /\ log' = log
          /\ \/ Answer(Told("create", NoId, Refusal(e), 0))
             \/ Submit(c, "create", NoId, 0, Advance(Imported, e, now))
      BY <1>2 DEF CreateCase
    <2> HIDE DEF e
    <2>4. Grows(Imported, Imported, 0)
      BY DEF Grows, Extends, Imported, Terminal
    <2>5. Grows(Earlier(0), Advance(Imported, e, now), 0)
      BY <1>0, <2>1, <2>2, <2>4, AdvanceBuilds DEF Earlier
    <2>6. 0 \in 0..Len(log)
      BY <1>0
    <2>7. QED BY <2>3, <2>5, <2>6, AnswerPrepares, SubmitPrepares
  <1>3. ASSUME NEW actor \in Actor, NEW now \in 0..MaxTime, AdoptLegacyCase(c, actor, now)
        PROVE  Prepared(c)
    <2> DEFINE e == [NewEvent(c, "legacy_case_adopted", "none", "evidence_collected",
                              actor, Len(log)) EXCEPT !.refs = Latest.evidence]
    <2>1. /\ Latest \in Snapshot /\ Latest.evidence \in SUBSET Evidence
          /\ Len(log) \in Nat \ {0} /\ Earlier(Len(log)) = Latest
      BY <1>3, LatestType DEF AdoptLegacyCase, TypeInv, Snapshot, Earlier, Latest
    <2>2. e \in Event /\ e.parent = Len(log)
      <3>1. e \in Event
        BY <2>1, <1>0 DEF NewEvent, Event
      <3>2. e.parent = Len(log)
        BY DEF NewEvent
      <3>3. QED BY <3>1, <3>2
    <2>3. /\ pc[c] = "idle" /\ log' = log
          /\ \/ Answer(Told("adopt", NoId, "transition", 0))
             \/ /\ Latest.state = "none"
                /\ Submit(c, "adopt", NoId, Len(log), Advance(Latest, e, now))
      BY <1>3 DEF AdoptLegacyCase
    <2> HIDE DEF e
    <2>4. Latest.state = "none" => Grows(Latest, Advance(Latest, e, now), Len(log))
      <3>1. SUFFICES ASSUME Latest.state = "none"
                     PROVE  Grows(Latest, Latest, Len(log))
        BY <1>0, <2>1, <2>2, AdvanceBuilds
      <3>2. QED BY <3>1 DEF Grows, Extends, Terminal
    <2>5. QED BY <2>1, <2>3, <2>4, AnswerPrepares, SubmitPrepares
  <1>4. ASSUME NEW actor \in Actor, NEW now \in 0..MaxTime, CommitAnalysis(c, actor, now)
        PROVE  Prepared(c)
    <2>1. Latest \in Snapshot /\ Len(log) \in Nat /\ log # <<>>
      BY <1>4, LatestType DEF CommitAnalysis, TypeInv
    <2>2. PICK f \in Latest.evidence :
            Move(c, "analysis", [Latest EXCEPT !.findings = @ \cup {f}],
                 [NewEvent(c, "analysis_committed", Latest.state, "analyzed", actor, Len(log))
                    EXCEPT !.refs = {f}], now)
      BY <1>4 DEF CommitAnalysis
    <2> DEFINE s == [Latest EXCEPT !.findings = @ \cup {f}]
               e == [NewEvent(c, "analysis_committed", Latest.state, "analyzed", actor, Len(log))
                       EXCEPT !.refs = {f}]
    <2>3. {f} \in SUBSET Evidence /\ Latest.state \in States \cup {"created"}
      BY <2>1, <2>2 DEF Snapshot
    <2>4. s \in Snapshot /\ Extends(Latest, s) /\ s.events = Latest.events /\ s.acqs = Latest.acqs
      BY <2>1, <2>3 DEF Snapshot, Extends
    <2>5. e \in Event /\ e.prev = Latest.state /\ e.parent = Len(log)
      <3>1. e \in Event
        BY <2>1, <2>3, <1>0 DEF NewEvent, Event
      <3>2. e.prev = Latest.state /\ e.parent = Len(log)
        BY DEF NewEvent
      <3>3. QED BY <3>1, <3>2
    <2>6. Move(c, "analysis", s, e, now)
      BY <2>2
    <2> HIDE DEF s, e
    <2>7. QED BY <2>1, <2>4, <2>5, <2>6, <1>0, MovePrepares
  <1>5. ASSUME NEW actor \in Actor, NEW now \in 0..MaxTime, CommitPlan(c, actor, now)
        PROVE  Prepared(c)
    <2>1. Latest \in Snapshot /\ Len(log) \in Nat /\ log # <<>>
      BY <1>5, LatestType DEF CommitPlan, TypeInv
    <2>2. PICK p \in Plan :
            Move(c, "plan", [Latest EXCEPT !.plan = p],
                 [NewEvent(c, "plan_committed", Latest.state, "plan_proposed", actor, Len(log))
                    EXCEPT !.plan = p], now)
      BY <1>5 DEF CommitPlan
    <2> DEFINE s == [Latest EXCEPT !.plan = p]
               e == [NewEvent(c, "plan_committed", Latest.state, "plan_proposed", actor, Len(log))
                       EXCEPT !.plan = p]
    <2>3. Latest.state \in States \cup {"created"}
      BY <2>1 DEF Snapshot
    <2>4. s \in Snapshot /\ s.events = Latest.events /\ s.acqs = Latest.acqs
      BY <2>1, <2>3 DEF Snapshot
    <2>5. e \in Event /\ e.prev = Latest.state /\ e.parent = Len(log)
      <3>1. e \in Event
        BY <2>1, <2>3, <1>0 DEF NewEvent, Event
      <3>2. e.prev = Latest.state /\ e.parent = Len(log)
        BY DEF NewEvent
      <3>3. QED BY <3>1, <3>2
    <2>6. Move(c, "plan", s, e, now)
      BY <2>2
    <2>7. Allowed(e) => Extends(Latest, s)
      <3>1. SUFFICES ASSUME Allowed(e) PROVE Extends(Latest, s)
        OBVIOUS
      <3>2. e.type = "plan_committed"
        BY DEF NewEvent
      <3>3. Latest.state = "analyzed"
        BY <2>5, <3>1, <3>2 DEF Allowed, Transition
      <3>4. Len(log) \in 1..Len(log)
        BY <2>1, LatestType
      <3>5. Latest.plan = NoId
        BY <3>3, <3>4 DEF IInv, ChainBuilt, BuiltOn, Latest
      <3>6. QED BY <2>1, <3>5 DEF Snapshot, Extends
    <2> HIDE DEF s, e
    <2>8. QED BY <2>1, <2>4, <2>5, <2>6, <2>7, <1>0, MovePrepares
  <1>6. ASSUME NEW actor \in Actor, NEW now \in 0..MaxTime,
               FailCase(c, actor, now) \/ CancelCase(c, actor, now)
        PROVE  Prepared(c)
    <2> DEFINE fail == [NewEvent(c, "case_failed", Latest.state, "failed", actor, Len(log))
                          EXCEPT !.plan = Latest.plan]
               cancel == [NewEvent(c, "case_cancelled", Latest.state, "cancelled", actor, Len(log))
                            EXCEPT !.plan = Latest.plan]
    <2>1. Latest \in Snapshot /\ Len(log) \in Nat /\ log # <<>>
      BY <1>6, LatestType DEF FailCase, CancelCase, TypeInv
    <2>2. Latest.state \in States \cup {"created"} /\ Latest.plan \in Plan \cup {NoId}
      BY <2>1 DEF Snapshot
    <2>3. \A e \in {fail, cancel} : e \in Event /\ e.prev = Latest.state /\ e.parent = Len(log)
      <3>1. fail \in Event /\ cancel \in Event
        BY <2>1, <2>2, <1>0 DEF NewEvent, Event
      <3>2. \A e \in {fail, cancel} : e.prev = Latest.state /\ e.parent = Len(log)
        BY DEF NewEvent
      <3>3. QED BY <3>1, <3>2
    <2>4. Move(c, "failed", Latest, fail, now) \/ Move(c, "cancelled", Latest, cancel, now)
      BY <1>6 DEF FailCase, CancelCase
    <2>5. Extends(Latest, Latest)
      BY DEF Extends
    <2> HIDE DEF fail, cancel
    <2>6. QED BY <2>1, <2>3, <2>4, <2>5, <1>0, MovePrepares
  <1>7. QED BY <1>1, <1>2, <1>3, <1>4, <1>5, <1>6 DEF Workflow

(* An acquisition or a consultation extends the head it names.              *)
LEMMA EnrichPrepares ==
  ASSUME TypeInv, NEW c \in Client, Enrich(c)
  PROVE  Prepared(c)
  <1>1. ASSUME NEW actor \in Actor, NEW req \in AcqReq, NEW kind \in Kinds,
               AcquireRefused(c, actor, req, kind) \/ AcquireAgain(c, actor, req, kind)
        PROVE  Prepared(c)
    BY <1>1, AnswerPrepares DEF AcquireRefused, AcquireAgain
  <1>2. ASSUME NEW actor \in Actor, NEW req \in AcqReq, NEW kind \in Kinds,
               NEW expected \in Known, Acquire(c, actor, req, kind, expected)
        PROVE  Prepared(c)
    <2> DEFINE added == [kind |-> kind, source |-> expected]
               acq == [req |-> req, kind |-> kind, source |-> expected,
                       inputs |-> Latest.evidence, added |-> added, by |-> c]
               next == [Latest EXCEPT !.evidence = @ \cup {added}, !.acqs = @ \cup {acq}]
    <2>1. /\ pc[c] = "idle" /\ log' = log
          /\ \/ Answer(AcquireTold(req, kind, "conflict", 0))
             \/ expected = Len(log) /\ Submit(c, "acquire", req, expected, next)
      BY <1>2 DEF Acquire
    <2>2. /\ Latest \in Snapshot /\ Len(log) \in Nat \ {0} /\ Earlier(Len(log)) = Latest
          /\ OpenForEvidence(Latest)
      BY <1>2, LatestType DEF Acquire, TypeInv, Earlier, Latest
    <2>3. acq.source = expected
      OBVIOUS
    <2>4. /\ next.events = Latest.events /\ next.findings = Latest.findings
          /\ next.consults = Latest.consults /\ next.plan = Latest.plan
          /\ next.evidence = Latest.evidence \cup {added}
          /\ next.acqs = Latest.acqs \cup {acq}
      BY <2>2 DEF Snapshot
    <2> HIDE DEF next, acq, added
    <2>5. Grows(Latest, next, expected)
      BY <2>2, <2>3, <2>4 DEF Grows, Extends, OpenForEvidence, Terminal
    <2>6. QED BY <2>1, <2>2, <2>5, AnswerPrepares, SubmitPrepares
  <1>3. ASSUME NEW actor \in Actor, NEW req \in ConsultReq, NEW body \in Body,
               NEW source \in Known \cup {0}, NEW expected \in Known,
               Consult(c, actor, req, body, source, expected)
        PROVE  Prepared(c)
    <2> DEFINE cons == [req |-> req, body |-> body,
                        source |-> IF source = 0 THEN Len(log) ELSE source]
               next == [Latest EXCEPT !.consults = @ \cup {cons}]
    <2>1. pc[c] = "idle" /\ log' = log
      BY <1>3 DEF Consult
    <2>2. /\ Latest \in Snapshot /\ Len(log) \in Nat \ {0} /\ Earlier(Len(log)) = Latest
      BY <1>3, LatestType DEF Consult, TypeInv, Earlier, Latest
    <2>3. CASE actor = "deterministic_analyzer" \/ Latest.state # "analyzed"
      BY <1>3, <2>1, <2>3, AnswerPrepares DEF Consult
    <2>4. CASE ~(actor = "deterministic_analyzer" \/ Latest.state # "analyzed")
      <3>1. \/ \E r : Answer(r)
            \/ expected = Len(log) /\ Submit(c, "consult", req, expected, next)
        BY <1>3, <2>4 DEF Consult
      <3>2. /\ next.events = Latest.events /\ next.findings = Latest.findings
            /\ next.evidence = Latest.evidence /\ next.acqs = Latest.acqs
            /\ next.plan = Latest.plan
            /\ next.consults = Latest.consults \cup {cons}
        BY <2>2 DEF Snapshot
      <3> HIDE DEF next, cons
      <3>3. Grows(Latest, next, Len(log))
        BY <2>4, <3>2 DEF Grows, Extends, Terminal
      <3>4. QED BY <2>1, <2>2, <3>1, <3>3, AnswerPrepares, SubmitPrepares
    <2>5. QED BY <2>3, <2>4
  <1>4. QED BY <1>1, <1>2, <1>3 DEF Enrich

(* A refusal leaves everything alone.                                       *)
LEMMA RefusedPrepares ==
  ASSUME TypeInv, NEW c \in Client, Refused(c)
  PROVE  Prepared(c)
  <1>1. PICK r : Answer(r) /\ pc[c] = "idle" /\ log' = log
    BY DEF Refused, RefusedAtOnce
  <1>2. QED BY <1>1, AnswerPrepares

(* The Boot Doctor commits on the head it reads last.                       *)
LEMMA BootDoctorPrepares ==
  ASSUME TypeInv, NEW c \in Client, BootDoctor(c)
  PROVE  Prepared(c)
  <1>1. ASSUME NEW actor \in Actor, NEW req \in BootReq,
               \/ BootDoctorRefused(c, actor, req)
               \/ \E pinned \in BOOLEAN : BootDoctorAgain(c, actor, req, pinned)
        PROVE  Prepared(c)
    BY <1>1, AnswerPrepares DEF BootDoctorRefused, BootDoctorAgain
  <1>2. ASSUME NEW actor \in Actor, NEW req \in BootReq, NEW pinned \in BOOLEAN,
               NEW command \in Command \cup {NoId}, NEW expected \in Known,
               StartBootDoctor(c, actor, req, command, pinned, expected)
        PROVE  Prepared(c)
    <2>1. /\ pc[c] = "idle" /\ log' = log
          /\ \/ \E r : Answer(r)
             \/ /\ pc' = [pc EXCEPT ![c] = "analyse"]
                /\ \E j : job' = [job EXCEPT ![c] = j]
      BY <1>2 DEF StartBootDoctor
    <2>2. CASE \E r : Answer(r)
      BY <2>1, <2>2, AnswerPrepares
    <2>3. CASE /\ pc' = [pc EXCEPT ![c] = "analyse"]
               /\ \E j : job' = [job EXCEPT ![c] = j]
      BY <2>1, <2>3 DEF Prepared, TypeInv, TypeOK
    <2>4. QED BY <2>1, <2>2, <2>3
  <1>3. ASSUME NEW now \in 0..MaxTime, FinishBootDoctor(c, now)
        PROVE  Prepared(c)
    <2> DEFINE j == job[c]
               cmd == IF j.command = NoId THEN j.req ELSE j.command
               e == [NewEvent(c, "analysis_committed", Latest.state, "analyzed", j.actor, j.parent)
                       EXCEPT !.refs = j.refs, !.command = cmd]
               s == [Latest EXCEPT !.findings = @ \cup j.refs]
    <2>1. /\ pc[c] = "analyse" /\ log' = log
          /\ \/ End(c, "conflict", 0)
             \/ End(c, Refusal(e), 0)
             \/ /\ j.parent = Len(log) /\ Allowed(e)
                /\ Submit(c, "boot", j.req, j.parent, Advance(s, e, now))
      BY <1>3 DEF FinishBootDoctor
    <2>2. /\ j \in Job /\ j.req \in BootReq /\ j.actor \in Actor
          /\ j.parent \in Nat /\ log # <<>>
      BY <2>1 DEF TypeInv, TypeOK, JobTyped
    <2>3. j.refs \in SUBSET Evidence /\ cmd \in Command \cup BootReq \cup {NoId}
      BY <2>2 DEF Job
    <2>4. Latest \in Snapshot /\ Len(log) \in Nat \ {0} /\ Earlier(Len(log)) = Latest
      BY <2>2, LatestType DEF TypeInv, Earlier, Latest
    <2>5. Latest.state \in States \cup {"created"} /\ "analyzed" \in States
      BY <2>4 DEF Snapshot, States
    <2>6. e \in Event
      BY <2>2, <2>3, <2>5 DEF NewEvent, Event
    <2>7. e.prev = Latest.state /\ e.parent = j.parent
      BY DEF NewEvent
    <2>8. s \in Snapshot /\ Extends(Latest, s) /\ s.events = Latest.events /\ s.acqs = Latest.acqs
      BY <2>3, <2>4 DEF Snapshot, Extends
    <2>9. now \in Nat
      BY CoordinatorAssumption
    <2> HIDE DEF e, s, cmd, j
    <2>10. CASE End(c, "conflict", 0) \/ End(c, Refusal(e), 0)
      BY <2>1, <2>10, EndPrepares
    <2>11. CASE /\ j.parent = Len(log) /\ Allowed(e)
                /\ Submit(c, "boot", j.req, j.parent, Advance(s, e, now))
      <3>1. Grows(Latest, s, Len(log))
        BY <2>6, <2>7, <2>8, <2>11, AllowedLeaves DEF Grows
      <3>2. Grows(Latest, Advance(s, e, now), Len(log))
        BY <2>4, <2>6, <2>7, <2>8, <2>9, <2>11, <3>1, AdvanceBuilds
      <3>3. QED BY <2>1, <2>4, <2>11, <3>2, SubmitPrepares
    <2>12. QED BY <2>1, <2>10, <2>11
  <1>4. QED BY <1>1, <1>2, <1>3 DEF BootDoctor

(* A step that leaves the log alone keeps the invariant, if what it leaves  *)
(* its client holding is built on a commit ...                              *)
LEMMA PreparedKeeps ==
  ASSUME ChainBuilt, JobBuilt, NEW c \in Client, Prepared(c)
  PROVE  ChainBuilt' /\ JobBuilt'
  <1>1. log' = log
    BY DEF Prepared
  <1>2. ChainBuilt'
    BY <1>1 DEF ChainBuilt, Earlier
  <1>3. ASSUME NEW d \in Client
        PROVE  /\ pc'[d] = "commit" =>
                    /\ job'[d].parent \in 0..Len(log')
                    /\ BuiltOn(Earlier(job'[d].parent), job'[d].next, job'[d].parent)
               /\ pc'[d] \in {"published", "returning"} =>
                    /\ job'[d].commit \in 1..Len(log')
                    /\ log'[job'[d].commit] = job'[d].next
    <2>1. CASE d = c
      BY <1>1, <2>1 DEF Prepared
    <2>2. CASE d # c
      BY <1>1, <2>2 DEF Prepared, JobBuilt
    <2>3. QED BY <2>1, <2>2
  <1>4. JobBuilt'
    BY <1>1, <1>3 DEF JobBuilt, Earlier
  <1>5. QED BY <1>2, <1>4

(* ... or if its call is over.                                              *)
LEMMA IdleKeeps ==
  ASSUME ChainBuilt, JobBuilt, NEW c \in Client, log' = log, pc'[c] = "idle",
         \A d \in Client \ {c} : pc'[d] = pc[d] /\ job'[d] = job[d]
  PROVE  ChainBuilt' /\ JobBuilt'
  <1>1. ChainBuilt'
    BY DEF ChainBuilt, Earlier
  <1>2. JobBuilt'
    BY DEF JobBuilt, Earlier
  <1>3. QED BY <1>1, <1>2

(* A call that ends takes nothing from the log.                             *)
LEMMA EndKeeps ==
  ASSUME IInv, NEW c \in Client, NEW status, NEW commit, End(c, status, commit), log' = log
  PROVE  ChainBuilt' /\ JobBuilt'
  <1>1. pc'[c] = "idle" /\ \A d \in Client \ {c} : pc'[d] = pc[d] /\ job'[d] = job[d]
    BY DEF End, IInv, TypeInv, TypeOK
  <1>2. QED BY <1>1, IdleKeeps DEF IInv

(* The commit point: the parent still is the head, so the new entry is its  *)
(* successor, and what other calls were built on stays where it was.        *)
LEMMA PublishKeeps ==
  ASSUME IInv, NEW c \in Client, Publish(c)
  PROVE  ChainBuilt' /\ JobBuilt'
  <1>1. /\ log \in Seq(Snapshot) /\ Len(log) \in Nat /\ job[c] \in Job
        /\ pc[c] = "commit" /\ job[c].next \in Snapshot
    BY DEF Publish, IInv, TypeInv, TypeOK, Job
  <1>2. log' = Append(log, job[c].next)
    BY DEF Publish, Store!AppendSnapshot
  <1>3. /\ Len(log') = Len(log) + 1 /\ log'[Len(log) + 1] = job[c].next
        /\ \A i \in 1..Len(log) : log'[i] = log[i]
    BY <1>1, <1>2, AppendProperties
  <1>4. /\ job[c].parent = Len(log)
        /\ BuiltOn(Earlier(Len(log)), job[c].next, Len(log))
    BY <1>1 DEF Publish, IInv, JobBuilt
  <1>5. \A n \in 0..Len(log) : Earlier(n)' = Earlier(n)
    BY <1>1, <1>3 DEF Earlier
  <1>6. ChainBuilt'
    <2>1. SUFFICES ASSUME NEW i \in 1..Len(log) + 1
                   PROVE  BuiltOn(Earlier(i - 1)', log'[i], i - 1)
      BY <1>3 DEF ChainBuilt
    <2>2. CASE i = Len(log) + 1
      <3>1. i - 1 = Len(log) /\ Len(log) \in 0..Len(log)
        BY <1>1, <2>2
      <3>2. QED BY <1>3, <1>4, <1>5, <2>2, <3>1
    <2>3. CASE i # Len(log) + 1
      <3>1. i \in 1..Len(log) /\ i - 1 \in 0..Len(log)
        BY <1>1, <2>3
      <3>2. QED BY <1>3, <1>5, <3>1 DEF IInv, ChainBuilt
    <2>4. QED BY <2>2, <2>3
  <1>7. JobBuilt'
    <2>1. SUFFICES ASSUME NEW d \in Client
                   PROVE  /\ pc'[d] = "commit" =>
                               /\ job'[d].parent \in 0..Len(log')
                               /\ BuiltOn(Earlier(job[d].parent)', job'[d].next, job'[d].parent)
                          /\ pc'[d] \in {"published", "returning"} =>
                               /\ job'[d].commit \in 1..Len(log')
                               /\ log'[job'[d].commit] = job'[d].next
      BY DEF JobBuilt
    <2>2. CASE d = c
      <3>1. pc'[d] = "published"
        BY <2>2 DEF Publish, IInv, TypeInv, TypeOK
      <3>2. job'[c].commit = Len(log) + 1 /\ job'[c].next = job[c].next
        BY <1>1 DEF Publish, IInv, TypeInv, TypeOK, Job
      <3>3. Len(log) + 1 \in 1..Len(log')
        BY <1>1, <1>3
      <3>4. QED BY <1>3, <2>2, <3>1, <3>2, <3>3
    <2>3. CASE d # c
      <3>1. pc'[d] = pc[d] /\ job'[d] = job[d]
        BY <2>3 DEF Publish, IInv, TypeInv, TypeOK
      <3>2. \A n : /\ n \in 0..Len(log) => n \in 0..Len(log')
                   /\ n \in 1..Len(log) => n \in 1..Len(log')
        BY <1>1, <1>3
      <3>3. pc[d] = "commit" => Earlier(job[d].parent)' = Earlier(job[d].parent)
        <4>1. pc[d] = "commit" => job[d].parent \in 0..Len(log)
          BY DEF IInv, JobBuilt
        <4>2. Earlier(job[d].parent)' = IF job[d].parent = 0 THEN Imported ELSE log'[job[d].parent]
          BY <3>1 DEF Earlier
        <4>3. job[d].parent \in 0..Len(log) => job[d].parent = 0 \/ job[d].parent \in 1..Len(log)
          BY <1>1
        <4>4. QED BY <1>3, <4>1, <4>2, <4>3 DEF Earlier
      <3>4. QED BY <1>3, <3>1, <3>2, <3>3 DEF IInv, JobBuilt
    <2>4. QED BY <2>2, <2>3
  <1>8. QED BY <1>6, <1>7

(* Publication on the parent or not at all keeps the chain built.           *)
LEMMA CommitKeeps ==
  ASSUME IInv, NEW c \in Client, Commit(c)
  PROVE  ChainBuilt' /\ JobBuilt'
  <1>1. CASE Publish(c)
    BY <1>1, PublishKeeps
  <1>2. CASE Committed(c)
    <2>1. /\ log' = log /\ job' = job /\ pc[c] = "published" /\ pc'[c] = "returning"
          /\ \A d \in Client \ {c} : pc'[d] = pc[d]
      BY <1>2 DEF Committed, Store!Acknowledge, IInv, TypeInv, TypeOK
    <2>2. ChainBuilt'
      BY <2>1 DEF IInv, ChainBuilt, Earlier
    <2>3. JobBuilt'
      BY <2>1 DEF IInv, JobBuilt, Earlier
    <2>4. QED BY <2>2, <2>3
  <1>3. CASE CommittedBefore(c)
    <2>1. /\ log' = log /\ pc'[c] = "returning" /\ log # <<>> /\ Latest = job[c].next
          /\ \A d \in Client \ {c} : pc'[d] = pc[d] /\ job'[d] = job[d]
      BY <1>3 DEF CommittedBefore, AlreadyHead, Store!Acknowledge, IInv, TypeInv, TypeOK
    <2>2. job'[c].commit = Len(log) /\ job'[c].next = job[c].next
      BY <1>3 DEF CommittedBefore, IInv, TypeInv, TypeOK, Job
    <2>3. Len(log) \in 1..Len(log)
      BY <2>1, LatestType DEF IInv, TypeInv
    <2>4. ChainBuilt'
      BY <2>1 DEF IInv, ChainBuilt, Earlier
    <2>5. JobBuilt'
      BY <2>1, <2>2, <2>3 DEF IInv, JobBuilt, Earlier, Latest
    <2>6. QED BY <2>4, <2>5
  <1>4. CASE Return(c)
    BY <1>4, EndKeeps DEF Return
  <1>5. CASE CommitRefused(c)
    BY <1>5, EndKeeps DEF CommitRefused
  <1>6. CASE CommitLocked(c)
    BY <1>6, EndKeeps DEF CommitLocked
  <1>7. CASE CallFails(c)
    BY <1>7, EndKeeps DEF CallFails
  <1>8. CASE OutcomeUnknown(c)
    BY <1>8, EndKeeps DEF OutcomeUnknown
  <1>9. CASE Crash(c)
    <2>1. /\ log' = log /\ pc'[c] = "idle"
          /\ \A d \in Client \ {c} : pc'[d] = pc[d] /\ job'[d] = job[d]
      BY <1>9 DEF Crash, IInv, TypeInv, TypeOK
    <2>2. QED BY <2>1, IdleKeeps DEF IInv
  <1>10. QED BY <1>1, <1>2, <1>3, <1>4, <1>5, <1>6, <1>7, <1>8, <1>9 DEF Commit

(* A power loss shortens the log and ends every call.                       *)
LEMMA PowerLossKeeps ==
  ASSUME IInv, PowerLoss
  PROVE  ChainBuilt' /\ JobBuilt'
  <1>1. PICK n \in safe..Len(log) : log' = SubSeq(log, 1, n)
    BY DEF PowerLoss, Store!Lose
  <1>2. log \in Seq(Snapshot) /\ safe \in 0..Len(log) /\ Len(log) \in Nat
    BY DEF IInv, TypeInv, TypeOK
  <1>3. n \in Nat /\ n <= Len(log) /\ \A i \in 1..n : log[i] \in Snapshot
    BY <1>2
  <1>4. Len(log') = n /\ \A i \in 1..n : log'[i] = log[i]
    BY <1>1, <1>3, SubSeqProperties
  <1>5. ChainBuilt'
    <2>1. SUFFICES ASSUME NEW i \in 1..n
                   PROVE  BuiltOn(Earlier(i - 1)', log'[i], i - 1)
      BY <1>4 DEF ChainBuilt
    <2>2. i \in 1..Len(log) /\ (i - 1 = 0 \/ i - 1 \in 1..n)
      BY <1>3
    <2>3. BuiltOn(Earlier(i - 1), log[i], i - 1)
      BY <2>2 DEF IInv, ChainBuilt
    <2>4. Earlier(i - 1)' = Earlier(i - 1)
      BY <1>4, <2>2 DEF Earlier
    <2>5. QED BY <1>4, <2>3, <2>4
  <1>6. JobBuilt'
    BY DEF PowerLoss, JobBuilt
  <1>7. QED BY <1>5, <1>6

(* The invariant is inductive.                                              *)
LEMMA IInvInductive ==
  /\ Init => IInv
  /\ IInv /\ [Next]_vars => IInv'
  <1>1. ASSUME Init PROVE IInv
    <2>1. ChainBuilt
      <3>1. ASSUME NEW i \in 1..Len(log) PROVE i = 1 /\ log[i] = Imported
        BY <1>1 DEF Init
      <3>2. BuiltOn(Imported, Imported, 0)
        BY DEF BuiltOn, Grows, Extends, Imported, Terminal
      <3>3. QED BY <3>1, <3>2 DEF ChainBuilt, Earlier
    <2>2. JobBuilt
      BY <1>1 DEF Init, JobBuilt
    <2>3. QED BY <1>1, <2>1, <2>2, TypeInvInductive DEF IInv
  <1>2. ASSUME IInv, [Next]_vars PROVE IInv'
    <2>1. TypeInv'
      BY <1>2, TypeInvInductive DEF IInv
    <2>2. ChainBuilt' /\ JobBuilt'
      <3>1. CASE UNCHANGED vars
        BY <1>2, <3>1 DEF vars, IInv, ChainBuilt, JobBuilt, Earlier
      <3>2. ASSUME NEW c \in Client, Workflow(c) \/ Enrich(c) \/ BootDoctor(c) \/ Refused(c)
            PROVE  ChainBuilt' /\ JobBuilt'
        <4>1. Prepared(c)
          BY <1>2, <3>2, WorkflowPrepares, EnrichPrepares, BootDoctorPrepares, RefusedPrepares
             DEF IInv
        <4>2. QED BY <1>2, <4>1, PreparedKeeps DEF IInv
      <3>3. ASSUME NEW c \in Client, Commit(c)
            PROVE  ChainBuilt' /\ JobBuilt'
        BY <1>2, <3>3, CommitKeeps
      <3>4. CASE PowerLoss
        BY <1>2, <3>4, PowerLossKeeps
      <3>5. QED BY <1>2, <3>1, <3>2, <3>3, <3>4 DEF Next, Call
    <2>3. QED BY <2>1, <2>2 DEF IInv
  <1>3. QED BY <1>1, <1>2

(* The inductive invariant holds always.                                    *)
THEOREM Inductive == Spec => []IInv
  BY IInvInductive, PTL DEF Spec

(* Concurrent callers never overwrite one another's documents, whichever    *)
(* of them crash, fail or are never told that their commit happened.        *)
THEOREM DocumentsKept == Spec => []NothingLost
  <1>1. IInv => NothingLost
    BY ChainGives
  <1>2. QED BY <1>1, Inductive, PTL

(* The parent of an event, and the source of an acquisition, is the commit  *)
(* just before the one that introduced it.                                  *)
THEOREM AuditTrailExact == Spec => []AuditMatchesChain
  <1>1. IInv => AuditMatchesChain
    BY ChainGives
  <1>2. QED BY <1>1, Inductive, PTL

(* Nothing is committed to a case that has failed or was cancelled.         *)
THEOREM TerminalStays == Spec => []TerminalIsFinal
  <1>1. IInv => TerminalIsFinal
    BY ChainGives
  <1>2. QED BY <1>1, Inductive, PTL

(* A caller that is told of its commit is shown the snapshot it built.      *)
THEOREM RepliesExact == Spec => ReplyExact
  <1>1. ASSUME IInv, [Next]_vars
        PROVE  [\A c \in Client : pc[c] = "returning" /\ pc'[c] = "idle" /\ reply'.status = "ok"
                  => log[reply'.commit] = job[c].next]_vars
    <2>1. SUFFICES ASSUME Next, NEW c \in Client,
                          pc[c] = "returning", pc'[c] = "idle", reply'.status = "ok"
                   PROVE  log[reply'.commit] = job[c].next
      BY <1>1
    <2>2. NoReply.status # "ok"
      BY DEF NoReply
    <2>3. ASSUME NEW d \in Client, Workflow(d) \/ Enrich(d) \/ BootDoctor(d) \/ Refused(d)
          PROVE  FALSE
      <3>1. Prepared(d)
        BY <1>1, <2>3, WorkflowPrepares, EnrichPrepares, BootDoctorPrepares, RefusedPrepares
             DEF IInv
      <3>2. QED BY <2>1, <3>1 DEF Prepared
    <2>4. ASSUME NEW d \in Client, Commit(d), d # c
          PROVE  FALSE
      <3>1. pc'[c] = pc[c]
        BY <1>1, <2>4 DEF Commit, Publish, Committed, CommittedBefore, Return, CommitRefused,
                     CommitLocked, CallFails, OutcomeUnknown, Crash, End, IInv, TypeInv, TypeOK
      <3>2. QED BY <2>1, <3>1
    <2>5. ASSUME Commit(c)
          PROVE  Return(c)
      BY <2>1, <2>2, <2>5 DEF Commit, Publish, Committed, CommittedBefore, CommitRefused,
                     CommitLocked, CallFails, OutcomeUnknown, Crash
    <2>6. CASE Return(c)
      <3>1. reply'.commit = job[c].commit
        BY <2>6 DEF Return, End, Told, NoReply
      <3>2. QED BY <1>1, <2>1, <3>1 DEF IInv, JobBuilt
    <2>7. ~PowerLoss
      BY <2>1, <2>2 DEF PowerLoss
    <2>8. QED BY <2>1, <2>3, <2>4, <2>5, <2>6, <2>7 DEF Next, Call
  <1>2. QED BY <1>1, Inductive, PTL DEF Spec, ReplyExact

-----------------------------------------------------------------------------
(* The store as its callers see it.  CaseLog says what a store promises;    *)
(* the coordinator is to ask for nothing else of it.                        *)

(* Whatever a call does before its commit, the store is only read.          *)
LEMMA OnlyReads ==
  ASSUME NEW c \in Client, Workflow(c) \/ Enrich(c) \/ BootDoctor(c) \/ Refused(c)
  PROVE  UNCHANGED <<log, safe>>
  <1>1. CASE Workflow(c)
    BY <1>1 DEF Workflow, Stale, CreateCase, AdoptLegacyCase, CommitAnalysis, CommitPlan,
                FailCase, CancelCase, Move
  <1>2. CASE Enrich(c)
    <2>1. ASSUME NEW actor \in Actor, NEW req \in AcqReq, NEW kind \in Kinds,
                 \/ AcquireRefused(c, actor, req, kind) \/ AcquireAgain(c, actor, req, kind)
                 \/ \E expected \in Known : Acquire(c, actor, req, kind, expected)
          PROVE  UNCHANGED <<log, safe>>
      BY <2>1 DEF AcquireRefused, AcquireAgain, Acquire
    <2>2. ASSUME NEW actor \in Actor, NEW req \in ConsultReq, NEW body \in Body,
                 NEW source \in Known \cup {0}, NEW expected \in Known,
                 Consult(c, actor, req, body, source, expected)
          PROVE  UNCHANGED <<log, safe>>
      BY <2>2 DEF Consult
    <2>3. QED BY <1>2, <2>1, <2>2 DEF Enrich
  <1>3. CASE BootDoctor(c)
    BY <1>3 DEF BootDoctor, BootDoctorRefused, BootDoctorAgain, StartBootDoctor,
                FinishBootDoctor
  <1>4. CASE Refused(c)
    BY <1>4 DEF Refused, RefusedAtOnce
  <1>5. QED BY <1>1, <1>2, <1>3, <1>4

(* What is published and not yet acknowledged is the head, it is the work   *)
(* of one caller, and nobody was told of it: the acknowledgement that the   *)
(* caller is owed is one that the store may give.                           *)
OneWriter ==
  \A c \in Client : pc[c] = "published" =>
    /\ job[c].commit = Len(log)
    /\ safe < Len(log)
    /\ \A d \in Client \ {c} : pc[d] # "published"

(* A step after which nothing new is published leaves the writer alone ...  *)
LEMMA WriterUndisturbed ==
  ASSUME OneWriter, UNCHANGED <<log, safe>>,
         \A d \in Client : pc'[d] = "published" => pc[d] = "published" /\ job'[d] = job[d]
  PROVE  OneWriter'
  BY DEF OneWriter

(* ... and a publication waits for the writer before it.                    *)
LEMMA OneWriterInductive ==
  /\ Init => OneWriter
  /\ IInv /\ OneWriter /\ [Next]_vars => OneWriter'
  <1>1. ASSUME Init PROVE OneWriter
    BY <1>1 DEF Init, OneWriter
  <1>2. ASSUME IInv, OneWriter, [Next]_vars PROVE OneWriter'
    <2>0. /\ Len(log) \in Nat /\ safe \in 0..Len(log) /\ log \in Seq(Snapshot)
          /\ DOMAIN pc = Client /\ DOMAIN job = Client
      BY <1>2 DEF IInv, TypeInv, TypeOK
    <2>1. CASE UNCHANGED vars
      BY <1>2, <2>1, WriterUndisturbed DEF vars
    <2>2. ASSUME NEW c \in Client, Workflow(c) \/ Enrich(c) \/ BootDoctor(c) \/ Refused(c)
          PROVE  OneWriter'
      <3>1. Prepared(c)
        BY <1>2, <2>2, WorkflowPrepares, EnrichPrepares, BootDoctorPrepares, RefusedPrepares
           DEF IInv
      <3>2. UNCHANGED <<log, safe>>
        BY <2>2, OnlyReads
      <3>3. ASSUME NEW d \in Client, pc'[d] = "published"
            PROVE  pc[d] = "published" /\ job'[d] = job[d]
        BY <3>1, <3>3 DEF Prepared
      <3>4. QED BY <1>2, <3>2, <3>3, WriterUndisturbed
    <2>3. ASSUME NEW c \in Client, Publish(c) PROVE OneWriter'
      <3>1. job[c] \in Job /\ job[c].next \in Snapshot
        BY <1>2 DEF IInv, TypeInv, TypeOK, Job
      <3>2. Len(log') = Len(log) + 1 /\ safe' = safe
        BY <2>0, <2>3, <3>1, AppendProperties DEF Publish, Store!AppendSnapshot
      <3>3. ASSUME NEW d \in Client, d # c PROVE pc'[d] # "published"
        BY <2>0, <2>3, <3>3 DEF Publish, LockFree
      <3>4. job'[c].commit = Len(log) + 1
        BY <2>0, <2>3, <3>1 DEF Publish, Job
      <3>5. QED BY <2>0, <3>2, <3>3, <3>4 DEF OneWriter
    <2>4. ASSUME NEW c \in Client, Committed(c) \/ CommittedBefore(c) PROVE OneWriter'
      <3>1. pc'[c] # "published"
        BY <2>0, <2>4 DEF Committed, CommittedBefore
      <3>2. ASSUME NEW d \in Client, d # c PROVE pc'[d] # "published"
        BY <1>2, <2>0, <2>4, <3>2 DEF Committed, CommittedBefore, LockFree, OneWriter
      <3>3. QED BY <3>1, <3>2 DEF OneWriter
    <2>5. ASSUME NEW c \in Client,
                 \/ Return(c) \/ CommitRefused(c) \/ CommitLocked(c)
                 \/ CallFails(c) \/ OutcomeUnknown(c) \/ Crash(c)
          PROVE  OneWriter'
      <3>1. UNCHANGED <<log, safe>>
        BY <2>5 DEF Return, CommitRefused, CommitLocked, CallFails, OutcomeUnknown, Crash
      <3>2. /\ pc'[c] # "published"
            /\ \A d \in Client \ {c} : pc'[d] = pc[d] /\ job'[d] = job[d]
        BY <2>0, <2>5 DEF Return, CommitRefused, CommitLocked, CallFails, OutcomeUnknown,
                         Crash, End
      <3>3. QED BY <1>2, <3>1, <3>2, WriterUndisturbed
    <2>6. CASE PowerLoss
      BY <2>6 DEF PowerLoss, OneWriter
    <2>7. QED BY <1>2, <2>1, <2>2, <2>3, <2>4, <2>5, <2>6 DEF Next, Call, Commit
  <1>3. QED BY <1>1, <1>2

(* Whoever is between its commit point and its answer is alone there, with  *)
(* the head of the case and an acknowledgement still to be given, whatever  *)
(* other callers do, crash or are refused meanwhile.                        *)
THEOREM WritersTakeTurns == Spec => []OneWriter
  BY OneWriterInductive, Inductive, PTL DEF Spec

(* Every step of every caller, crashes and losses of power included, is one *)
(* that CaseLog allows or leaves the store alone: what is proved of the     *)
(* coordinator rests on no more than what the case store is proved to       *)
(* promise (StoreImplementsLog of CaseStoreProofs).                         *)
THEOREM AsksOnlyThePromised == Spec => [][Store!Next]_<<log, safe>>
  <1>1. ASSUME IInv, [Next]_vars PROVE [Store!Next]_<<log, safe>>
    <2>0. Len(log) \in Nat /\ safe \in 0..Len(log)
      BY <1>1 DEF IInv, TypeInv, TypeOK
    <2>1. CASE UNCHANGED vars
      BY <2>1 DEF vars
    <2>2. ASSUME NEW c \in Client, Workflow(c) \/ Enrich(c) \/ BootDoctor(c) \/ Refused(c)
          PROVE  UNCHANGED <<log, safe>>
      BY <2>2, OnlyReads
    <2>3. ASSUME NEW c \in Client, Publish(c) PROVE Store!Next
      <3>1. job[c].next \in Snapshot
        BY <1>1 DEF IInv, TypeInv, TypeOK, Job
      <3>2. Store!AppendSnapshot(job[c].next)
        BY <2>3 DEF Publish
      <3>3. QED BY <3>1, <3>2 DEF Store!Next
    <2>4. ASSUME NEW c \in Client, Committed(c) PROVE Store!Next
      <3>1. Store!Acknowledge(job[c].commit)
        BY <2>4 DEF Committed
      <3>2. job[c].commit \in 0..Len(log)
        BY <2>0, <3>1 DEF Store!Acknowledge
      <3>3. QED BY <3>1, <3>2 DEF Store!Next
    <2>5. ASSUME NEW c \in Client,
                 \/ Return(c) \/ CommitRefused(c) \/ CommitLocked(c)
                 \/ CallFails(c) \/ OutcomeUnknown(c) \/ Crash(c)
          PROVE  UNCHANGED <<log, safe>>
      BY <2>5 DEF Return, CommitRefused, CommitLocked, CallFails, OutcomeUnknown, Crash
    <2>6. ASSUME NEW c \in Client, CommittedBefore(c) PROVE [Store!Next]_<<log, safe>>
      <3>1. Len(log) \in 0..Len(log)
        BY <2>0
      <3>2. Store!Acknowledge(Len(log)) => Store!Next
        BY <3>1 DEF Store!Next
      <3>3. QED BY <2>6, <3>2 DEF CommittedBefore
    <2>7. CASE PowerLoss
      BY <2>7 DEF PowerLoss, Store!Next
    <2>8. QED BY <1>1, <2>1, <2>2, <2>3, <2>4, <2>5, <2>6, <2>7 DEF Next, Call, Commit
  <1>2. QED BY <1>1, Inductive, PTL DEF Spec
==============================================================================
