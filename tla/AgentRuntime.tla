---------------------------- MODULE AgentRuntime ----------------------------
(***************************************************************************)
(* The recovery agent runtime of internal/recovery/agentruntime: a bounded *)
(* consultation over one case.  A run reads the head, asks a provider,     *)
(* executes the reads it proposes one commit at a time through the         *)
(* coordinator, reads the case again, and in the end records an advisory   *)
(* consultation on the commit it knows.  Runs of the same request may race *)
(* each other and other callers of the case; a run holds nothing meanwhile.*)
(*                                                                         *)
(* Composed with Coordinator: an agent is one of its clients, and every    *)
(* call is the coordinator's own action.  A snapshot a run has loaded is   *)
(* named by its commit, so what a consultation refers to is the commit its *)
(* view came from.  A proposal is named by its status, the keys of its     *)
(* reads and whether its documents can be stored.                          *)
(***************************************************************************)
EXTENDS Coordinator

CONSTANTS Agent,       \* clients that run consultations
          Key,         \* request keys a provider uses
          MaxRounds,   \* Options.MaxRounds
          MaxPerRound, \* MaxReadRequestsPerRound
          MaxReads,    \* MaxReadRequestsTotal
          Text,        \* what a proposal says
          Malformed    \* a text that AgentConsultation.Validate refuses

(* A consultation: its status, round and text, the commit of the view whose *)
(* documents it refers to, and the one the run started on (input digest).   *)
Advice == [status : {"completed", "blocked", "failed"}, round : 1..MaxRounds,
           text : Text \cup {Malformed, NoId}, view : 1..MaxCommits, start : 1..MaxCommits]

(* acquisitionRequestID: a hash of the request, the round and the key.      *)
ReadReq(req, round, key) == <<req, round, key>>

ASSUME AgentAssumption ==
  /\ Agent \subseteq Client /\ Malformed \notin Text
  /\ "llm_advisor" \in Actor
  /\ MaxRounds \in Nat \ {0} /\ MaxPerRound \in Nat \ {0} /\ MaxReads \in Nat
  /\ Body = Advice
  /\ AcqReq = {ReadReq(q, n, k) : q \in ConsultReq, n \in 1..MaxRounds, k \in Key}

VARIABLE run   \* per agent: the consultation it runs

rvars == <<log, safe, pc, job, reply, run>>

Proposed == {"completed", "blocked", "failed", "needs_more_evidence"}

(* commit: what the consultation would name as its source; current: the     *)
(* commit of the last read; queue: authorised reads still to do; batch: all *)
(* of the round; keys: those of earlier rounds; text: what the last         *)
(* proposal said; got: what the run reported.                               *)
Run == [phase : {"idle", "propose", "read", "reload", "persist"},
        req : ConsultReq \cup {NoId}, start : 0..MaxCommits,
        commit : 0..MaxCommits, current : 0..MaxCommits, view : 0..MaxCommits,
        round : 0..MaxRounds, queue : Seq(Key),
        batch : SUBSET Key, keys : SUBSET Key,
        status : {"none", "completed", "blocked", "failed"},
        text : Text \cup {Malformed, NoId}, expired : BOOLEAN,
        got : Consultation \cup {NoId}]

NoRun == [phase |-> "idle", req |-> NoId, start |-> 0, commit |-> 0, current |-> 0,
          view |-> 0, round |-> 0, queue |-> <<>>, batch |-> {}, keys |-> {},
          status |-> "none", text |-> NoId, expired |-> FALSE, got |-> NoId]

RInit ==
  /\ Init /\ log = <<>>
  /\ run = [a \in Agent |-> NoRun]

Set(a, r) == run' = [run EXCEPT ![a] = r]

-----------------------------------------------------------------------------
(* Run up to its first round.                                               *)
RecordedFor(req) == {x \in Latest.consults : x.req = req}

(* The request is on the case already: it is answered from there.           *)
Replay(a, req) ==
  /\ run[a].phase = "idle" /\ pc[a] = "idle" /\ log # <<>>
  /\ \E x \in RecordedFor(req) : Set(a, [NoRun EXCEPT !.req = req, !.got = x])
  /\ UNCHANGED vars

(* LoadCase fails, the expected commit (0: none) is not the head, or the    *)
(* case is not analyzed.                                                    *)
StartRefused(a, req, expected) ==
  /\ run[a].phase = "idle" /\ pc[a] = "idle"
  /\ \/ log = <<>>
     \/ /\ log # <<>> /\ RecordedFor(req) = {}
        /\ expected \notin {0, Len(log)} \/ Latest.state # "analyzed"
  /\ Set(a, NoRun)
  /\ UNCHANGED vars

Start(a, req, expected) ==
  /\ run[a].phase = "idle" /\ pc[a] = "idle" /\ log # <<>>
  /\ RecordedFor(req) = {}
  /\ expected \in {0, Len(log)} /\ Latest.state = "analyzed"
  /\ Set(a, [NoRun EXCEPT !.phase = "propose", !.req = req, !.start = Len(log),
                          !.commit = Len(log), !.current = Len(log), !.view = Len(log), !.round = 1])
  /\ UNCHANGED vars

(* The deadline of the run passes, whatever it is doing.                    *)
Expire(a) ==
  /\ run[a].phase # "idle" /\ ~run[a].expired
  /\ run' = [run EXCEPT ![a].expired = TRUE]
  /\ UNCHANGED vars

-----------------------------------------------------------------------------
(* A round.  AuthorizeReadRequests refuses the whole round or nothing.      *)
Ending(r, status) ==
  [r EXCEPT !.phase = "persist", !.status = status,
            !.current = 0, !.queue = <<>>, !.batch = {}, !.keys = {}]

Authorised(r, reads) ==
  /\ Len(reads) <= MaxPerRound
  /\ Len(reads) <= MaxReads - Cardinality(r.keys)
  /\ \A i, j \in 1..Len(reads) : reads[i] = reads[j] => i = j
  /\ \A i \in 1..Len(reads) : reads[i] \notin r.keys

Reads == UNION {[1..n -> Key] : n \in 1..MaxPerRound + 1}

(* The context has ended, the provider fails or a size limit is hit: the    *)
(* last proposal, if there was one, is what gets recorded.                  *)
ProposeFails(a) ==
  /\ run[a].phase = "propose"
  /\ Set(a, Ending(run[a], "failed"))
  /\ UNCHANGED vars

(* ValidateProposal refuses.  What normalizeProposal does not replace stays *)
(* in the consultation, which may then be impossible to store.              *)
ProposalInvalid(a, text) ==
  /\ run[a].phase = "propose" /\ ~run[a].expired
  /\ Set(a, [Ending(run[a], "failed") EXCEPT !.text = text])
  /\ UNCHANGED vars

ProposalTerminal(a, status, text) ==
  /\ run[a].phase = "propose" /\ ~run[a].expired
  /\ Set(a, [Ending(run[a], status) EXCEPT !.text = text])
  /\ UNCHANGED vars

(* known: the operation is registered as read-only and the target is on the *)
(* case, for every read.                                                    *)
ProposalReads(a, reads, known, text) ==
  /\ run[a].phase = "propose" /\ ~run[a].expired
  /\ Set(a, IF known /\ Authorised(run[a], reads)
            THEN [run[a] EXCEPT !.phase = "read", !.queue = reads, !.text = text,
                                !.batch = {reads[i] : i \in 1..Len(reads)}]
            ELSE [Ending(run[a], "blocked") EXCEPT !.text = text])
  /\ UNCHANGED vars

(* Mutant: the reads of a round leave the run's commit as it was.           *)
AfterReadOldCommit(r, told) ==
  IF told.status \in {"ok", "idempotent"}
  THEN [r EXCEPT !.queue = Tail(@), !.current = told.commit,
                 !.phase = IF Len(r.queue) = 1 THEN "reload" ELSE "read"]
  ELSE Ending(r, "failed")

(* executeAuthorizedReads: each read expects the commit of the one before.  *)
(* A failure leaves the run on the commit from before the round.            *)
AfterRead(r, told) ==
  IF told.status \notin {"ok", "idempotent"} THEN Ending(r, "failed")
  ELSE IF Len(r.queue) > 1 THEN [r EXCEPT !.current = told.commit, !.queue = Tail(@)]
  ELSE [r EXCEPT !.current = told.commit, !.commit = told.commit,
                 !.queue = <<>>, !.phase = "reload"]

(* One call of the coordinator, which answers at once or goes through its   *)
(* commit; a call that dies takes its run with it.                          *)
Outcome(a, next) ==
  IF pc'[a] # "idle" THEN UNCHANGED run
  ELSE Set(a, IF reply' = NoReply THEN NoRun ELSE next)

Read(a, actor) ==
  /\ run[a].phase = "read"
  /\ LET r == run[a]
         req == ReadReq(r.req, r.round, Head(r.queue))
     IN /\ \/ r.expired /\ RefusedAtOnce(a, "acquire", req)
           \/ /\ ~r.expired
              /\ \/ AcquireRefused(a, actor, req, "observation")
                 \/ AcquireAgain(a, actor, req, "observation")
                 \/ Acquire(a, actor, req, "observation", r.current)
           \/ Commit(a)
        /\ Outcome(a, AfterRead(r, reply'))

(* Mutant: neither the round nor its keys are counted.                      *)
ReloadUncounted(a) ==
  /\ run[a].phase = "reload" /\ ~run[a].expired
  /\ Set(a, [run[a] EXCEPT !.view = Len(log), !.batch = {}, !.phase = "propose"])
  /\ UNCHANGED vars

(* Mutant: the last round is not the last.                                  *)
ReloadUnbounded(a) ==
  /\ run[a].phase = "reload" /\ ~run[a].expired
  /\ Set(a, [run[a] EXCEPT !.view = Len(log), !.keys = @ \cup run[a].batch, !.batch = {},
                           !.round = @ + 1, !.phase = "propose"])
  /\ UNCHANGED vars

(* The case is loaded again: it may have moved on past the run's commit.    *)
Reload(a) ==
  /\ run[a].phase = "reload" /\ ~run[a].expired
  /\ LET r == [run[a] EXCEPT !.view = Len(log), !.keys = @ \cup run[a].batch, !.batch = {}]
     IN Set(a, IF r.round < MaxRounds THEN [r EXCEPT !.round = @ + 1, !.phase = "propose"]
               ELSE Ending(r, "failed"))
  /\ UNCHANGED vars

ReloadFails(a) ==
  /\ run[a].phase = "reload"
  /\ Set(a, Ending(run[a], "failed"))
  /\ UNCHANGED vars

-----------------------------------------------------------------------------
(* persistTerminal: the consultation names the commit the run knows as its  *)
(* source and expects it to be the head.                                    *)
AdviceOf(r) ==
  [status |-> r.status, round |-> r.round, text |-> r.text, view |-> r.view, start |-> r.start]

(* Mutant: what was to be recorded is reported, recorded or not.            *)
FinishedAnyway(a, told) ==
  [NoRun EXCEPT !.req = run[a].req,
     !.got = [req |-> run[a].req, body |-> AdviceOf(run[a]), source |-> run[a].commit]]

Finished(a, told) ==
  [NoRun EXCEPT !.req = run[a].req,
     !.got = IF told.status \in {"ok", "idempotent"}
             THEN [req |-> run[a].req, body |-> AdviceOf(run[a]), source |-> run[a].commit]
             ELSE NoId]

(* A text that cannot be stored is refused last.                            *)
Storable(a) ==
  run[a].text # Malformed \/ Latest.state # "analyzed" \/ RecordedFor(run[a].req) # {}
    \/ run[a].commit # Len(log)

(* Mutant: the head is expected, whatever it is.                            *)
PersistOnHead(a) ==
  /\ run[a].phase = "persist"
  /\ \/ /\ run[a].expired \/ ~Storable(a)
        /\ RefusedAtOnce(a, "consult", run[a].req)
     \/ /\ ~run[a].expired /\ Storable(a)
        /\ Consult(a, "llm_advisor", run[a].req, AdviceOf(run[a]), run[a].commit, Len(log))
     \/ Commit(a)
  /\ Outcome(a, Finished(a, reply'))

(* Mutant: the failure is recorded under a context of its own.              *)
PersistAfterDeadline(a) ==
  /\ run[a].phase = "persist"
  /\ \/ ~Storable(a) /\ RefusedAtOnce(a, "consult", run[a].req)
     \/ /\ Storable(a)
        /\ Consult(a, "llm_advisor", run[a].req, AdviceOf(run[a]), run[a].commit, run[a].commit)
     \/ Commit(a)
  /\ Outcome(a, Finished(a, reply'))

Persist(a) ==
  /\ run[a].phase = "persist"
  /\ \/ /\ run[a].expired \/ ~Storable(a)
        /\ RefusedAtOnce(a, "consult", run[a].req)
     \/ /\ ~run[a].expired /\ Storable(a)
        /\ Consult(a, "llm_advisor", run[a].req, AdviceOf(run[a]), run[a].commit, run[a].commit)
     \/ Commit(a)
  /\ Outcome(a, Finished(a, reply'))

(* The process of an agent dies between its calls.                          *)
Die(a) ==
  /\ "crash" \in Faults
  /\ run[a].phase # "idle" /\ pc[a] = "idle"
  /\ Set(a, NoRun)
  /\ UNCHANGED vars

PowerFails == PowerLoss /\ run' = [a \in Agent |-> NoRun]

-----------------------------------------------------------------------------
Begin(a) == \E req \in ConsultReq :
              \/ Replay(a, req)
              \/ \E expected \in 0..Len(log) : StartRefused(a, req, expected) \/ Start(a, req, expected)

Propose(a) ==
  \/ ProposeFails(a)
  \/ \E text \in Text \cup {Malformed} :
       \/ ProposalInvalid(a, text)
       \/ \E status \in Proposed \ {"needs_more_evidence"} : ProposalTerminal(a, status, text)
       \/ \E reads \in Reads, known \in BOOLEAN : ProposalReads(a, reads, known, text)

Proceed(a) == \/ Propose(a) \/ (\E actor \in Actor : Read(a, actor))
              \/ Reload(a) \/ ReloadFails(a) \/ Persist(a)

(* The other callers of the case: its workflow, other acquisitions, and a   *)
(* run of the same request in another process, which reads on the head and  *)
(* is done after one round.                                                 *)
Elsewhere(c) ==
  \E req \in ConsultReq, actor \in Actor :
    \/ \E k \in Key : Acquire(c, actor, ReadReq(req, 1, k), "observation", Len(log))
    \/ /\ log # <<>>
       /\ \E text \in Text :
            Consult(c, actor, req, [status |-> "completed", round |-> 1, text |-> text,
                                    view |-> Len(log), start |-> Len(log)],
                    Len(log), Len(log))

Others(c) == (Workflow(c) \/ Commit(c) \/ Elsewhere(c)) /\ UNCHANGED run

RNext == \/ \E a \in Agent : Begin(a) \/ Proceed(a) \/ Expire(a) \/ Die(a)
         \/ \E c \in Client \ Agent : Others(c)
         \/ PowerFails

RSpec == RInit /\ [][RNext]_rvars

-----------------------------------------------------------------------------
(* Properties.                                                              *)

(* Every variable has its type.                                             *)
RTypeOK == TypeOK /\ run \in [Agent -> Run]

(* A recorded consultation stands on what it was made from: its source is   *)
(* the commit just before its own, the evidence and findings it refers to   *)
(* are on that commit, and unless it reports a failure they are all of      *)
(* them, however the case moved while the run was reading.                  *)
Grounded ==
  log # <<>> =>
    \A x \in Latest.consults :
      LET seen == log[x.body.view]
          source == log[x.source]
      IN /\ x \notin source.consults /\ x \in log[x.source + 1].consults
         /\ seen.evidence \subseteq source.evidence
         /\ seen.findings \subseteq source.findings
         /\ x.body.status # "failed" =>
              seen.evidence = source.evidence /\ seen.findings = source.findings

(* A consultation is advice only: the commit that records it changes        *)
(* nothing else of the case, which is analyzed before and after.            *)
AdvisoryOnly ==
  \A i \in 2..Len(log) :
    log[i].consults # log[i - 1].consults =>
      /\ log[i] = [log[i - 1] EXCEPT !.consults = log[i].consults]
      /\ log[i].state = "analyzed"

(* A run is never refused as stale because of its own reads, unless it      *)
(* reports that a round failed half way: else somebody moved the case.      *)
OthersMoved(a) ==
  LET known == log[run[a].commit]
  IN \/ Latest.events # known.events \/ Latest.consults # known.consults
     \/ \E q \in Latest.acqs \ known.acqs : q.by # a

NoSelfConflict ==
  [][\A a \in Agent :
       /\ run[a].phase = "persist" /\ run'[a].phase = "idle" /\ run'[a].req # NoId
       /\ reply'.status = "conflict"
       => run[a].status = "failed" \/ OthersMoved(a)]_rvars

(* What a run reports is on the case, also when it was retried, raced by    *)
(* another run of the same request, or answered by a replay.                *)
ReportedIsRecorded ==
  [][\A a \in Agent : run'[a] # run[a] /\ run'[a].got # NoId
       => run'[a].got \in log'[Len(log')].consults]_rvars

(* Every step of a run brings it closer to its end, whatever the provider   *)
(* proposes and other callers do: rounds, then the steps of a round, then   *)
(* the reads of its batch are used up.                                      *)
Rank4 == [propose |-> 4, read |-> 3, reload |-> 2, persist |-> 1, idle |-> 0]
Before(x, y) ==
  \/ x[1] < y[1]
  \/ x[1] = y[1] /\ (x[2] < y[2] \/ (x[2] = y[2] /\ x[3] < y[3]))

Remaining(r) ==
  <<IF r.phase \in {"persist", "idle"} THEN 0 ELSE MaxRounds + 1 - r.round,
    Rank4[r.phase], Len(r.queue)>>

RunAdvances ==
  [][\A a \in Agent : run[a].phase # "idle" /\ run'[a] # run[a] =>
       \/ run'[a] = [run[a] EXCEPT !.expired = TRUE]
       \/ Before(Remaining(run'[a]), Remaining(run[a]))]_rvars

(* After its deadline a run starts no commit, neither a read nor the record *)
(* of its failure.                                                          *)
DeadlineHolds ==
  [][\A a \in Agent : run[a].expired /\ pc[a] = "idle" => pc'[a] = "idle"]_rvars
=============================================================================
