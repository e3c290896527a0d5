------------------------- MODULE AgentRuntimeProofs -------------------------
(***************************************************************************)
(* Proofs about AgentRuntime, for any number of agents and other callers,  *)
(* any requests, proposals, limits and faults.  A consultation adds only   *)
(* calls the coordinator allows to anybody, so all that is proved of the   *)
(* coordinator holds with consultations under way as well.                 *)
(***************************************************************************)
EXTENDS AgentRuntime, CoordinatorValidityProofs

-----------------------------------------------------------------------------
(* The invariant.                                                           *)

(* What a run holds when n commits are on the case: it names commits that   *)
(* are there, and has looked at the case again since its own last read,     *)
(* unless it reports a failure.                                             *)
RunFits(r, n) ==
  /\ r \in Run
  /\ r.phase # "idle" => /\ r.req \in ConsultReq /\ r.round \in 1..MaxRounds
                         /\ r.start \in 1..n /\ r.commit \in 1..n /\ r.view \in 1..n
  /\ r.phase \in {"propose", "read", "reload"} => r.current \in 1..n
  /\ r.phase = "read" => r.queue # <<>>
  /\ r.phase = "persist" => r.status # "none"
  /\ r.phase = "propose" \/ (r.phase = "persist" /\ r.status # "failed") => r.commit <= r.view

RunsFit ==
  /\ run = [a \in Agent |-> run[a]]
  /\ \A a \in Agent : RunFits(run[a], Len(log))
  /\ Len(log) <= MaxCommits

(* A run is in a call only while it reads or records.                       *)
CallsFit == \A a \in Agent : run[a].phase \notin {"read", "persist"} => pc[a] = "idle"

RInv == IInv /\ RunsFit /\ CallsFit

-----------------------------------------------------------------------------
(* What a run becomes.                                                      *)

(* More commits do no harm to a run.                                        *)
LEMMA FitsLater ==
  ASSUME NEW n \in Nat, NEW m \in Nat, n <= m, NEW r, RunFits(r, n)
  PROVE  RunFits(r, m)
<1>1. 1..n \subseteq 1..m
  OBVIOUS
<1> QED
  BY <1>1 DEF RunFits

(* A run that is over.                                                      *)
LEMMA OverFits ==
  ASSUME NEW n \in Nat, NEW q \in ConsultReq \cup {NoId}, NEW g \in Consultation \cup {NoId}
  PROVE  RunFits([NoRun EXCEPT !.req = q, !.got = g], n) /\ RunFits(NoRun, n)
<1>1. /\ <<>> \in Seq(Key) /\ 0 \in 0..MaxCommits /\ 0 \in 0..MaxRounds
  BY CoordinatorAssumption, AgentAssumption
<1>2. NoRun \in Run /\ NoRun.phase = "idle"
  BY <1>1 DEF NoRun, Run
<1> QED
  BY <1>2 DEF RunFits, NoRun, Run

(* A run that ends a round goes on to record what it has.                   *)
LEMMA EndingFits ==
  ASSUME NEW n \in Nat, n <= MaxCommits, NEW r, RunFits(r, n), r.phase # "idle",
         NEW status \in {"completed", "blocked", "failed"}, status # "failed" => r.commit <= r.view,
         NEW text \in Text \cup {Malformed, NoId}
  PROVE  RunFits(Ending(r, status), n) /\ RunFits([Ending(r, status) EXCEPT !.text = text], n)
<1>1. <<>> \in Seq(Key) /\ 0 \in 0..MaxCommits
  BY CoordinatorAssumption
<1>2. r \in Run
  BY DEF RunFits
<1>3. /\ Ending(r, status) \in Run /\ Ending(r, status).phase = "persist"
      /\ Ending(r, status).status = status /\ Ending(r, status).req = r.req
      /\ Ending(r, status).round = r.round /\ Ending(r, status).start = r.start
      /\ Ending(r, status).commit = r.commit /\ Ending(r, status).view = r.view
  BY <1>1, <1>2 DEF Ending, Run
<1>4. RunFits(Ending(r, status), n)
  BY <1>3 DEF RunFits
<1> DEFINE e == Ending(r, status)
           t == [e EXCEPT !.text = text]
<1> HIDE DEF e
<1>5. e \in Run
  BY <1>3 DEF e
<1>6. /\ t \in Run /\ t.phase = e.phase /\ t.status = e.status /\ t.req = e.req /\ t.round = e.round
      /\ t.start = e.start /\ t.commit = e.commit /\ t.view = e.view
  BY <1>5 DEF Run
<1>7. RunFits(t, n)
  <2> HIDE DEF t
  <2> QED
    BY <1>3, <1>6 DEF RunFits, e
<1> QED
  BY <1>4, <1>7 DEF e

(* A run that was told of a read.                                           *)
LEMMA AfterReadFits ==
  ASSUME NEW n \in Nat, n <= MaxCommits, NEW r, RunFits(r, n), r.phase = "read",
         NEW told, told.status \in {"ok", "idempotent"} => told.commit \in 1..n
  PROVE  /\ RunFits(AfterRead(r, told), n)
         /\ AfterRead(r, told).phase \in {"read", "reload", "persist"}
<1>1. r \in Run /\ r.queue # <<>> /\ r.queue \in Seq(Key)
  BY DEF RunFits, Run
<1>2. CASE told.status \notin {"ok", "idempotent"}
  <2>1. AfterRead(r, told) = Ending(r, "failed")
    BY <1>2 DEF AfterRead
  <2>2. NoId \in Text \cup {Malformed, NoId}
    OBVIOUS
  <2>3. Ending(r, "failed").phase = "persist"
    BY <1>1 DEF Ending, Run
  <2> QED
    BY <2>1, <2>2, <2>3, EndingFits
<1>3. CASE told.status \in {"ok", "idempotent"} /\ Len(r.queue) > 1
  <2> DEFINE rest == Tail(r.queue)
             t == [r EXCEPT !.current = told.commit, !.queue = rest]
  <2>1. AfterRead(r, told) = t
    BY <1>3 DEF AfterRead
  <2>2. rest \in Seq(Key) /\ Len(rest) # 0
    <3>1. rest \in Seq(Key) /\ Len(rest) = Len(r.queue) - 1
      BY <1>1, HeadTailProperties
    <3>2. Len(r.queue) \in Nat
      BY <1>1
    <3>3. Len(r.queue) > 1
      BY <1>3
    <3>4. \A k \in Nat : k > 1 => k - 1 # 0
      OBVIOUS
    <3>5. Len(r.queue) - 1 # 0
      BY <3>2, <3>3, <3>4
    <3> QED
      BY <3>1, <3>5
  <2>3. told.commit \in 0..MaxCommits /\ told.commit \in 1..n
    BY <1>3, CoordinatorAssumption
  <2> HIDE DEF rest
  <2>4. rest # <<>>
    BY <2>2
  <2>5. /\ t \in Run /\ t.phase = "read" /\ t.current = told.commit /\ t.queue = rest
        /\ t.req = r.req /\ t.round = r.round /\ t.start = r.start /\ t.commit = r.commit
        /\ t.view = r.view
    BY <1>1, <2>2, <2>3 DEF Run
  <2> HIDE DEF t
  <2> QED
    BY <2>1, <2>3, <2>4, <2>5 DEF RunFits
<1>4. CASE told.status \in {"ok", "idempotent"} /\ ~(Len(r.queue) > 1)
  <2> DEFINE t == [r EXCEPT !.current = told.commit, !.commit = told.commit,
                            !.queue = <<>>, !.phase = "reload"]
  <2>1. AfterRead(r, told) = t
    BY <1>4 DEF AfterRead
  <2>2. told.commit \in 0..MaxCommits /\ told.commit \in 1..n /\ <<>> \in Seq(Key)
    BY <1>4, CoordinatorAssumption
  <2>3. /\ t \in Run /\ t.phase = "reload" /\ t.commit = told.commit
        /\ t.current = told.commit /\ t.req = r.req /\ t.round = r.round /\ t.start = r.start /\ t.view = r.view
    BY <1>1, <2>2 DEF Run
  <2> HIDE DEF t
  <2> QED
    BY <2>1, <2>2, <2>3 DEF RunFits
<1> QED
  BY <1>2, <1>3, <1>4

(* After its reads a run looks at the case as it is by now.                 *)
LEMMA ReloadFits ==
  ASSUME NEW n \in Nat, n <= MaxCommits, NEW r, RunFits(r, n), r.phase = "reload"
  PROVE  LET t == [r EXCEPT !.view = n, !.keys = r.keys \cup r.batch, !.batch = {}]
         IN /\ RunFits(Ending(t, "failed"), n)
            /\ r.round < MaxRounds => RunFits([t EXCEPT !.round = r.round + 1, !.phase = "propose"], n)
<1> DEFINE t == [r EXCEPT !.view = n, !.keys = r.keys \cup r.batch, !.batch = {}]
           u == [t EXCEPT !.round = r.round + 1, !.phase = "propose"]
<1>1. r \in Run /\ r.commit \in 1..n /\ r.current \in 1..n /\ r.round \in 1..MaxRounds
  BY DEF RunFits
<1>2. n \in 1..n /\ n \in 0..MaxCommits /\ r.commit <= n
  BY <1>1, CoordinatorAssumption
<1>3. /\ t \in Run /\ t.phase = "reload" /\ t.view = n /\ t.req = r.req /\ t.round = r.round
      /\ t.start = r.start /\ t.commit = r.commit /\ t.current = r.current
  BY <1>1, <1>2 DEF Run
<1> HIDE DEF t
<1>4. RunFits(t, n)
  BY <1>2, <1>3 DEF RunFits
<1>5. RunFits(Ending(t, "failed"), n)
  <2>1. NoId \in Text \cup {Malformed, NoId} /\ t.phase # "idle"
    BY <1>3
  <2> QED
    BY <1>4, <2>1, EndingFits
<1>6. ASSUME r.round < MaxRounds PROVE RunFits(u, n)
  <2>1. r.round + 1 \in 1..MaxRounds /\ r.round + 1 \in 0..MaxRounds
    BY <1>1, <1>6, AgentAssumption
  <2>2. /\ u \in Run /\ u.phase = "propose" /\ u.round = r.round + 1 /\ u.view = n /\ u.req = r.req
        /\ u.current = r.current /\ u.start = r.start /\ u.commit = r.commit
    BY <1>3, <2>1 DEF Run
  <2> HIDE DEF u
  <2> QED
    BY <1>1, <1>2, <2>1, <2>2 DEF RunFits
<1> QED
  BY <1>5, <1>6 DEF t

(* A run that takes on the reads of a proposal.                             *)
TakesOn(r, reads, text) ==
  [r EXCEPT !.phase = "read", !.queue = reads, !.text = text,
            !.batch = {reads[i] : i \in 1..Len(reads)}]

LEMMA ReadsFit ==
  ASSUME NEW n \in Nat, NEW r, RunFits(r, n), r.phase = "propose",
         NEW k \in Nat \ {0}, NEW reads \in [1..k -> Key], NEW text \in Text \cup {Malformed}
  PROVE  RunFits(TakesOn(r, reads, text), n)
<1>1. reads \in Seq(Key) /\ Len(reads) = k /\ reads # <<>>
  OBVIOUS
<1> DEFINE batch == {reads[i] : i \in 1..Len(reads)}
           t == [r EXCEPT !.phase = "read", !.queue = reads, !.text = text, !.batch = batch]
<1>2. batch \in SUBSET Key
  BY <1>1
<1> HIDE DEF batch
<1>3. r \in Run
  BY DEF RunFits
<1>4. /\ t \in Run /\ t.phase = "read" /\ t.queue = reads /\ t.current = r.current /\ t.req = r.req
      /\ t.round = r.round /\ t.start = r.start /\ t.commit = r.commit /\ t.view = r.view
  BY <1>1, <1>2, <1>3 DEF Run
<1> HIDE DEF t
<1>5. RunFits(t, n)
  BY <1>1, <1>4 DEF RunFits
<1> QED
  BY <1>5 DEF t, batch, TakesOn

-----------------------------------------------------------------------------
(* Calls.                                                                   *)

(* A call of another caller leaves a caller where it is.                    *)
LEMMA CallFrame ==
  ASSUME IInv, NEW c \in Client, Workflow(c) \/ Enrich(c) \/ Refused(c) \/ Commit(c)
  PROVE  \A d \in Client \ {c} : pc'[d] = pc[d] /\ job'[d] = job[d]
<1> TypeInv
  BY DEF IInv
<1>1. CASE Workflow(c) \/ Enrich(c) \/ Refused(c)
  <2>1. Prepared(c)
    BY <1>1, WorkflowPrepares, EnrichPrepares, RefusedPrepares
  <2> QED
    BY <2>1 DEF Prepared
<1>2. CASE Commit(c)
  BY <1>2 DEF Commit, Publish, Committed, CommittedBefore, Return, CommitRefused, CommitLocked,
              CallFails, OutcomeUnknown, Crash, End, TypeInv, TypeOK
<1> QED
  BY <1>1, <1>2

(* Only a publication adds a commit.                                        *)
LEMMA LogGrows ==
  ASSUME IInv, Len(log) <= MaxCommits,
         NEW c \in Client, Workflow(c) \/ Enrich(c) \/ Refused(c) \/ Commit(c)
  PROVE  /\ Len(log) \in Nat /\ Len(log') \in Nat
         /\ Len(log) <= Len(log') /\ Len(log') <= MaxCommits
         /\ \A i \in 1..Len(log) : log'[i] = log[i]
<1> TypeInv
  BY DEF IInv
<1>1. log \in Seq(Snapshot) /\ Len(log) \in Nat /\ MaxCommits \in Nat
  BY CoordinatorAssumption DEF TypeInv, TypeOK
<1>2. CASE log' = log
  BY <1>1, <1>2
<1>3. CASE Publish(c)
  <2>1. /\ job[c].next \in Snapshot /\ log' = Append(log, job[c].next) /\ Len(log) < MaxCommits
    BY <1>3 DEF Publish, Store!AppendSnapshot, TypeInv, TypeOK, Job
  <2>2. Len(log') = Len(log) + 1 /\ \A i \in 1..Len(log) : log'[i] = log[i]
    BY <1>1, <2>1, AppendProperties
  <2> QED
    BY <1>1, <2>1, <2>2
<1>4. CASE Workflow(c) \/ Enrich(c) \/ Refused(c)
  <2>1. Prepared(c)
    BY <1>4, WorkflowPrepares, EnrichPrepares, RefusedPrepares
  <2> QED
    BY <1>2, <2>1 DEF Prepared
<1>5. CASE Commit(c) /\ ~Publish(c)
  <2>1. log' = log
    BY <1>5 DEF Commit, Committed, CommittedBefore, Return, CommitRefused, CommitLocked,
                CallFails, OutcomeUnknown, Crash, Store!Acknowledge
  <2> QED
    BY <1>2, <2>1
<1> QED
  BY <1>3, <1>4, <1>5

(* The commits that are named when the case is not empty.                   *)
LEMMA HeadKnown ==
  ASSUME TypeInv, log # <<>>
  PROVE  Len(log) \in Nat /\ Len(log) \in 1..Len(log) /\ Known = 1..Len(log)
<1>1. Len(log) \in Nat \ {0}
  BY LatestType DEF TypeInv
<1> QED
  BY <1>1 DEF Known

(* A read of a run is an acquisition anybody may ask for ...                *)
LEMMA ReadIsCall ==
  ASSUME RInv, NEW a \in Agent, NEW actor \in Actor, Read(a, actor)
  PROVE  a \in Client /\ (Enrich(a) \/ Refused(a) \/ Commit(a))
<1> DEFINE r == run[a]
           req == ReadReq(r.req, r.round, Head(r.queue))
<1>1. r \in Run /\ r.phase = "read" /\ r.req \in ConsultReq /\ r.round \in 1..MaxRounds
      /\ r.queue # <<>> /\ r.current \in 1..Len(log)
  BY DEF Read, RInv, RunsFit, RunFits
<1>2. Head(r.queue) \in Key
  BY <1>1, HeadTailProperties DEF Run
<1>3. req \in AcqReq
  BY <1>1, <1>2, AgentAssumption
<1>4. a \in Client
  BY AgentAssumption
<1> HIDE DEF r
<1>5. \/ RefusedAtOnce(a, "acquire", req)
      \/ AcquireRefused(a, actor, req, "observation")
      \/ AcquireAgain(a, actor, req, "observation")
      \/ Acquire(a, actor, req, "observation", r.current)
      \/ Commit(a)
  BY DEF Read, r
<1> HIDE DEF req
<1>6. "acquire" \in Ops /\ req \in Request /\ "observation" \in Kinds /\ r.current \in Known
  BY <1>1, <1>3 DEF Ops, Request, Kinds, Known
<1> QED
  BY <1>3, <1>4, <1>5, <1>6 DEF Enrich, Refused

(* ... what it has to say is of the type of a consultation ...              *)
LEMMA AdviceType ==
  ASSUME NEW n \in Nat, n <= MaxCommits, NEW r, RunFits(r, n), r.phase = "persist"
  PROVE  AdviceOf(r) \in Body /\ r.req \in ConsultReq /\ r.commit \in 1..n
<1>1. /\ r \in Run /\ r.req \in ConsultReq /\ r.round \in 1..MaxRounds
      /\ r.start \in 1..n /\ r.commit \in 1..n /\ r.view \in 1..n /\ r.status # "none"
  BY DEF RunFits
<1>2. r.start \in 1..MaxCommits /\ r.view \in 1..MaxCommits
  BY <1>1, CoordinatorAssumption
<1>3. r.status \in {"completed", "blocked", "failed"} /\ r.text \in Text \cup {Malformed, NoId}
  BY <1>1 DEF Run
<1>4. AdviceOf(r) \in Advice
  BY <1>1, <1>2, <1>3 DEF AdviceOf, Advice
<1> QED
  BY <1>1, <1>4, AgentAssumption

(* ... which anybody may ask to have recorded ...                           *)
LEMMA PersistIsCall ==
  ASSUME RInv, NEW a \in Agent, Persist(a)
  PROVE  a \in Client /\ (Enrich(a) \/ Refused(a) \/ Commit(a))
<1> DEFINE r == run[a]
<1>1. Len(log) \in Nat /\ Len(log) <= MaxCommits /\ r.phase = "persist" /\ RunFits(r, Len(log))
  BY DEF Persist, RInv, RunsFit, IInv, TypeInv, TypeOK
<1> HIDE DEF r
<1>2. AdviceOf(r) \in Body /\ r.req \in ConsultReq /\ r.commit \in Known
  BY <1>1, AdviceType DEF Known
<1>3. a \in Client /\ "llm_advisor" \in Actor /\ "consult" \in Ops /\ r.req \in Request
  BY <1>2, AgentAssumption DEF Ops, Request
<1>4. \/ RefusedAtOnce(a, "consult", r.req)
      \/ Consult(a, "llm_advisor", r.req, AdviceOf(r), r.commit, r.commit)
      \/ Commit(a)
  BY DEF Persist, r
<1> QED
  BY <1>2, <1>3, <1>4 DEF Enrich, Refused

(* ... and what the other callers do beside it they do without it.          *)
LEMMA OthersCall ==
  ASSUME RInv, NEW c \in Client, Others(c)
  PROVE  Workflow(c) \/ Enrich(c) \/ Commit(c)
<1>1. Workflow(c) \/ Commit(c) \/ Elsewhere(c)
  BY DEF Others
<1>2. CASE Elsewhere(c)
  <2>1. PICK req \in ConsultReq, actor \in Actor :
          \/ \E k \in Key : Acquire(c, actor, ReadReq(req, 1, k), "observation", Len(log))
          \/ /\ log # <<>>
             /\ \E text \in Text :
                  Consult(c, actor, req, [status |-> "completed", round |-> 1, text |-> text,
                                          view |-> Len(log), start |-> Len(log)],
                          Len(log), Len(log))
    BY <1>2 DEF Elsewhere
  <2>2. ASSUME NEW k \in Key, Acquire(c, actor, ReadReq(req, 1, k), "observation", Len(log))
        PROVE  Enrich(c)
    <3>1. Len(log) \in Known
      BY <2>2, HeadKnown DEF Acquire, RInv, IInv
    <3>2. ReadReq(req, 1, k) \in AcqReq /\ "observation" \in Kinds
      <4>1. 1 \in 1..MaxRounds
        BY AgentAssumption
      <4> QED
        BY <4>1, AgentAssumption DEF Kinds
    <3> QED
      BY <2>2, <3>1, <3>2 DEF Enrich
  <2>3. ASSUME NEW text \in Text, log # <<>>,
               Consult(c, actor, req, [status |-> "completed", round |-> 1, text |-> text,
                                       view |-> Len(log), start |-> Len(log)],
                       Len(log), Len(log))
        PROVE  Enrich(c)
    <3>1. Len(log) \in Known /\ Len(log) \in 1..Len(log) /\ Len(log) \in Nat
      BY <2>3, HeadKnown DEF RInv, IInv
    <3>2. Len(log) \in 1..MaxCommits /\ 1 \in 1..MaxRounds
      BY <3>1, CoordinatorAssumption, AgentAssumption DEF RInv, RunsFit
    <3> DEFINE body == [status |-> "completed", round |-> 1, text |-> text,
                        view |-> Len(log), start |-> Len(log)]
    <3>3. body \in Body
      BY <3>2, AgentAssumption DEF Advice
    <3> HIDE DEF body
    <3>4. Consult(c, actor, req, body, Len(log), Len(log))
      BY <2>3 DEF body
    <3> QED
      BY <3>1, <3>3, <3>4 DEF Enrich
  <2> QED
    BY <2>1, <2>2, <2>3
<1> QED
  BY <1>1, <1>2

(* Every step with consultations is a step of the coordinator, or none.     *)
LEMMA StepIsCall ==
  ASSUME RInv, [RNext]_rvars
  PROVE  [Next]_vars
<1>1. CASE UNCHANGED rvars
  BY <1>1 DEF rvars, vars
<1>2. ASSUME NEW a \in Agent, Begin(a) \/ Propose(a) \/ Reload(a) \/ ReloadFails(a) \/ Expire(a) \/ Die(a)
      PROVE  UNCHANGED vars
  BY <1>2 DEF Begin, Replay, StartRefused, Start, Propose, ProposeFails, ProposalInvalid,
              ProposalTerminal, ProposalReads, Reload, ReloadFails, Expire, Die
<1>3. ASSUME NEW a \in Agent, Persist(a) \/ \E actor \in Actor : Read(a, actor)
      PROVE  Next
  BY <1>3, ReadIsCall, PersistIsCall DEF Next, Call
<1>4. ASSUME NEW c \in Client \ Agent, Others(c)
      PROVE  Next
  BY <1>4, OthersCall DEF Next, Call
<1>5. CASE PowerFails
  BY <1>5 DEF PowerFails, Next
<1> QED
  BY <1>1, <1>2, <1>3, <1>4, <1>5 DEF RNext, Proceed

-----------------------------------------------------------------------------
(* Steps.                                                                   *)

(* One run changes.                                                         *)
LEMMA SetFits ==
  ASSUME RunsFit, NEW a \in Agent, NEW r, run' = [run EXCEPT ![a] = r],
         Len(log) \in Nat, Len(log') \in Nat, Len(log) <= Len(log'), Len(log') <= MaxCommits,
         RunFits(r, Len(log'))
  PROVE  RunsFit' /\ run'[a] = r /\ \A b \in Agent \ {a} : run'[b] = run[b]
<1>1. /\ run' = [b \in Agent |-> run'[b]] /\ run'[a] = r
      /\ \A b \in Agent \ {a} : run'[b] = run[b]
  BY DEF RunsFit
<1>2. \A b \in Agent \ {a} : RunFits(run[b], Len(log'))
  BY FitsLater DEF RunsFit
<1>3. \A b \in Agent : RunFits(run'[b], Len(log'))
  BY <1>1, <1>2
<1> QED
  BY <1>1, <1>3 DEF RunsFit

(* No run changes.                                                          *)
LEMMA SameFits ==
  ASSUME RunsFit, UNCHANGED run,
         Len(log) \in Nat, Len(log') \in Nat, Len(log) <= Len(log'), Len(log') <= MaxCommits
  PROVE  RunsFit'
<1>1. \A b \in Agent : RunFits(run[b], Len(log'))
  BY FitsLater DEF RunsFit
<1> QED
  BY <1>1 DEF RunsFit

(* A commit that a caller is told of is on the case.                        *)
LEMMA ToldCommit ==
  ASSUME IInv, NEW c \in Client, Commit(c), pc'[c] = "idle", reply' # NoReply
  PROVE  /\ log' = log /\ pc[c] # "idle"
         /\ reply'.status \in {"ok", "idempotent"} =>
              reply'.status = "ok" /\ Return(c) /\ reply'.commit \in 1..Len(log)
<1>1. ASSUME NEW status \in Statuses \ {"ok", "idempotent"}, End(c, status, 0)
      PROVE  reply'.status \notin {"ok", "idempotent"}
  BY <1>1 DEF End, Told, NoReply
<1>2. ~Publish(c) /\ ~Committed(c) /\ ~CommittedBefore(c) /\ ~Crash(c)
  BY DEF Publish, Committed, CommittedBefore, Crash, IInv, TypeInv, TypeOK
<1>3. CASE Return(c)
  <2>1. reply'.commit = job[c].commit /\ pc[c] = "returning" /\ log' = log /\ reply'.status = "ok"
    BY <1>3 DEF Return, End, Told, NoReply
  <2> QED
    BY <1>3, <2>1 DEF IInv, JobBuilt
<1>4. CASE CommitRefused(c)
  BY <1>1, <1>4 DEF CommitRefused, Statuses
<1>5. CASE CommitLocked(c)
  BY <1>1, <1>5 DEF CommitLocked, Statuses
<1>6. CASE CallFails(c)
  BY <1>1, <1>6 DEF CallFails, Statuses
<1>7. CASE OutcomeUnknown(c)
  BY <1>1, <1>7 DEF OutcomeUnknown, Statuses
<1> QED
  BY <1>2, <1>3, <1>4, <1>5, <1>6, <1>7 DEF Commit

(* The answer to a read names a commit on the case, if any.                 *)
LEMMA ToldRead ==
  ASSUME RInv, NEW a \in Agent, NEW actor \in Actor, Read(a, actor), pc'[a] = "idle", reply' # NoReply
  PROVE  reply'.status \in {"ok", "idempotent"} => reply'.commit \in 1..Len(log')
<1> DEFINE r == run[a]
           req == ReadReq(r.req, r.round, Head(r.queue))
<1>1. \/ RefusedAtOnce(a, "acquire", req)
      \/ AcquireRefused(a, actor, req, "observation")
      \/ AcquireAgain(a, actor, req, "observation")
      \/ Acquire(a, actor, req, "observation", r.current)
      \/ Commit(a)
  BY DEF Read
<1>2. a \in Client /\ IInv
  BY AgentAssumption DEF RInv
<1> HIDE DEF req
<1>3. CASE RefusedAtOnce(a, "acquire", req)
  BY <1>3 DEF RefusedAtOnce, Answer, Told, NoReply
<1>4. CASE AcquireRefused(a, actor, req, "observation")
  BY <1>4 DEF AcquireRefused, Answer, AcquireTold, Told, NoReply
<1>5. CASE AcquireAgain(a, actor, req, "observation")
  <2>1. Len(log) \in 1..Len(log) /\ log' = log
    BY <1>2, <1>5, HeadKnown DEF AcquireAgain, IInv
  <2> QED
    BY <1>5, <2>1 DEF AcquireAgain, Answer, AcquireTold, Told, NoReply
<1>6. CASE Acquire(a, actor, req, "observation", r.current)
  <2>1. reply'.status \in {"conflict", "invalid"}
    BY <1>2, <1>6 DEF Acquire, Submit, Answer, AcquireTold, Told, NoReply, IInv, TypeInv, TypeOK
  <2> QED
    BY <2>1
<1>7. CASE Commit(a)
  BY <1>2, <1>7, ToldCommit
<1> QED
  BY <1>1, <1>3, <1>4, <1>5, <1>6, <1>7

(* A read leaves the run reading, or what it is after it was told.          *)
LEMMA ReadFits ==
  ASSUME RInv, NEW a \in Agent, NEW actor \in Actor, Read(a, actor)
  PROVE  RunsFit' /\ CallsFit'
<1>1. a \in Client /\ (Enrich(a) \/ Refused(a) \/ Commit(a)) /\ TypeInv
  BY ReadIsCall DEF RInv, IInv
<1>2. /\ Len(log) \in Nat /\ Len(log') \in Nat
      /\ Len(log) <= Len(log') /\ Len(log') <= MaxCommits
  BY <1>1, LogGrows DEF RInv, RunsFit
<1>3. \A b \in Agent \ {a} : pc'[b] = pc[b]
  BY <1>1, CallFrame, AgentAssumption DEF RInv
<1>4. run[a].phase = "read" /\ RunsFit /\ RunFits(run[a], Len(log'))
  BY <1>2, FitsLater DEF Read, RInv, RunsFit
<1>5. Outcome(a, AfterRead(run[a], reply'))
  BY DEF Read
<1>6. CASE pc'[a] # "idle"
  <2>1. UNCHANGED run
    BY <1>5, <1>6 DEF Outcome
  <2>2. CallsFit'
    BY <1>3, <1>4, <2>1 DEF RInv, CallsFit
  <2> QED
    BY <1>2, <1>4, <2>1, <2>2, SameFits
<1>7. CASE pc'[a] = "idle"
  <2> DEFINE r == IF reply' = NoReply THEN NoRun ELSE AfterRead(run[a], reply')
  <2>1. run' = [run EXCEPT ![a] = r]
    BY <1>5, <1>7 DEF Outcome, Set
  <2>2. RunFits(r, Len(log'))
    <3>1. CASE reply' = NoReply
      BY <1>2, <3>1, OverFits
    <3>2. CASE reply' # NoReply
      <4>1. RunFits(AfterRead(run[a], reply'), Len(log'))
        BY <1>2, <1>4, <1>7, <3>2, ToldRead, AfterReadFits
      <4> QED
        BY <3>2, <4>1
    <3> QED
      BY <3>1, <3>2
  <2> HIDE DEF r
  <2>3. RunsFit' /\ \A b \in Agent \ {a} : run'[b] = run[b]
    BY <1>2, <1>4, <2>1, <2>2, SetFits
  <2>4. CallsFit'
    BY <1>3, <1>7, <2>3 DEF RInv, CallsFit
  <2> QED
    BY <2>3, <2>4
<1> QED
  BY <1>6, <1>7

(* A record leaves the run recording, or over.                              *)
LEMMA FinishedFits ==
  ASSUME NEW n \in Nat, n <= MaxCommits, NEW a \in Agent, RunFits(run[a], n), run[a].phase = "persist",
         NEW told
  PROVE  RunFits(Finished(a, told), n) /\ Finished(a, told).phase = "idle"
<1> DEFINE record == [req |-> run[a].req, body |-> AdviceOf(run[a]), source |-> run[a].commit]
           got == IF told.status \in {"ok", "idempotent"} THEN record ELSE NoId
<1>1. AdviceOf(run[a]) \in Body /\ run[a].req \in ConsultReq /\ run[a].commit \in Nat
  BY AdviceType DEF RunFits
<1>2. record \in Consultation
  BY <1>1 DEF Consultation
<1>3. got \in Consultation \cup {NoId} /\ run[a].req \in ConsultReq \cup {NoId}
  BY <1>1, <1>2
<1>4. Finished(a, told) = [NoRun EXCEPT !.req = run[a].req, !.got = got]
  BY DEF Finished
<1> HIDE DEF got
<1>5. Finished(a, told).phase = "idle"
  BY <1>4 DEF NoRun
<1>6. RunFits([NoRun EXCEPT !.req = run[a].req, !.got = got], n)
  BY <1>3, OverFits
<1> QED
  BY <1>4, <1>5, <1>6

(* The record of a run keeps the invariant.                                 *)
LEMMA PersistFits ==
  ASSUME RInv, NEW a \in Agent, Persist(a)
  PROVE  RunsFit' /\ CallsFit'
<1>1. a \in Client /\ (Enrich(a) \/ Refused(a) \/ Commit(a)) /\ TypeInv
  BY PersistIsCall DEF RInv, IInv
<1>2. /\ Len(log) \in Nat /\ Len(log') \in Nat
      /\ Len(log) <= Len(log') /\ Len(log') <= MaxCommits
  BY <1>1, LogGrows DEF RInv, RunsFit
<1>3. \A b \in Agent \ {a} : pc'[b] = pc[b]
  BY <1>1, CallFrame, AgentAssumption DEF RInv
<1>4. run[a].phase = "persist" /\ RunsFit /\ RunFits(run[a], Len(log'))
  BY <1>2, FitsLater DEF Persist, RInv, RunsFit
<1>5. Outcome(a, Finished(a, reply'))
  BY DEF Persist
<1>6. CASE pc'[a] # "idle"
  <2>1. UNCHANGED run
    BY <1>5, <1>6 DEF Outcome
  <2>2. CallsFit'
    BY <1>3, <1>4, <2>1 DEF RInv, CallsFit
  <2> QED
    BY <1>2, <1>4, <2>1, <2>2, SameFits
<1>7. CASE pc'[a] = "idle"
  <2> DEFINE r == IF reply' = NoReply THEN NoRun ELSE Finished(a, reply')
  <2>1. run' = [run EXCEPT ![a] = r]
    BY <1>5, <1>7 DEF Outcome, Set
  <2>2. RunFits(r, Len(log'))
    BY <1>2, <1>4, OverFits, FinishedFits
  <2> HIDE DEF r
  <2>3. RunsFit' /\ \A b \in Agent \ {a} : run'[b] = run[b]
    BY <1>2, <1>4, <2>1, <2>2, SetFits
  <2>4. CallsFit'
    BY <1>3, <1>7, <2>3 DEF RInv, CallsFit
  <2> QED
    BY <2>3, <2>4
<1> QED
  BY <1>6, <1>7

(* What a run does without a call.                                          *)
Local(a) == Begin(a) \/ Propose(a) \/ Reload(a) \/ ReloadFails(a) \/ Expire(a) \/ Die(a)

(* A run that begins is over at once or proposes on the head.               *)
LEMMA BeginFits ==
  ASSUME RInv, NEW a \in Agent, Begin(a)
  PROVE  \E r : run' = [run EXCEPT ![a] = r] /\ RunFits(r, Len(log)) /\ pc[a] = "idle"
<1>1. Len(log) \in Nat /\ Len(log) <= MaxCommits
  BY DEF RInv, RunsFit, IInv, TypeInv, TypeOK
<1>2. ASSUME NEW req \in ConsultReq, Replay(a, req)
      PROVE  \E r : run' = [run EXCEPT ![a] = r] /\ RunFits(r, Len(log)) /\ pc[a] = "idle"
  <2>1. PICK x \in RecordedFor(req) : run' = [run EXCEPT ![a] = [NoRun EXCEPT !.req = req, !.got = x]]
    BY <1>2 DEF Replay, Set
  <2>2. x \in Consultation
    BY <1>2, LatestType DEF Replay, RecordedFor, Snapshot, RInv, IInv, TypeInv
  <2>3. RunFits([NoRun EXCEPT !.req = req, !.got = x], Len(log))
    BY <1>1, <2>2, OverFits
  <2> QED
    BY <1>2, <2>1, <2>3 DEF Replay
<1>3. ASSUME NEW req \in ConsultReq, NEW expected, StartRefused(a, req, expected)
      PROVE  \E r : run' = [run EXCEPT ![a] = r] /\ RunFits(r, Len(log)) /\ pc[a] = "idle"
  BY <1>1, <1>3, OverFits DEF StartRefused, Set
<1>4. ASSUME NEW req \in ConsultReq, NEW expected, Start(a, req, expected)
      PROVE  \E r : run' = [run EXCEPT ![a] = r] /\ RunFits(r, Len(log)) /\ pc[a] = "idle"
  <2> DEFINE n == Len(log)
             r == [NoRun EXCEPT !.phase = "propose", !.req = req, !.start = n,
                                !.commit = n, !.current = n, !.view = n, !.round = 1]
  <2>1. run' = [run EXCEPT ![a] = r] /\ pc[a] = "idle"
    BY <1>4 DEF Start, Set
  <2>2. n \in 1..n /\ n \in 0..MaxCommits /\ 1 \in 1..MaxRounds /\ 1 \in 0..MaxRounds /\ n <= n
    BY <1>1, <1>4, HeadKnown, CoordinatorAssumption, AgentAssumption DEF Start, RInv, IInv
  <2> HIDE DEF n
  <2>3. NoRun \in Run
    <3>1. <<>> \in Seq(Key) /\ 0 \in 0..MaxCommits /\ 0 \in 0..MaxRounds
      BY CoordinatorAssumption, AgentAssumption
    <3> QED
      BY <3>1 DEF NoRun, Run
  <2>4. /\ r \in Run /\ r.phase = "propose" /\ r.req = req /\ r.start = n /\ r.commit = n
        /\ r.current = n /\ r.view = n /\ r.round = 1
    BY <2>2, <2>3 DEF Run
  <2> HIDE DEF r
  <2>5. RunFits(r, n)
    BY <2>2, <2>4 DEF RunFits
  <2> QED
    BY <2>1, <2>5 DEF n
<1> QED
  BY <1>2, <1>3, <1>4 DEF Begin

(* What a proposal makes of a run.                                          *)
LEMMA ProposeFits ==
  ASSUME RInv, NEW a \in Agent, Propose(a)
  PROVE  \E r : run' = [run EXCEPT ![a] = r] /\ RunFits(r, Len(log)) /\ run[a].phase = "propose"
<1> DEFINE n == Len(log)
           q == run[a]
<1>1. n \in Nat /\ n <= MaxCommits /\ RunFits(q, n)
  BY DEF RInv, RunsFit, IInv, TypeInv, TypeOK
<1>2. q.phase = "propose"
  BY DEF Propose, ProposeFails, ProposalInvalid, ProposalTerminal, ProposalReads
<1>3. q.commit <= q.view /\ q.phase # "idle"
  BY <1>1, <1>2 DEF RunFits
<1>4. ASSUME NEW status \in {"completed", "blocked", "failed"}, NEW text \in Text \cup {Malformed}
      PROVE  RunFits(Ending(q, status), n) /\ RunFits([Ending(q, status) EXCEPT !.text = text], n)
  <2> HIDE DEF q, n
  <2>1. text \in Text \cup {Malformed, NoId}
    OBVIOUS
  <2> QED
    BY <1>1, <1>3, <2>1, EndingFits
<1>5. CASE ProposeFails(a)
  <2>1. run' = [run EXCEPT ![a] = Ending(q, "failed")]
    BY <1>5 DEF ProposeFails, Set
  <2>2. RunFits(Ending(q, "failed"), n)
    <3>1. "failed" \in {"completed", "blocked", "failed"} /\ NoId \in Text \cup {Malformed, NoId}
      OBVIOUS
    <3> HIDE DEF q, n
    <3> QED
      BY <1>1, <1>3, <3>1, EndingFits
  <2> QED
    BY <1>2, <2>1, <2>2
<1>6. ASSUME NEW text \in Text \cup {Malformed}, ProposalInvalid(a, text)
      PROVE  \E r : run' = [run EXCEPT ![a] = r] /\ RunFits(r, n) /\ q.phase = "propose"
  <2>1. run' = [run EXCEPT ![a] = [Ending(q, "failed") EXCEPT !.text = text]]
    BY <1>6 DEF ProposalInvalid, Set
  <2> QED
    BY <1>2, <1>4, <2>1
<1>7. ASSUME NEW text \in Text \cup {Malformed}, NEW status \in Proposed \ {"needs_more_evidence"},
             ProposalTerminal(a, status, text)
      PROVE  \E r : run' = [run EXCEPT ![a] = r] /\ RunFits(r, n) /\ q.phase = "propose"
  <2>1. run' = [run EXCEPT ![a] = [Ending(q, status) EXCEPT !.text = text]]
    BY <1>7 DEF ProposalTerminal, Set
  <2>2. status \in {"completed", "blocked", "failed"}
    BY DEF Proposed
  <2> QED
    BY <1>2, <1>4, <2>1, <2>2
<1>8. ASSUME NEW text \in Text \cup {Malformed}, NEW reads \in Reads, NEW known,
             ProposalReads(a, reads, known, text)
      PROVE  \E r : run' = [run EXCEPT ![a] = r] /\ RunFits(r, n) /\ q.phase = "propose"
  <2> DEFINE t == TakesOn(q, reads, text)
             b == [Ending(q, "blocked") EXCEPT !.text = text]
  <2>1. run' = [run EXCEPT ![a] = t] \/ run' = [run EXCEPT ![a] = b]
    BY <1>8 DEF ProposalReads, Set, TakesOn
  <2>2. PICK k \in 1..MaxPerRound + 1 : reads \in [1..k -> Key]
    BY DEF Reads
  <2>3. k \in Nat \ {0}
    BY <2>2, AgentAssumption
  <2>4. RunFits(t, n)
    <3> HIDE DEF q, n
    <3> QED
      BY <1>1, <1>2, <2>2, <2>3, ReadsFit
  <2>5. RunFits(b, n)
    <3> HIDE DEF q, n
    <3> QED
      BY <1>4
  <2> HIDE DEF t, b
  <2> QED
    BY <1>2, <2>1, <2>4, <2>5
<1> QED
  BY <1>5, <1>6, <1>7, <1>8 DEF Propose

(* What a run does without a call keeps the invariant.                      *)
LEMMA LocalFits ==
  ASSUME RInv, NEW a \in Agent, Local(a)
  PROVE  RunsFit' /\ CallsFit'
<1>1. Len(log) \in Nat /\ Len(log) <= MaxCommits /\ RunFits(run[a], Len(log)) /\ RunsFit /\ CallsFit
  BY DEF RInv, RunsFit, IInv, TypeInv, TypeOK
<1>2. log' = log /\ pc' = pc
  BY DEF Local, Begin, Replay, StartRefused, Start, Propose, ProposeFails, ProposalInvalid,
         ProposalTerminal, ProposalReads, Reload, ReloadFails, Expire, Die, vars
<1>3. ASSUME NEW r, run' = [run EXCEPT ![a] = r], RunFits(r, Len(log)),
             pc[a] = "idle" \/ r.phase = run[a].phase
      PROVE  RunsFit' /\ CallsFit'
  <2>1. /\ Len(log') \in Nat /\ Len(log) <= Len(log') /\ Len(log') <= MaxCommits
        /\ RunFits(r, Len(log'))
    BY <1>1, <1>2, <1>3
  <2>2. RunsFit' /\ run'[a] = r /\ \A b \in Agent \ {a} : run'[b] = run[b]
    BY <1>1, <1>3, <2>1, SetFits
  <2> QED
    BY <1>1, <1>2, <1>3, <2>2 DEF CallsFit
<1>4. CASE Begin(a)
  BY <1>3, <1>4, BeginFits
<1>5. run[a].phase \in {"propose", "reload"} => pc[a] = "idle"
  BY <1>1 DEF CallsFit
<1>6. CASE Propose(a)
  BY <1>3, <1>5, <1>6, ProposeFits
<1> DEFINE t == [run[a] EXCEPT !.view = Len(log), !.keys = run[a].keys \cup run[a].batch, !.batch = {}]
<1>7. CASE Reload(a)
  <2>1. run' = [run EXCEPT ![a] =
                  IF t.round < MaxRounds THEN [t EXCEPT !.round = t.round + 1, !.phase = "propose"]
                  ELSE Ending(t, "failed")]
    BY <1>7 DEF Reload, Set
  <2>2. run[a].phase = "reload" /\ t.round = run[a].round
    BY <1>1, <1>7 DEF Reload, RunFits, Run
  <2>3. /\ RunFits(Ending(t, "failed"), Len(log))
        /\ t.round < MaxRounds => RunFits([t EXCEPT !.round = t.round + 1, !.phase = "propose"], Len(log))
    BY <1>1, <2>2, ReloadFits
  <2> HIDE DEF t
  <2> QED
    BY <1>3, <1>5, <2>1, <2>2, <2>3
<1>8. CASE ReloadFails(a)
  <2>1. run' = [run EXCEPT ![a] = Ending(run[a], "failed")] /\ run[a].phase = "reload"
    BY <1>8 DEF ReloadFails, Set
  <2>2. RunFits(Ending(run[a], "failed"), Len(log))
    <3>1. "failed" \in {"completed", "blocked", "failed"} /\ NoId \in Text \cup {Malformed, NoId}
      OBVIOUS
    <3> QED
      BY <1>1, <2>1, <3>1, EndingFits
  <2> QED
    BY <1>3, <1>5, <2>1, <2>2
<1>9. CASE Expire(a)
  <2> DEFINE r == [run[a] EXCEPT !.expired = TRUE]
  <2>1. run' = [run EXCEPT ![a] = r]
    BY <1>9 DEF Expire
  <2>2. /\ r \in Run /\ r.phase = run[a].phase /\ r.req = run[a].req /\ r.round = run[a].round
        /\ r.start = run[a].start /\ r.commit = run[a].commit /\ r.view = run[a].view
        /\ r.current = run[a].current /\ r.queue = run[a].queue /\ r.status = run[a].status
    BY <1>1 DEF RunFits, Run
  <2> HIDE DEF r
  <2>3. RunFits(r, Len(log))
    BY <1>1, <2>2 DEF RunFits
  <2> QED
    BY <1>3, <2>1, <2>2, <2>3
<1>10. CASE Die(a)
  BY <1>1, <1>3, <1>10, OverFits DEF Die, Set
<1> QED
  BY <1>4, <1>6, <1>7, <1>8, <1>9, <1>10 DEF Local

(* Every step of a run and of the other callers preserves the invariant.    *)
LEMMA RInvStep ==
  ASSUME RInv, [RNext]_rvars
  PROVE  RInv'
<1>1. IInv'
  BY StepIsCall, IInvInductive DEF RInv
<1>2. CASE UNCHANGED rvars
  BY <1>1, <1>2 DEF rvars, RInv, RunsFit, CallsFit
<1>3. ASSUME NEW a \in Agent, Local(a) \/ Persist(a) \/ \E actor \in Actor : Read(a, actor)
      PROVE  RInv'
  BY <1>1, <1>3, LocalFits, ReadFits, PersistFits DEF RInv
<1>4. ASSUME NEW c \in Client \ Agent, Others(c)
      PROVE  RInv'
  <2>1. Workflow(c) \/ Enrich(c) \/ Commit(c)
    BY <1>4, OthersCall
  <2>2. run' = run
    BY <1>4 DEF Others
  <2>3. RunsFit'
    BY <2>1, <2>2, LogGrows, SameFits DEF RInv, RunsFit, IInv
  <2>4. \A a \in Agent : pc'[a] = pc[a]
    BY <1>4, <2>1, CallFrame, AgentAssumption DEF RInv, IInv
  <2>5. CallsFit'
    BY <2>2, <2>4 DEF RInv, CallsFit
  <2> QED
    BY <1>1, <2>3, <2>5 DEF RInv
<1>5. CASE PowerFails
  <2>1. PowerLoss /\ run' = [a \in Agent |-> NoRun]
    BY <1>5 DEF PowerFails
  <2>2. \A a \in Agent : run'[a] = NoRun /\ pc'[a] = "idle"
    BY <2>1, AgentAssumption DEF PowerLoss
  <2>3. Len(log') \in Nat /\ Len(log') <= MaxCommits
    <3>1. PICK n \in safe..Len(log) : log' = SubSeq(log, 1, n)
      BY <2>1 DEF PowerLoss, Store!Lose
    <3>2. log \in Seq(Snapshot) /\ safe \in 0..Len(log) /\ Len(log) \in Nat /\ Len(log) <= MaxCommits
      BY DEF RInv, RunsFit, IInv, TypeInv, TypeOK
    <3>3. n \in Nat /\ n <= Len(log) /\ \A i \in 1..n : log[i] \in Snapshot
      BY <3>2
    <3>4. Len(log') = n
      BY <3>1, <3>2, <3>3, SubSeqProperties
    <3> QED
      BY <3>2, <3>3, <3>4, CoordinatorAssumption
  <2>4. \A a \in Agent : RunFits(run'[a], Len(log'))
    BY <2>2, <2>3, OverFits
  <2>5. RunsFit' /\ CallsFit'
    BY <2>1, <2>2, <2>3, <2>4 DEF RunsFit, CallsFit
  <2> QED
    BY <1>1, <2>5 DEF RInv
<1> QED
  BY <1>2, <1>3, <1>4, <1>5 DEF RNext, Proceed, Local

(* At first no run is under way.                                            *)
LEMMA RInvInit ==
  ASSUME RInit
  PROVE  RInv /\ Init
<1>1. Init /\ log = <<>> /\ run = [a \in Agent |-> NoRun]
  BY DEF RInit
<1>2. IInv
  BY <1>1, IInvInductive
<1>3. Len(log) = 0 /\ 0 <= MaxCommits
  BY <1>1, CoordinatorAssumption
<1>4. \A a \in Agent : RunFits(run[a], Len(log))
  BY <1>1, <1>3, OverFits
<1>5. RunsFit
  BY <1>1, <1>3, <1>4 DEF RunsFit
<1>6. CallsFit
  BY <1>1, AgentAssumption DEF Init, CallsFit
<1> QED
  BY <1>1, <1>2, <1>5, <1>6 DEF RInv

-----------------------------------------------------------------------------
(* The theorems.                                                            *)

(* The invariant holds throughout every consultation.                       *)
THEOREM RunsInductive == RSpec => []RInv
<1>1. RInit => RInv
  BY RInvInit
<1>2. RInv /\ [RNext]_rvars => RInv'
  BY RInvStep
<1> QED
  BY <1>1, <1>2, PTL DEF RSpec

(* Agents are callers like any other: with consultations under way the case *)
(* still follows the coordinator's own specification.                       *)
THEOREM RunsAreCalls == RSpec => Spec
<1>1. RInit => Init
  BY RInvInit
<1>2. RInv /\ [RNext]_rvars => [Next]_vars
  BY StepIsCall
<1> QED
  BY <1>1, <1>2, RunsInductive, PTL DEF RSpec, Spec

(* Every variable has its type.                                             *)
THEOREM TypedRuns == RSpec => []RTypeOK
<1>1. RInv => RTypeOK
  <2> SUFFICES ASSUME RInv PROVE RTypeOK
    OBVIOUS
  <2>1. TypeOK
    BY DEF RInv, IInv, TypeInv
  <2>2. run \in [Agent -> Run]
    BY DEF RInv, RunsFit, RunFits
  <2> QED
    BY <2>1, <2>2 DEF RTypeOK
<1> QED
  BY <1>1, RunsInductive, PTL

(* After its deadline a run begins no commit.                               *)
THEOREM DeadlinesHold == RSpec => DeadlineHolds
<1>1. ASSUME RInv, RNext, NEW a \in Agent, run[a].expired, pc[a] = "idle"
      PROVE  pc'[a] = "idle"
  <2>1. IInv /\ TypeInv /\ a \in Client
    BY <1>1, AgentAssumption DEF RInv, IInv
  <2>2. ~Commit(a)
    BY <1>1 DEF Commit, Publish, Committed, CommittedBefore, Return, CommitRefused, CommitLocked,
                CallFails, OutcomeUnknown, Crash
  <2>3. ASSUME NEW b \in Agent, Local(b) PROVE pc' = pc
    BY <2>3 DEF Local, Begin, Replay, StartRefused, Start, Propose, ProposeFails, ProposalInvalid,
           ProposalTerminal, ProposalReads, Reload, ReloadFails, Expire, Die, vars
  <2>4. ASSUME NEW b \in Agent, b # a, Persist(b) \/ \E actor \in Actor : Read(b, actor)
        PROVE  pc'[a] = pc[a]
    BY <1>1, <2>1, <2>4, ReadIsCall, PersistIsCall, CallFrame
  <2>5. CASE Persist(a)
    <3>1. RefusedAtOnce(a, "consult", run[a].req)
      BY <1>1, <2>2, <2>5 DEF Persist
    <3> QED
      BY <1>1, <3>1 DEF RefusedAtOnce, Answer
  <2>6. ASSUME NEW actor \in Actor, Read(a, actor) PROVE pc'[a] = pc[a]
    <3>1. PICK req : RefusedAtOnce(a, "acquire", req)
      BY <1>1, <2>2, <2>6 DEF Read
    <3> QED
      BY <3>1 DEF RefusedAtOnce, Answer
  <2>7. ASSUME NEW c \in Client \ Agent, Others(c) PROVE pc'[a] = pc[a]
    BY <1>1, <2>1, <2>7, OthersCall, CallFrame
  <2>8. PowerFails => pc'[a] = "idle"
    BY <2>1 DEF PowerFails, PowerLoss
  <2> QED
    BY <1>1, <2>3, <2>4, <2>5, <2>6, <2>7, <2>8 DEF RNext, Proceed, Local
<1>2. RInv /\ [RNext]_rvars =>
        [\A a \in Agent : run[a].expired /\ pc[a] = "idle" => pc'[a] = "idle"]_rvars
  BY <1>1
<1> QED
  BY <1>2, RunsInductive, PTL DEF RSpec, DeadlineHolds

-----------------------------------------------------------------------------
(* A run comes closer to its end with every step.                           *)

(* What comes closer to the end.                                            *)
LEMMA Nearer ==
  ASSUME NEW r \in Run, NEW t \in Run, r.phase # "idle", r.round \in 1..MaxRounds,
         \/ t.phase \in {"persist", "idle"} /\ r.phase # "persist"
         \/ t.phase = "idle" /\ r.phase = "persist"
         \/ /\ {r.phase, t.phase} \cap {"persist", "idle"} = {}
            /\ \/ t.round = r.round + 1
               \/ t.round = r.round /\ Rank4[t.phase] < Rank4[r.phase]
               \/ t.round = r.round /\ t.phase = r.phase /\ Len(t.queue) < Len(r.queue)
  PROVE  Before(Remaining(t), Remaining(r))
<1>1. /\ MaxRounds \in Nat /\ r.round \in Nat /\ t.round \in Nat /\ r.round <= MaxRounds /\ r.round >= 1
      /\ MaxRounds + 1 - r.round > 0
  BY AgentAssumption DEF Run
<1>2. /\ Rank4["idle"] = 0 /\ Rank4["persist"] = 1
      /\ \A p \in {"propose", "read", "reload"} : Rank4[p] \in {2, 3, 4}
  BY DEF Rank4
<1>3. r.phase \in {"propose", "read", "reload", "persist", "idle"}
      /\ t.phase \in {"propose", "read", "reload", "persist", "idle"}
  BY DEF Run
<1> DEFINE left(x) == IF x.phase \in {"persist", "idle"} THEN 0 ELSE MaxRounds + 1 - x.round
<1>4. /\ Remaining(t)[1] = left(t) /\ Remaining(t)[2] = Rank4[t.phase] /\ Remaining(t)[3] = Len(t.queue)
      /\ Remaining(r)[1] = left(r) /\ Remaining(r)[2] = Rank4[r.phase] /\ Remaining(r)[3] = Len(r.queue)
  BY DEF Remaining
<1>5. CASE t.phase \in {"persist", "idle"} /\ r.phase # "persist"
  <2>1. left(t) = 0 /\ left(r) = MaxRounds + 1 - r.round
    BY <1>3, <1>5
  <2> HIDE DEF left
  <2> QED
    BY <1>1, <1>4, <2>1 DEF Before
<1>6. CASE t.phase = "idle" /\ r.phase = "persist"
  <2>1. left(t) = left(r) /\ Rank4[t.phase] < Rank4[r.phase]
    BY <1>2, <1>6
  <2> HIDE DEF left
  <2> QED
    BY <1>4, <2>1 DEF Before
<1>7. CASE {r.phase, t.phase} \cap {"persist", "idle"} = {}
  <2>1. left(r) = MaxRounds + 1 - r.round /\ left(t) = MaxRounds + 1 - t.round
    BY <1>7
  <2>2. CASE t.round = r.round + 1
    <3>1. left(t) < left(r)
      BY <1>1, <2>1, <2>2
    <3> HIDE DEF left
    <3> QED
      BY <1>4, <3>1 DEF Before
  <2>3. CASE t.round = r.round /\ Rank4[t.phase] < Rank4[r.phase]
    <3>1. left(t) = left(r)
      BY <2>1, <2>3
    <3> HIDE DEF left
    <3> QED
      BY <1>4, <2>3, <3>1 DEF Before
  <2>4. CASE t.round = r.round /\ t.phase = r.phase /\ Len(t.queue) < Len(r.queue)
    <3>1. left(t) = left(r)
      BY <2>1, <2>4
    <3> HIDE DEF left
    <3> QED
      BY <1>4, <2>4, <3>1 DEF Before
  <2> QED
    BY <1>5, <1>6, <1>7, <2>2, <2>3, <2>4
<1> QED
  BY <1>5, <1>6, <1>7

(* Where a read may leave a run.                                            *)
LEMMA AfterReadCloser ==
  ASSUME NEW r \in Run, r.phase = "read", r.queue # <<>>, NEW told
  PROVE  LET t == AfterRead(r, told)
         IN \/ t.phase = "persist"
            \/ t.phase = "reload" /\ t.round = r.round
            \/ t.phase = "read" /\ t.round = r.round /\ Len(t.queue) < Len(r.queue)
<1>1. CASE told.status \notin {"ok", "idempotent"}
  BY <1>1 DEF AfterRead, Ending, Run
<1>2. CASE told.status \in {"ok", "idempotent"} /\ Len(r.queue) > 1
  <2> DEFINE rest == Tail(r.queue)
  <2>1. Len(r.queue) \in Nat /\ Len(rest) = Len(r.queue) - 1
    BY HeadTailProperties DEF Run
  <2>2. Len(rest) < Len(r.queue)
    <3>1. \A k \in Nat : k - 1 < k
      OBVIOUS
    <3> QED
      BY <2>1, <3>1
  <2>3. AfterRead(r, told) = [r EXCEPT !.current = told.commit, !.queue = rest]
    BY <1>2 DEF AfterRead
  <2> HIDE DEF rest
  <2> QED
    BY <2>2, <2>3 DEF Run
<1>3. CASE told.status \in {"ok", "idempotent"} /\ ~(Len(r.queue) > 1)
  BY <1>3 DEF AfterRead, Run
<1> QED
  BY <1>1, <1>2, <1>3

(* A step of the run itself.                                                *)
LEMMA CloserStep ==
  ASSUME RInv, RInv', NEW a \in Agent, run[a].phase # "idle", run'[a] # run[a],
         \/ Propose(a) \/ Reload(a) \/ ReloadFails(a) \/ Persist(a) \/ Die(a)
         \/ \E actor \in Actor : Read(a, actor)
  PROVE  Before(Remaining(run'[a]), Remaining(run[a]))
<1> DEFINE r == run[a]
           t == run'[a]
<1>1. r \in Run /\ t \in Run /\ r.round \in 1..MaxRounds /\ (r.phase = "read" => r.queue # <<>>)
  BY DEF RInv, RunsFit, RunFits
<1>2. \A s : Set(a, s) => t = s
  BY DEF Set, RInv, RunsFit
<1>3. "persist" # "idle" /\ "read" # "idle" /\ Rank4["read"] < Rank4["propose"] /\ Rank4["reload"] < Rank4["read"]
  BY DEF Rank4
<1>4. \A status, text : /\ Ending(r, status).phase = "persist"
                        /\ [Ending(r, status) EXCEPT !.text = text].phase = "persist"
  BY <1>1 DEF Ending, Run
<1>5. NoRun.phase = "idle"
  BY DEF NoRun
<1>6. CASE Propose(a)
  <2>1. r.phase = "propose"
    BY <1>6 DEF Propose, ProposeFails, ProposalInvalid, ProposalTerminal, ProposalReads
  <2>2. t.phase = "persist" \/ (t.phase = "read" /\ t.round = r.round)
    <3>1. CASE ProposeFails(a)
      BY <1>2, <1>4, <3>1 DEF ProposeFails
    <3>2. ASSUME NEW text, ProposalInvalid(a, text) PROVE t.phase = "persist"
      BY <1>2, <1>4, <3>2 DEF ProposalInvalid
    <3>3. ASSUME NEW text, NEW status, ProposalTerminal(a, status, text) PROVE t.phase = "persist"
      BY <1>2, <1>4, <3>3 DEF ProposalTerminal
    <3>4. ASSUME NEW text, NEW reads, NEW known, ProposalReads(a, reads, known, text)
          PROVE  t.phase = "persist" \/ (t.phase = "read" /\ t.round = r.round)
      <4> DEFINE batch == {reads[i] : i \in 1..Len(reads)}
                 u == [r EXCEPT !.phase = "read", !.queue = reads, !.text = text, !.batch = batch]
      <4>1. t = u \/ t = [Ending(r, "blocked") EXCEPT !.text = text]
        BY <1>2, <3>4 DEF ProposalReads
      <4> HIDE DEF batch
      <4>2. u.phase = "read" /\ u.round = r.round
        BY <1>1 DEF Run
      <4>3. [Ending(r, "blocked") EXCEPT !.text = text].phase = "persist"
        BY <1>4
      <4> DEFINE e == [Ending(r, "blocked") EXCEPT !.text = text]
      <4> HIDE DEF r, t, u, e
      <4>4. e.phase = "persist" /\ (t = u \/ t = e)
        BY <4>1, <4>3 DEF e
      <4> QED
        BY <4>2, <4>4
    <3> QED
      BY <1>6, <3>1, <3>2, <3>3, <3>4 DEF Propose
  <2> HIDE DEF r, t
  <2>3. \/ t.phase \in {"persist", "idle"} /\ r.phase # "persist"
        \/ /\ {r.phase, t.phase} \cap {"persist", "idle"} = {}
           /\ t.round = r.round /\ Rank4[t.phase] < Rank4[r.phase]
    BY <1>3, <2>1, <2>2
  <2>4. r.phase # "idle"
    BY <2>1
  <2>5. Before(Remaining(t), Remaining(r))
    BY <1>1, <2>3, <2>4, Nearer
  <2> QED
    BY <2>5 DEF r, t
<1>7. CASE Reload(a) \/ ReloadFails(a)
  <2> DEFINE u == [r EXCEPT !.view = Len(log), !.keys = r.keys \cup r.batch, !.batch = {}]
  <2>1. r.phase = "reload"
    BY <1>7 DEF Reload, ReloadFails
  <2>2. u.round = r.round /\ Ending(u, "failed").phase = "persist"
    BY <1>1 DEF Run, Ending
  <2>3. \/ t = Ending(r, "failed") \/ t = Ending(u, "failed")
        \/ t = [u EXCEPT !.round = u.round + 1, !.phase = "propose"]
    BY <1>2, <1>7 DEF Reload, ReloadFails
  <2>4. [u EXCEPT !.round = u.round + 1, !.phase = "propose"].phase = "propose"
        /\ [u EXCEPT !.round = u.round + 1, !.phase = "propose"].round = r.round + 1
    BY <1>1, <2>2 DEF Run
  <2>5. t.phase = "persist" \/ (t.phase = "propose" /\ t.round = r.round + 1)
    <3> HIDE DEF u
    <3> QED
      BY <1>4, <2>2, <2>3, <2>4
  <2> HIDE DEF r, t, u
  <2>6. \/ t.phase \in {"persist", "idle"} /\ r.phase # "persist"
        \/ {r.phase, t.phase} \cap {"persist", "idle"} = {} /\ t.round = r.round + 1
    BY <2>1, <2>5
  <2>7. r.phase # "idle"
    BY <2>1
  <2>8. Before(Remaining(t), Remaining(r))
    BY <1>1, <2>6, <2>7, Nearer
  <2> QED
    BY <2>8 DEF r, t
<1>8. ASSUME t = NoRun \/ t.phase = "idle" PROVE Before(Remaining(t), Remaining(r))
  <2>1. t.phase = "idle" /\ r.phase # "idle"
    BY <1>5, <1>8
  <2> HIDE DEF r, t
  <2> QED
    BY <1>1, <2>1, Nearer
<1>9. CASE Persist(a)
  <2>1. t = NoRun \/ t = Finished(a, reply')
    BY <1>2, <1>9 DEF Persist, Outcome
  <2>2. Finished(a, reply').phase = "idle"
    BY DEF Finished, NoRun
  <2> QED
    BY <1>8, <2>1, <2>2
<1>10. CASE Die(a)
  BY <1>2, <1>8, <1>10 DEF Die
<1>11. ASSUME NEW actor \in Actor, Read(a, actor) PROVE Before(Remaining(t), Remaining(r))
  <2>1. r.phase = "read" /\ (t = NoRun \/ t = AfterRead(r, reply'))
    BY <1>2, <1>11 DEF Read, Outcome
  <2>2. CASE t = AfterRead(r, reply')
    <3>1. \/ t.phase = "persist"
          \/ t.phase = "reload" /\ t.round = r.round
          \/ t.phase = "read" /\ t.round = r.round /\ Len(t.queue) < Len(r.queue)
      <4> HIDE DEF r, t
      <4> QED
        BY <1>1, <2>1, <2>2, AfterReadCloser
    <3> HIDE DEF r, t
    <3>2. \/ t.phase \in {"persist", "idle"} /\ r.phase # "persist"
          \/ /\ {r.phase, t.phase} \cap {"persist", "idle"} = {}
             /\ \/ t.round = r.round /\ Rank4[t.phase] < Rank4[r.phase]
                \/ t.round = r.round /\ t.phase = r.phase /\ Len(t.queue) < Len(r.queue)
      BY <1>3, <2>1, <3>1
    <3>3. r.phase # "idle"
      BY <2>1
    <3> QED
      BY <1>1, <3>2, <3>3, Nearer
  <2> QED
    BY <1>8, <2>1, <2>2
<1> QED
  BY <1>6, <1>7, <1>9, <1>10, <1>11

(* Whatever its provider proposes and other callers do, every step of a run *)
(* brings it closer to its end.                                             *)
THEOREM RunsAdvance == RSpec => RunAdvances
<1>1. ASSUME RInv, RInv', RNext, NEW a \in Agent, run[a].phase # "idle", run'[a] # run[a]
      PROVE  \/ run'[a] = [run[a] EXCEPT !.expired = TRUE]
             \/ Before(Remaining(run'[a]), Remaining(run[a]))
  <2>1. run = [b \in Agent |-> run[b]]
    BY <1>1 DEF RInv, RunsFit
  <2>2. ASSUME NEW b \in Agent, b # a, Begin(b) \/ Proceed(b) \/ Expire(b) \/ Die(b) PROVE FALSE
    <3>1. run'[a] = run[a]
      BY <2>1, <2>2 DEF Begin, Replay, StartRefused, Start, Proceed, Propose, ProposeFails, ProposalInvalid,
        ProposalTerminal, ProposalReads, Reload, ReloadFails, Expire, Die, Read, Persist, Outcome, Set
    <3> QED
      BY <1>1, <3>1
  <2>3. ~Begin(a)
    BY <1>1 DEF Begin, Replay, StartRefused, Start
  <2>4. CASE Expire(a)
    BY <2>1, <2>4 DEF Expire
  <2>5. CASE Proceed(a) \/ Die(a)
    BY <1>1, <2>5, CloserStep DEF Proceed
  <2>6. ASSUME NEW c \in Client \ Agent, Others(c) PROVE FALSE
    BY <1>1, <2>6 DEF Others
  <2>7. CASE PowerFails
    <3>1. run'[a].phase = "idle" /\ run[a] \in Run /\ run'[a] \in Run /\ run[a].round \in 1..MaxRounds
      BY <1>1, <2>7 DEF PowerFails, NoRun, RInv, RunsFit, RunFits
    <3> QED
      BY <1>1, <3>1, Nearer
  <2> QED
    BY <1>1, <2>2, <2>3, <2>4, <2>5, <2>6, <2>7 DEF RNext
<1>2. RInv /\ RInv' /\ [RNext]_rvars =>
        [\A a \in Agent : run[a].phase # "idle" /\ run'[a] # run[a] =>
             \/ run'[a] = [run[a] EXCEPT !.expired = TRUE]
             \/ Before(Remaining(run'[a]), Remaining(run[a]))]_rvars
  BY <1>1
<1> QED
  BY <1>2, RunsInductive, PTL DEF RSpec, RunAdvances

-----------------------------------------------------------------------------
(* What consultations record.                                               *)

(* A consultation made from commit n: what it refers to is on that commit,  *)
(* and is all of it unless it reports a failure.                            *)
MadeFrom(x, n) ==
  /\ x.source = n /\ x.body.view \in 1..n
  /\ x.body.status # "failed" => x.body.view = n

(* t follows commit n, which is s, and may have recorded a consultation.    *)
Advised(s, t, n) ==
  \/ t.consults = s.consults
  \/ /\ t = [s EXCEPT !.consults = t.consults] /\ s.state = "analyzed"
     /\ \A x \in t.consults : x \in s.consults \/ MadeFrom(x, n)

JobsAdvised ==
  \A c \in Client :
    pc[c] = "commit" => Advised(Earlier(job[c].parent), job[c].next, job[c].parent)

LogAdvised == \A i \in 1..Len(log) : Advised(Earlier(i - 1), log[i], i - 1)

(* Commits keep documents not only from one to the next.                    *)
Monotone == \A j \in 1..Len(log) : \A i \in 1..j : Extends(log[i], log[j])

(* Every consultation was recorded on the commit it was made from.          *)
Introduced ==
  \A i \in 1..Len(log) : \A x \in log[i].consults :
    /\ x.source \in 1..i - 1 /\ MadeFrom(x, x.source)
    /\ x \notin log[x.source].consults /\ x \in log[x.source + 1].consults

(* A run that records is in a call that would add what it would report.     *)
Record(r) == [req |-> r.req, body |-> AdviceOf(r), source |-> r.commit]

RecordsFit ==
  \A a \in Agent : run[a].phase = "persist" /\ pc[a] # "idle" =>
    /\ pc[a] \in {"commit", "published", "returning"}
    /\ Record(run[a]) \in job[a].next.consults

(* A run reports when it is over.                                           *)
NothingYet == \A a \in Agent : run[a].phase # "idle" => run[a].got = NoId

AInv == /\ RInv /\ JobsAdvised /\ LogAdvised /\ Monotone /\ Introduced
        /\ RecordsFit /\ NothingYet

(* What a call hands to the store.                                          *)
LEMMA SubmitGives ==
  ASSUME TypeInv, NEW c \in Client, NEW op, NEW req, NEW parent, NEW next,
         Submit(c, op, req, parent, next)
  PROVE  /\ pc'[c] \in {"idle", "commit"}
         /\ pc'[c] = "commit" => job'[c].parent = parent /\ job'[c].next = next
<1>1. CASE Valid(next)
  <2> DEFINE j == [NoJob EXCEPT !.op = op, !.req = req, !.parent = parent, !.next = next]
  <2>1. pc' = [pc EXCEPT ![c] = "commit"] /\ job' = [job EXCEPT ![c] = j]
    BY <1>1 DEF Submit
  <2>2. j.parent = parent /\ j.next = next
    BY DEF NoJob
  <2> HIDE DEF j
  <2> QED
    BY <2>1, <2>2 DEF TypeInv, TypeOK
<1>2. CASE ~Valid(next)
  BY <1>2 DEF Submit, TypeInv, TypeOK
<1> QED
  BY <1>1, <1>2

(* A call that is going to commit, when it adds no consultation.            *)
Unadvised(c) ==
  pc'[c] = "commit" => job'[c].next.consults = Earlier(job'[c].parent).consults

(* A call that is going to commit, when it adds no acquisition either.      *)
Carries(c) ==
  pc'[c] = "commit" => /\ job'[c].next.consults = Earlier(job'[c].parent).consults
                       /\ job'[c].next.acqs = Earlier(job'[c].parent).acqs

(* The workflow carries both along ...                                      *)
LEMMA AdvanceCarries ==
  ASSUME NEW s \in Snapshot, NEW e, NEW now
  PROVE  Advance(s, e, now).consults = s.consults /\ Advance(s, e, now).acqs = s.acqs
BY DEF Advance, Snapshot

(* ... in each of its moves.                                                *)
LEMMA MoveCarries ==
  ASSUME TypeInv, NEW c \in Client, log # <<>>, NEW op, NEW s \in Snapshot,
         s.consults = Latest.consults, s.acqs = Latest.acqs, NEW e, NEW now, Move(c, op, s, e, now)
  PROVE  Carries(c)
<1>1. Earlier(Len(log)) = Latest
  BY LatestType DEF Earlier, Latest, TypeInv
<1>2. CASE Submit(c, op, NoId, Len(log), Advance(s, e, now))
  BY <1>1, <1>2, SubmitGives, AdvanceCarries DEF Carries
<1>3. CASE Answer(Told("workflow", NoId, Refusal(e), 0)) /\ pc[c] = "idle"
  BY <1>3 DEF Answer, Carries
<1> QED
  BY <1>2, <1>3 DEF Move

(* The workflow adds neither ...                                            *)
LEMMA WorkflowCarries ==
  ASSUME TypeInv, NEW c \in Client, Workflow(c)
  PROVE  Carries(c)
<1>1. log # <<>> => Latest \in Snapshot /\ Earlier(Len(log)) = Latest
  BY LatestType DEF Earlier, Latest, TypeInv
<1>2. CASE Stale(c)
  BY <1>2 DEF Stale, Answer, Carries
<1>3. ASSUME NEW actor, NEW now, CreateCase(c, actor, now) PROVE Carries(c)
  <2> DEFINE e == [NewEvent(c, "case_created", "created", "evidence_collected", actor, 0)
                     EXCEPT !.refs = Imported.evidence]
  <2>1. \/ Answer(Told("create", NoId, Refusal(e), 0)) /\ pc[c] = "idle"
        \/ Submit(c, "create", NoId, 0, Advance(Imported, e, now))
    BY <1>3 DEF CreateCase
  <2> HIDE DEF e
  <2>2. /\ Advance(Imported, e, now).consults = Earlier(0).consults
        /\ Advance(Imported, e, now).acqs = Earlier(0).acqs
    BY AdvanceCarries, EmptyTypes DEF Earlier
  <2> QED
    BY <2>1, <2>2, SubmitGives DEF Answer, Carries
<1>4. ASSUME NEW actor, NEW now, AdoptLegacyCase(c, actor, now) PROVE Carries(c)
  <2> DEFINE e == [NewEvent(c, "legacy_case_adopted", "none", "evidence_collected",
                            actor, Len(log)) EXCEPT !.refs = Latest.evidence]
  <2>1. /\ \/ Answer(Told("adopt", NoId, "transition", 0)) /\ pc[c] = "idle"
           \/ Submit(c, "adopt", NoId, Len(log), Advance(Latest, e, now))
        /\ log # <<>>
    BY <1>4 DEF AdoptLegacyCase
  <2> HIDE DEF e
  <2>2. /\ Advance(Latest, e, now).consults = Earlier(Len(log)).consults
        /\ Advance(Latest, e, now).acqs = Earlier(Len(log)).acqs
    BY <1>1, <2>1, AdvanceCarries
  <2> QED
    BY <2>1, <2>2, SubmitGives DEF Answer, Carries
<1>5. ASSUME NEW actor, NEW now, CommitAnalysis(c, actor, now) PROVE Carries(c)
  <2>1. PICK f, e : /\ f \in Latest.evidence
                      /\ Move(c, "analysis", [Latest EXCEPT !.findings = @ \cup {f}], e, now)
    BY <1>5 DEF CommitAnalysis
  <2>2. log # <<>> /\ Latest \in Snapshot
    BY <1>1, <1>5 DEF CommitAnalysis
  <2> DEFINE s == [Latest EXCEPT !.findings = Latest.findings \cup {f}]
  <2>3. s \in Snapshot /\ s.consults = Latest.consults /\ s.acqs = Latest.acqs
    BY <2>1, <2>2 DEF Snapshot
  <2>4. Move(c, "analysis", s, e, now)
    BY <2>1
  <2> HIDE DEF s
  <2> QED
    BY <2>2, <2>3, <2>4, MoveCarries
<1>6. ASSUME NEW actor, NEW now, CommitPlan(c, actor, now) PROVE Carries(c)
  <2>1. PICK p, e : p \in Plan /\ Move(c, "plan", [Latest EXCEPT !.plan = p], e, now)
    BY <1>6 DEF CommitPlan
  <2>2. log # <<>> /\ Latest \in Snapshot
    BY <1>1, <1>6 DEF CommitPlan
  <2> DEFINE s == [Latest EXCEPT !.plan = p]
  <2>3. s \in Snapshot /\ s.consults = Latest.consults /\ s.acqs = Latest.acqs
    BY <2>1, <2>2 DEF Snapshot
  <2> HIDE DEF s
  <2> QED
    BY <2>1, <2>2, <2>3, MoveCarries DEF s
<1>7. ASSUME NEW actor, NEW now, FailCase(c, actor, now) \/ CancelCase(c, actor, now) PROVE Carries(c)
  <2>1. log # <<>> /\ Latest \in Snapshot
    BY <1>1, <1>7 DEF FailCase, CancelCase
  <2>2. PICK op, e : Move(c, op, Latest, e, now)
    BY <1>7 DEF FailCase, CancelCase
  <2> QED
    BY <2>1, <2>2, MoveCarries
<1> QED
  BY <1>2, <1>3, <1>4, <1>5, <1>6, <1>7 DEF Workflow

(* ... so no consultation ...                                               *)
LEMMA CarriesUnadvised ==
  ASSUME NEW c, Carries(c)
  PROVE  Unadvised(c)
BY DEF Carries, Unadvised

(* ... nor does an acquisition add one ...                                  *)
LEMMA AcquireUnadvised ==
  ASSUME TypeInv, NEW c \in Client, NEW actor, NEW req, NEW kind, NEW expected,
         \/ AcquireRefused(c, actor, req, kind) \/ AcquireAgain(c, actor, req, kind)
         \/ Acquire(c, actor, req, kind, expected)
  PROVE  Unadvised(c) /\ pc[c] = "idle"
<1>1. CASE AcquireRefused(c, actor, req, kind)
  BY <1>1 DEF AcquireRefused, Answer, Unadvised
<1>2. CASE AcquireAgain(c, actor, req, kind)
  BY <1>2 DEF AcquireAgain, Answer, Unadvised
<1>3. CASE Acquire(c, actor, req, kind, expected)
  <2> DEFINE added == [kind |-> kind, source |-> expected]
             acq == [req |-> req, kind |-> kind, source |-> expected,
                     inputs |-> Latest.evidence, added |-> added, by |-> c]
             s == [Latest EXCEPT !.evidence = Latest.evidence \cup {added},
                                 !.acqs = Latest.acqs \cup {acq}]
  <2>1. /\ pc[c] = "idle" /\ log # <<>>
        /\ \/ Answer(AcquireTold(req, kind, "conflict", 0))
           \/ expected = Len(log) /\ Submit(c, "acquire", req, expected, s)
    BY <1>3 DEF Acquire
  <2>2. Latest \in Snapshot /\ Earlier(Len(log)) = Latest
    BY <2>1, LatestType DEF Earlier, Latest, TypeInv
  <2>3. s.consults = Latest.consults
    BY <2>2 DEF Snapshot
  <2> HIDE DEF s
  <2> QED
    BY <2>1, <2>2, <2>3, SubmitGives DEF Answer, Unadvised
<1> QED
  BY <1>1, <1>2, <1>3

(* ... and a consultation is added only on the commit it was made from.     *)
LEMMA ConsultAdvised ==
  ASSUME TypeInv, NEW c \in Client, NEW actor, NEW req, NEW body, NEW source \in 1..Len(log), NEW expected,
         Consult(c, actor, req, body, source, expected),
         expected = Len(log) => MadeFrom([req |-> req, body |-> body, source |-> source], Len(log))
  PROVE  /\ pc[c] = "idle" /\ pc'[c] \in {"idle", "commit"}
         /\ pc'[c] = "commit" =>
              /\ Advised(Earlier(job'[c].parent), job'[c].next, job'[c].parent)
              /\ [req |-> req, body |-> body, source |-> source] \in job'[c].next.consults
         /\ pc'[c] = "idle" /\ reply'.status \in {"ok", "idempotent"} =>
              [req |-> req, body |-> body, source |-> source] \in Latest.consults
<1> DEFINE cons == [req |-> req, body |-> body, source |-> source]
           recorded == {x \in Latest.consults : x.req = req}
           s == [Latest EXCEPT !.consults = Latest.consults \cup {cons}]
<1>1. pc[c] = "idle" /\ log # <<>> /\ source # 0 /\ log' = log
  BY DEF Consult, TypeInv, TypeOK
<1>2. Latest \in Snapshot /\ Earlier(Len(log)) = Latest
  BY <1>1, LatestType DEF Earlier, Latest, TypeInv
<1>3. \/ \E status \in {"actor", "transition", "duplicate", "conflict"} : Answer(Told("consult", req, status, 0))
      \/ cons \in recorded /\ Answer(Told("consult", req, "idempotent", Len(log)))
      \/ expected = Len(log) /\ Latest.state = "analyzed" /\ Submit(c, "consult", req, expected, s)
  BY <1>1 DEF Consult
<1>4. s.consults = Latest.consults \cup {cons}
  BY <1>2 DEF Snapshot
<1>5. s = [Latest EXCEPT !.consults = s.consults]
  BY <1>4
<1> HIDE DEF s, cons
<1>6. ASSUME NEW status \in {"actor", "transition", "duplicate", "conflict"},
             Answer(Told("consult", req, status, 0))
      PROVE  pc' = pc /\ reply'.status \notin {"ok", "idempotent"}
  BY <1>6 DEF Answer, Told, NoReply
<1>7. ASSUME expected = Len(log), Latest.state = "analyzed" PROVE Advised(Latest, s, expected)
  BY <1>4, <1>5, <1>7 DEF Advised, cons
<1>8. ASSUME Submit(c, "consult", req, expected, s), pc'[c] = "idle"
      PROVE  reply'.status \notin {"ok", "idempotent"}
  BY <1>8 DEF Submit, Told, NoReply, TypeInv, TypeOK
<1>9. CASE \E status \in {"actor", "transition", "duplicate", "conflict"} : Answer(Told("consult", req, status, 0))
  BY <1>1, <1>6, <1>9
<1>10. CASE cons \in recorded /\ Answer(Told("consult", req, "idempotent", Len(log)))
  BY <1>1, <1>10 DEF Answer, cons
<1>11. CASE expected = Len(log) /\ Latest.state = "analyzed" /\ Submit(c, "consult", req, expected, s)
  <2>1. /\ pc'[c] \in {"idle", "commit"}
        /\ pc'[c] = "commit" => job'[c].parent = expected /\ job'[c].next = s
    BY <1>11, SubmitGives
  <2>2. cons \in s.consults
    BY <1>4
  <2> QED
    BY <1>1, <1>2, <1>7, <1>8, <1>11, <2>1, <2>2 DEF cons
<1> QED
  BY <1>3, <1>9, <1>10, <1>11

(* What is on the log stays as it was, whatever the log loses or keeps.     *)
LEMMA LogKept ==
  ASSUME LogAdvised, Monotone, Introduced, Len(log) \in Nat,
         NEW n \in 0..Len(log), Len(log') = n, \A i \in 1..n : log'[i] = log[i]
  PROVE  LogAdvised' /\ Monotone' /\ Introduced'
<1>1. 1..n \subseteq 1..Len(log) /\ n \in Nat
  OBVIOUS
<1>2. LogAdvised'
  <2>1. SUFFICES ASSUME NEW i \in 1..n PROVE Advised(Earlier(i - 1)', log'[i], i - 1)
    BY DEF LogAdvised
  <2>2. Earlier(i - 1)' = Earlier(i - 1)
    <3>1. i = 1 \/ i - 1 \in 1..n
      BY <1>1
    <3>2. CASE i = 1
      BY <3>2 DEF Earlier
    <3>3. CASE i - 1 \in 1..n
      BY <3>3 DEF Earlier
    <3> QED
      BY <3>1, <3>2, <3>3
  <2> QED
    BY <1>1, <2>2 DEF LogAdvised
<1>3. Monotone'
  <2>1. SUFFICES ASSUME NEW j \in 1..n, NEW i \in 1..j PROVE Extends(log'[i], log'[j])
    BY DEF Monotone
  <2>2. i \in 1..n
    BY <1>1
  <2> QED
    BY <1>1, <2>2 DEF Monotone
<1>4. Introduced'
  <2>1. SUFFICES ASSUME NEW i \in 1..n, NEW x \in log[i].consults
                 PROVE  /\ x.source \in 1..i - 1 /\ MadeFrom(x, x.source)
                        /\ x \notin log'[x.source].consults /\ x \in log'[x.source + 1].consults
    BY DEF Introduced
  <2>2. /\ x.source \in 1..i - 1 /\ MadeFrom(x, x.source)
        /\ x \notin log[x.source].consults /\ x \in log[x.source + 1].consults
    BY <1>1 DEF Introduced
  <2>3. x.source \in 1..n /\ x.source + 1 \in 1..n
    BY <1>1, <2>2
  <2> QED
    BY <2>2, <2>3
<1> QED
  BY <1>2, <1>3, <1>4

(* A published snapshot is a successor of the head.                         *)
LEMMA PublishedKept ==
  ASSUME AInv, NEW c \in Client, Publish(c)
  PROVE  LogAdvised' /\ Monotone' /\ Introduced'
<1> DEFINE n == Len(log)
           next == job[c].next
<1>1. /\ log \in Seq(Snapshot) /\ n \in Nat /\ next \in Snapshot /\ pc[c] = "commit"
      /\ job[c].parent = n /\ log' = Append(log, next)
  BY DEF Publish, Store!AppendSnapshot, AInv, RInv, IInv, TypeInv, TypeOK, Job
<1>2. Advised(Earlier(n), next, n) /\ Extends(Earlier(n), next)
  BY <1>1 DEF AInv, RInv, IInv, JobsAdvised, JobBuilt, BuiltOn, Grows
<1> HIDE DEF next
<1>3. Len(log') = n + 1 /\ log'[n + 1] = next /\ \A i \in 1..n : log'[i] = log[i]
  BY <1>1, AppendProperties
<1>4. Imported.consults = {}
  BY DEF Imported
<1> HIDE DEF n
<1>5. /\ \A i \in 1..n + 1 : i \in 1..n \/ i = n + 1
      /\ \A i \in 0..n : Earlier(i)' = Earlier(i)
  <2>1. \A i \in 1..n + 1 : i \in 1..n \/ i = n + 1
    BY <1>1
  <2>2. ASSUME NEW i \in 0..n PROVE Earlier(i)' = Earlier(i)
    <3>1. i = 0 \/ i \in 1..n
      BY <1>1
    <3> QED
      BY <1>3, <3>1 DEF Earlier
  <2> QED
    BY <2>1, <2>2
<1>6. LogAdvised'
  <2>1. SUFFICES ASSUME NEW i \in 1..n + 1 PROVE Advised(Earlier(i - 1)', log'[i], i - 1)
    BY <1>3 DEF LogAdvised
  <2>2. i - 1 \in 0..n
    BY <1>1
  <2>3. CASE i \in 1..n
    <3>1. Advised(Earlier(i - 1), log[i], i - 1)
      BY <2>3 DEF AInv, LogAdvised, n
    <3> QED
      BY <1>3, <1>5, <2>2, <2>3, <3>1
  <2>4. CASE i = n + 1
    <3>1. i - 1 = n
      BY <1>1, <2>4
    <3> QED
      BY <1>2, <1>3, <1>5, <2>2, <2>4, <3>1
  <2> QED
    BY <1>5, <2>3, <2>4
<1>7. Monotone'
  <2>1. SUFFICES ASSUME NEW j \in 1..n + 1, NEW i \in 1..j PROVE Extends(log'[i], log'[j])
    BY <1>3 DEF Monotone
  <2>2. CASE j \in 1..n
    <3>1. i \in 1..n
      BY <1>1, <2>2
    <3> QED
      BY <1>3, <2>2, <3>1 DEF AInv, Monotone, n
  <2>3. CASE j = n + 1
    <3>1. CASE i = j
      BY <3>1 DEF Extends
    <3>2. CASE i # j
      <4>1. i \in 1..n /\ n \in 1..n /\ i \in 1..n
        BY <1>1, <2>3, <3>2
      <4>2. Extends(log[i], log[n]) /\ Earlier(n) = log[n]
        BY <4>1 DEF AInv, Monotone, Earlier, n
      <4> QED
        BY <1>2, <1>3, <2>3, <4>1, <4>2 DEF Extends
    <3> QED
      BY <3>1, <3>2
  <2> QED
    BY <1>5, <2>2, <2>3
<1>8. Introduced'
  <2>1. ASSUME NEW i \in 1..n, NEW x \in log[i].consults
        PROVE  /\ x.source \in 1..n /\ x.source + 1 \in 1..n /\ x.source \in 1..i - 1 /\ MadeFrom(x, x.source)
               /\ x \notin log'[x.source].consults /\ x \in log'[x.source + 1].consults
    <3>1. /\ x.source \in 1..i - 1 /\ MadeFrom(x, x.source)
          /\ x \notin log[x.source].consults /\ x \in log[x.source + 1].consults
      BY DEF AInv, Introduced, n
    <3>2. x.source \in 1..n /\ x.source + 1 \in 1..n
      BY <1>1, <3>1
    <3> QED
      BY <1>3, <3>1, <3>2
  <2>2. ASSUME NEW x \in next.consults
        PROVE  /\ x.source \in 1..n /\ MadeFrom(x, x.source)
               /\ x \notin log'[x.source].consults /\ x \in log'[x.source + 1].consults
    <3>1. CASE x \in Earlier(n).consults
      <4>1. n # 0
        BY <1>4, <3>1 DEF Earlier
      <4>2. n \in 1..n /\ x \in log[n].consults
        BY <1>1, <3>1, <4>1 DEF Earlier
      <4> QED
        BY <2>1, <4>2
    <3>2. CASE x \notin Earlier(n).consults
      <4>1. MadeFrom(x, n)
        BY <1>2, <3>2 DEF Advised
      <4>2. x.source = n /\ n \in 1..n
        BY <1>1, <4>1 DEF MadeFrom
      <4>3. x \notin log[n].consults
        BY <1>1, <3>2, <4>2 DEF Earlier
      <4> QED
        BY <1>3, <4>1, <4>2, <4>3
    <3> QED
      BY <3>1, <3>2
  <2>3. SUFFICES ASSUME NEW i \in 1..n + 1, NEW x \in log'[i].consults
                 PROVE  /\ x.source \in 1..i - 1 /\ MadeFrom(x, x.source)
                        /\ x \notin log'[x.source].consults /\ x \in log'[x.source + 1].consults
    BY <1>3 DEF Introduced
  <2>4. CASE i \in 1..n
    BY <1>3, <2>1, <2>4
  <2>5. CASE i = n + 1
    <3>1. i - 1 = n
      BY <1>1, <2>5
    <3> QED
      BY <1>3, <2>2, <2>5, <3>1
  <2> QED
    BY <1>5, <2>4, <2>5
<1> QED
  BY <1>6, <1>7, <1>8

(* Where a commit leaves its caller.                                        *)
LEMMA CommitLeaves ==
  ASSUME TypeInv, NEW c \in Client, Commit(c)
  PROVE  /\ pc[c] # "idle" /\ pc'[c] \in {"published", "returning", "idle"}
         /\ pc'[c] # "idle" => job'[c].next = job[c].next
<1>1. /\ pc \in [Client -> {"idle", "analyse", "commit", "published", "returning"}]
      /\ job[c] \in Job /\ job = [d \in Client |-> job[d]]
  BY DEF TypeInv, TypeOK
<1>2. CASE Publish(c)
  <2>1. pc'[c] = "published" /\ job' = [job EXCEPT ![c] = [job[c] EXCEPT !.commit = Len(log) + 1]]
    BY <1>1, <1>2 DEF Publish
  <2>2. [job[c] EXCEPT !.commit = Len(log) + 1].next = job[c].next
    BY <1>1 DEF Job
  <2> QED
    BY <1>1, <1>2, <2>1, <2>2 DEF Publish
<1>3. CASE CommittedBefore(c)
  <2>1. pc'[c] = "returning" /\ job' = [job EXCEPT ![c] = [job[c] EXCEPT !.commit = Len(log)]]
    BY <1>1, <1>3 DEF CommittedBefore
  <2>2. [job[c] EXCEPT !.commit = Len(log)].next = job[c].next
    BY <1>1 DEF Job
  <2> QED
    BY <1>1, <1>3, <2>1, <2>2 DEF CommittedBefore
<1>4. CASE Committed(c)
  BY <1>1, <1>4 DEF Committed
<1>5. CASE Return(c) \/ CommitRefused(c) \/ CommitLocked(c) \/ CallFails(c) \/ OutcomeUnknown(c) \/ Crash(c)
  BY <1>1, <1>5 DEF Return, CommitRefused, CommitLocked, CallFails, OutcomeUnknown, Crash, End
<1> QED
  BY <1>2, <1>3, <1>4, <1>5 DEF Commit

(* A call keeps what is known of the log and of the other calls.            *)
LEMMA AdvisedStep ==
  ASSUME AInv, NEW c \in Client, Workflow(c) \/ Enrich(c) \/ Refused(c) \/ Commit(c), IInv',
         Commit(c) \/ (pc'[c] = "commit" =>
                         Advised(Earlier(job'[c].parent), job'[c].next, job'[c].parent))
  PROVE  JobsAdvised' /\ LogAdvised' /\ Monotone' /\ Introduced'
<1>1. /\ TypeInv /\ Len(log) \in Nat /\ Len(log') \in Nat /\ Len(log) <= Len(log')
      /\ \A i \in 1..Len(log) : log'[i] = log[i]
  BY LogGrows DEF AInv, RInv, RunsFit, IInv
<1>2. log' = log \/ Publish(c)
  <2>1. CASE Workflow(c) \/ Enrich(c) \/ Refused(c)
    <3>1. Prepared(c)
      BY <1>1, <2>1, WorkflowPrepares, EnrichPrepares, RefusedPrepares DEF AInv, RInv
    <3> QED
      BY <3>1 DEF Prepared
  <2>2. CASE Commit(c)
    BY <2>2 DEF Commit, Committed, CommittedBefore, Return, CommitRefused, CommitLocked,
                CallFails, OutcomeUnknown, Crash, Store!Acknowledge
  <2> QED
    BY <2>1, <2>2
<1>3. LogAdvised' /\ Monotone' /\ Introduced'
  <2>1. CASE log' = log
    <3>1. Len(log) \in 0..Len(log) /\ Len(log') = Len(log)
      BY <1>1, <2>1
    <3> QED
      BY <1>1, <3>1, LogKept DEF AInv
  <2> QED
    BY <1>2, <2>1, PublishedKept
<1>4. \A n \in 0..Len(log) : Earlier(n)' = Earlier(n)
  <2>1. SUFFICES ASSUME NEW n \in 0..Len(log) PROVE Earlier(n)' = Earlier(n)
    OBVIOUS
  <2>2. n = 0 \/ n \in 1..Len(log)
    BY <1>1
  <2> QED
    BY <1>1, <2>2 DEF Earlier
<1>5. ASSUME NEW d \in Client \ {c}, pc'[d] = "commit"
      PROVE  (Advised(Earlier(job[d].parent), job[d].next, job[d].parent))'
  <2>1. pc'[d] = pc[d] /\ job'[d] = job[d]
    BY <1>1, CallFrame DEF AInv, RInv
  <2>2. Advised(Earlier(job[d].parent), job[d].next, job[d].parent) /\ job[d].parent \in 0..Len(log)
    BY <1>5, <2>1 DEF AInv, JobsAdvised, RInv, IInv, JobBuilt
  <2>3. (Earlier(job[d].parent))' = Earlier(job[d].parent)
    <3>1. PICK n \in 0..Len(log) : n = job[d].parent
      BY <2>2
    <3>2. (Earlier(job[d].parent))' = Earlier(n)'
      BY <2>1, <3>1 DEF Earlier
    <3> QED
      BY <1>4, <3>1, <3>2
  <2> QED
    BY <2>1, <2>2, <2>3
<1>6. ASSUME pc'[c] = "commit"
      PROVE  (Advised(Earlier(job[c].parent), job[c].next, job[c].parent))'
  <2>1. ~Commit(c)
    BY <1>1, <1>6, CommitLeaves
  <2>2. log' = log
    BY <1>2, <2>1 DEF Commit
  <2>3. (Earlier(job[c].parent))' = Earlier(job'[c].parent)
    BY <2>2 DEF Earlier
  <2> QED
    BY <1>6, <2>1, <2>3
<1>7. JobsAdvised'
  <2>1. \A d \in Client : pc'[d] = "commit" => (Advised(Earlier(job[d].parent), job[d].next, job[d].parent))'
    BY <1>5, <1>6
  <2> QED
    BY <2>1 DEF JobsAdvised
<1> QED
  BY <1>3, <1>7

(* A call of a run, and what it would record.                               *)
LEMMA PersistAdvised ==
  ASSUME AInv, NEW a \in Agent, Persist(a)
  PROVE  /\ a \in Client
         /\ \/ Commit(a)
            \/ /\ pc[a] = "idle" /\ pc'[a] \in {"idle", "commit"} /\ log' = log
               /\ pc'[a] = "commit" =>
                    /\ Advised(Earlier(job'[a].parent), job'[a].next, job'[a].parent)
                    /\ Record(run[a]) \in job'[a].next.consults
               /\ pc'[a] = "idle" /\ reply'.status \in {"ok", "idempotent"} =>
                    Record(run[a]) \in Latest.consults
<1> DEFINE r == run[a]
           n == Len(log)
<1>1. a \in Client /\ TypeInv /\ n \in Nat /\ n <= MaxCommits /\ RunFits(r, n) /\ r.phase = "persist"
  BY AgentAssumption DEF Persist, AInv, RInv, RunsFit, IInv, TypeInv, TypeOK
<1>2. /\ r.commit \in 1..n /\ r.view \in 1..n /\ (r.status # "failed" => r.commit <= r.view)
  BY <1>1 DEF RunFits
<1>3. ASSUME r.commit = n PROVE MadeFrom(Record(r), n)
  <2>1. r.status # "failed" => r.view = n
    BY <1>1, <1>2, <1>3
  <2> QED
    BY <1>2, <1>3, <2>1 DEF MadeFrom, Record, AdviceOf
<1>4. CASE RefusedAtOnce(a, "consult", r.req)
  <2>1. pc' = pc /\ pc[a] = "idle" /\ log' = log /\ reply'.status \notin {"ok", "idempotent"}
    BY <1>4 DEF RefusedAtOnce, Answer, Told, NoReply
  <2> QED
    BY <1>1, <2>1
<1>5. CASE Consult(a, "llm_advisor", r.req, AdviceOf(r), r.commit, r.commit)
  <2>1. log' = log
    BY <1>5 DEF Consult
  <2> HIDE DEF r, n
  <2>2. Record(r) = [req |-> r.req, body |-> AdviceOf(r), source |-> r.commit]
    BY DEF Record
  <2>3. /\ pc[a] = "idle" /\ pc'[a] \in {"idle", "commit"}
        /\ pc'[a] = "commit" =>
             /\ Advised(Earlier(job'[a].parent), job'[a].next, job'[a].parent)
             /\ Record(r) \in job'[a].next.consults
        /\ pc'[a] = "idle" /\ reply'.status \in {"ok", "idempotent"} => Record(r) \in Latest.consults
    BY <1>1, <1>2, <1>3, <1>5, <2>2, ConsultAdvised DEF n
  <2> QED
    BY <1>1, <2>1, <2>3 DEF r
<1> QED
  BY <1>1, <1>4, <1>5 DEF Persist

(* Every call under consultations leaves an advised job.                    *)
LEMMA UnadvisedGives ==
  ASSUME NEW c \in Client, Unadvised(c), pc'[c] = "commit"
  PROVE  Advised(Earlier(job'[c].parent), job'[c].next, job'[c].parent)
BY DEF Unadvised, Advised

(* What a read and the other callers do keeps what is known of the log ...  *)
LEMMA ReadAdvised ==
  ASSUME AInv, NEW a \in Agent, NEW actor \in Actor, Read(a, actor)
  PROVE  JobsAdvised' /\ LogAdvised' /\ Monotone' /\ Introduced'
<1>1. a \in Client /\ (Enrich(a) \/ Refused(a) \/ Commit(a)) /\ IInv' /\ TypeInv
  <2>1. [Next]_vars
    BY ReadIsCall DEF AInv, Next, Call
  <2> QED
    BY <2>1, ReadIsCall, IInvInductive DEF AInv, RInv, IInv
<1>2. PICK req : \/ RefusedAtOnce(a, "acquire", req)
                 \/ AcquireRefused(a, actor, req, "observation")
                 \/ AcquireAgain(a, actor, req, "observation")
                 \/ Acquire(a, actor, req, "observation", run[a].current)
                 \/ Commit(a)
  BY DEF Read
<1>3. CASE RefusedAtOnce(a, "acquire", req)
  <2>1. pc'[a] # "commit"
    BY <1>3 DEF RefusedAtOnce, Answer
  <2> QED
    BY <1>1, <2>1, AdvisedStep
<1>4. CASE Commit(a)
  BY <1>1, <1>4, AdvisedStep
<1>5. CASE \/ AcquireRefused(a, actor, req, "observation") \/ AcquireAgain(a, actor, req, "observation")
           \/ Acquire(a, actor, req, "observation", run[a].current)
  <2>1. Unadvised(a)
    BY <1>1, <1>5, AcquireUnadvised
  <2> QED
    BY <1>1, <2>1, UnadvisedGives, AdvisedStep
<1> QED
  BY <1>2, <1>3, <1>4, <1>5

(* ... as only a consultation on the head is ever recorded.                 *)
LEMMA OthersAdvised ==
  ASSUME AInv, NEW c \in Client, Others(c)
  PROVE  JobsAdvised' /\ LogAdvised' /\ Monotone' /\ Introduced'
<1>1. TypeInv /\ IInv' /\ (Workflow(c) \/ Enrich(c) \/ Commit(c))
  <2>1. [Next]_vars
    BY OthersCall DEF AInv, Next, Call
  <2> QED
    BY <2>1, OthersCall, IInvInductive DEF AInv, RInv, IInv
<1>2. CASE Workflow(c)
  BY <1>1, <1>2, WorkflowCarries, CarriesUnadvised, UnadvisedGives, AdvisedStep
<1>3. CASE Commit(c)
  BY <1>1, <1>3, AdvisedStep
<1>4. ASSUME NEW req, NEW actor, NEW k, Acquire(c, actor, ReadReq(req, 1, k), "observation", Len(log))
      PROVE  JobsAdvised' /\ LogAdvised' /\ Monotone' /\ Introduced'
  <2>1. Unadvised(c)
    BY <1>1, <1>4, AcquireUnadvised
  <2> QED
    BY <1>1, <2>1, UnadvisedGives, AdvisedStep
<1>5. ASSUME NEW req, NEW actor, NEW text, log # <<>>,
             Consult(c, actor, req, [status |-> "completed", round |-> 1, text |-> text,
                                     view |-> Len(log), start |-> Len(log)], Len(log), Len(log))
      PROVE  JobsAdvised' /\ LogAdvised' /\ Monotone' /\ Introduced'
  <2> DEFINE n == Len(log)
             body == [status |-> "completed", round |-> 1, text |-> text, view |-> n, start |-> n]
  <2>1. n \in 1..n
    BY <1>1, <1>5, HeadKnown
  <2>2. MadeFrom([req |-> req, body |-> body, source |-> n], n)
    <3> HIDE DEF n
    <3> QED
      BY <2>1 DEF MadeFrom
  <2>3. Consult(c, actor, req, body, n, n)
    BY <1>5
  <2> HIDE DEF body
  <2>4. pc'[c] = "commit" => Advised(Earlier(job'[c].parent), job'[c].next, job'[c].parent)
    BY <1>1, <2>1, <2>2, <2>3, ConsultAdvised
  <2> QED
    BY <1>1, <2>4, AdvisedStep
<1> QED
  BY <1>2, <1>3, <1>4, <1>5 DEF Others, Elsewhere

(* What a run may report before it is over.                                 *)
LEMMA LocalRecords ==
  ASSUME AInv, NEW a \in Agent, Local(a)
  PROVE  RecordsFit' /\ NothingYet'
<1>1. /\ run[a] \in Run /\ run = [b \in Agent |-> run[b]] /\ pc' = pc /\ job' = job
      /\ (run[a].phase \notin {"read", "persist"} => pc[a] = "idle")
  BY DEF AInv, RInv, RunsFit, RunFits, CallsFit, Local, Begin, Replay, StartRefused, Start, Propose,
         ProposeFails, ProposalInvalid, ProposalTerminal, ProposalReads, Reload, ReloadFails, Expire, Die, vars
<1>2. \A b \in Agent \ {a} : run'[b] = run[b]
  BY <1>1 DEF Local, Begin, Replay, StartRefused, Start, Propose,
         ProposeFails, ProposalInvalid, ProposalTerminal, ProposalReads, Reload, ReloadFails, Expire, Die, Set
<1>3. ASSUME pc[a] = "idle" \/ (run'[a].phase = run[a].phase /\ Record(run'[a]) = Record(run[a])),
             run'[a].phase # "idle" => run'[a].got = NoId
      PROVE  RecordsFit' /\ NothingYet'
  <2>1. RecordsFit'
    <3>1. SUFFICES ASSUME NEW b \in Agent, run'[b].phase = "persist", pc'[b] # "idle"
                   PROVE  /\ pc'[b] \in {"commit", "published", "returning"}
                          /\ Record(run'[b]) \in job'[b].next.consults
      BY DEF RecordsFit
    <3>2. pc'[b] = pc[b] /\ job'[b] = job[b] /\ run[b].phase = "persist" /\ Record(run'[b]) = Record(run[b])
      BY <1>1, <1>2, <1>3, <3>1
    <3> QED
      BY <3>1, <3>2 DEF AInv, RecordsFit
  <2>2. NothingYet'
    BY <1>2, <1>3 DEF AInv, NothingYet
  <2> QED
    BY <2>1, <2>2
<1>4. \A s : run' = [run EXCEPT ![a] = s] => run'[a] = s
  BY <1>1
<1>5. run[a].phase # "idle" => run[a].got = NoId
  BY DEF AInv, NothingYet
<1>6. NoRun.phase = "idle" /\ NoRun.got = NoId
  BY DEF NoRun
<1>7. CASE Begin(a)
  <2>1. ASSUME NEW req, Replay(a, req) PROVE run'[a].phase = "idle"
    <3>1. PICK x : run' = [run EXCEPT ![a] = [NoRun EXCEPT !.req = req, !.got = x]]
      BY <2>1 DEF Replay, Set
    <3>2. [NoRun EXCEPT !.req = req, !.got = x].phase = "idle"
      BY DEF NoRun
    <3> QED
      BY <1>4, <3>1, <3>2
  <2>2. ASSUME NEW req, NEW expected, StartRefused(a, req, expected) PROVE run'[a].phase = "idle"
    BY <1>4, <1>6, <2>2 DEF StartRefused, Set
  <2>3. ASSUME NEW req, NEW expected, Start(a, req, expected) PROVE run'[a].got = NoId
    <3> DEFINE n == Len(log)
               r == [NoRun EXCEPT !.phase = "propose", !.req = req, !.start = n,
                                  !.commit = n, !.current = n, !.view = n, !.round = 1]
    <3>1. run' = [run EXCEPT ![a] = r]
      BY <2>3 DEF Start, Set
    <3> HIDE DEF n
    <3>2. r.got = NoId
      BY DEF NoRun
    <3> HIDE DEF r
    <3> QED
      BY <1>4, <3>1, <3>2
  <2>4. pc[a] = "idle"
    BY <1>7 DEF Begin, Replay, StartRefused, Start
  <2> QED
    BY <1>3, <1>7, <2>1, <2>2, <2>3, <2>4 DEF Begin
<1>8. CASE Propose(a) \/ Reload(a) \/ ReloadFails(a)
  <2>1. run[a].phase \in {"propose", "reload"}
    BY <1>8 DEF Propose, ProposeFails, ProposalInvalid, ProposalTerminal, ProposalReads, Reload, ReloadFails
  <2> DEFINE Saying(status, text) == [Ending(run[a], status) EXCEPT !.text = text]
  <2>2. \A status, text : Ending(run[a], status).got = run[a].got /\ Saying(status, text).got = run[a].got
    BY <1>1 DEF Ending, Run
  <2>9. ASSUME NEW status, NEW text, run' = [run EXCEPT ![a] = Saying(status, text)]
        PROVE  run'[a].got = run[a].got
    <3> HIDE DEF Saying
    <3> QED
      BY <1>4, <2>2, <2>9
  <2>3. ASSUME ProposeFails(a) \/ ReloadFails(a) PROVE run'[a].got = run[a].got
    BY <1>1, <1>4, <2>2, <2>3 DEF ProposeFails, ReloadFails, Set
  <2>4. ASSUME NEW text, ProposalInvalid(a, text) PROVE run'[a].got = run[a].got
    BY <2>4, <2>9 DEF ProposalInvalid, Set
  <2>5. ASSUME NEW text, NEW status, ProposalTerminal(a, status, text) PROVE run'[a].got = run[a].got
    BY <2>5, <2>9 DEF ProposalTerminal, Set
  <2>6. ASSUME NEW text, NEW reads, NEW known, ProposalReads(a, reads, known, text)
        PROVE  run'[a].got = run[a].got
    <3> DEFINE batch == {reads[i] : i \in 1..Len(reads)}
               s == [run[a] EXCEPT !.phase = "read", !.queue = reads, !.text = text, !.batch = batch]
    <3>1. \/ run' = [run EXCEPT ![a] = s]
          \/ run' = [run EXCEPT ![a] = Saying("blocked", text)]
      BY <2>6 DEF ProposalReads, Set
    <3> HIDE DEF batch
    <3>2. s.got = run[a].got
      BY <1>1 DEF Run
    <3> HIDE DEF s
    <3> QED
      BY <1>4, <2>9, <3>1, <3>2
  <2>7. ASSUME Reload(a) PROVE run'[a].got = run[a].got
    <3> DEFINE t == [run[a] EXCEPT !.view = Len(log), !.keys = run[a].keys \cup run[a].batch, !.batch = {}]
               s == [t EXCEPT !.round = t.round + 1, !.phase = "propose"]
    <3>1. run' = [run EXCEPT ![a] = s] \/ run' = [run EXCEPT ![a] = Ending(t, "failed")]
      BY <2>7 DEF Reload, Set
    <3>2. t.got = run[a].got /\ s.got = run[a].got
      BY <1>1 DEF Run
    <3>3. Ending(t, "failed").got = run[a].got
      BY <1>1 DEF Run, Ending
    <3> HIDE DEF t, s
    <3> QED
      BY <1>4, <3>1, <3>2, <3>3
  <2>8. run'[a].got = run[a].got
    BY <1>8, <2>3, <2>4, <2>5, <2>6, <2>7 DEF Propose
  <2> QED
    BY <1>1, <1>3, <1>5, <2>1, <2>8
<1>9. CASE Expire(a)
  <2> DEFINE s == [run[a] EXCEPT !.expired = TRUE]
  <2>1. run'[a] = s
    BY <1>1, <1>9 DEF Expire
  <2>2. /\ s.phase = run[a].phase /\ s.got = run[a].got /\ s.req = run[a].req /\ s.commit = run[a].commit
        /\ s.status = run[a].status /\ s.round = run[a].round /\ s.text = run[a].text
        /\ s.view = run[a].view /\ s.start = run[a].start
    BY <1>1 DEF Run
  <2> HIDE DEF s
  <2>3. Record(s) = Record(run[a])
    BY <2>2 DEF Record, AdviceOf
  <2> QED
    BY <1>3, <1>5, <2>1, <2>2, <2>3
<1>10. CASE Die(a)
  BY <1>3, <1>4, <1>6, <1>10 DEF Die, Set
<1> QED
  BY <1>7, <1>8, <1>9, <1>10 DEF Local

(* A read reports nothing.                                                  *)
LEMMA ReadRecords ==
  ASSUME AInv, NEW a \in Agent, NEW actor \in Actor, Read(a, actor)
  PROVE  RecordsFit' /\ NothingYet'
<1>1. /\ a \in Client /\ TypeInv /\ (Enrich(a) \/ Refused(a) \/ Commit(a))
      /\ run[a] \in Run /\ run = [b \in Agent |-> run[b]] /\ run[a].phase = "read"
  BY ReadIsCall DEF AInv, RInv, IInv, RunsFit, RunFits, Read
<1>2. /\ \A b \in Agent \ {a} : pc'[b] = pc[b] /\ job'[b] = job[b]
      /\ run[a].got = NoId
  BY <1>1, CallFrame, AgentAssumption DEF AInv, RInv, NothingYet
<1>3. ASSUME NEW s, run' = [run EXCEPT ![a] = s], s.phase = "persist" => pc'[a] = "idle",
             s.phase # "idle" => s.got = NoId
      PROVE  RecordsFit' /\ NothingYet'
  <2>1. run'[a] = s /\ \A b \in Agent \ {a} : run'[b] = run[b]
    BY <1>1, <1>3
  <2>2. SUFFICES ASSUME NEW b \in Agent
                 PROVE  /\ run'[b].phase = "persist" /\ pc'[b] # "idle" =>
                             /\ pc'[b] \in {"commit", "published", "returning"}
                             /\ Record(run'[b]) \in job'[b].next.consults
                        /\ run'[b].phase # "idle" => run'[b].got = NoId
    BY DEF RecordsFit, NothingYet
  <2>3. CASE b = a
    BY <1>3, <2>1, <2>3
  <2>4. CASE b # a
    <3>1. run'[b] = run[b] /\ pc'[b] = pc[b] /\ job'[b] = job[b]
      BY <1>2, <2>1, <2>4
    <3> QED
      BY <3>1 DEF AInv, RecordsFit, NothingYet
  <2> QED
    BY <2>3, <2>4
<1>4. Outcome(a, AfterRead(run[a], reply'))
  BY DEF Read
<1>5. CASE pc'[a] # "idle"
  <2>1. run' = [run EXCEPT ![a] = run[a]]
    BY <1>1, <1>4, <1>5 DEF Outcome
  <2> QED
    BY <1>1, <1>2, <1>3, <2>1
<1>6. CASE pc'[a] = "idle"
  <2>1. NoRun.phase = "idle"
    BY DEF NoRun
  <2>2. AfterRead(run[a], reply').got = NoId
    BY <1>1, <1>2 DEF AfterRead, Ending, Run
  <2> DEFINE s == IF reply' = NoReply THEN NoRun ELSE AfterRead(run[a], reply')
  <2>3. run' = [run EXCEPT ![a] = s]
    BY <1>4, <1>6 DEF Outcome, Set
  <2>4. s.phase # "idle" => s.got = NoId
    BY <2>1, <2>2
  <2> HIDE DEF s
  <2> QED
    BY <1>3, <1>6, <2>3, <2>4
<1> QED
  BY <1>5, <1>6

(* A record is in its call until it is told.                                *)
LEMMA PersistRecords ==
  ASSUME AInv, NEW a \in Agent, Persist(a)
  PROVE  RecordsFit' /\ NothingYet'
<1>1. /\ a \in Client /\ TypeInv /\ (Enrich(a) \/ Refused(a) \/ Commit(a))
      /\ run[a] \in Run /\ run = [b \in Agent |-> run[b]] /\ run[a].phase = "persist"
  BY PersistIsCall DEF AInv, RInv, IInv, RunsFit, RunFits, Persist
<1>2. /\ \A b \in Agent \ {a} : pc'[b] = pc[b] /\ job'[b] = job[b]
      /\ run[a].got = NoId
  BY <1>1, CallFrame, AgentAssumption DEF AInv, RInv, NothingYet
<1>3. pc'[a] # "idle" => /\ pc'[a] \in {"commit", "published", "returning"}
                         /\ Record(run[a]) \in job'[a].next.consults
  <2>1. CASE Commit(a)
    <3>1. pc[a] # "idle" /\ pc'[a] \in {"published", "returning", "idle"}
          /\ (pc'[a] # "idle" => job'[a].next = job[a].next)
      BY <1>1, <2>1, CommitLeaves
    <3>2. Record(run[a]) \in job[a].next.consults
      BY <1>1, <3>1 DEF AInv, RecordsFit
    <3> QED
      BY <3>1, <3>2
  <2> QED
    BY <2>1, PersistAdvised
<1>4. ASSUME NEW s, run' = [run EXCEPT ![a] = s], s = run[a] \/ (s.phase = "idle" /\ pc'[a] = "idle")
      PROVE  RecordsFit' /\ NothingYet'
  <2>1. run'[a] = s /\ \A b \in Agent \ {a} : run'[b] = run[b]
    BY <1>1, <1>4
  <2>2. SUFFICES ASSUME NEW b \in Agent
                 PROVE  /\ run'[b].phase = "persist" /\ pc'[b] # "idle" =>
                             /\ pc'[b] \in {"commit", "published", "returning"}
                             /\ Record(run'[b]) \in job'[b].next.consults
                        /\ run'[b].phase # "idle" => run'[b].got = NoId
    BY DEF RecordsFit, NothingYet
  <2>3. CASE b = a
    BY <1>2, <1>3, <1>4, <2>1, <2>3
  <2>4. CASE b # a
    <3>1. run'[b] = run[b] /\ pc'[b] = pc[b] /\ job'[b] = job[b]
      BY <1>2, <2>1, <2>4
    <3> QED
      BY <3>1 DEF AInv, RecordsFit, NothingYet
  <2> QED
    BY <2>3, <2>4
<1>5. Outcome(a, Finished(a, reply'))
  BY DEF Persist
<1>6. CASE pc'[a] # "idle"
  <2>1. run' = [run EXCEPT ![a] = run[a]]
    BY <1>1, <1>5, <1>6 DEF Outcome
  <2> QED
    BY <1>4, <2>1
<1>7. CASE pc'[a] = "idle"
  <2>1. NoRun.phase = "idle" /\ Finished(a, reply').phase = "idle"
    BY DEF NoRun, Finished
  <2> DEFINE s == IF reply' = NoReply THEN NoRun ELSE Finished(a, reply')
  <2>2. run' = [run EXCEPT ![a] = s]
    BY <1>5, <1>7 DEF Outcome, Set
  <2>3. s.phase = "idle"
    BY <2>1
  <2> HIDE DEF s
  <2> QED
    BY <1>4, <1>7, <2>2, <2>3
<1> QED
  BY <1>6, <1>7

(* Every step of a run and of the other callers preserves the invariant.    *)
LEMMA AInvStep ==
  ASSUME AInv, [RNext]_rvars
  PROVE  AInv'
<1>1. RInv' /\ IInv'
  BY RInvStep DEF AInv, RInv
<1>2. ASSUME UNCHANGED <<log, safe, pc, job>> PROVE JobsAdvised' /\ LogAdvised' /\ Monotone' /\ Introduced'
  <2>1. Len(log) \in 0..Len(log) /\ Len(log) \in Nat
    BY DEF AInv, RInv, IInv, TypeInv, TypeOK
  <2>2. LogAdvised' /\ Monotone' /\ Introduced'
    BY <1>2, <2>1, LogKept DEF AInv
  <2>3. JobsAdvised'
    BY <1>2 DEF AInv, JobsAdvised, Earlier
  <2> QED
    BY <2>2, <2>3
<1>3. CASE UNCHANGED rvars
  <2>1. RecordsFit' /\ NothingYet'
    BY <1>3 DEF AInv, RecordsFit, NothingYet, rvars
  <2> QED
    BY <1>1, <1>2, <1>3, <2>1 DEF AInv, rvars
<1>4. ASSUME NEW a \in Agent, Local(a) PROVE AInv'
  <2>1. UNCHANGED vars
    BY <1>4 DEF Local, Begin, Replay, StartRefused, Start, Propose, ProposeFails, ProposalInvalid,
         ProposalTerminal, ProposalReads, Reload, ReloadFails, Expire, Die
  <2> QED
    BY <1>1, <1>2, <1>4, <2>1, LocalRecords DEF AInv, vars
<1>5. ASSUME NEW a \in Agent, NEW actor \in Actor, Read(a, actor) PROVE AInv'
  BY <1>1, <1>5, ReadAdvised, ReadRecords DEF AInv
<1>6. ASSUME NEW a \in Agent, Persist(a) PROVE AInv'
  <2>1. Enrich(a) \/ Refused(a) \/ Commit(a)
    BY <1>6, PersistIsCall DEF AInv
  <2>2. Commit(a) \/ (pc'[a] = "commit" =>
                         Advised(Earlier(job'[a].parent), job'[a].next, job'[a].parent))
    BY <1>6, PersistAdvised
  <2>3. JobsAdvised' /\ LogAdvised' /\ Monotone' /\ Introduced'
    BY <1>1, <2>1, <2>2, AdvisedStep, AgentAssumption
  <2> QED
    BY <1>1, <1>6, <2>3, PersistRecords DEF AInv
<1>7. ASSUME NEW c \in Client \ Agent, Others(c) PROVE AInv'
  <2>1. (Workflow(c) \/ Enrich(c) \/ Commit(c)) /\ run' = run
    BY <1>7, OthersCall DEF Others, AInv
  <2>2. \A a \in Agent : pc'[a] = pc[a] /\ job'[a] = job[a]
    BY <1>7, <2>1, CallFrame, AgentAssumption DEF AInv, RInv, IInv
  <2>3. RecordsFit' /\ NothingYet'
    BY <2>1, <2>2 DEF AInv, RecordsFit, NothingYet
  <2> QED
    BY <1>1, <1>7, <2>3, OthersAdvised DEF AInv
<1>8. CASE PowerFails
  <2>1. PowerLoss /\ run' = [a \in Agent |-> NoRun] /\ \A c \in Client : pc'[c] = "idle"
    BY <1>8 DEF PowerFails, PowerLoss
  <2>2. PICK n \in safe..Len(log) : log' = SubSeq(log, 1, n)
    BY <2>1 DEF PowerLoss, Store!Lose
  <2>3. log \in Seq(Snapshot) /\ safe \in 0..Len(log) /\ Len(log) \in Nat
    BY DEF AInv, RInv, IInv, TypeInv, TypeOK
  <2>4. n \in 0..Len(log) /\ Len(log') = n /\ \A i \in 1..n : log'[i] = log[i]
    <3>1. n \in Nat /\ n <= Len(log) /\ \A i \in 1..n : log[i] \in Snapshot
      BY <2>3
    <3> QED
      BY <2>2, <2>3, <3>1, SubSeqProperties
  <2>5. LogAdvised' /\ Monotone' /\ Introduced'
    BY <2>3, <2>4, LogKept DEF AInv
  <2>6. JobsAdvised'
    BY <2>1 DEF JobsAdvised
  <2>7. RecordsFit' /\ NothingYet'
    BY <2>1, AgentAssumption DEF RecordsFit, NothingYet, NoRun
  <2> QED
    BY <1>1, <2>5, <2>6, <2>7 DEF AInv
<1> QED
  BY <1>3, <1>4, <1>5, <1>6, <1>7, <1>8 DEF RNext, Proceed, Local

(* The invariant holds throughout.                                          *)
THEOREM AdviceInductive == RSpec => []AInv
<1>1. RInit => AInv
  <2> SUFFICES ASSUME RInit PROVE AInv
    OBVIOUS
  <2>1. RInv /\ log = <<>> /\ run = [a \in Agent |-> NoRun] /\ Init
    BY RInvInit DEF RInit
  <2>2. Len(log) = 0 /\ 1..0 = {}
    BY <2>1
  <2>3. LogAdvised /\ Monotone /\ Introduced
    BY <2>2 DEF LogAdvised, Monotone, Introduced
  <2>4. JobsAdvised
    BY <2>1 DEF Init, JobsAdvised
  <2>5. RecordsFit /\ NothingYet
    BY <2>1 DEF RecordsFit, NothingYet, NoRun
  <2> QED
    BY <2>1, <2>3, <2>4, <2>5 DEF AInv
<1>2. AInv /\ [RNext]_rvars => AInv'
  BY AInvStep
<1> QED
  BY <1>1, <1>2, PTL DEF RSpec

(* A consultation is advice only: recording it changes nothing else of the  *)
(* case, which is analyzed before and after.                                *)
THEOREM AdviceOnly == RSpec => []AdvisoryOnly
<1>1. AInv => AdvisoryOnly
  <2>1. SUFFICES ASSUME AInv, NEW i \in 2..Len(log), log[i].consults # log[i - 1].consults
                 PROVE  /\ log[i] = [log[i - 1] EXCEPT !.consults = log[i].consults]
                        /\ log[i].state = "analyzed"
    BY DEF AdvisoryOnly
  <2>2. log \in Seq(Snapshot) /\ Len(log) \in Nat
    BY <2>1 DEF AInv, RInv, IInv, TypeInv, TypeOK
  <2>3. i \in 1..Len(log) /\ i - 1 \in 1..Len(log) /\ i - 1 # 0
    BY <2>2
  <2>4. Earlier(i - 1) = log[i - 1] /\ log[i - 1] \in Snapshot /\ log[i] \in Snapshot
    BY <2>2, <2>3 DEF Earlier
  <2>5. Advised(log[i - 1], log[i], i - 1)
    BY <2>1, <2>3, <2>4 DEF AInv, LogAdvised
  <2>6. log[i] = [log[i - 1] EXCEPT !.consults = log[i].consults] /\ log[i - 1].state = "analyzed"
    BY <2>1, <2>5 DEF Advised
  <2>7. \A s \in Snapshot : \A consults : [s EXCEPT !.consults = consults].state = s.state
    BY DEF Snapshot
  <2>8. [log[i - 1] EXCEPT !.consults = log[i].consults].state = log[i - 1].state
    BY <2>4, <2>7
  <2> QED
    BY <2>6, <2>8
<1> QED
  BY <1>1, AdviceInductive, PTL

(* A recorded consultation stands on the commit just before its own, and    *)
(* on all the evidence and findings of it unless it reports a failure,      *)
(* however the case moved while the run was reading.                        *)
THEOREM AdviceGrounded == RSpec => []Grounded
<1>1. AInv => Grounded
  <2> DEFINE n == Len(log)
  <2>1. SUFFICES ASSUME AInv, log # <<>>, NEW x \in Latest.consults
                 PROVE  /\ x \notin log[x.source].consults /\ x \in log[x.source + 1].consults
                        /\ log[x.body.view].evidence \subseteq log[x.source].evidence
                        /\ log[x.body.view].findings \subseteq log[x.source].findings
                        /\ x.body.status # "failed" =>
                             /\ log[x.body.view].evidence = log[x.source].evidence
                             /\ log[x.body.view].findings = log[x.source].findings
    BY DEF Grounded
  <2>2. n \in Nat /\ n \in 1..n /\ x \in log[n].consults
    BY <2>1, HeadKnown DEF AInv, RInv, IInv, Latest
  <2>3. /\ x.source \in 1..n - 1 /\ MadeFrom(x, x.source)
        /\ x \notin log[x.source].consults /\ x \in log[x.source + 1].consults
    BY <2>1, <2>2 DEF AInv, Introduced
  <2>4. /\ x.source \in 1..n /\ x.body.view \in 1..x.source
        /\ x.body.status # "failed" => x.body.view = x.source
    <3> HIDE DEF n
    <3> QED
      BY <2>2, <2>3 DEF MadeFrom
  <2>5. Extends(log[x.body.view], log[x.source])
    BY <2>1, <2>4 DEF AInv, Monotone
  <2> QED
    BY <2>3, <2>4, <2>5 DEF Extends
<1> QED
  BY <1>1, AdviceInductive, PTL

(* What a run is told to have recorded is on the case.                      *)
LEMMA ToldRecorded ==
  ASSUME AInv, NEW a \in Agent, Persist(a), pc'[a] = "idle", reply' # NoReply,
         reply'.status \in {"ok", "idempotent"}
  PROVE  Record(run[a]) \in log'[Len(log')].consults
<1>1. a \in Client /\ IInv /\ TypeInv /\ run[a].phase = "persist"
  BY AgentAssumption DEF AInv, RInv, IInv, Persist
<1>2. CASE Commit(a)
  <2>1. log' = log /\ Return(a)
    BY <1>1, <1>2, ToldCommit
  <2>2. pc[a] = "returning" /\ job[a].commit \in 1..Len(log) /\ log[job[a].commit] = job[a].next
    BY <1>1, <2>1 DEF Return, IInv, JobBuilt
  <2>3. Record(run[a]) \in log[job[a].commit].consults
    BY <1>1, <2>2 DEF AInv, RecordsFit
  <2>4. Len(log) \in Nat
    BY <1>1 DEF TypeInv, TypeOK
  <2>5. Len(log) \in 1..Len(log) /\ job[a].commit \in 1..Len(log)
    BY <2>2, <2>4
  <2>6. Extends(log[job[a].commit], log[Len(log)])
    BY <2>5 DEF AInv, Monotone
  <2> QED
    BY <2>1, <2>3, <2>6 DEF Extends
<1>3. CASE ~Commit(a)
  BY <1>3, PersistAdvised DEF Latest
<1> QED
  BY <1>2, <1>3

(* What a run reports is on the case, also when it was retried, raced by    *)
(* another run of the same request, or answered by a replay.                *)
THEOREM Reported == RSpec => ReportedIsRecorded
<1>1. ASSUME AInv, AInv', RNext, NEW a \in Agent, run'[a] # run[a], run'[a].got # NoId
      PROVE  run'[a].got \in log'[Len(log')].consults
  <2>1. run = [b \in Agent |-> run[b]] /\ run[a] \in Run
    BY <1>1 DEF AInv, RInv, RunsFit, RunFits
  <2>2. \A s : run' = [run EXCEPT ![a] = s] => run'[a] = s
    BY <2>1
  <2>3. run'[a].phase = "idle"
    BY <1>1 DEF AInv, NothingYet
  <2>4. NoRun.got = NoId /\ NoRun.phase = "idle"
    BY DEF NoRun
  <2>5. ASSUME NEW b \in Agent, b # a, Begin(b) \/ Proceed(b) \/ Expire(b) \/ Die(b) PROVE FALSE
    <3>1. run'[a] = run[a]
      BY <2>1, <2>5 DEF Begin, Replay, StartRefused, Start, Proceed, Propose, ProposeFails, ProposalInvalid,
        ProposalTerminal, ProposalReads, Reload, ReloadFails, Expire, Die, Read, Persist, Outcome, Set
    <3> QED
      BY <1>1, <3>1
  <2>6. CASE Begin(a)
    <3>1. ASSUME NEW req, Replay(a, req) PROVE run'[a].got \in log'[Len(log')].consults
      <4>1. PICK x \in Latest.consults : run' = [run EXCEPT ![a] = [NoRun EXCEPT !.req = req, !.got = x]]
        BY <3>1 DEF Replay, RecordedFor, Set
      <4>2. [NoRun EXCEPT !.req = req, !.got = x].got = x
        BY DEF NoRun
      <4>3. log' = log
        BY <3>1 DEF Replay, vars
      <4> QED
        BY <2>2, <4>1, <4>2, <4>3 DEF Latest
    <3>2. ASSUME NEW req, NEW expected, StartRefused(a, req, expected) PROVE FALSE
      BY <1>1, <2>2, <2>4, <3>2 DEF StartRefused, Set
    <3>3. ASSUME NEW req, NEW expected, Start(a, req, expected) PROVE FALSE
      <4> DEFINE n == Len(log)
                 r == [NoRun EXCEPT !.phase = "propose", !.req = req, !.start = n,
                                    !.commit = n, !.current = n, !.view = n, !.round = 1]
      <4>1. run' = [run EXCEPT ![a] = r]
        BY <3>3 DEF Start, Set
      <4> HIDE DEF n
      <4>2. r.phase # "idle"
        BY DEF NoRun
      <4> HIDE DEF r
      <4> QED
        BY <2>2, <2>3, <4>1, <4>2
    <3> QED
      BY <2>6, <3>1, <3>2, <3>3 DEF Begin
  <2>7. \A s \in Run : \A status : Ending(s, status).phase = "persist"
    BY DEF Ending, Run
  <2> DEFINE Saying(status, text) == [Ending(run[a], status) EXCEPT !.text = text]
  <2>8. \A status, text : Saying(status, text).phase = "persist"
    BY <2>1 DEF Ending, Run
  <2>9. ASSUME NEW status, NEW text, run' = [run EXCEPT ![a] = Saying(status, text)] PROVE FALSE
    <3> HIDE DEF Saying
    <3> QED
      BY <2>2, <2>3, <2>8, <2>9
  <2>10. ASSUME ProposeFails(a) \/ ReloadFails(a) PROVE FALSE
    BY <2>1, <2>2, <2>3, <2>7, <2>10 DEF ProposeFails, ReloadFails, Set
  <2>11. ASSUME NEW text, NEW status, ProposalInvalid(a, text) \/ ProposalTerminal(a, status, text) PROVE FALSE
    BY <2>9, <2>11 DEF ProposalInvalid, ProposalTerminal, Set
  <2>12. ASSUME NEW text, NEW reads, NEW known, ProposalReads(a, reads, known, text) PROVE FALSE
    <3> DEFINE batch == {reads[i] : i \in 1..Len(reads)}
               s == [run[a] EXCEPT !.phase = "read", !.queue = reads, !.text = text, !.batch = batch]
    <3>1. run' = [run EXCEPT ![a] = s] \/ run' = [run EXCEPT ![a] = Saying("blocked", text)]
      BY <2>12 DEF ProposalReads, Set
    <3> HIDE DEF batch
    <3>2. s.phase # "idle"
      BY <2>1 DEF Run
    <3> HIDE DEF s
    <3> QED
      BY <2>2, <2>3, <2>9, <3>1, <3>2
  <2>13. ASSUME Reload(a) PROVE FALSE
    <3> DEFINE t == [run[a] EXCEPT !.view = Len(log), !.keys = run[a].keys \cup run[a].batch, !.batch = {}]
               s == [t EXCEPT !.round = t.round + 1, !.phase = "propose"]
    <3>1. run' = [run EXCEPT ![a] = s] \/ run' = [run EXCEPT ![a] = Ending(t, "failed")]
      BY <2>13 DEF Reload, Set
    <3>2. s.phase # "idle" /\ Ending(t, "failed").phase # "idle"
      BY <2>1 DEF Run, Ending
    <3> HIDE DEF t, s
    <3> QED
      BY <2>2, <2>3, <3>1, <3>2
  <2>14. ASSUME Expire(a) PROVE FALSE
    <3> DEFINE s == [run[a] EXCEPT !.expired = TRUE]
    <3>1. run' = [run EXCEPT ![a] = s] /\ run[a].phase # "idle"
      BY <2>14 DEF Expire
    <3>2. s.phase = run[a].phase
      BY <2>1 DEF Run
    <3> HIDE DEF s
    <3> QED
      BY <2>2, <2>3, <3>1, <3>2
  <2>15. ASSUME Die(a) PROVE FALSE
    BY <1>1, <2>2, <2>4, <2>15 DEF Die, Set
  <2>16. ASSUME NEW actor \in Actor, Read(a, actor) PROVE FALSE
    <3>1. Outcome(a, AfterRead(run[a], reply')) /\ run[a].phase = "read"
      BY <2>16 DEF Read
    <3>2. AfterRead(run[a], reply').phase # "idle"
      BY <2>1, <3>1 DEF AfterRead, Ending, Run
    <3> DEFINE s == IF reply' = NoReply THEN NoRun ELSE AfterRead(run[a], reply')
    <3>3. run' = run \/ run' = [run EXCEPT ![a] = s]
      BY <3>1 DEF Outcome, Set
    <3>4. s = NoRun \/ s.phase # "idle"
      BY <3>2
    <3> HIDE DEF s
    <3> QED
      BY <1>1, <2>2, <2>3, <2>4, <3>3, <3>4
  <2>17. ASSUME Persist(a) PROVE run'[a].got \in log'[Len(log')].consults
    <3>1. pc'[a] = "idle" /\ Outcome(a, Finished(a, reply'))
      BY <1>1, <2>17 DEF Persist, Outcome
    <3>2. CASE reply' = NoReply
      BY <1>1, <2>2, <2>4, <3>1, <3>2 DEF Outcome, Set
    <3>3. CASE reply' # NoReply
      <4> DEFINE got == IF reply'.status \in {"ok", "idempotent"} THEN Record(run[a]) ELSE NoId
      <4>1. run' = [run EXCEPT ![a] = Finished(a, reply')]
        BY <3>1, <3>3 DEF Outcome, Set
      <4>2. Finished(a, reply') = [NoRun EXCEPT !.req = run[a].req, !.got = got]
        BY DEF Finished, Record
      <4> HIDE DEF got
      <4>3. Finished(a, reply').got = got
        BY <4>2 DEF NoRun
      <4>4. got # NoId /\ run'[a].got = got
        BY <1>1, <2>2, <4>1, <4>3
      <4> QED
        BY <1>1, <2>17, <3>1, <3>3, <4>4, ToldRecorded DEF got
    <3> QED
      BY <3>2, <3>3
  <2>18. ASSUME NEW c \in Client \ Agent, Others(c) PROVE FALSE
    BY <1>1, <2>18 DEF Others
  <2>19. ~PowerFails
    BY <1>1, <2>4 DEF PowerFails
  <2> QED
    BY <1>1, <2>5, <2>6, <2>10, <2>11, <2>12, <2>13, <2>14, <2>15, <2>16, <2>17, <2>18, <2>19
       DEF RNext, Proceed, Propose
<1>2. AInv /\ AInv' /\ [RNext]_rvars =>
        [\A a \in Agent : run'[a] # run[a] /\ run'[a].got # NoId
           => run'[a].got \in log'[Len(log')].consults]_rvars
  BY <1>1
<1> QED
  BY <1>2, AdviceInductive, PTL DEF RSpec, ReportedIsRecorded

-----------------------------------------------------------------------------
(* A run does not get in its own way.                                       *)

(* The commit that has all a run has read so far.                           *)
Base(r) == IF r.phase = "read" THEN r.current ELSE r.commit

(* A run that may still record something else than a failure.               *)
Hopeful(r) == r.phase # "idle" /\ ~(r.phase = "persist" /\ r.status = "failed")

(* What run r of agent a, whose call is at p with job j, knows of a chain:  *)
(* every read of its agent, but the one being committed.                    *)
OwnFits(a, r, p, j, chain) ==
  /\ r.phase \in {"propose", "reload"} => r.current = r.commit
  /\ r.phase = "persist" /\ p = "commit" => j.parent = r.commit
  /\ r.phase = "read" /\ p \in {"published", "returning"} => r.current <= j.commit
  /\ Hopeful(r) =>
       \A q \in chain[Len(chain)].acqs : q.by = a =>
         q \in chain[Base(r)].acqs \/ (p \in {"published", "returning"} /\ q \in j.next.acqs)

RunsOwn == \A a \in Agent : OwnFits(a, run[a], pc[a], job[a], log)

(* A caller adds acquisitions of its own only.                              *)
JobsOwn ==
  \A c \in Client : pc[c] = "commit" =>
    \A q \in job[c].next.acqs \ Earlier(job[c].parent).acqs : q.by = c

(* A commit changes the case.                                               *)
NewHead == \A i \in 2..Len(log) : log[i] # log[i - 1]

OwnInv == NewHead /\ JobsOwn /\ RunsOwn

(* A call that is going to commit, when all it acquired is its own.         *)
AddsOwn(c) ==
  pc'[c] = "commit" => \A q \in job'[c].next.acqs \ Earlier(job'[c].parent).acqs : q.by = c

(* The workflow acquires nothing ...                                        *)
LEMMA CarriesOwn ==
  ASSUME NEW c, Carries(c)
  PROVE  AddsOwn(c)
BY DEF Carries, AddsOwn

(* ... an acquisition is its caller's ...                                   *)
LEMMA AcquireOwn ==
  ASSUME TypeInv, NEW c \in Client, NEW actor, NEW req, NEW kind, NEW expected,
         \/ AcquireRefused(c, actor, req, kind) \/ AcquireAgain(c, actor, req, kind)
         \/ Acquire(c, actor, req, kind, expected)
  PROVE  AddsOwn(c)
<1>1. CASE AcquireRefused(c, actor, req, kind)
  BY <1>1 DEF AcquireRefused, Answer, AddsOwn
<1>2. CASE AcquireAgain(c, actor, req, kind)
  BY <1>2 DEF AcquireAgain, Answer, AddsOwn
<1>3. CASE Acquire(c, actor, req, kind, expected)
  <2> DEFINE added == [kind |-> kind, source |-> expected]
             acq == [req |-> req, kind |-> kind, source |-> expected,
                     inputs |-> Latest.evidence, added |-> added, by |-> c]
             s == [Latest EXCEPT !.evidence = Latest.evidence \cup {added},
                                 !.acqs = Latest.acqs \cup {acq}]
  <2>1. /\ pc[c] = "idle" /\ log # <<>>
        /\ \/ Answer(AcquireTold(req, kind, "conflict", 0))
           \/ expected = Len(log) /\ Submit(c, "acquire", req, expected, s)
    BY <1>3 DEF Acquire
  <2>2. Latest \in Snapshot /\ Earlier(Len(log)) = Latest
    BY <2>1, LatestType DEF Earlier, Latest, TypeInv
  <2>3. acq.by = c
    OBVIOUS
  <2> HIDE DEF acq
  <2>4. s.acqs = Latest.acqs \cup {acq}
    BY <2>2 DEF Snapshot
  <2> HIDE DEF s
  <2> QED
    BY <2>1, <2>2, <2>3, <2>4, SubmitGives DEF Answer, AddsOwn
<1> QED
  BY <1>1, <1>2, <1>3

(* ... and a consultation acquires nothing; it stands on what it expected.  *)
LEMMA ConsultOwn ==
  ASSUME TypeInv, NEW c \in Client, NEW actor, NEW req, NEW body, NEW source, NEW expected,
         Consult(c, actor, req, body, source, expected)
  PROVE  /\ AddsOwn(c) /\ pc[c] = "idle" /\ log' = log
         /\ pc'[c] = "commit" => job'[c].parent = expected
         /\ reply'.status = "conflict" => expected # Len(log)
<1> DEFINE cons == [req |-> req, body |-> body, source |-> IF source = 0 THEN Len(log) ELSE source]
           recorded == {x \in Latest.consults : x.req = req}
           s == [Latest EXCEPT !.consults = Latest.consults \cup {cons}]
<1>1. pc[c] = "idle" /\ log # <<>> /\ log' = log
  BY DEF Consult
<1>2. Latest \in Snapshot /\ Earlier(Len(log)) = Latest
  BY <1>1, LatestType DEF Earlier, Latest, TypeInv
<1>3. \/ \E status \in {"actor", "transition", "duplicate"} : Answer(Told("consult", req, status, 0))
      \/ Answer(Told("consult", req, "idempotent", Len(log)))
      \/ expected # Len(log) /\ Answer(Told("consult", req, "conflict", 0))
      \/ expected = Len(log) /\ Submit(c, "consult", req, expected, s)
  BY <1>1 DEF Consult
<1> HIDE DEF cons
<1>4. s.acqs = Latest.acqs
  BY <1>2 DEF Snapshot
<1> HIDE DEF s
<1>5. ASSUME NEW status, NEW n, Answer(Told("consult", req, status, n))
      PROVE  pc' = pc /\ reply'.status = status
  BY <1>5 DEF Answer, Told, NoReply
<1>6. ASSUME Submit(c, "consult", req, expected, s)
      PROVE  reply'.status # "conflict"
  <2>1. reply' = NoReply \/ reply' = Told("consult", req, "invalid", 0)
    BY <1>6 DEF Submit
  <2>2. NoReply.status = "none" /\ Told("consult", req, "invalid", 0).status = "invalid"
    BY DEF Told, NoReply
  <2> QED
    BY <2>1, <2>2
<1>7. CASE expected = Len(log) /\ Submit(c, "consult", req, expected, s)
  BY <1>1, <1>2, <1>4, <1>6, <1>7, SubmitGives DEF AddsOwn
<1>8. CASE expected # Len(log) /\ Answer(Told("consult", req, "conflict", 0))
  BY <1>1, <1>5, <1>8 DEF AddsOwn
<1>9. CASE \/ \E status \in {"actor", "transition", "duplicate"} : Answer(Told("consult", req, status, 0))
           \/ Answer(Told("consult", req, "idempotent", Len(log)))
  <2>1. pc' = pc /\ reply'.status # "conflict"
    BY <1>5, <1>9
  <2> QED
    BY <1>1, <2>1 DEF AddsOwn
<1> QED
  BY <1>3, <1>7, <1>8, <1>9

(* A call keeps the log, or appends what its caller built on the head.      *)
LEMMA CallLog ==
  ASSUME AInv, NEW c \in Client, Workflow(c) \/ Enrich(c) \/ Refused(c) \/ Commit(c)
  PROVE  \/ log' = log /\ ~Publish(c)
         \/ /\ Publish(c) /\ pc[c] = "commit" /\ job[c].parent = Len(log) /\ pc'[c] = "published"
            /\ job'[c].next = job[c].next /\ job'[c].commit = Len(log) + 1
            /\ log' = Append(log, job[c].next) /\ Len(log') = Len(log) + 1
            /\ log'[Len(log) + 1] = job[c].next
            /\ \A i \in 1..Len(log) : log'[i] = log[i]
            /\ log # <<>> => job[c].next # Latest
<1>1. TypeInv /\ log \in Seq(Snapshot) /\ Len(log) \in Nat
  BY DEF AInv, RInv, IInv, TypeInv, TypeOK
<1>2. CASE Publish(c)
  <2>1. /\ job[c] \in Job /\ job[c].next \in Snapshot /\ log' = Append(log, job[c].next)
        /\ pc[c] = "commit" /\ job[c].parent = Len(log) /\ ~AlreadyHead(job[c])
        /\ job' = [job EXCEPT ![c] = [job[c] EXCEPT !.commit = Len(log) + 1]]
        /\ pc' = [pc EXCEPT ![c] = "published"]
    BY <1>1, <1>2 DEF Publish, Store!AppendSnapshot, TypeInv, TypeOK, Job
  <2>2. /\ Len(log') = Len(log) + 1 /\ log'[Len(log) + 1] = job[c].next
        /\ \A i \in 1..Len(log) : log'[i] = log[i]
    BY <1>1, <2>1, AppendProperties
  <2>3. [job[c] EXCEPT !.commit = Len(log) + 1].next = job[c].next
        /\ [job[c] EXCEPT !.commit = Len(log) + 1].commit = Len(log) + 1
    BY <2>1 DEF Job
  <2>4. job'[c] = [job[c] EXCEPT !.commit = Len(log) + 1] /\ pc'[c] = "published"
    BY <1>1, <2>1 DEF TypeInv, TypeOK
  <2>5. log # <<>> => job[c].next # Latest
    <3>1. log # <<>> => Len(log) # 0
      BY <1>1
    <3> QED
      BY <2>1, <3>1 DEF AlreadyHead
  <2> QED
    BY <1>2, <2>1, <2>2, <2>3, <2>4, <2>5
<1>3. CASE (Workflow(c) \/ Enrich(c) \/ Refused(c)) /\ ~Publish(c)
  <2>1. Prepared(c)
    BY <1>1, <1>3, WorkflowPrepares, EnrichPrepares, RefusedPrepares DEF AInv, RInv
  <2> QED
    BY <1>3, <2>1 DEF Prepared
<1>4. CASE Commit(c) /\ ~Publish(c)
  BY <1>4 DEF Commit, Committed, CommittedBefore, Return, CommitRefused, CommitLocked,
              CallFails, OutcomeUnknown, Crash, Store!Acknowledge
<1> QED
  BY <1>2, <1>3, <1>4

(* A call keeps what is known of the log and of what is being committed.    *)
LEMMA OwnStep ==
  ASSUME AInv, NewHead, JobsOwn,
         NEW c \in Client, Workflow(c) \/ Enrich(c) \/ Refused(c) \/ Commit(c),
         Commit(c) \/ AddsOwn(c)
  PROVE  NewHead' /\ JobsOwn'
<1>1. /\ TypeInv /\ Len(log) \in Nat /\ Len(log') \in Nat /\ Len(log) <= Len(log')
      /\ \A i \in 1..Len(log) : log'[i] = log[i]
  BY LogGrows DEF AInv, RInv, RunsFit, IInv
<1>2. NewHead'
  <2>1. CASE log' = log
    BY <2>1 DEF NewHead
  <2>2. CASE log' # log
    <3> DEFINE n == Len(log)
    <3>1. /\ Len(log') = n + 1 /\ log'[n + 1] = job[c].next
          /\ \A i \in 1..n : log'[i] = log[i]
          /\ log # <<>> => job[c].next # log[n]
      BY <2>2, CallLog DEF Latest
    <3>2. SUFFICES ASSUME NEW i \in 2..n + 1 PROVE log'[i] # log'[i - 1]
      BY <3>1 DEF NewHead
    <3>3. i - 1 \in 1..n /\ (i \in 2..n \/ (i = n + 1 /\ i - 1 = n /\ n # 0))
      BY <1>1
    <3>4. CASE i \in 2..n
      <4>1. i \in 1..n /\ log[i] # log[i - 1]
        BY <1>1, <3>4 DEF NewHead
      <4> QED
        BY <3>1, <3>3, <4>1
    <3>5. CASE i = n + 1 /\ i - 1 = n /\ n # 0
      <4>1. log # <<>>
        BY <3>5
      <4> HIDE DEF n
      <4> QED
        BY <3>1, <3>3, <3>5, <4>1
    <3> QED
      BY <3>3, <3>4, <3>5
  <2> QED
    BY <2>1, <2>2
<1>3. \A n \in 0..Len(log) : Earlier(n)' = Earlier(n)
  <2>1. SUFFICES ASSUME NEW n \in 0..Len(log) PROVE Earlier(n)' = Earlier(n)
    OBVIOUS
  <2>2. n = 0 \/ n \in 1..Len(log)
    BY <1>1
  <2> QED
    BY <1>1, <2>2 DEF Earlier
<1>4. ASSUME NEW d \in Client, pc'[d] = "commit"
      PROVE  \A q \in job'[d].next.acqs \ (Earlier(job[d].parent))'.acqs : q.by = d
  <2>1. CASE d # c
    <3>1. pc'[d] = pc[d] /\ job'[d] = job[d]
      BY <1>1, <2>1, CallFrame DEF AInv, RInv
    <3>2. job[d].parent \in 0..Len(log)
      BY <1>4, <3>1 DEF AInv, RInv, IInv, JobBuilt
    <3>3. (Earlier(job[d].parent))' = Earlier(job[d].parent)
      <4>1. PICK n \in 0..Len(log) : n = job[d].parent
        BY <3>2
      <4>2. (Earlier(job[d].parent))' = Earlier(n)'
        BY <3>1, <4>1 DEF Earlier
      <4> QED
        BY <1>3, <4>1, <4>2
    <3> QED
      BY <1>4, <3>1, <3>3 DEF JobsOwn
  <2>2. CASE d = c
    <3>1. ~Commit(c)
      BY <1>1, <1>4, <2>2, CommitLeaves
    <3>2. log' = log
      BY <3>1, CallLog DEF Commit
    <3>3. (Earlier(job[c].parent))' = Earlier(job'[c].parent)
      BY <3>2 DEF Earlier
    <3> QED
      BY <1>4, <2>2, <3>1, <3>3 DEF AddsOwn
  <2> QED
    BY <2>1, <2>2
<1>5. JobsOwn'
  BY <1>4 DEF JobsOwn
<1> QED
  BY <1>2, <1>5

(* What somebody else's call makes of it.                                   *)
LEMMA OwnBeside ==
  ASSUME AInv, JobsOwn, RunsOwn,
         NEW c \in Client, Workflow(c) \/ Enrich(c) \/ Refused(c) \/ Commit(c),
         NEW b \in Agent \ {c}, run'[b] = run[b]
  PROVE  OwnFits(b, run'[b], pc'[b], job'[b], log')
<1> DEFINE r == run[b]
           n == Len(log)
<1>1. /\ TypeInv /\ n \in Nat /\ b \in Client \ {c} /\ RunFits(r, n)
      /\ OwnFits(b, r, pc[b], job[b], log)
  BY AgentAssumption DEF AInv, RInv, RunsFit, IInv, TypeInv, TypeOK, RunsOwn
<1>2. pc'[b] = pc[b] /\ job'[b] = job[b]
  BY <1>1, CallFrame DEF AInv, RInv
<1>3. CASE log' = log
  BY <1>1, <1>2, <1>3
<1>4. CASE Publish(c)
  <2>1. /\ pc[c] = "commit" /\ job[c].parent = n /\ Len(log') = n + 1
        /\ log'[n + 1] = job[c].next /\ \A i \in 1..n : log'[i] = log[i]
    BY <1>4, CallLog
  <2>2. SUFFICES ASSUME Hopeful(r), NEW q \in job[c].next.acqs, q.by = b
                 PROVE  \/ q \in log'[Base(r)].acqs
                        \/ pc[b] \in {"published", "returning"} /\ q \in job[b].next.acqs
    BY <1>1, <1>2, <2>1 DEF OwnFits
  <2>3. Base(r) \in 1..n
    BY <1>1, <2>2 DEF RunFits, Base, Hopeful
  <2>4. q \in Earlier(n).acqs
    BY <1>1, <2>1, <2>2 DEF JobsOwn
  <2>5. n # 0
    BY <1>1, <2>3
  <2>6. q \in log[n].acqs
    BY <2>4, <2>5 DEF Earlier
  <2>7. \/ q \in log[Base(r)].acqs
        \/ pc[b] \in {"published", "returning"} /\ q \in job[b].next.acqs
    BY <1>1, <2>2, <2>6 DEF OwnFits
  <2> QED
    BY <2>1, <2>3, <2>7
<1> QED
  BY <1>3, <1>4, CallLog

(* What a run becomes without a call.                                       *)
LEMMA OwnBecomes ==
  ASSUME NEW a, NEW r, NEW j, NEW chain, OwnFits(a, r, "idle", j, chain), NEW t,
         t.phase \in {"propose", "reload"} => t.current = t.commit,
         Hopeful(t) => (Hopeful(r) /\ Base(t) = Base(r)) \/ Base(t) = Len(chain)
  PROVE  OwnFits(a, t, "idle", j, chain)
<1>1. ASSUME Hopeful(t), NEW q \in chain[Len(chain)].acqs, q.by = a
      PROVE  q \in chain[Base(t)].acqs
  BY <1>1 DEF OwnFits
<1> QED
  BY <1>1 DEF OwnFits

(* What becomes of a run that proposes or has read.                         *)
LEMMA OwnEnding ==
  ASSUME NEW a, NEW r \in Run, NEW j, NEW chain, OwnFits(a, r, "idle", j, chain),
         r.phase \in {"propose", "reload"}, NEW status \in {"completed", "blocked", "failed"},
         NEW text \in Text \cup {Malformed, NoId}
  PROVE  /\ OwnFits(a, Ending(r, status), "idle", j, chain)
         /\ OwnFits(a, [Ending(r, status) EXCEPT !.text = text], "idle", j, chain)
<1> DEFINE e == Ending(r, status)
           t == [e EXCEPT !.text = text]
<1>1. 0 \in 0..MaxCommits /\ <<>> \in Seq(Key)
  BY CoordinatorAssumption
<1>2. e \in Run /\ e.phase = "persist" /\ e.commit = r.commit
  BY <1>1 DEF Ending, Run
<1> HIDE DEF e
<1>3. t.phase = "persist" /\ t.commit = r.commit
  BY <1>2 DEF Run
<1> HIDE DEF t
<1>4. Hopeful(r) /\ Base(r) = r.commit
  BY DEF Hopeful, Base
<1>5. Base(e) = Base(r) /\ Base(t) = Base(r)
  BY <1>2, <1>3, <1>4 DEF Base
<1>6. OwnFits(a, e, "idle", j, chain)
  BY <1>2, <1>4, <1>5, OwnBecomes
<1>7. OwnFits(a, t, "idle", j, chain)
  BY <1>3, <1>4, <1>5, OwnBecomes
<1> QED
  BY <1>6, <1>7 DEF e, t

(* A run that is over knows nothing.                                        *)
LEMMA OwnOver ==
  ASSUME NEW a, NEW r, r.phase = "idle", NEW p, NEW j, NEW chain
  PROVE  OwnFits(a, r, p, j, chain)
BY DEF OwnFits, Hopeful

(* What a run does without a call.                                          *)
LEMMA LocalOwn ==
  ASSUME AInv, RunsOwn, NEW a \in Agent, Local(a)
  PROVE  /\ OwnFits(a, run'[a], pc'[a], job'[a], log')
         /\ UNCHANGED <<log, pc, job>> /\ \A b \in Agent \ {a} : run'[b] = run[b]
<1> DEFINE r == run[a]
           t == run'[a]
<1>1. /\ r \in Run /\ run = [b \in Agent |-> run[b]] /\ RunFits(r, Len(log)) /\ Len(log) \in Nat
      /\ (r.phase \notin {"read", "persist"} => pc[a] = "idle") /\ OwnFits(a, r, pc[a], job[a], log)
  BY DEF AInv, RInv, IInv, TypeInv, TypeOK, RunsFit, RunFits, CallsFit, RunsOwn
<1>2. UNCHANGED <<log, pc, job>>
  BY DEF Local, Begin, Replay, StartRefused, Start, Propose, ProposeFails, ProposalInvalid,
         ProposalTerminal, ProposalReads, Reload, ReloadFails, Expire, Die, vars
<1>3. \A s : run' = [run EXCEPT ![a] = s] => run'[a] = s
  BY <1>1
<1>4. \A b \in Agent \ {a} : run'[b] = run[b]
  BY <1>1 DEF Local, Begin, Replay, StartRefused, Start, Propose,
         ProposeFails, ProposalInvalid, ProposalTerminal, ProposalReads, Reload, ReloadFails, Expire, Die, Set
<1>5. SUFFICES OwnFits(a, t, pc[a], job[a], log)
  BY <1>2, <1>4
<1>6. NoRun.phase = "idle"
  BY DEF NoRun
<1>7. CASE Begin(a)
  <2>1. ASSUME NEW req, Replay(a, req) PROVE t.phase = "idle"
    <3>1. PICK x : run' = [run EXCEPT ![a] = [NoRun EXCEPT !.req = req, !.got = x]]
      BY <2>1 DEF Replay, Set
    <3>2. [NoRun EXCEPT !.req = req, !.got = x].phase = "idle"
      BY DEF NoRun
    <3> QED
      BY <1>3, <3>1, <3>2
  <2>2. ASSUME NEW req, NEW expected, StartRefused(a, req, expected) PROVE t.phase = "idle"
    BY <1>3, <1>6, <2>2 DEF StartRefused, Set
  <2>3. ASSUME NEW req, NEW expected, Start(a, req, expected)
        PROVE  t.phase = "propose" /\ t.current = Len(log) /\ t.commit = Len(log)
    <3> DEFINE n == Len(log)
               s == [NoRun EXCEPT !.phase = "propose", !.req = req, !.start = n,
                                  !.commit = n, !.current = n, !.view = n, !.round = 1]
    <3>1. run' = [run EXCEPT ![a] = s]
      BY <2>3 DEF Start, Set
    <3> HIDE DEF n
    <3>2. s.phase = "propose" /\ s.current = n /\ s.commit = n
      BY DEF NoRun
    <3> HIDE DEF s
    <3> QED
      BY <1>3, <3>1, <3>2 DEF n
  <2>4. pc[a] = "idle"
    BY <1>7 DEF Begin, Replay, StartRefused, Start
  <2>5. t.phase = "idle" \/ (t.phase = "propose" /\ t.current = Len(log) /\ t.commit = Len(log))
    BY <1>7, <2>1, <2>2, <2>3 DEF Begin
  <2> HIDE DEF r, t
  <2>6. CASE t.phase = "propose" /\ t.current = Len(log) /\ t.commit = Len(log)
    <3>1. Base(t) = Len(log)
      BY <2>6 DEF Base
    <3> QED
      BY <1>1, <2>4, <2>6, <3>1, OwnBecomes
  <2> QED
    BY <2>5, <2>6, OwnOver
<1>8. CASE Propose(a)
  <2>1. r.phase = "propose" /\ pc[a] = "idle"
    BY <1>1, <1>8 DEF Propose, ProposeFails, ProposalInvalid, ProposalTerminal, ProposalReads
  <2>2. ASSUME NEW status \in {"completed", "blocked", "failed"},
               NEW text \in Text \cup {Malformed, NoId}
        PROVE  /\ OwnFits(a, Ending(r, status), "idle", job[a], log)
               /\ OwnFits(a, [Ending(r, status) EXCEPT !.text = text], "idle", job[a], log)
    <3> HIDE DEF r
    <3> QED
      BY <1>1, <2>1, OwnEnding
  <2>3. CASE ProposeFails(a)
    <3>1. t = Ending(r, "failed")
      BY <1>3, <2>3 DEF ProposeFails, Set
    <3>2. NoId \in Text \cup {Malformed, NoId}
      OBVIOUS
    <3> QED
      BY <2>1, <2>2, <3>1, <3>2
  <2>4. ASSUME NEW text \in Text \cup {Malformed}, NEW status \in {"completed", "blocked", "failed"},
               t = [Ending(r, status) EXCEPT !.text = text]
        PROVE  OwnFits(a, t, pc[a], job[a], log)
    <3>1. text \in Text \cup {Malformed, NoId}
      OBVIOUS
    <3> QED
      BY <2>1, <2>2, <2>4, <3>1
  <2>5. ASSUME NEW text \in Text \cup {Malformed}, ProposalInvalid(a, text)
        PROVE  OwnFits(a, t, pc[a], job[a], log)
    <3>1. t = [Ending(r, "failed") EXCEPT !.text = text]
      BY <1>3, <2>5 DEF ProposalInvalid, Set
    <3> QED
      BY <2>4, <3>1
  <2>6. ASSUME NEW text \in Text \cup {Malformed}, NEW status \in Proposed \ {"needs_more_evidence"},
               ProposalTerminal(a, status, text)
        PROVE  OwnFits(a, t, pc[a], job[a], log)
    <3>1. t = [Ending(r, status) EXCEPT !.text = text]
      BY <1>3, <2>6 DEF ProposalTerminal, Set
    <3>2. status \in {"completed", "blocked", "failed"}
      BY DEF Proposed
    <3> QED
      BY <2>4, <3>1, <3>2
  <2>7. ASSUME NEW text \in Text \cup {Malformed}, NEW reads, NEW known, ProposalReads(a, reads, known, text)
        PROVE  OwnFits(a, t, pc[a], job[a], log)
    <3> DEFINE batch == {reads[i] : i \in 1..Len(reads)}
               s == [r EXCEPT !.phase = "read", !.queue = reads, !.text = text, !.batch = batch]
    <3>1. t = s \/ t = [Ending(r, "blocked") EXCEPT !.text = text]
      BY <1>3, <2>7 DEF ProposalReads, Set
    <3> HIDE DEF batch
    <3>2. s.phase = "read" /\ s.current = r.current
      BY <1>1 DEF Run
    <3>3. CASE t = s
      <4> HIDE DEF r, t, s
      <4>1. Hopeful(r) /\ Base(s) = Base(r)
        BY <1>1, <2>1, <3>2 DEF OwnFits, Hopeful, Base
      <4>2. OwnFits(a, s, "idle", job[a], log)
        BY <1>1, <2>1, <3>2, <4>1, OwnBecomes
      <4> QED
        BY <2>1, <3>3, <4>2
    <3> HIDE DEF s
    <3> QED
      BY <2>4, <3>1, <3>3
  <2> QED
    BY <1>8, <2>3, <2>5, <2>6, <2>7 DEF Propose
<1>9. CASE Reload(a)
  <2> DEFINE u == [r EXCEPT !.view = Len(log), !.keys = r.keys \cup r.batch, !.batch = {}]
             s == [u EXCEPT !.round = u.round + 1, !.phase = "propose"]
  <2>1. r.phase = "reload" /\ pc[a] = "idle" /\ (t = s \/ t = Ending(u, "failed"))
    BY <1>1, <1>3, <1>9 DEF Reload, Set
  <2>2. /\ u.phase = "reload" /\ u.commit = r.commit /\ u.current = r.current
        /\ s.phase = "propose" /\ s.commit = r.commit /\ s.current = r.current
    BY <1>1, <2>1 DEF Run
  <2>3. Ending(u, "failed").phase = "persist" /\ Ending(u, "failed").status = "failed"
    BY <1>1 DEF Run, Ending
  <2> DEFINE e == Ending(u, "failed")
  <2>4. e.phase = "persist" /\ e.status = "failed" /\ (t = s \/ t = e)
    BY <2>1, <2>3
  <2> HIDE DEF r, t, u, s, e
  <2>5. Hopeful(r) /\ Base(s) = Base(r) /\ r.current = r.commit /\ ~Hopeful(e)
    BY <1>1, <2>1, <2>2, <2>4 DEF OwnFits, Hopeful, Base
  <2>6. OwnFits(a, s, "idle", job[a], log)
    BY <1>1, <2>1, <2>2, <2>5, OwnBecomes
  <2>7. OwnFits(a, e, "idle", job[a], log)
    BY <1>1, <2>1, <2>4, <2>5, OwnBecomes
  <2> QED
    BY <2>1, <2>4, <2>6, <2>7
<1>10. CASE ReloadFails(a)
  <2>1. t = Ending(r, "failed") /\ r.phase = "reload" /\ pc[a] = "idle"
    BY <1>1, <1>3, <1>10 DEF ReloadFails, Set
  <2>2. NoId \in Text \cup {Malformed, NoId} /\ "failed" \in {"completed", "blocked", "failed"}
    OBVIOUS
  <2>3. OwnFits(a, Ending(r, "failed"), "idle", job[a], log)
    <3> HIDE DEF r
    <3> QED
      BY <1>1, <2>1, <2>2, OwnEnding
  <2> QED
    BY <2>1, <2>3
<1>11. CASE Expire(a)
  <2> DEFINE s == [r EXCEPT !.expired = TRUE]
  <2>1. t = s
    BY <1>1, <1>11 DEF Expire
  <2>2. /\ s.phase = r.phase /\ s.commit = r.commit /\ s.current = r.current /\ s.status = r.status
    BY <1>1 DEF Run
  <2> HIDE DEF r, t, s
  <2>3. Base(s) = Base(r) /\ (Hopeful(s) <=> Hopeful(r))
    BY <2>2 DEF Base, Hopeful
  <2> QED
    BY <1>1, <2>1, <2>2, <2>3 DEF OwnFits
<1>12. CASE Die(a)
  <2>1. t = NoRun
    BY <1>3, <1>12 DEF Die, Set
  <2> QED
    BY <1>6, <2>1, OwnOver
<1> QED
  BY <1>7, <1>8, <1>9, <1>10, <1>11, <1>12 DEF Local

(* What a commit under way makes of a run ...                               *)
LEMMA CommitOwn ==
  ASSUME AInv, RunsOwn, NEW a \in Agent, Commit(a), pc'[a] # "idle", run[a].phase \in {"read", "persist"}
  PROVE  OwnFits(a, run[a], pc'[a], job'[a], log')
<1> DEFINE r == run[a]
           n == Len(log)
<1>1. /\ TypeInv /\ n \in Nat /\ a \in Client /\ RunFits(r, n) /\ job[a] \in Job
      /\ OwnFits(a, r, pc[a], job[a], log)
  BY AgentAssumption DEF AInv, RInv, RunsFit, IInv, TypeInv, TypeOK, Job, RunsOwn
<1>2. r.phase = "read" => r.current \in 1..n
  BY <1>1 DEF RunFits
<1>3. Publish(a) \/ Committed(a) \/ CommittedBefore(a)
  BY <1>1 DEF Commit, Return, CommitRefused, CommitLocked, CallFails, OutcomeUnknown, Crash, End,
              TypeInv, TypeOK
<1>4. CASE Publish(a)
  <2>1. /\ pc'[a] = "published" /\ job'[a].next = job[a].next /\ job'[a].commit = n + 1
        /\ Len(log') = n + 1 /\ log'[n + 1] = job[a].next
    BY <1>1, <1>4, CallLog
  <2>2. r.phase = "read" => r.current <= n + 1
    BY <1>1, <1>2
  <2> HIDE DEF r, n
  <2> QED
    BY <2>1, <2>2 DEF OwnFits, r
<1>5. CASE Committed(a)
  <2>1. pc[a] = "published" /\ pc'[a] = "returning" /\ job' = job /\ log' = log
    BY <1>1, <1>5 DEF Committed, Store!Acknowledge, TypeInv, TypeOK
  <2> QED
    BY <1>1, <2>1 DEF OwnFits
<1>6. CASE CommittedBefore(a)
  <2>1. /\ pc'[a] = "returning" /\ job' = [job EXCEPT ![a] = [job[a] EXCEPT !.commit = n]]
        /\ log' = log /\ log[n] = job[a].next
    BY <1>1, <1>6 DEF CommittedBefore, AlreadyHead, Store!Acknowledge, Latest, TypeInv, TypeOK
  <2>2. [job[a] EXCEPT !.commit = n].next = job[a].next /\ [job[a] EXCEPT !.commit = n].commit = n
    BY <1>1 DEF Job
  <2>3. job'[a] = [job[a] EXCEPT !.commit = n]
    BY <1>1, <2>1 DEF TypeInv, TypeOK
  <2>4. job'[a].next = job[a].next /\ job'[a].commit = n
    BY <2>2, <2>3
  <2>5. r.phase = "read" => r.current <= n
    BY <1>1, <1>2
  <2> QED
    BY <2>1, <2>4, <2>5 DEF OwnFits
<1> QED
  BY <1>3, <1>4, <1>5, <1>6

(* ... and one that was submitted.                                          *)
LEMMA SubmittedOwn ==
  ASSUME RunsOwn, NEW a \in Agent, log' = log, pc[a] = "idle", pc'[a] \notin {"published", "returning"},
         run[a].phase \in {"read", "persist"},
         run[a].phase = "persist" /\ pc'[a] = "commit" => job'[a].parent = run[a].commit
  PROVE  OwnFits(a, run[a], pc'[a], job'[a], log')
<1>1. OwnFits(a, run[a], pc[a], job[a], log)
  BY DEF RunsOwn
<1> QED
  BY <1>1 DEF OwnFits

(* What a run is after a read.                                              *)
LEMMA AfterReadIs ==
  ASSUME NEW r \in Run, r.phase = "read", NEW told
  PROVE  LET t == AfterRead(r, told)
         IN /\ told.status \in {"ok", "idempotent"} =>
                 /\ t.phase \in {"read", "reload"} /\ t.current = told.commit
                 /\ Base(t) = told.commit /\ (t.phase = "reload" => t.commit = t.current)
            /\ told.status \notin {"ok", "idempotent"} => t.phase = "persist" /\ ~Hopeful(t)
<1>1. CASE told.status \notin {"ok", "idempotent"}
  BY <1>1 DEF AfterRead, Ending, Run, Hopeful
<1>2. CASE told.status \in {"ok", "idempotent"} /\ Len(r.queue) > 1
  <2> DEFINE rest == Tail(r.queue)
             t == [r EXCEPT !.current = told.commit, !.queue = rest]
  <2>1. AfterRead(r, told) = t
    BY <1>2 DEF AfterRead
  <2> HIDE DEF rest
  <2>2. t.phase = "read" /\ t.current = told.commit
    BY DEF Run
  <2> HIDE DEF t
  <2> QED
    BY <1>2, <2>1, <2>2 DEF Base
<1>3. CASE told.status \in {"ok", "idempotent"} /\ ~(Len(r.queue) > 1)
  <2> DEFINE t == [r EXCEPT !.current = told.commit, !.commit = told.commit,
                            !.queue = <<>>, !.phase = "reload"]
  <2>1. AfterRead(r, told) = t
    BY <1>3 DEF AfterRead
  <2>2. t.phase = "reload" /\ t.current = told.commit /\ t.commit = told.commit
    BY DEF Run
  <2> HIDE DEF t
  <2> QED
    BY <1>3, <2>1, <2>2 DEF Base
<1> QED
  BY <1>1, <1>2, <1>3

(* Only one run changes in a call of an agent.                              *)
LEMMA OutcomeIs ==
  ASSUME RunsFit, NEW a \in Agent, NEW next, Outcome(a, next)
  PROVE  /\ \A b \in Agent \ {a} : run'[b] = run[b]
         /\ run'[a] = IF pc'[a] # "idle" THEN run[a] ELSE IF reply' = NoReply THEN NoRun ELSE next
<1>1. run = [b \in Agent |-> run[b]]
  BY DEF RunsFit
<1>2. CASE pc'[a] # "idle"
  BY <1>2 DEF Outcome
<1>3. CASE pc'[a] = "idle"
  <2> DEFINE t == IF reply' = NoReply THEN NoRun ELSE next
  <2>1. run' = [run EXCEPT ![a] = t]
    BY <1>3 DEF Outcome, Set
  <2> HIDE DEF t
  <2>2. run'[a] = t /\ \A b \in Agent \ {a} : run'[b] = run[b]
    BY <1>1, <2>1
  <2> QED
    BY <1>3, <2>2 DEF t
<1> QED
  BY <1>2, <1>3

(* A read moves a run to the commit that has it.                            *)
LEMMA ReadOwn ==
  ASSUME AInv, RunsOwn, NEW a \in Agent, NEW actor \in Actor, Read(a, actor)
  PROVE  /\ OwnFits(a, run'[a], pc'[a], job'[a], log')
         /\ Commit(a) \/ AddsOwn(a)
         /\ \A b \in Agent \ {a} : run'[b] = run[b]
<1> DEFINE r == run[a]
           t == run'[a]
           n == Len(log)
<1>1. /\ TypeInv /\ IInv /\ n \in Nat /\ a \in Client /\ r \in Run /\ RunFits(r, n) /\ r.phase = "read"
      /\ OwnFits(a, r, pc[a], job[a], log)
  BY AgentAssumption DEF AInv, RInv, RunsFit, RunFits, IInv, TypeInv, TypeOK, RunsOwn, Read
<1>2. PICK req : \/ RefusedAtOnce(a, "acquire", req)
                 \/ AcquireRefused(a, actor, req, "observation")
                 \/ AcquireAgain(a, actor, req, "observation")
                 \/ Acquire(a, actor, req, "observation", run[a].current)
                 \/ Commit(a)
  BY DEF Read
<1>3. /\ \A b \in Agent \ {a} : run'[b] = run[b]
      /\ t = IF pc'[a] # "idle" THEN r ELSE IF reply' = NoReply THEN NoRun ELSE AfterRead(r, reply')
  BY OutcomeIs DEF Read, AInv, RInv
<1>4. NoRun.phase = "idle" /\ r.current \in 1..n
  BY <1>1 DEF NoRun, RunFits
<1>5. ASSUME pc'[a] = "idle", reply' # NoReply, log' = log,
             reply'.status \in {"ok", "idempotent"} =>
               /\ reply'.commit \in 1..n
               /\ \A q \in log[n].acqs : q.by = a => q \in log[reply'.commit].acqs
      PROVE  OwnFits(a, t, pc'[a], job'[a], log')
  <2>1. t = AfterRead(r, reply')
    BY <1>3, <1>5
  <2>2. /\ reply'.status \in {"ok", "idempotent"} =>
             /\ t.phase \in {"read", "reload"} /\ t.current = reply'.commit
             /\ Base(t) = reply'.commit /\ (t.phase = "reload" => t.commit = t.current)
        /\ reply'.status \notin {"ok", "idempotent"} => t.phase = "persist" /\ ~Hopeful(t)
    <3> HIDE DEF r, t
    <3> QED
      BY <1>1, <2>1, AfterReadIs
  <2> HIDE DEF r, t
  <2>3. CASE reply'.status \in {"ok", "idempotent"}
    BY <1>5, <2>2, <2>3 DEF OwnFits
  <2>4. CASE reply'.status \notin {"ok", "idempotent"}
    BY <1>5, <2>2, <2>4 DEF OwnFits
  <2> QED
    BY <2>3, <2>4
<1>6. CASE Commit(a)
  <2>1. ASSUME pc'[a] # "idle"
        PROVE  OwnFits(a, run'[a], pc'[a], job'[a], log')
    BY <1>1, <1>3, <1>6, <2>1, CommitOwn
  <2>2. ASSUME pc'[a] = "idle", reply' = NoReply
        PROVE  OwnFits(a, run'[a], pc'[a], job'[a], log')
    BY <1>3, <1>4, <2>2, OwnOver
  <2>3. ASSUME pc'[a] = "idle", reply' # NoReply
        PROVE  OwnFits(a, run'[a], pc'[a], job'[a], log')
    <3>1. /\ log' = log
          /\ reply'.status \in {"ok", "idempotent"} => Return(a) /\ reply'.commit \in 1..n
      BY <1>1, <1>6, <2>3, ToldCommit
    <3>2. ASSUME Return(a), NEW q \in log[n].acqs, q.by = a PROVE q \in log[reply'.commit].acqs
      <4>1. pc[a] = "returning" /\ reply'.commit = job[a].commit
        BY <3>2 DEF Return, End, Told, NoReply
      <4>2. job[a].commit \in 1..n /\ log[job[a].commit] = job[a].next /\ r.current <= job[a].commit
        BY <1>1, <4>1 DEF IInv, JobBuilt, OwnFits
      <4>3. q \in log[r.current].acqs \/ q \in job[a].next.acqs
        BY <1>1, <3>2 DEF OwnFits, Base, Hopeful
      <4>4. r.current \in 1..job[a].commit
        BY <1>1, <1>4, <4>2
      <4>5. Extends(log[r.current], log[job[a].commit])
        BY <4>2, <4>4 DEF AInv, Monotone
      <4> QED
        BY <4>1, <4>2, <4>3, <4>5 DEF Extends
    <3> QED
      BY <1>5, <2>3, <3>1, <3>2
  <2> QED
    BY <1>3, <1>6, <2>1, <2>2, <2>3
<1>7. CASE ~Commit(a)
  <2>1. /\ pc[a] = "idle" /\ log' = log /\ AddsOwn(a)
        /\ pc'[a] \notin {"published", "returning"}
    <3>1. CASE RefusedAtOnce(a, "acquire", req)
      BY <3>1 DEF RefusedAtOnce, Answer, AddsOwn
    <3>2. CASE \/ AcquireRefused(a, actor, req, "observation") \/ AcquireAgain(a, actor, req, "observation")
               \/ Acquire(a, actor, req, "observation", run[a].current)
      <4>1. AddsOwn(a) /\ pc[a] = "idle"
        BY <1>1, <3>2, AcquireOwn, AcquireUnadvised
      <4>2. pc'[a] \notin {"published", "returning"} /\ log' = log
        BY <1>1, <3>2, <4>1 DEF AcquireRefused, AcquireAgain, Acquire, Answer, Submit, TypeInv, TypeOK
      <4> QED
        BY <4>1, <4>2
    <3> QED
      BY <1>2, <1>7, <3>1, <3>2
  <2>2. ASSUME pc'[a] # "idle"
        PROVE  OwnFits(a, run'[a], pc'[a], job'[a], log')
    BY <1>1, <1>3, <2>1, <2>2, SubmittedOwn
  <2>3. ASSUME pc'[a] = "idle", reply' = NoReply
        PROVE  OwnFits(a, run'[a], pc'[a], job'[a], log')
    BY <1>3, <1>4, <2>3, OwnOver
  <2>4. ASSUME pc'[a] = "idle", reply' # NoReply
        PROVE  OwnFits(a, run'[a], pc'[a], job'[a], log')
    <3>1. reply'.status \in {"ok", "idempotent"} => reply'.commit = n /\ n \in 1..n
      <4>1. CASE RefusedAtOnce(a, "acquire", req)
        BY <4>1 DEF RefusedAtOnce, Answer, Told, NoReply
      <4>2. CASE AcquireRefused(a, actor, req, "observation")
        BY <4>2 DEF AcquireRefused, Answer, AcquireTold, Told, NoReply
      <4>3. CASE AcquireAgain(a, actor, req, "observation")
        <5>1. n \in 1..n
          BY <1>1, <4>3, HeadKnown DEF AcquireAgain
        <5> QED
          BY <4>3, <5>1 DEF AcquireAgain, Answer, AcquireTold, Told, NoReply
      <4>4. CASE Acquire(a, actor, req, "observation", run[a].current)
        <5>1. reply'.status \in {"conflict", "invalid"}
          BY <1>1, <2>4, <4>4 DEF Acquire, Submit, Answer, AcquireTold, Told, NoReply, TypeInv, TypeOK
        <5> QED
          BY <5>1
      <4> QED
        BY <1>2, <1>7, <4>1, <4>2, <4>3, <4>4
    <3> QED
      BY <1>5, <2>1, <2>4, <3>1
  <2> QED
    BY <1>3, <2>1, <2>2, <2>3, <2>4
<1> QED
  BY <1>6, <1>7

(* What a run records it expects on its own commit.                         *)
LEMMA PersistOwn ==
  ASSUME AInv, RunsOwn, NEW a \in Agent, Persist(a)
  PROVE  /\ OwnFits(a, run'[a], pc'[a], job'[a], log')
         /\ Commit(a) \/ AddsOwn(a)
         /\ \A b \in Agent \ {a} : run'[b] = run[b]
<1> DEFINE r == run[a]
<1>1. /\ TypeInv /\ a \in Client /\ r.phase = "persist"
  BY AgentAssumption DEF AInv, RInv, IInv, Persist
<1>2. \/ RefusedAtOnce(a, "consult", r.req)
      \/ Consult(a, "llm_advisor", r.req, AdviceOf(r), r.commit, r.commit)
      \/ Commit(a)
  BY DEF Persist
<1>3. /\ \A b \in Agent \ {a} : run'[b] = run[b]
      /\ run'[a] = IF pc'[a] # "idle" THEN r ELSE IF reply' = NoReply THEN NoRun ELSE Finished(a, reply')
  BY OutcomeIs DEF Persist, AInv, RInv
<1>4. NoRun.phase = "idle" /\ Finished(a, reply').phase = "idle"
  BY DEF NoRun, Finished
<1>5. CASE Commit(a)
  <2>1. ASSUME pc'[a] # "idle"
        PROVE  OwnFits(a, run'[a], pc'[a], job'[a], log')
    BY <1>1, <1>3, <1>5, <2>1, CommitOwn
  <2>2. ASSUME pc'[a] = "idle"
        PROVE  OwnFits(a, run'[a], pc'[a], job'[a], log')
    BY <1>3, <1>4, <2>2, OwnOver
  <2> QED
    BY <1>3, <1>5, <2>1, <2>2
<1>6. CASE ~Commit(a)
  <2>1. /\ pc[a] = "idle" /\ log' = log /\ AddsOwn(a) /\ (pc'[a] = "commit" => job'[a].parent = r.commit)
    <3>1. CASE RefusedAtOnce(a, "consult", r.req)
      BY <3>1 DEF RefusedAtOnce, Answer, AddsOwn
    <3>2. CASE Consult(a, "llm_advisor", r.req, AdviceOf(r), r.commit, r.commit)
      <4> HIDE DEF r
      <4> QED
        BY <1>1, <3>2, ConsultOwn
    <3> QED
      BY <1>2, <1>6, <3>1, <3>2
  <2>2. pc'[a] \in {"idle", "commit"}
    BY <1>6, PersistAdvised
  <2>3. ASSUME pc'[a] # "idle"
        PROVE  OwnFits(a, run'[a], pc'[a], job'[a], log')
    BY <1>1, <1>3, <2>1, <2>2, <2>3, SubmittedOwn
  <2>4. ASSUME pc'[a] = "idle"
        PROVE  OwnFits(a, run'[a], pc'[a], job'[a], log')
    BY <1>3, <1>4, <2>4, OwnOver
  <2> QED
    BY <1>3, <2>1, <2>3, <2>4
<1> QED
  BY <1>5, <1>6

(* Every step of a run and of the other callers keeps all of it.            *)
LEMMA OwnInvStep ==
  ASSUME AInv, OwnInv, [RNext]_rvars
  PROVE  OwnInv'
<1>1. NewHead /\ JobsOwn /\ RunsOwn
  BY DEF OwnInv
<1>2. CASE UNCHANGED rvars
  BY <1>2 DEF rvars, OwnInv, NewHead, JobsOwn, RunsOwn, Earlier
<1>3. ASSUME NEW a \in Agent, Local(a) PROVE OwnInv'
  <2>1. /\ OwnFits(a, run'[a], pc'[a], job'[a], log')
        /\ UNCHANGED <<log, pc, job>> /\ \A b \in Agent \ {a} : run'[b] = run[b]
    BY <1>1, <1>3, LocalOwn
  <2>2. \A b \in Agent \ {a} : OwnFits(b, run'[b], pc'[b], job'[b], log')
    BY <1>1, <2>1 DEF RunsOwn
  <2>3. RunsOwn'
    BY <2>1, <2>2 DEF RunsOwn
  <2>4. NewHead' /\ JobsOwn'
    BY <1>1, <2>1 DEF NewHead, JobsOwn, Earlier
  <2> QED
    BY <2>3, <2>4 DEF OwnInv
<1>4. ASSUME NEW a \in Agent, Persist(a) \/ \E actor \in Actor : Read(a, actor) PROVE OwnInv'
  <2>1. /\ OwnFits(a, run'[a], pc'[a], job'[a], log')
        /\ Commit(a) \/ AddsOwn(a)
        /\ \A b \in Agent \ {a} : run'[b] = run[b]
    BY <1>1, <1>4, ReadOwn, PersistOwn
  <2>2. a \in Client /\ (Enrich(a) \/ Refused(a) \/ Commit(a))
    BY <1>4, ReadIsCall, PersistIsCall DEF AInv
  <2>3. \A b \in Agent \ {a} : OwnFits(b, run'[b], pc'[b], job'[b], log')
    BY <1>1, <2>1, <2>2, OwnBeside
  <2>4. RunsOwn'
    BY <2>1, <2>3 DEF RunsOwn
  <2>5. NewHead' /\ JobsOwn'
    BY <1>1, <2>1, <2>2, OwnStep
  <2> QED
    BY <2>4, <2>5 DEF OwnInv
<1>5. ASSUME NEW c \in Client \ Agent, Others(c) PROVE OwnInv'
  <2>1. (Workflow(c) \/ Enrich(c) \/ Commit(c)) /\ run' = run /\ TypeInv
    BY <1>5, OthersCall DEF Others, AInv, RInv, IInv
  <2>2. \A b \in Agent : OwnFits(b, run'[b], pc'[b], job'[b], log')
    BY <1>1, <1>5, <2>1, OwnBeside
  <2>3. RunsOwn'
    BY <2>2 DEF RunsOwn
  <2>4. Commit(c) \/ AddsOwn(c)
    <3>1. CASE Workflow(c)
      BY <1>5, <2>1, <3>1, WorkflowCarries, CarriesOwn
    <3>2. CASE Elsewhere(c)
      BY <1>5, <2>1, <3>2, AcquireOwn, ConsultOwn DEF Elsewhere
    <3> QED
      BY <1>5, <3>1, <3>2 DEF Others
  <2>5. NewHead' /\ JobsOwn'
    BY <1>1, <1>5, <2>1, <2>4, OwnStep
  <2> QED
    BY <2>3, <2>5 DEF OwnInv
<1>6. CASE PowerFails
  <2>1. PowerLoss /\ run' = [a \in Agent |-> NoRun] /\ \A c \in Client : pc'[c] = "idle"
    BY <1>6 DEF PowerFails, PowerLoss
  <2>2. PICK n \in safe..Len(log) : log' = SubSeq(log, 1, n)
    BY <2>1 DEF PowerLoss, Store!Lose
  <2>3. log \in Seq(Snapshot) /\ safe \in 0..Len(log) /\ Len(log) \in Nat
    BY DEF AInv, RInv, IInv, TypeInv, TypeOK
  <2>4. n \in 0..Len(log) /\ Len(log') = n /\ \A i \in 1..n : log'[i] = log[i]
    <3>1. n \in Nat /\ n <= Len(log) /\ \A i \in 1..n : log[i] \in Snapshot
      BY <2>3
    <3> QED
      BY <2>2, <2>3, <3>1, SubSeqProperties
  <2>5. NewHead'
    <3>1. SUFFICES ASSUME NEW i \in 2..n PROVE log'[i] # log'[i - 1]
      BY <2>4 DEF NewHead
    <3>2. i \in 1..n /\ i - 1 \in 1..n /\ i \in 2..Len(log)
      BY <2>3, <2>4
    <3> QED
      BY <1>1, <2>4, <3>2 DEF NewHead
  <2>6. JobsOwn'
    BY <2>1 DEF JobsOwn
  <2>7. NoRun.phase = "idle" /\ \A a \in Agent : run'[a] = NoRun
    BY <2>1 DEF NoRun
  <2>8. RunsOwn'
    BY <2>7, OwnOver DEF RunsOwn
  <2> QED
    BY <2>5, <2>6, <2>8 DEF OwnInv
<1> QED
  BY <1>2, <1>3, <1>4, <1>5, <1>6 DEF RNext, Proceed, Local

(* The invariant holds throughout.                                          *)
THEOREM OwnInductive == RSpec => []OwnInv
<1>1. RInit => OwnInv
  <2> SUFFICES ASSUME RInit PROVE OwnInv
    OBVIOUS
  <2>1. log = <<>> /\ run = [a \in Agent |-> NoRun] /\ \A c \in Client : pc[c] = "idle"
    BY DEF RInit, Init
  <2>2. Len(log) = 0 /\ 2..0 = {}
    BY <2>1
  <2>3. NewHead
    BY <2>2 DEF NewHead
  <2>4. JobsOwn
    BY <2>1 DEF JobsOwn
  <2>5. NoRun.phase = "idle" /\ \A a \in Agent : run[a] = NoRun
    BY <2>1 DEF NoRun
  <2>6. RunsOwn
    BY <2>5, OwnOver DEF RunsOwn
  <2> QED
    BY <2>3, <2>4, <2>6 DEF OwnInv
<1>2. AInv /\ OwnInv /\ [RNext]_rvars => OwnInv'
  BY OwnInvStep
<1> QED
  BY <1>1, <1>2, AdviceInductive, PTL DEF RSpec

(* When a run is told of a conflict, its commit is no longer the head.      *)
LEMMA ConflictIsStale ==
  ASSUME AInv, RunsOwn, NEW a \in Agent, Persist(a), reply' # NoReply, reply'.status = "conflict"
  PROVE  run[a].commit # Len(log) /\ pc[a] \notin {"published", "returning"}
<1> DEFINE r == run[a]
<1>1. /\ TypeInv /\ a \in Client /\ r.phase = "persist" /\ OwnFits(a, r, pc[a], job[a], log)
  BY AgentAssumption DEF AInv, RInv, IInv, Persist, RunsOwn
<1>2. \/ RefusedAtOnce(a, "consult", r.req)
      \/ Consult(a, "llm_advisor", r.req, AdviceOf(r), r.commit, r.commit)
      \/ Commit(a)
  BY DEF Persist
<1>3. CASE RefusedAtOnce(a, "consult", r.req)
  BY <1>3 DEF RefusedAtOnce, Answer, Told, NoReply
<1>4. CASE Consult(a, "llm_advisor", r.req, AdviceOf(r), r.commit, r.commit)
  <2> HIDE DEF r
  <2>1. r.commit # Len(log) /\ pc[a] = "idle"
    BY <1>1, <1>4, ConsultOwn
  <2> QED
    BY <2>1 DEF r
<1>5. CASE Commit(a)
  <2>1. ASSUME NEW status, NEW n, End(a, status, n) PROVE reply'.status = status
    BY <2>1 DEF End, Told, NoReply
  <2>2. ~Publish(a) /\ ~Committed(a) /\ ~CommittedBefore(a) /\ ~Crash(a)
    BY DEF Publish, Committed, CommittedBefore, Crash
  <2>3. ~Return(a) /\ ~CallFails(a) /\ ~OutcomeUnknown(a)
    <3>1. ASSUME Return(a) PROVE reply'.status = "ok"
      BY <2>1, <3>1 DEF Return
    <3>2. ASSUME CallFails(a) PROVE reply'.status = "failed"
      BY <2>1, <3>2 DEF CallFails
    <3>3. ASSUME OutcomeUnknown(a) PROVE reply'.status = "unknown"
      BY <2>1, <3>3 DEF OutcomeUnknown
    <3> QED
      BY <3>1, <3>2, <3>3
  <2>4. pc[a] = "commit" /\ job[a].parent # Len(log)
    <3>1. ASSUME CommitRefused(a) PROVE pc[a] = "commit" /\ job[a].parent # Len(log)
      BY <3>1 DEF CommitRefused
    <3>2. ASSUME CommitLocked(a), job[a].parent = Len(log) PROVE reply'.status = "busy"
      BY <2>1, <3>2 DEF CommitLocked
    <3> QED
      BY <1>5, <2>2, <2>3, <3>1, <3>2 DEF Commit, CommitLocked
  <2>5. job[a].parent = r.commit
    BY <1>1, <2>4 DEF OwnFits
  <2> QED
    BY <2>4, <2>5
<1> QED
  BY <1>2, <1>3, <1>4, <1>5

(* A run whose commit is not the head any more was overtaken by others.     *)
LEMMA StaleMeansMoved ==
  ASSUME AInv, VInv, OwnInv, NEW a \in Agent, run[a].phase = "persist", run[a].status # "failed",
         run[a].commit # Len(log), pc[a] \notin {"published", "returning"}
  PROVE  OthersMoved(a)
<1> DEFINE r == run[a]
           n == Len(log)
           k == r.commit
<1>1. n \in Nat /\ RunFits(r, n) /\ log \in Seq(Snapshot) /\ OwnFits(a, r, pc[a], job[a], log)
  BY DEF AInv, RInv, RunsFit, IInv, TypeInv, TypeOK, OwnInv, RunsOwn
<1>2. k \in 1..n
  BY <1>1 DEF RunFits
<1>3. k \in 1..k + 1 /\ k + 1 \in 2..n /\ k + 1 \in 1..n /\ (k + 1) - 1 = k /\ n \in 1..n
  <2> HIDE DEF k
  <2> QED
    BY <1>1, <1>2 DEF k
<1>4. Extends(log[k], log[k + 1]) /\ Extends(log[k + 1], log[n])
  <2> HIDE DEF k, n
  <2>1. n = Len(log)
    BY DEF n
  <2> QED
    BY <1>3, <2>1 DEF AInv, Monotone
<1>5. log[k + 1] # log[k]
  BY <1>3 DEF OwnInv, NewHead
<1>6. Good(log[k]) /\ Good(log[k + 1]) /\ log[k] \in Snapshot /\ log[k + 1] \in Snapshot
  BY <1>1, <1>2, <1>3 DEF VInv, LogValid, Follows
<1>7. \/ log[k + 1].events # log[k].events \/ log[k + 1].acqs # log[k].acqs
      \/ log[k + 1].consults # log[k].consults
  BY <1>5, <1>6, Determined
<1>8. SUFFICES ASSUME log[n].events = log[k].events, log[n].consults = log[k].consults,
                      \A q \in log[n].acqs \ log[k].acqs : q.by = a
               PROVE  FALSE
  BY DEF OthersMoved, Latest
<1>9. \A q \in log[n].acqs : q.by = a => q \in log[k].acqs
  BY <1>1 DEF OwnFits, Hopeful, Base
<1>10. log[n].acqs \subseteq log[k].acqs
  BY <1>8, <1>9
<1> QED
  BY <1>4, <1>7, <1>8, <1>10 DEF Extends

(* A run is never refused as stale because of its own reads, unless it      *)
(* reports a failure: somebody else moved the case.                         *)
THEOREM OwnReadsNeverConflict == RSpec => NoSelfConflict
<1>1. ASSUME AInv, VInv, OwnInv, RNext, NEW a \in Agent, run[a].phase = "persist",
             run'[a].phase = "idle", run'[a].req # NoId, reply'.status = "conflict",
             run[a].status # "failed"
      PROVE  OthersMoved(a)
  <2>1. NoRun.req = NoId /\ NoRun.phase = "idle"
    BY DEF NoRun
  <2>2. run = [b \in Agent |-> run[b]] /\ run[a] \in Run
    BY <1>1 DEF AInv, RInv, RunsFit, RunFits
  <2>3. ASSUME NEW b \in Agent, b # a, Begin(b) \/ Proceed(b) \/ Expire(b) \/ Die(b) PROVE FALSE
    <3>1. run'[a] = run[a]
      BY <2>2, <2>3 DEF Begin, Replay, StartRefused, Start, Proceed, Propose, ProposeFails, ProposalInvalid,
        ProposalTerminal, ProposalReads, Reload, ReloadFails, Expire, Die, Read, Persist, Outcome, Set
    <3> QED
      BY <1>1, <3>1
  <2>4. ~Begin(a) /\ ~Propose(a) /\ ~Reload(a) /\ ~ReloadFails(a) /\ ~(\E actor \in Actor : Read(a, actor))
    BY <1>1 DEF Begin, Replay, StartRefused, Start, Propose, ProposeFails, ProposalInvalid,
      ProposalTerminal, ProposalReads, Reload, ReloadFails, Read
  <2>5. ~Expire(a)
    <3>1. ASSUME Expire(a) PROVE FALSE
      <4> DEFINE s == [run[a] EXCEPT !.expired = TRUE]
      <4>1. run'[a] = s
        BY <2>2, <3>1 DEF Expire
      <4>2. s.phase = "persist"
        BY <1>1, <2>2 DEF Run
      <4> HIDE DEF s
      <4> QED
        BY <1>1, <4>1, <4>2
    <3> QED
      BY <3>1
  <2>6. ~Die(a) /\ ~PowerFails
    BY <1>1, <2>1, <2>2 DEF Die, PowerFails, Set
  <2>7. ASSUME NEW c \in Client \ Agent, Others(c) PROVE FALSE
    BY <1>1, <2>7 DEF Others
  <2>8. Persist(a)
    BY <1>1, <2>3, <2>4, <2>5, <2>6, <2>7 DEF RNext, Proceed
  <2>9. reply' # NoReply
    BY <1>1 DEF NoReply
  <2>10. run[a].commit # Len(log) /\ pc[a] \notin {"published", "returning"}
    BY <1>1, <2>8, <2>9, ConflictIsStale DEF OwnInv
  <2> QED
    BY <1>1, <2>10, StaleMeansMoved
<1>2. AInv /\ VInv /\ OwnInv /\ [RNext]_rvars =>
        [\A a \in Agent :
           /\ run[a].phase = "persist" /\ run'[a].phase = "idle" /\ run'[a].req # NoId
           /\ reply'.status = "conflict"
           => run[a].status = "failed" \/ OthersMoved(a)]_rvars
  BY <1>1
<1>3. RSpec => []VInv
  BY RunsAreCalls, ValidityInductive
<1> QED
  BY <1>2, <1>3, AdviceInductive, OwnInductive, PTL DEF RSpec, NoSelfConflict
=============================================================================
