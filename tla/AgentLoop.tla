------------------------------ MODULE AgentLoop ------------------------------
(***************************************************************************)
(* The online agent loop of internal/agentloop: a provider is shown the    *)
(* sanitized report and what was read so far, and answers with an          *)
(* assessment, with reads it would like to see, or by stopping.  The loop  *)
(* checks the answer, has the reads collected locally, and goes on for a   *)
(* bounded number of rounds.  The provider and the collector are anything. *)
(*                                                                         *)
(* Abstracted: an argument is a spelling of one of the targets the report  *)
(* knows; a fact is named by its key.                                      *)
(***************************************************************************)
EXTENDS OnlineAssessment, Sequences

CONSTANTS EvidenceOp,   \* evidenceOperations
          Spelling,     \* how a provider may write an argument
          Canonical,    \* the report's spelling of it, or NoTarget
          NoTarget,
          Fact,         \* keys of facts
          Schema,       \* operationFactSchemas: the facts of an operation
          Redacted,     \* RedactedFields of the operation's privacy class
          Uploadable,   \* operations whose class MayUploadEvidence
          Asked,        \* the report and session of the run
          MaxRounds, MaxRequests

EvidenceRef(op, fact) == <<op, fact>>

ASSUME LoopAssumption ==
  /\ MaxRounds \in Nat \ {0} /\ MaxRequests \in Nat
  /\ Canonical \in [Spelling -> Spelling \cup {NoTarget}]
  /\ Schema \in [EvidenceOp -> SUBSET Fact] /\ Redacted \in [EvidenceOp -> SUBSET Fact]
  /\ Uploadable \subseteq EvidenceOp /\ Asked \in Request
  /\ {EvidenceRef(op, f) : op \in EvidenceOp, f \in Fact} \subseteq Ref
  /\ \A op \in EvidenceOp, f \in Fact : EvidenceRef(op, f) \notin Asked.refs \cup Private

VARIABLE loop

(* An evidence request, its arguments replaced by the report's own, and the *)
(* evidence it brought.                                                     *)
Read     == [op : EvidenceOp, arg : Spelling]
Evidence == [op : EvidenceOp, arg : Spelling, facts : SUBSET Fact]

Kinds == {"round_started", "provider_proposed", "evidence_requested", "evidence_collected",
          "evidence_redacted", "duplicate_request_rejected",
          "loop_completed", "loop_blocked", "loop_failed"}

(* prior: what was collected; keys: what was asked for; shown: the evidence *)
(* paths of the last round input; cites: what the result cites.             *)
LoopState == [phase : {"idle", "round", "proposing", "collecting", "done"},
              expired : BOOLEAN, round : 0..MaxRounds, queue : Seq(Read),
              prior : Seq(Evidence), keys : SUBSET Read, shown : SUBSET Ref,
              audit : Seq([kind : Kinds, round : 1..MaxRounds]),
              state : {"none", "completed", "blocked", "failed"}, cites : SUBSET Ref]

NoLoop == [phase |-> "idle", expired |-> FALSE, round |-> 0, queue |-> <<>>, prior |-> <<>>,
           keys |-> {}, shown |-> {}, audit |-> <<>>, state |-> "none", cites |-> {}]

LInit == loop = NoLoop

Audit(l, kind) == [l EXCEPT !.audit = Append(@, [kind |-> kind, round |-> l.round])]

Ends == [completed |-> "loop_completed", blocked |-> "loop_blocked", failed |-> "loop_failed"]

Terminal(l, state) ==
  [Audit(l, Ends[state]) EXCEPT !.phase = "done", !.state = state, !.queue = <<>>]

Fail(l) == Terminal(l, "failed")

-----------------------------------------------------------------------------
(* Run.  A session or report that does not fit ends it with no result.      *)
Refuse == loop.phase = "idle" /\ UNCHANGED loop

Run == loop.phase = "idle" /\ loop' = [NoLoop EXCEPT !.phase = "round", !.round = 1]

Expire == /\ loop.phase \notin {"idle", "done"} /\ ~loop.expired
          /\ loop' = [loop EXCEPT !.expired = TRUE]

(* Mutant: everything that was collected is shown.                          *)
FilterNothing(prior) == {prior[i] : i \in 1..Len(prior)}

FilterUploadableEvidence(prior) == {e \in {prior[i] : i \in 1..Len(prior)} : e.op \in Uploadable}

(* GenerateEvidenceRefs, for the evidence of a set.                         *)
CollectedRefs(evidence) ==
  UNION {{EvidenceRef(e.op, f) : f \in e.facts} : e \in evidence}

StartRound ==
  /\ loop.phase = "round"
  /\ loop' = IF loop.expired THEN Fail(loop)
             ELSE [Audit(loop, "round_started") EXCEPT
                     !.phase = "proposing",
                     !.shown = EvidenceReferences(Asked)
                               \cup CollectedRefs(FilterUploadableEvidence(loop.prior))]

(* Mutant: the round is played again when the provider fails.               *)
ProposalAgain ==
  /\ loop.phase = "proposing"
  /\ loop' = [loop EXCEPT !.phase = "round", !.audit = SubSeq(@, 1, Len(@) - 1)]

(* The provider fails, a size limit is hit, or the proposal is malformed.   *)
ProposalUnusable ==
  /\ loop.phase = "proposing"
  /\ loop' = Fail(loop)

Proposed == Audit(loop, "provider_proposed")

(* An assessment may cite what the provider was shown, and of the sources   *)
(* those that were retrieved for this very proposal.                        *)
ProposeCompleted(a, retrieved) ==
  /\ loop.phase = "proposing"
  /\ loop' = IF /\ a.sources \subseteq retrieved
                /\ Accepted(a, Asked, CollectedRefs(FilterUploadableEvidence(loop.prior)))
             THEN [Terminal(Proposed, "completed") EXCEPT !.cites = a.refs]
             ELSE Fail(loop)

ProposeStop(state) ==
  /\ loop.phase = "proposing"
  /\ loop' = Terminal(Proposed, state)

(* Every argument is replaced by the report's spelling of it.               *)
Canonically(requests) == [i \in 1..Len(requests) |-> [requests[i] EXCEPT !.arg = Canonical[@]]]

(* Mutant: only repetition within a proposal is a duplicate.                *)
RepeatsInProposal(reads, keys, i) == \E j \in 1..i - 1 : reads[j] = reads[i]

(* A request was made before: in an earlier round, or earlier in this one.  *)
Repeats(reads, keys, i) == reads[i] \in keys \/ \E j \in 1..i - 1 : reads[j] = reads[i]

(* Mutant: one more round is allowed for reads.                             *)
LastRoundLater == loop.round > MaxRounds

LastRound == loop.round = MaxRounds

(* The requests are taken in order, and the first that the report does not  *)
(* know or that repeats another decides what becomes of the proposal.       *)
ProposeReads(requests) ==
  /\ loop.phase = "proposing"
  /\ LET reads == Canonically(requests)
         known(i) == reads[i].arg # NoTarget
         repeated(i) == Repeats(reads, loop.keys, i)
         valid == \A i \in 1..Len(reads) : known(i) /\ ~repeated(i)
         duplicate == \E i \in 1..Len(reads) : repeated(i) /\ \A j \in 1..i : known(j)
     IN loop' = CASE duplicate -> Fail(Audit(loop, "duplicate_request_rejected"))
                  [] ~duplicate /\ ~valid -> Fail(loop)
                  [] valid /\ LastRound -> Terminal(Proposed, "blocked")
                  [] valid /\ ~LastRound -> [Proposed EXCEPT !.phase = "collecting", !.queue = reads]

(* The request is done; after the last one the next round begins.           *)
Done(l, read) ==
  [l EXCEPT !.queue = Tail(@), !.keys = @ \cup {read},
            !.phase = IF Len(l.queue) = 1 THEN "round" ELSE "collecting",
            !.round = IF Len(l.queue) = 1 THEN @ + 1 ELSE @]

(* Mutant: redacted evidence leaves no trace in the audit.                  *)
CollectQuietly(facts) ==
  /\ loop.phase = "collecting"
  /\ LET read == Head(loop.queue)
         kept == facts \ Redacted[read.op]
         asked == Audit(loop, "evidence_requested")
         evidence == [op |-> read.op, arg |-> read.arg, facts |-> kept]
     IN loop' = IF kept \subseteq Schema[read.op]
                THEN Done([(IF read.op \in Uploadable THEN Audit(asked, "evidence_collected")
                            ELSE asked) EXCEPT !.prior = Append(@, evidence)], read)
                ELSE Fail(asked)

(* A read is collected and normalized: redacted facts are dropped, unknown  *)
(* ones refused.                                                            *)
Collect(facts) ==
  /\ loop.phase = "collecting"
  /\ LET read == Head(loop.queue)
         kept == facts \ Redacted[read.op]
         asked == Audit(loop, "evidence_requested")
         collected == Audit(asked, "evidence_collected")
         noted == IF read.op \in Uploadable THEN collected ELSE Audit(collected, "evidence_redacted")
         evidence == [op |-> read.op, arg |-> read.arg, facts |-> kept]
     IN loop' = IF kept \subseteq Schema[read.op]
                THEN Done([noted EXCEPT !.prior = Append(@, evidence)], read)
                ELSE Fail(asked)

CollectFails ==
  /\ loop.phase = "collecting"
  /\ loop' = Fail(Audit(loop, "evidence_requested"))

Return == loop.phase = "done" /\ loop' = NoLoop

-----------------------------------------------------------------------------
Proposals(n) == UNION {[1..k -> Read] : k \in 1..n}

Propose ==
  \/ ProposalUnusable
  \/ \E a \in [call : {Asked.call}, wellFormed : {TRUE}, refs : SUBSET Ref, cited : SUBSET Source,
               sources : SUBSET Source, asks : SUBSET Question, ops : SUBSET Operation,
               limits : 1..MaxLimitations],
        retrieved \in SUBSET Source : ProposeCompleted(a, retrieved)
  \/ \E state \in {"blocked", "failed"} : ProposeStop(state)
  \/ \E requests \in Proposals(MaxRequests) : ProposeReads(requests)

Advance == StartRound \/ Propose \/ (\E facts \in SUBSET Fact : Collect(facts)) \/ CollectFails

LNext == Refuse \/ Run \/ Advance \/ Expire \/ Return

(* A provider and a collector return, with an error at their deadline.      *)
LSpec == LInit /\ [][LNext]_loop /\ WF_loop(Advance)

-----------------------------------------------------------------------------
(* Properties.                                                              *)

(* The state of the loop has its type: the result of a run is completed,    *)
(* blocked or failed, and no round is above the limit.                      *)
LTypeOK == loop \in LoopState

(* Private facts and evidence of a class that must not be uploaded reach    *)
(* neither an input of the provider nor the citations of a result, however  *)
(* the rounds went.                                                         *)
EvidenceShown ==
  /\ \A op \in EvidenceOp, f \in Fact :
       EvidenceRef(op, f) \in loop.shown \cup loop.cites => op \in Uploadable /\ f \notin Redacted[op]
  /\ loop.shown \cap Private = {}
  /\ loop.cites \subseteq loop.shown

(* Nothing is read twice, whichever of the report's spellings of its target *)
(* a provider uses: no two reads have the key of CanonicalRequestKey.       *)
ReadOnce ==
  \A i, j \in 1..Len(loop.prior) :
    i # j => <<loop.prior[i].op, loop.prior[i].arg>> # <<loop.prior[j].op, loop.prior[j].arg>>

(* The audit timeline tells what happened: it ends with the outcome and     *)
(* names no other, every read is noted when asked for and when collected,   *)
(* and it is never longer than rounds and requests allow: a round is noted  *)
(* with two events and each of its reads with three, the last round, which  *)
(* reads nothing, with three.  For three rounds of eight reads these are 55 *)
(* events, and a result has room for 64 (validate.go:22).                   *)
MaxAuditEvents == (MaxRounds - 1) * (2 + 3 * MaxRequests) + 3

Outcomes == {Ends[state] : state \in DOMAIN Ends}
Count(kind) == Cardinality({i \in 1..Len(loop.audit) : loop.audit[i].kind = kind})

AuditTells ==
  loop.phase = "done" =>
    LET last == Len(loop.audit)
    IN /\ loop.audit[last].kind = Ends[loop.state]
       /\ \A i \in 1..last - 1 : loop.audit[i].kind \notin Outcomes
       /\ Count("evidence_collected") = Len(loop.prior)
       /\ \A i \in 2..last : loop.audit[i].kind = "evidence_collected"
            => loop.audit[i - 1].kind = "evidence_requested"
       /\ last <= MaxAuditEvents

(* Every run ends, whatever the provider keeps asking for.                  *)
LoopEnds == loop.phase = "round" ~> loop.phase = "done"
=============================================================================
