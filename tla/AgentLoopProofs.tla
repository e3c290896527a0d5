--------------------------- MODULE AgentLoopProofs ---------------------------
(***************************************************************************)
(* Proofs about AgentLoop, for any report, operations, schemas, privacy    *)
(* classes and limits, and for any provider and collector: the types, that *)
(* nothing is read twice, and that nothing private is shown or cited.      *)
(***************************************************************************)
EXTENDS AgentLoop, FiniteSetTheorems, TLAPS

-----------------------------------------------------------------------------
(* The invariant.                                                           *)
Event == [kind : Kinds, round : 1..MaxRounds]

(* Reads go on only before the last round.                                  *)
RoundInv ==
  /\ loop.phase # "idle" => loop.round \in 1..MaxRounds
  /\ loop.phase = "collecting" => loop.round < MaxRounds /\ loop.queue # <<>>

(* What a read asked for.                                                   *)
AskedFor(e) == [op |-> e.op, arg |-> e.arg]

(* What was read was asked for before and what is asked for now was not.    *)
ReadInv ==
  /\ \A i \in 1..Len(loop.prior) : AskedFor(loop.prior[i]) \in loop.keys
  /\ \A i, j \in 1..Len(loop.prior) : AskedFor(loop.prior[i]) = AskedFor(loop.prior[j]) => i = j
  /\ \A i \in 1..Len(loop.queue) : loop.queue[i] \notin loop.keys
  /\ \A i, j \in 1..Len(loop.queue) : loop.queue[i] = loop.queue[j] => i = j

(* Redacted facts are not kept, and the provider sees what may be uploaded. *)
Shown(prior) == EvidenceReferences(Asked) \cup CollectedRefs(FilterUploadableEvidence(prior))

PrivacyInv ==
  /\ \A i \in 1..Len(loop.prior) : loop.prior[i].facts \cap Redacted[loop.prior[i].op] = {}
  /\ loop.phase = "proposing" => loop.shown = Shown(loop.prior)
  /\ loop.phase # "done" => loop.cites = {}
  /\ EvidenceShown

Inv == LTypeOK /\ RoundInv /\ ReadInv /\ PrivacyInv

-----------------------------------------------------------------------------
(* The data.                                                                *)

(* Ending notes the outcome, drops what was to be read, and keeps the rest. *)
LEMMA Ended ==
  ASSUME NEW l \in LoopState, l.round \in 1..MaxRounds, NEW state \in {"completed", "blocked", "failed"}
  PROVE  /\ Terminal(l, state) \in LoopState
         /\ Terminal(l, state).phase = "done" /\ Terminal(l, state).queue = <<>>
         /\ Terminal(l, state).round = l.round /\ Terminal(l, state).prior = l.prior
         /\ Terminal(l, state).keys = l.keys /\ Terminal(l, state).shown = l.shown
         /\ Terminal(l, state).cites = l.cites
<1>1. Ends[state] \in Kinds
  BY DEF Ends, Kinds
<1>2. [kind |-> Ends[state], round |-> l.round] \in Event
  BY <1>1 DEF Event
<1>3. Append(l.audit, [kind |-> Ends[state], round |-> l.round]) \in Seq(Event)
  BY <1>2 DEF LoopState, Event
<1> DEFINE audit == Append(l.audit, [kind |-> Ends[state], round |-> l.round])
<1>4. Terminal(l, state) = [l EXCEPT !.audit = audit, !.phase = "done", !.state = state, !.queue = <<>>]
  BY DEF Terminal, Audit, LoopState
<1> HIDE DEF audit
<1>5. audit \in Seq(Event)
  BY <1>3 DEF audit
<1>6. <<>> \in Seq(Read)
  OBVIOUS
<1> QED
  BY <1>4, <1>5, <1>6 DEF LoopState, Event

(* Noting an event changes the timeline only.                               *)
LEMMA Noted ==
  ASSUME NEW l \in LoopState, l.round \in 1..MaxRounds, NEW kind \in Kinds
  PROVE  /\ Audit(l, kind) \in LoopState
         /\ Audit(l, kind).phase = l.phase /\ Audit(l, kind).queue = l.queue
         /\ Audit(l, kind).round = l.round /\ Audit(l, kind).prior = l.prior
         /\ Audit(l, kind).keys = l.keys /\ Audit(l, kind).shown = l.shown
         /\ Audit(l, kind).cites = l.cites
<1> DEFINE audit == Append(l.audit, [kind |-> kind, round |-> l.round])
<1>1. audit \in Seq(Event)
  <2>1. [kind |-> kind, round |-> l.round] \in Event
    BY DEF Event
  <2> QED
    BY <2>1 DEF LoopState, Event
<1>2. Audit(l, kind) = [l EXCEPT !.audit = audit]
  BY DEF Audit
<1> HIDE DEF audit
<1> QED
  BY <1>1, <1>2 DEF LoopState, Event

(* Evidence paths differ from those of the report and name one fact.        *)
LEMMA RefsOfEvidence ==
  ASSUME LTypeOK, PrivacyInv
  PROVE  /\ \A op \in EvidenceOp, f \in Fact :
              EvidenceRef(op, f) \in Shown(loop.prior) => op \in Uploadable /\ f \notin Redacted[op]
         /\ Shown(loop.prior) \in SUBSET Ref
         /\ Shown(loop.prior) \cap Private = {}
<1> DEFINE sent == FilterUploadableEvidence(loop.prior)
<1>1. \A i \in 1..Len(loop.prior) : loop.prior[i] \in Evidence
  BY DEF LTypeOK, LoopState
<1>2. \A e \in sent : e \in Evidence /\ e.op \in Uploadable /\ e.facts \cap Redacted[e.op] = {}
  BY <1>1 DEF FilterUploadableEvidence, PrivacyInv
<1> HIDE DEF sent
<1>3. \A ref \in CollectedRefs(sent) : \E e \in sent : \E f \in e.facts : ref = EvidenceRef(e.op, f)
  BY DEF CollectedRefs
<1>4. /\ EvidenceReferences(Asked) \subseteq Ref /\ EvidenceReferences(Asked) \cap Private = {}
      /\ EvidenceReferences(Asked) \subseteq Asked.refs
  BY LoopAssumption DEF EvidenceReferences, Sanitize, Request
<1>5. \A op \in EvidenceOp, f \in Fact : EvidenceRef(op, f) \notin EvidenceReferences(Asked)
                                         /\ EvidenceRef(op, f) \notin Private /\ EvidenceRef(op, f) \in Ref
  BY <1>4, LoopAssumption
<1>6. \A e \in sent : e.op \in EvidenceOp /\ e.facts \subseteq Fact
  BY <1>2 DEF Evidence
<1>7. CollectedRefs(sent) \subseteq Ref /\ CollectedRefs(sent) \cap Private = {}
  BY <1>3, <1>5, <1>6
<1>8. ASSUME NEW op \in EvidenceOp, NEW f \in Fact, EvidenceRef(op, f) \in CollectedRefs(sent)
      PROVE  op \in Uploadable /\ f \notin Redacted[op]
  <2>1. PICK e \in sent : \E g \in e.facts : EvidenceRef(op, f) = EvidenceRef(e.op, g)
    BY <1>3, <1>8
  <2>2. PICK g \in e.facts : EvidenceRef(op, f) = EvidenceRef(e.op, g)
    BY <2>1
  <2>3. op = e.op /\ f = g
    BY <2>2 DEF EvidenceRef
  <2> QED
    BY <1>2, <2>2, <2>3
<1>9. Shown(loop.prior) = EvidenceReferences(Asked) \cup CollectedRefs(sent)
  BY DEF Shown, sent
<1> QED
  BY <1>4, <1>5, <1>7, <1>8, <1>9

-----------------------------------------------------------------------------
(* Steps.                                                                   *)

(* A step that reads nothing and shows nothing new.                         *)
LEMMA StillStep ==
  ASSUME Inv, loop' \in LoopState, loop'.round \in 1..MaxRounds, loop.phase # "done",
         loop'.phase \notin {"collecting", "proposing"} \/ loop'.phase = loop.phase,
         loop'.phase = "collecting" => loop'.round = loop.round,
         loop'.queue = loop.queue \/ (loop'.queue = <<>> /\ loop'.phase # "collecting"),
         loop'.prior = loop.prior, loop'.keys = loop.keys, loop'.shown = loop.shown,
         loop'.cites = loop.cites
  PROVE  Inv'
<1>1. LTypeOK' /\ RoundInv'
  BY DEF Inv, LTypeOK, RoundInv
<1>2. ReadInv'
  BY DEF Inv, ReadInv
<1>3. PrivacyInv'
  BY DEF Inv, PrivacyInv, EvidenceShown, Shown
<1> QED
  BY <1>1, <1>2, <1>3 DEF Inv

(* The run ends with what it showed and, completed, with what it cites.     *)
LEMMA TerminalStep ==
  ASSUME Inv, NEW l \in LoopState, NEW state \in {"completed", "blocked", "failed"}, loop' = Terminal(l, state),
         l.round = loop.round, l.prior = loop.prior, l.keys = loop.keys,
         l.shown = loop.shown, l.cites = loop.cites, loop.phase \notin {"idle", "done"}
  PROVE  Inv'
<1>1. l.round \in 1..MaxRounds
  BY DEF Inv, RoundInv
<1>2. /\ loop' \in LoopState /\ loop'.phase = "done" /\ loop'.queue = <<>>
      /\ loop'.round = l.round /\ loop'.prior = l.prior /\ loop'.keys = l.keys
      /\ loop'.shown = l.shown /\ loop'.cites = l.cites
  BY <1>1, Ended
<1> QED
  BY <1>1, <1>2, StillStep

(* A run begins, or is over, with nothing.                                  *)
LEMMA FreshStep ==
  ASSUME loop' \in {NoLoop, [NoLoop EXCEPT !.phase = "round", !.round = 1]}
  PROVE  Inv'
<1>1. /\ <<>> \in Seq(Read) /\ <<>> \in Seq(Evidence) /\ <<>> \in Seq(Event)
      /\ 0 \in 0..MaxRounds /\ 1 \in 0..MaxRounds /\ 1 \in 1..MaxRounds
  BY LoopAssumption
<1>2. /\ NoLoop \in LoopState /\ [NoLoop EXCEPT !.phase = "round", !.round = 1] \in LoopState
  BY <1>1 DEF NoLoop, LoopState, Event
<1>3. /\ loop'.prior = <<>> /\ loop'.queue = <<>> /\ loop'.shown = {} /\ loop'.cites = {}
      /\ loop'.phase \in {"idle", "round"} /\ (loop'.phase # "idle" => loop'.round = 1)
  <2>1. CASE loop' = NoLoop
    BY <2>1 DEF NoLoop
  <2>2. CASE loop' = [NoLoop EXCEPT !.phase = "round", !.round = 1]
    BY <2>2 DEF NoLoop
  <2> QED
    BY <2>1, <2>2
<1>4. LTypeOK' /\ RoundInv'
  BY <1>1, <1>2, <1>3 DEF LTypeOK, RoundInv
<1>5. ReadInv' /\ PrivacyInv'
  <2>1. Len(<<>>) = 0
    OBVIOUS
  <2> QED
    BY <1>3, <2>1 DEF ReadInv, PrivacyInv, EvidenceShown
<1> QED
  BY <1>4, <1>5 DEF Inv

(* The provider is shown what it may be shown.                              *)
LEMMA RoundStep ==
  ASSUME Inv, StartRound
  PROVE  Inv'
<1>1. loop.phase = "round" /\ loop \in LoopState /\ loop.round \in 1..MaxRounds
  BY DEF StartRound, Inv, LTypeOK, RoundInv
<1>2. CASE loop.expired
  <2>1. loop' = Terminal(loop, "failed")
    BY <1>2 DEF StartRound, Fail
  <2> QED
    BY <1>1, <2>1, TerminalStep
<1>3. CASE ~loop.expired
  <2> DEFINE l == Audit(loop, "round_started")
             view == Shown(loop.prior)
  <2>1. loop' = [l EXCEPT !.phase = "proposing", !.shown = view]
    BY <1>3 DEF StartRound, Shown
  <2>2. l \in LoopState /\ l.round = loop.round /\ l.prior = loop.prior /\ l.keys = loop.keys
        /\ l.queue = loop.queue /\ l.cites = loop.cites
    BY <1>1, Noted DEF Kinds
  <2>3. /\ view \in SUBSET Ref /\ view \cap Private = {}
        /\ \A op \in EvidenceOp, f \in Fact : EvidenceRef(op, f) \in view => op \in Uploadable /\ f \notin Redacted[op]
    BY RefsOfEvidence DEF Inv
  <2> HIDE DEF l
  <2>4. /\ loop' \in LoopState /\ loop'.phase = "proposing" /\ loop'.shown = view
        /\ loop'.round = loop.round /\ loop'.prior = loop.prior /\ loop'.keys = loop.keys
        /\ loop'.queue = loop.queue /\ loop'.cites = loop.cites
    <3> HIDE DEF view
    <3> QED
      BY <2>1, <2>2, <2>3 DEF LoopState
  <2>5. loop.cites = {}
    BY <1>1 DEF Inv, PrivacyInv
  <2>6. LTypeOK' /\ RoundInv' /\ ReadInv'
    BY <1>1, <2>4 DEF Inv, LTypeOK, RoundInv, ReadInv
  <2>7. EvidenceShown'
    <3> HIDE DEF view
    <3> QED
      BY <2>3, <2>4, <2>5 DEF EvidenceShown
  <2>8. PrivacyInv'
    BY <1>1, <2>4, <2>5, <2>7 DEF Inv, PrivacyInv, Shown
  <2> QED
    BY <2>6, <2>8 DEF Inv
<1> QED
  BY <1>2, <1>3

(* An assessment cites what was shown; a stop cites nothing.                *)
LEMMA EndStep ==
  ASSUME Inv, \/ ProposalUnusable \/ CollectFails
              \/ \E state \in {"blocked", "failed"} : ProposeStop(state)
              \/ \E a, retrieved : a.refs \in SUBSET Ref /\ ProposeCompleted(a, retrieved)
  PROVE  Inv'
<1>1. /\ loop \in LoopState /\ loop.phase \in {"proposing", "collecting"} /\ loop.round \in 1..MaxRounds
  BY DEF ProposalUnusable, CollectFails, ProposeStop, ProposeCompleted, Inv, LTypeOK, RoundInv
<1>2. \A kind \in Kinds : /\ Audit(loop, kind) \in LoopState /\ Audit(loop, kind).round = loop.round
                          /\ Audit(loop, kind).prior = loop.prior /\ Audit(loop, kind).keys = loop.keys
                          /\ Audit(loop, kind).shown = loop.shown /\ Audit(loop, kind).cites = loop.cites
  BY <1>1, Noted
<1>3. "provider_proposed" \in Kinds /\ "evidence_requested" \in Kinds
  BY DEF Kinds
<1>4. ASSUME loop' = Fail(loop) PROVE Inv'
  BY <1>1, <1>4, TerminalStep DEF Fail
<1>5. CASE ProposalUnusable
  BY <1>4, <1>5 DEF ProposalUnusable
<1>6. CASE CollectFails
  <2>1. loop' = Terminal(Audit(loop, "evidence_requested"), "failed")
    BY <1>6 DEF CollectFails, Fail
  <2> QED
    BY <1>1, <1>2, <1>3, <2>1, TerminalStep
<1>7. ASSUME NEW state \in {"blocked", "failed"}, ProposeStop(state) PROVE Inv'
  <2>1. loop' = Terminal(Audit(loop, "provider_proposed"), state)
    BY <1>7 DEF ProposeStop, Proposed
  <2> QED
    BY <1>1, <1>2, <1>3, <2>1, TerminalStep
<1>8. ASSUME NEW a, NEW retrieved, a.refs \in SUBSET Ref, ProposeCompleted(a, retrieved) PROVE Inv'
  <2>1. loop.phase = "proposing" /\ loop.shown = Shown(loop.prior)
    BY <1>8 DEF ProposeCompleted, Inv, PrivacyInv
  <2>2. CASE loop' = Fail(loop)
    BY <1>4, <2>2
  <2>3. CASE loop' # Fail(loop)
    <3> DEFINE l == Audit(loop, "provider_proposed")
               t == Terminal(l, "completed")
    <3>1. /\ loop' = [t EXCEPT !.cites = a.refs]
          /\ Accepted(a, Asked, CollectedRefs(FilterUploadableEvidence(loop.prior)))
      BY <1>8, <2>3 DEF ProposeCompleted, Proposed
    <3>2. a.refs \subseteq loop.shown
      BY <2>1, <3>1 DEF Accepted, Shown
    <3>3. /\ t \in LoopState /\ t.phase = "done" /\ t.queue = <<>> /\ t.round = loop.round
          /\ t.prior = loop.prior /\ t.keys = loop.keys /\ t.shown = loop.shown
      BY <1>1, <1>2, <1>3, Ended
    <3> HIDE DEF t
    <3>4. /\ loop' \in LoopState /\ loop'.phase = "done" /\ loop'.queue = <<>> /\ loop'.round = loop.round
          /\ loop'.prior = loop.prior /\ loop'.keys = loop.keys /\ loop'.shown = loop.shown
          /\ loop'.cites = a.refs
      BY <1>8, <3>1, <3>3 DEF LoopState
    <3>5. LTypeOK' /\ RoundInv' /\ ReadInv'
      BY <1>1, <3>4 DEF Inv, LTypeOK, RoundInv, ReadInv
    <3>6. EvidenceShown'
      BY <3>2, <3>4 DEF Inv, PrivacyInv, EvidenceShown
    <3>7. PrivacyInv'
      BY <3>4, <3>6 DEF Inv, PrivacyInv
    <3> QED
      BY <3>5, <3>7 DEF Inv
  <2> QED
    BY <2>2, <2>3
<1> QED
  BY <1>5, <1>6, <1>7, <1>8

(* The loop goes on with reads.                                             *)
Takes(reads) ==
  /\ \A i \in 1..Len(reads) : ~Repeats(reads, loop.keys, i)
  /\ ~LastRound
  /\ loop' = [Audit(loop, "provider_proposed") EXCEPT !.phase = "collecting", !.queue = reads]

(* What a proposal of n reads makes of the loop.                            *)
LEMMA ReadsAre ==
  ASSUME Inv, NEW n \in 1..MaxRequests, NEW requests \in [1..n -> Read], ProposeReads(requests)
  PROVE  \/ loop' = Terminal(loop, "failed")
         \/ loop' = Terminal(Audit(loop, "duplicate_request_rejected"), "failed")
         \/ loop' = Terminal(Audit(loop, "provider_proposed"), "blocked")
         \/ \E reads \in Seq(Read) : Len(reads) = n /\ reads # <<>> /\ Takes(reads)
<1>2. n \in Nat /\ n > 0 /\ requests \in Seq(Read) /\ Len(requests) = n
  BY LoopAssumption
<1> DEFINE reads == Canonically(requests)
           known(i) == reads[i].arg # NoTarget
           repeated(i) == Repeats(reads, loop.keys, i)
           valid == \A i \in 1..Len(reads) : known(i) /\ ~repeated(i)
           duplicate == \E i \in 1..Len(reads) : repeated(i) /\ \A j \in 1..i : known(j)
           taken == [Audit(loop, "provider_proposed") EXCEPT !.phase = "collecting", !.queue = reads]
<1>5. loop' = CASE duplicate -> Terminal(Audit(loop, "duplicate_request_rejected"), "failed")
                [] ~duplicate /\ ~valid -> Terminal(loop, "failed")
                [] valid /\ LastRound -> Terminal(Audit(loop, "provider_proposed"), "blocked")
                [] valid /\ ~LastRound -> taken
  BY DEF ProposeReads, Fail, Proposed
<1>6. /\ valid => ~duplicate
      /\ valid => \A i \in 1..Len(reads) : reads[i].arg # NoTarget /\ ~Repeats(reads, loop.keys, i)
  OBVIOUS
<1>7. reads = [i \in 1..n |-> [requests[i] EXCEPT !.arg = Canonical[requests[i].arg]]]
  BY <1>2 DEF Canonically
<1>8. valid => reads \in Seq(Read) /\ Len(reads) = n /\ reads # <<>>
  <2> SUFFICES ASSUME valid PROVE reads \in Seq(Read) /\ Len(reads) = n /\ reads # <<>>
    OBVIOUS
  <2>1. Len(reads) = n /\ \A i \in 1..n : reads[i].arg # NoTarget
    <3> HIDE DEF valid, reads
    <3>1. Len(reads) = n
      BY <1>2, <1>7
    <3> QED
      BY <1>6, <3>1
  <2>2. ASSUME NEW i \in 1..n PROVE [requests[i] EXCEPT !.arg = Canonical[requests[i].arg]] \in Read
    <3>1. requests[i] \in Read /\ requests[i].arg \in Spelling
      BY <1>2 DEF Read
    <3>2. reads[i] = [requests[i] EXCEPT !.arg = Canonical[requests[i].arg]]
      BY <1>7
    <3>3. Canonical[requests[i].arg] # NoTarget
      <4> HIDE DEF reads, valid
      <4> QED
        BY <2>1, <3>1, <3>2 DEF Read
    <3>4. Canonical[requests[i].arg] \in Spelling
      BY <3>1, <3>3, LoopAssumption
    <3> QED
      BY <3>1, <3>4 DEF Read
  <2>3. reads \in [1..n -> Read]
    <3> HIDE DEF reads, valid
    <3> QED
      BY <1>7, <2>2
  <2> HIDE DEF reads, valid
  <2> QED
    BY <1>2, <2>1, <2>3
<1>9. CASE valid /\ ~LastRound
  <2>1. loop' = taken
    <3> HIDE DEF valid, duplicate, taken
    <3> QED
      BY <1>5, <1>6, <1>9
  <2>2. Takes(reads)
    <3> HIDE DEF valid, reads
    <3> QED
      BY <1>6, <1>9, <2>1 DEF Takes
  <2> HIDE DEF valid, reads
  <2> QED
    BY <1>8, <1>9, <2>2
<1>10. CASE ~(valid /\ ~LastRound)
  <2> HIDE DEF valid, duplicate, taken
  <2> QED
    BY <1>5, <1>6, <1>10
<1> QED
  BY <1>9, <1>10

(* Reads that are taken on are new and different.                           *)
LEMMA ReadsStep ==
  ASSUME Inv, NEW n \in 1..MaxRequests, NEW requests \in [1..n -> Read], ProposeReads(requests)
  PROVE  Inv'
<1>1. loop \in LoopState /\ loop.phase = "proposing" /\ loop.round \in 1..MaxRounds /\ loop.cites = {}
  BY DEF ProposeReads, Inv, LTypeOK, RoundInv, PrivacyInv
<1> DEFINE l == Audit(loop, "provider_proposed")
           d == Audit(loop, "duplicate_request_rejected")
<1>3. /\ l \in LoopState /\ l.phase = loop.phase /\ l.queue = loop.queue /\ l.round = loop.round
      /\ l.prior = loop.prior /\ l.keys = loop.keys /\ l.shown = loop.shown /\ l.cites = loop.cites
  BY <1>1, Noted DEF Kinds
<1>4. /\ d \in LoopState /\ d.round = loop.round
      /\ d.prior = loop.prior /\ d.keys = loop.keys /\ d.shown = loop.shown /\ d.cites = loop.cites
  BY <1>1, Noted DEF Kinds
<1>7. CASE loop' = Terminal(loop, "failed")
  BY <1>1, <1>7, TerminalStep
<1>8. CASE loop' = Terminal(d, "failed")
  BY <1>1, <1>4, <1>8, TerminalStep
<1>9. CASE loop' = Terminal(l, "blocked")
  BY <1>1, <1>3, <1>9, TerminalStep
<1>10. ASSUME NEW reads \in Seq(Read), reads # <<>>, Takes(reads) PROVE Inv'
  <2>1. loop' = [l EXCEPT !.phase = "collecting", !.queue = reads] /\ ~LastRound
    BY <1>10 DEF Takes
  <2> HIDE DEF l
  <2>2. /\ loop' \in LoopState /\ loop'.phase = "collecting" /\ loop'.queue = reads
        /\ loop'.round = loop.round /\ loop'.prior = loop.prior /\ loop'.keys = loop.keys
        /\ loop'.shown = loop.shown /\ loop'.cites = loop.cites
    BY <1>3, <1>10, <2>1 DEF LoopState
  <2>3. LTypeOK' /\ RoundInv'
    BY <1>1, <1>10, <2>1, <2>2, LoopAssumption DEF LTypeOK, RoundInv, LastRound
  <2>4. ReadInv'
    <3>1. \A i \in 1..Len(reads) : reads[i] \notin loop.keys
                                   /\ \A j \in 1..i - 1 : reads[j] # reads[i]
      BY <1>10 DEF Takes, Repeats
    <3>2. \A i, j \in 1..Len(reads) : reads[i] = reads[j] => i = j
      BY <3>1
    <3> QED
      BY <2>2, <3>1, <3>2 DEF Inv, ReadInv
  <2>5. PrivacyInv'
    BY <1>1, <2>2 DEF Inv, PrivacyInv, EvidenceShown
  <2> QED
    BY <2>3, <2>4, <2>5 DEF Inv
<1> QED
  BY <1>7, <1>8, <1>9, <1>10, ReadsAre

(* The events of a read that was collected, but for a redaction.            *)
Gathered == Audit(Audit(loop, "evidence_requested"), "evidence_collected")

(* The first read of the queue brought evidence.                            *)
Collects(evidence, noted) ==
  /\ AskedFor(evidence) = loop.queue[1] /\ evidence.facts \cap Redacted[evidence.op] = {}
  /\ noted = Gathered \/ noted = Audit(Gathered, "evidence_redacted")
  /\ loop' \in LoopState /\ loop'.audit = noted.audit
  /\ loop'.prior = Append(loop.prior, evidence)
  /\ loop'.queue = Tail(loop.queue) /\ loop'.keys = loop.keys \cup {loop.queue[1]}
  /\ loop'.phase = (IF Len(loop.queue) = 1 THEN "round" ELSE "collecting")
  /\ loop'.round = (IF Len(loop.queue) = 1 THEN loop.round + 1 ELSE loop.round)
  /\ loop'.shown = loop.shown /\ loop'.cites = loop.cites

(* What a collection makes of the loop.                                     *)
LEMMA CollectIs ==
  ASSUME Inv, NEW facts \in SUBSET Fact, Collect(facts)
  PROVE  \/ loop' = Terminal(Audit(loop, "evidence_requested"), "failed")
         \/ \E evidence \in Evidence : \E noted : Collects(evidence, noted)
<1>1. /\ loop \in LoopState /\ loop.phase = "collecting" /\ loop.round \in 1..MaxRounds
      /\ loop.round < MaxRounds /\ loop.queue # <<>> /\ loop.cites = {}
  BY DEF Collect, Inv, LTypeOK, RoundInv, PrivacyInv
<1>2. /\ loop.queue \in Seq(Read) /\ loop.prior \in Seq(Evidence) /\ loop.keys \in SUBSET Read
      /\ Len(loop.queue) \in Nat /\ Len(loop.prior) \in Nat
  BY <1>1 DEF LoopState
<1> DEFINE read == Head(loop.queue)
           kept == facts \ Redacted[read.op]
           asked == Audit(loop, "evidence_requested")
           collected == Audit(asked, "evidence_collected")
           noted == IF read.op \in Uploadable THEN collected ELSE Audit(collected, "evidence_redacted")
           evidence == [op |-> read.op, arg |-> read.arg, facts |-> kept]
           more == [noted EXCEPT !.prior = Append(noted.prior, evidence)]
<1>3. loop' = IF kept \subseteq Schema[read.op] THEN Done(more, read) ELSE Terminal(asked, "failed")
  BY DEF Collect, Fail
<1>4. /\ asked \in LoopState /\ asked.phase = loop.phase /\ asked.queue = loop.queue
      /\ asked.round = loop.round /\ asked.prior = loop.prior /\ asked.keys = loop.keys
      /\ asked.shown = loop.shown /\ asked.cites = loop.cites
  BY <1>1, Noted DEF Kinds
<1> HIDE DEF asked
<1>5. /\ collected \in LoopState /\ collected.phase = loop.phase /\ collected.queue = loop.queue
      /\ collected.round = loop.round /\ collected.prior = loop.prior /\ collected.keys = loop.keys
      /\ collected.shown = loop.shown /\ collected.cites = loop.cites
  BY <1>1, <1>4, Noted DEF Kinds
<1> HIDE DEF collected
<1>6. /\ noted \in LoopState /\ noted.phase = loop.phase /\ noted.queue = loop.queue
      /\ noted.round = loop.round /\ noted.prior = loop.prior /\ noted.keys = loop.keys
      /\ noted.shown = loop.shown /\ noted.cites = loop.cites
  BY <1>1, <1>5, Noted DEF Kinds
<1> HIDE DEF noted
<1>7. read \in Read /\ read = loop.queue[1] /\ 1 \in 1..Len(loop.queue)
  BY <1>1, <1>2
<1>8. evidence \in Evidence /\ AskedFor(evidence) = read /\ evidence.facts \cap Redacted[evidence.op] = {}
  <2>1. read.op \in EvidenceOp /\ read.arg \in Spelling /\ read = [op |-> read.op, arg |-> read.arg]
    <3> HIDE DEF read
    <3> QED
      BY <1>7 DEF Read
  <2>2. kept \subseteq Fact /\ kept \cap Redacted[read.op] = {}
    OBVIOUS
  <2> HIDE DEF read, kept
  <2> QED
    BY <2>1, <2>2 DEF Evidence, AskedFor
<1> HIDE DEF read, kept, evidence
<1>9. CASE ~(kept \subseteq Schema[read.op])
  BY <1>3, <1>9 DEF asked
<1>10. CASE kept \subseteq Schema[read.op]
  <2> DEFINE last == Len(loop.queue) = 1
             prior == Append(loop.prior, evidence)
             rest == Tail(loop.queue)
             phase == IF last THEN "round" ELSE "collecting"
             round == IF last THEN loop.round + 1 ELSE loop.round
  <2>1. loop' = Done(more, read)
    BY <1>3, <1>10
  <2>2. more = [noted EXCEPT !.prior = prior]
    BY <1>6
  <2>3. /\ prior \in Seq(Evidence) /\ Len(prior) = Len(loop.prior) + 1
        /\ prior[Len(prior)] = evidence
        /\ \A i \in 1..Len(loop.prior) : prior[i] = loop.prior[i]
    BY <1>2, <1>8
  <2>4. /\ rest \in Seq(Read) /\ Len(rest) = Len(loop.queue) - 1
        /\ \A i \in 1..Len(rest) : i + 1 \in 1..Len(loop.queue) /\ i + 1 # 1 /\ rest[i] = loop.queue[i + 1]
    BY <1>1, <1>2
  <2>5. round \in 1..MaxRounds /\ (phase = "collecting" => round < MaxRounds /\ rest # <<>>)
    <3>1. loop.round \in Nat /\ MaxRounds \in Nat
      BY <1>1, LoopAssumption
    <3>2. CASE last
      BY <1>1, <3>1, <3>2
    <3>3. CASE ~last
      <4>1. round = loop.round /\ Len(loop.queue) # 1 /\ Len(loop.queue) # 0
        BY <1>1, <1>2, <3>3
      <4>2. Len(rest) # 0
        BY <1>2, <2>4, <4>1
      <4>3. rest # <<>>
        <5> HIDE DEF rest
        <5> QED
          BY <4>2
      <4> QED
        BY <1>1, <4>1, <4>3
    <3> QED
      BY <3>2, <3>3
  <2> HIDE DEF prior, more
  <2>6. /\ more \in LoopState /\ more.prior = prior /\ more.queue = loop.queue /\ more.round = loop.round
        /\ more.phase = loop.phase /\ more.keys = loop.keys /\ more.shown = loop.shown
        /\ more.cites = loop.cites /\ more.audit = noted.audit
    BY <1>6, <2>2, <2>3 DEF LoopState
  <2>7. loop' = [more EXCEPT !.queue = rest, !.keys = loop.keys \cup {read}, !.phase = phase, !.round = round]
    BY <2>1, <2>6 DEF Done, LoopState
  <2>8. phase \in {"round", "collecting"}
    OBVIOUS
  <2>9. round \in 0..MaxRounds /\ loop.keys \cup {read} \in SUBSET Read
    BY <1>2, <1>7, <2>5, LoopAssumption
  <2> HIDE DEF rest, phase, round
  <2>10. /\ loop' \in LoopState /\ loop'.queue = rest /\ loop'.keys = loop.keys \cup {read}
         /\ loop'.phase = phase /\ loop'.round = round /\ loop'.prior = prior
         /\ loop'.shown = loop.shown /\ loop'.cites = loop.cites /\ loop'.audit = noted.audit
    BY <2>4, <2>6, <2>7, <2>8, <2>9 DEF LoopState
  <2>11. noted = Gathered \/ noted = Audit(Gathered, "evidence_redacted")
    BY DEF noted, collected, asked, Gathered
  <2> QED
    BY <1>7, <1>8, <2>10, <2>11 DEF Collects, rest, phase, round, prior
<1> QED
  BY <1>9, <1>10

(* What is collected was asked for once, without its redacted facts.        *)
LEMMA CollectStep ==
  ASSUME Inv, NEW facts \in SUBSET Fact, Collect(facts)
  PROVE  Inv'
<1>1. /\ loop \in LoopState /\ loop.phase = "collecting" /\ loop.round \in 1..MaxRounds
      /\ loop.round < MaxRounds /\ loop.queue # <<>> /\ loop.cites = {}
  BY DEF Collect, Inv, LTypeOK, RoundInv, PrivacyInv
<1>2. /\ loop.queue \in Seq(Read) /\ loop.prior \in Seq(Evidence) /\ loop.keys \in SUBSET Read
      /\ Len(loop.queue) \in Nat /\ Len(loop.prior) \in Nat
  BY <1>1 DEF LoopState
<1>9. CASE loop' = Terminal(Audit(loop, "evidence_requested"), "failed")
  <2> DEFINE asked == Audit(loop, "evidence_requested")
  <2>1. /\ asked \in LoopState /\ asked.round = loop.round /\ asked.prior = loop.prior
        /\ asked.keys = loop.keys /\ asked.shown = loop.shown /\ asked.cites = loop.cites
    BY <1>1, Noted DEF Kinds
  <2> QED
    BY <1>1, <1>9, <2>1, TerminalStep
<1>10. ASSUME NEW evidence \in Evidence, NEW noted, Collects(evidence, noted)
       PROVE  Inv'
  <2> DEFINE last == Len(loop.queue) = 1
             read == loop.queue[1]
             prior == Append(loop.prior, evidence)
             rest == Tail(loop.queue)
             phase == IF last THEN "round" ELSE "collecting"
             round == IF last THEN loop.round + 1 ELSE loop.round
  <2>1. /\ loop' \in LoopState /\ loop'.queue = rest /\ loop'.keys = loop.keys \cup {read}
        /\ loop'.phase = phase /\ loop'.round = round /\ loop'.prior = prior
        /\ loop'.shown = loop.shown /\ loop'.cites = loop.cites
        /\ AskedFor(evidence) = read /\ evidence.facts \cap Redacted[evidence.op] = {}
    BY <1>10 DEF Collects
  <2>2. 1 \in 1..Len(loop.queue)
    BY <1>1, <1>2
  <2>3. /\ prior \in Seq(Evidence) /\ Len(prior) = Len(loop.prior) + 1
        /\ prior[Len(prior)] = evidence
        /\ \A i \in 1..Len(loop.prior) : prior[i] = loop.prior[i]
    BY <1>2
  <2>4. /\ rest \in Seq(Read) /\ Len(rest) = Len(loop.queue) - 1
        /\ \A i \in 1..Len(rest) : i + 1 \in 1..Len(loop.queue) /\ i + 1 # 1 /\ rest[i] = loop.queue[i + 1]
    BY <1>1, <1>2
  <2>5. round \in 1..MaxRounds /\ (phase = "collecting" => round < MaxRounds /\ rest # <<>>)
    <3>1. loop.round \in Nat /\ MaxRounds \in Nat
      BY <1>1, LoopAssumption
    <3>2. CASE last
      BY <1>1, <3>1, <3>2
    <3>3. CASE ~last
      <4>1. round = loop.round /\ Len(loop.queue) # 1 /\ Len(loop.queue) # 0
        BY <1>1, <1>2, <3>3
      <4>2. Len(rest) # 0
        BY <1>2, <2>4, <4>1
      <4>3. rest # <<>>
        <5> HIDE DEF rest
        <5> QED
          BY <4>2
      <4> QED
        BY <1>1, <4>1, <4>3
    <3> QED
      BY <3>2, <3>3
  <2> HIDE DEF prior
  <2>8. phase \in {"round", "collecting"}
    OBVIOUS
  <2> HIDE DEF rest, phase, round, read
  <2>11. LTypeOK' /\ RoundInv'
    BY <2>5, <2>8, <2>1 DEF LTypeOK, RoundInv
  <2>12. read \notin loop.keys
    BY <2>2 DEF read, Inv, ReadInv
  <2>13. /\ \A i \in 1..Len(prior) : i \in 1..Len(loop.prior) \/ i = Len(prior)
         /\ \A i \in 1..Len(prior) : AskedFor(prior[i]) \in loop.keys \cup {read}
         /\ \A i, j \in 1..Len(prior) : AskedFor(prior[i]) = AskedFor(prior[j]) => i = j
    <3>1. \A i \in 1..Len(prior) : i \in 1..Len(loop.prior) \/ i = Len(prior)
      BY <1>2, <2>3
    <3>2. \A i \in 1..Len(loop.prior) : AskedFor(prior[i]) \in loop.keys
      BY <2>3 DEF Inv, ReadInv
    <3>3. AskedFor(prior[Len(prior)]) = read
      BY <2>1, <2>3
    <3>4. \A i, j \in 1..Len(loop.prior) : AskedFor(prior[i]) = AskedFor(prior[j]) => i = j
      BY <2>3 DEF Inv, ReadInv
    <3> QED
      BY <2>12, <3>1, <3>2, <3>3, <3>4
  <2>14. /\ \A i \in 1..Len(rest) : rest[i] \notin loop.keys \cup {read}
         /\ \A i, j \in 1..Len(rest) : rest[i] = rest[j] => i = j
    <3>1. \A i, j \in 1..Len(loop.queue) : loop.queue[i] = loop.queue[j] => i = j
      BY DEF Inv, ReadInv
    <3>2. \A i \in 1..Len(rest) : rest[i] \notin loop.keys
      BY <2>4 DEF Inv, ReadInv
    <3>3. \A i \in 1..Len(rest) : rest[i] # read
      BY <2>2, <2>4, <3>1 DEF read
    <3>4. ASSUME NEW i \in 1..Len(rest), NEW j \in 1..Len(rest), rest[i] = rest[j] PROVE i = j
      <4>1. i + 1 = j + 1
        BY <2>4, <3>1, <3>4
      <4>2. i \in Nat /\ j \in Nat
        BY <1>2, <2>4
      <4> QED
        BY <4>1, <4>2
    <3> QED
      BY <3>2, <3>3, <3>4
  <2>15. ReadInv'
    BY <2>1, <2>13, <2>14 DEF ReadInv
  <2>16. \A i \in 1..Len(prior) : prior[i].facts \cap Redacted[prior[i].op] = {}
    BY <2>1, <2>3, <2>13 DEF Inv, PrivacyInv
  <2>17. PrivacyInv'
    BY <1>1, <2>8, <2>1, <2>16 DEF Inv, PrivacyInv, EvidenceShown
  <2> QED
    BY <2>11, <2>15, <2>17 DEF Inv
<1> QED
  BY <1>9, <1>10, CollectIs

(* The deadline passing, and a call that is refused, change nothing of it.  *)
LEMMA ExpireStep ==
  ASSUME Inv, Expire
  PROVE  Inv'
<1>1. /\ loop \in LoopState /\ loop.phase \notin {"idle", "done"} /\ loop.round \in 1..MaxRounds
      /\ loop' = [loop EXCEPT !.expired = TRUE]
  BY DEF Expire, Inv, LTypeOK, RoundInv
<1>2. /\ loop' \in LoopState /\ loop'.phase = loop.phase /\ loop'.queue = loop.queue
      /\ loop'.round = loop.round /\ loop'.prior = loop.prior /\ loop'.keys = loop.keys
      /\ loop'.shown = loop.shown /\ loop'.cites = loop.cites
  BY <1>1 DEF LoopState
<1> QED
  BY <1>1, <1>2, StillStep

(* Every step of the loop preserves the invariant.                          *)
LEMMA InvStep ==
  ASSUME Inv, [LNext]_loop
  PROVE  Inv'
<1>1. CASE UNCHANGED loop
  BY <1>1 DEF Inv, LTypeOK, RoundInv, ReadInv, PrivacyInv, EvidenceShown
<1>2. CASE Refuse
  BY <1>1, <1>2 DEF Refuse
<1>3. CASE Run \/ Return
  BY <1>3, FreshStep DEF Run, Return
<1>4. CASE StartRound
  BY <1>4, RoundStep
<1>5. CASE Propose
  <2>1. CASE ProposalUnusable
    BY <2>1, EndStep
  <2>2. ASSUME NEW a \in [call : {Asked.call}, wellFormed : {TRUE}, refs : SUBSET Ref, cited : SUBSET Source,
                          sources : SUBSET Source, asks : SUBSET Question, ops : SUBSET Operation,
                          limits : 1..MaxLimitations],
               NEW retrieved \in SUBSET Source, ProposeCompleted(a, retrieved)
        PROVE  Inv'
    BY <2>2, EndStep
  <2>3. ASSUME NEW state \in {"blocked", "failed"}, ProposeStop(state) PROVE Inv'
    BY <2>3, EndStep
  <2>4. ASSUME NEW requests \in Proposals(MaxRequests), ProposeReads(requests) PROVE Inv'
    BY <2>4, ReadsStep DEF Proposals
  <2> QED
    BY <1>5, <2>1, <2>2, <2>3, <2>4 DEF Propose
<1>6. CASE CollectFails
  BY <1>6, EndStep
<1>7. ASSUME NEW facts \in SUBSET Fact, Collect(facts) PROVE Inv'
  BY <1>7, CollectStep
<1>8. CASE Expire
  BY <1>8, ExpireStep
<1> QED
  BY <1>1, <1>2, <1>3, <1>4, <1>5, <1>6, <1>7, <1>8 DEF LNext, Advance

(* The invariant holds initially.                                           *)
LEMMA InvInit ==
  ASSUME LInit
  PROVE  Inv
<1>1. /\ <<>> \in Seq(Read) /\ <<>> \in Seq(Evidence) /\ <<>> \in Seq(Event)
      /\ 0 \in 0..MaxRounds /\ Len(<<>>) = 0
  BY LoopAssumption
<1>2. LTypeOK
  BY <1>1 DEF LInit, NoLoop, LTypeOK, LoopState, Event
<1>3. RoundInv /\ ReadInv /\ PrivacyInv
  BY <1>1 DEF LInit, NoLoop, RoundInv, ReadInv, PrivacyInv, EvidenceShown
<1> QED
  BY <1>2, <1>3 DEF Inv

(* The invariant holds throughout every run of the loop.                    *)
LEMMA Always == LSpec => []Inv
<1>1. LInit => Inv
  BY InvInit
<1>2. Inv /\ [LNext]_loop => Inv'
  BY InvStep
<1> QED
  BY <1>1, <1>2, PTL DEF LSpec

-----------------------------------------------------------------------------
(* The audit timeline.                                                      *)

(* A collection is noted after the request for it.                          *)
Told(audit) == \A i \in 2..Len(audit) :
                 audit[i].kind = "evidence_collected" => audit[i - 1].kind = "evidence_requested"
Open(audit) == \A i \in 1..Len(audit) : audit[i].kind \notin Outcomes
Collections(audit) == {i \in 1..Len(audit) : audit[i].kind = "evidence_collected"}

(* The events of n rounds.                                                  *)
Room(n) == n * (2 + 3 * MaxRequests)

(* How many events there may be: a read that is still to come has its room. *)
AuditFits ==
  /\ loop.phase = "round" => Len(loop.audit) <= Room(loop.round - 1)
  /\ loop.phase = "proposing" => Len(loop.audit) <= Room(loop.round - 1) + 1
  /\ loop.phase = "collecting" => Len(loop.audit) + 3 * Len(loop.queue) <= Room(loop.round)
  /\ loop.phase = "done" => Len(loop.audit) <= MaxAuditEvents

AuditInv ==
  /\ Told(loop.audit) /\ Cardinality(Collections(loop.audit)) = Len(loop.prior)
  /\ loop.phase # "done" => Open(loop.audit)
  /\ loop.phase = "done" =>
       \E audit \in Seq(Event), e \in Event :
         Open(audit) /\ loop.audit = Append(audit, e) /\ e.kind = Ends[loop.state]
  /\ AuditFits

(* The rooms add up.                                                        *)
LEMMA Rooms ==
  ASSUME NEW n \in 1..MaxRounds
  PROVE  /\ Room(n) \in Nat /\ Room(n - 1) \in Nat
         /\ Room(n) = Room(n - 1) + 2 + 3 * MaxRequests
         /\ MaxAuditEvents \in Nat /\ Room(n - 1) <= MaxAuditEvents - 3
         /\ n < MaxRounds => Room(n) <= MaxAuditEvents - 3
<1> DEFINE C == 2 + 3 * MaxRequests
<1>1. C \in Nat /\ n \in Nat \ {0} /\ MaxRounds \in Nat
  BY LoopAssumption
<1>2. /\ \A k \in Nat : Room(k) = k * C
      /\ MaxAuditEvents = (MaxRounds - 1) * C + 3
  BY DEF Room, MaxAuditEvents
<1> HIDE DEF C
<1>3. \A k, m \in Nat : k * C \in Nat /\ (k + 1) * C = k * C + C /\ (k <= m => k * C <= m * C)
  <2>1. SUFFICES ASSUME NEW k \in Nat, NEW m \in Nat
                 PROVE  k * C \in Nat /\ (k + 1) * C = k * C + C /\ (k <= m => k * C <= m * C)
    OBVIOUS
  <2>2. k * C \in Nat /\ (k + 1) * C = k * C + C
    BY <1>1
  <2>3. ASSUME k <= m PROVE k * C <= m * C
    <3>1. m - k \in Nat /\ m * C = k * C + (m - k) * C
      BY <1>1, <2>3
    <3>2. (m - k) * C \in Nat
      BY <1>1, <3>1
    <3> QED
      BY <1>1, <2>2, <3>1, <3>2
  <2> QED
    BY <2>2, <2>3
<1>7. /\ \A k \in Nat : Room(k) \in Nat /\ Room(k + 1) = Room(k) + C
      /\ \A k, m \in Nat : k <= m => Room(k) <= Room(m)
      /\ MaxAuditEvents = Room(MaxRounds - 1) + 3
  BY <1>1, <1>2, <1>3
<1>4. n - 1 \in Nat /\ MaxRounds - 1 \in Nat /\ n - 1 <= MaxRounds - 1 /\ (n - 1) + 1 = n
  BY <1>1
<1>5. n < MaxRounds => n <= MaxRounds - 1
  BY <1>1
<1>6. C = 2 + 3 * MaxRequests /\ MaxRequests \in Nat
  BY LoopAssumption DEF C
<1>8. /\ Room(n - 1) \in Nat /\ Room(n) \in Nat /\ Room(n) = Room(n - 1) + C
      /\ Room(MaxRounds - 1) \in Nat /\ Room(n - 1) <= Room(MaxRounds - 1)
      /\ n < MaxRounds => Room(n) <= Room(MaxRounds - 1)
      /\ MaxAuditEvents = Room(MaxRounds - 1) + 3
  BY <1>1, <1>4, <1>5, <1>7
<1>9. /\ MaxAuditEvents \in Nat /\ Room(n - 1) <= MaxAuditEvents - 3
      /\ n < MaxRounds => Room(n) <= MaxAuditEvents - 3
  BY <1>8
<1>10. Room(n) = Room(n - 1) + 2 + 3 * MaxRequests
  BY <1>6, <1>8
<1> QED
  BY <1>8, <1>9, <1>10

(* The timeline t is s and one more event.                                  *)
More(t, s, kind) == \E e \in Event : e.kind = kind /\ t = Append(s, e)

(* What one more event makes of a timeline.                                 *)
LEMMA OneMore ==
  ASSUME NEW s \in Seq(Event), NEW t, NEW kind, More(t, s, kind)
  PROVE  /\ t \in Seq(Event) /\ Len(s) \in Nat /\ Len(t) = Len(s) + 1
         /\ t[Len(t)].kind = kind /\ t # <<>>
         /\ Open(s) /\ kind \notin Outcomes => Open(t)
         /\ Told(s) /\ (kind = "evidence_collected" =>
                          s # <<>> /\ s[Len(s)].kind = "evidence_requested") => Told(t)
         /\ Cardinality(Collections(s)) \in Nat
         /\ Cardinality(Collections(t)) =
              Cardinality(Collections(s)) + (IF kind = "evidence_collected" THEN 1 ELSE 0)
<1>1. PICK e \in Event : e.kind = kind /\ t = Append(s, e)
  BY DEF More
<1> DEFINE n == Len(s)
<1>2. /\ n \in Nat /\ Len(t) = n + 1 /\ t[n + 1] = e /\ t \in Seq(Event) /\ t # <<>>
      /\ \A i \in 1..n : t[i] = s[i]
  BY <1>1
<1>3. \A i : i \in 1..n + 1 <=> i \in 1..n \/ i = n + 1
  BY <1>2
<1>4. Open(s) /\ kind \notin Outcomes => Open(t)
  BY <1>1, <1>2, <1>3 DEF Open
<1>5. ASSUME Told(s), kind = "evidence_collected" => s # <<>> /\ s[n].kind = "evidence_requested"
      PROVE  Told(t)
  <2>1. SUFFICES ASSUME NEW i \in 2..n + 1, t[i].kind = "evidence_collected"
                 PROVE  t[i - 1].kind = "evidence_requested"
    BY <1>2 DEF Told
  <2>2. CASE i \in 2..n
    <3>1. i \in 1..n /\ i - 1 \in 1..n
      BY <1>2, <2>2
    <3> QED
      BY <1>2, <1>5, <2>1, <2>2, <3>1 DEF Told
  <2>3. CASE i = n + 1
    <3>1. i - 1 = n /\ n \in 1..n
      BY <1>2, <2>3
    <3> QED
      BY <1>1, <1>2, <1>5, <2>1, <2>3, <3>1
  <2> QED
    BY <1>2, <2>2, <2>3
<1>6. IsFiniteSet(Collections(s)) /\ Cardinality(Collections(s)) \in Nat
  <2>1. IsFiniteSet(1..n) /\ Collections(s) \in SUBSET (1..n)
    BY <1>2, FS_Interval DEF Collections
  <2> QED
    BY <2>1, FS_Subset, FS_CardinalityType
<1>7. Collections(t) = IF kind = "evidence_collected" THEN Collections(s) \cup {n + 1} ELSE Collections(s)
  BY <1>1, <1>2, <1>3 DEF Collections
<1>8. n + 1 \notin Collections(s)
  BY <1>2 DEF Collections
<1>9. Cardinality(Collections(t)) =
        Cardinality(Collections(s)) + (IF kind = "evidence_collected" THEN 1 ELSE 0)
  <2>1. Cardinality(Collections(s) \cup {n + 1}) = Cardinality(Collections(s)) + 1
    BY <1>6, <1>8, FS_AddElement
  <2> QED
    BY <1>6, <1>7, <2>1
<1> QED
  BY <1>1, <1>2, <1>4, <1>5, <1>6, <1>9

(* An event that is noted, and the one that ends a run.                     *)
LEMMA Noting ==
  ASSUME NEW l \in LoopState, l.round \in 1..MaxRounds
  PROVE  /\ l.audit \in Seq(Event)
         /\ \A kind \in Kinds : More(Audit(l, kind).audit, l.audit, kind)
         /\ \A state \in {"completed", "blocked", "failed"} :
              /\ More(Terminal(l, state).audit, l.audit, Ends[state])
              /\ Terminal(l, state).state = state /\ Ends[state] \in Outcomes
              /\ Ends[state] # "evidence_collected"
<1>1. l.audit \in Seq(Event)
  BY DEF LoopState, Event
<1>2. ASSUME NEW kind \in Kinds
      PROVE  /\ Audit(l, kind).audit = Append(l.audit, [kind |-> kind, round |-> l.round])
             /\ More(Audit(l, kind).audit, l.audit, kind)
  <2>1. Audit(l, kind).audit = Append(l.audit, [kind |-> kind, round |-> l.round])
    BY DEF Audit, LoopState
  <2>2. [kind |-> kind, round |-> l.round] \in Event
    BY DEF Event
  <2> QED
    BY <2>1, <2>2 DEF More
<1>3. ASSUME NEW state \in {"completed", "blocked", "failed"}
      PROVE  /\ More(Terminal(l, state).audit, l.audit, Ends[state])
             /\ Terminal(l, state).state = state /\ Ends[state] \in Outcomes
             /\ Ends[state] # "evidence_collected"
  <2>1. /\ Ends[state] \in Kinds /\ state \in DOMAIN Ends /\ Ends[state] # "evidence_collected"
    BY DEF Ends, Kinds
  <2>2. Ends[state] \in Outcomes
    BY <2>1 DEF Outcomes
  <2>3. Audit(l, Ends[state]) \in LoopState
    BY <2>1, Noted
  <2>4. /\ Terminal(l, state).audit = Audit(l, Ends[state]).audit
        /\ Terminal(l, state).state = state
    BY <2>3 DEF Terminal, LoopState
  <2> QED
    BY <1>2, <2>1, <2>2, <2>4
<1> QED
  BY <1>1, <1>2, <1>3

(* A timeline that is closed in time.                                       *)
LEMMA ClosedStep ==
  ASSUME NEW l \in LoopState, l.round \in 1..MaxRounds, NEW state \in {"completed", "blocked", "failed"},
         Told(l.audit), Open(l.audit), Cardinality(Collections(l.audit)) = Len(l.prior),
         Len(l.audit) + 1 <= MaxAuditEvents,
         loop'.phase = "done", loop'.state = state, loop'.prior = l.prior,
         loop'.audit = Terminal(l, state).audit
  PROVE  AuditInv'
<1>1. /\ More(loop'.audit, l.audit, Ends[state]) /\ l.audit \in Seq(Event)
      /\ Ends[state] # "evidence_collected"
  BY Noting
<1>2. /\ Told(loop'.audit) /\ Len(loop'.audit) <= MaxAuditEvents
      /\ Cardinality(Collections(loop'.audit)) = Len(loop'.prior)
  BY <1>1, OneMore
<1>3. \E audit \in Seq(Event), e \in Event :
        Open(audit) /\ loop'.audit = Append(audit, e) /\ e.kind = Ends[loop'.state]
  BY <1>1 DEF More
<1> QED
  BY <1>2, <1>3 DEF AuditInv, AuditFits

(* Every way a run ends closes its timeline in time.                        *)
LEMMA EndsTold ==
  ASSUME Inv, AuditInv, loop.phase \in {"round", "proposing", "collecting"}, NEW l,
         \/ l = loop
         \/ /\ loop.phase # "round"
            /\ \E kind \in {"provider_proposed", "duplicate_request_rejected", "evidence_requested"} :
                 l = Audit(loop, kind),
         NEW state \in {"completed", "blocked", "failed"},
         loop'.phase = "done", loop'.state = state, loop'.prior = loop.prior,
         loop'.audit = Terminal(l, state).audit
  PROVE  AuditInv'
<1> DEFINE n == Len(loop.audit)
           r == loop.round
<1>1. /\ loop \in LoopState /\ r \in 1..MaxRounds
      /\ loop.phase = "collecting" => r < MaxRounds /\ loop.queue # <<>>
  BY DEF Inv, LTypeOK, RoundInv
<1>2. /\ Told(loop.audit) /\ Cardinality(Collections(loop.audit)) = Len(loop.prior)
      /\ Open(loop.audit) /\ AuditFits
  BY DEF AuditInv
<1>3. /\ Room(r) \in Nat /\ Room(r - 1) \in Nat /\ Room(r - 1) <= MaxAuditEvents - 3
      /\ r < MaxRounds => Room(r) <= MaxAuditEvents - 3
      /\ MaxAuditEvents \in Nat
  BY <1>1, Rooms
<1>4. n \in Nat /\ Len(loop.queue) \in Nat /\ (loop.queue # <<>> => Len(loop.queue) > 0)
  BY <1>1 DEF LoopState
<1>5. n + 1 <= MaxAuditEvents /\ (loop.phase # "round" => n + 2 <= MaxAuditEvents)
  <2>1. CASE loop.phase = "round"
    BY <1>2, <1>3, <1>4, <2>1 DEF AuditFits
  <2>2. CASE loop.phase = "proposing"
    BY <1>2, <1>3, <1>4, <2>2 DEF AuditFits
  <2>3. CASE loop.phase = "collecting"
    <3> DEFINE k == Len(loop.queue)
    <3>1. /\ n + 3 * k <= Room(r) /\ Room(r) <= MaxAuditEvents - 3
          /\ k \in Nat /\ k > 0 /\ n \in Nat /\ Room(r) \in Nat /\ MaxAuditEvents \in Nat
      BY <1>1, <1>2, <1>3, <1>4, <2>3 DEF AuditFits
    <3> HIDE DEF k, n
    <3> QED
      BY <3>1
  <2> QED
    BY <2>1, <2>2, <2>3
<1>6. CASE l = loop
  BY <1>1, <1>2, <1>5, <1>6, ClosedStep
<1>7. ASSUME loop.phase # "round",
             NEW kind \in {"provider_proposed", "duplicate_request_rejected", "evidence_requested"},
             l = Audit(loop, kind)
      PROVE  AuditInv'
  <2>1. kind \in Kinds /\ kind \notin Outcomes /\ kind # "evidence_collected"
    BY DEF Kinds, Outcomes, Ends
  <2>2. l \in LoopState /\ l.round = r /\ l.prior = loop.prior
    BY <1>1, <1>7, <2>1, Noted
  <2>3. More(l.audit, loop.audit, kind) /\ loop.audit \in Seq(Event)
    BY <1>1, <1>7, <2>1, Noting
  <2>4. /\ Told(l.audit) /\ Open(l.audit) /\ Len(l.audit) = n + 1
        /\ Cardinality(Collections(l.audit)) = Len(l.prior)
    BY <1>2, <2>1, <2>2, <2>3, OneMore
  <2>5. Len(l.audit) + 1 <= MaxAuditEvents
    BY <1>4, <1>5, <1>7, <2>4
  <2> QED
    BY <1>1, <2>2, <2>4, <2>5, ClosedStep
<1> QED
  BY <1>6, <1>7

(* ... and so does one that ends with nothing to cite.                      *)
LEMMA TerminalTold ==
  ASSUME Inv, AuditInv, loop.phase \in {"round", "proposing", "collecting"}, NEW l,
         \/ l = loop
         \/ /\ loop.phase # "round"
            /\ \E kind \in {"provider_proposed", "duplicate_request_rejected", "evidence_requested"} :
                 l = Audit(loop, kind),
         NEW state \in {"completed", "blocked", "failed"}, loop' = Terminal(l, state)
  PROVE  AuditInv'
<1>1. loop \in LoopState /\ loop.round \in 1..MaxRounds
  BY DEF Inv, LTypeOK, RoundInv
<1>2. l \in LoopState /\ l.round = loop.round /\ l.prior = loop.prior
  BY <1>1, Noted DEF Kinds
<1>3. loop'.phase = "done" /\ loop'.prior = loop.prior /\ loop'.state = state
  BY <1>1, <1>2, Ended, Noting
<1> QED
  BY <1>3, EndsTold

(* A timeline that goes on.                                                 *)
LEMMA GoesOn ==
  ASSUME Inv, AuditInv, loop.phase \notin {"idle", "done"}, NEW kind \in Kinds,
         kind \notin Outcomes, kind # "evidence_collected",
         loop'.audit = Audit(loop, kind).audit, loop'.prior = loop.prior, loop'.phase # "done",
         Len(loop'.audit) = Len(loop.audit) + 1 => AuditFits'
  PROVE  AuditInv'
<1>1. loop \in LoopState /\ loop.round \in 1..MaxRounds
  BY DEF Inv, LTypeOK, RoundInv
<1>2. More(loop'.audit, loop.audit, kind) /\ loop.audit \in Seq(Event)
  BY <1>1, Noting
<1>3. /\ Told(loop'.audit) /\ Open(loop'.audit) /\ Len(loop'.audit) = Len(loop.audit) + 1
      /\ Cardinality(Collections(loop'.audit)) = Len(loop'.prior)
  BY <1>2, OneMore DEF AuditInv
<1> QED
  BY <1>3 DEF AuditInv

(* The round and the proposal are noted, and what ends them.                *)
LEMMA RoundTold ==
  ASSUME Inv, AuditInv, StartRound
  PROVE  AuditInv'
<1>1. loop.phase = "round" /\ loop \in LoopState /\ loop.round \in 1..MaxRounds
  BY DEF StartRound, Inv, LTypeOK, RoundInv
<1>2. CASE loop.expired
  <2>1. loop' = Terminal(loop, "failed")
    BY <1>2 DEF StartRound, Fail
  <2> QED
    BY <1>1, <2>1, TerminalTold
<1>3. CASE ~loop.expired
  <2> DEFINE l == Audit(loop, "round_started")
             view == Shown(loop.prior)
  <2>1. loop' = [l EXCEPT !.phase = "proposing", !.shown = view]
    BY <1>3 DEF StartRound, Shown
  <2>2. "round_started" \in Kinds /\ "round_started" \notin Outcomes
    BY DEF Kinds, Outcomes, Ends
  <2>3. l \in LoopState /\ l.round = loop.round /\ l.prior = loop.prior
    BY <1>1, <2>2, Noted
  <2> HIDE DEF l, view
  <2>4. /\ loop'.audit = l.audit /\ loop'.prior = loop.prior /\ loop'.phase = "proposing"
        /\ loop'.round = loop.round
    BY <2>1, <2>3 DEF LoopState
  <2>5. ASSUME Len(loop'.audit) = Len(loop.audit) + 1 PROVE AuditFits'
    <3>1. Len(loop.audit) <= Room(loop.round - 1)
      BY <1>1 DEF AuditInv, AuditFits
    <3>2. Len(loop.audit) \in Nat /\ Room(loop.round - 1) \in Nat /\ loop'.round = loop.round
      BY <1>1, <2>4, Rooms DEF LoopState
    <3>3. Len(loop'.audit) <= Room(loop'.round - 1) + 1
      BY <2>5, <3>1, <3>2
    <3> QED
      BY <2>4, <3>3 DEF AuditFits
  <2> QED
    BY <1>1, <2>2, <2>4, <2>5, GoesOn DEF l
<1> QED
  BY <1>2, <1>3

LEMMA EndTold ==
  ASSUME Inv, AuditInv, \/ ProposalUnusable \/ CollectFails
                        \/ \E state \in {"blocked", "failed"} : ProposeStop(state)
                        \/ \E a, retrieved : ProposeCompleted(a, retrieved)
  PROVE  AuditInv'
<1>1. /\ loop \in LoopState /\ loop.phase \in {"proposing", "collecting"} /\ loop.round \in 1..MaxRounds
  BY DEF ProposalUnusable, CollectFails, ProposeStop, ProposeCompleted, Inv, LTypeOK, RoundInv
<1>2. CASE loop' = Fail(loop)
  BY <1>1, <1>2, TerminalTold DEF Fail
<1>3. CASE CollectFails
  <2>1. loop' = Terminal(Audit(loop, "evidence_requested"), "failed")
    BY <1>3 DEF CollectFails, Fail
  <2> QED
    BY <1>1, <2>1, TerminalTold
<1>4. ASSUME NEW state \in {"blocked", "failed"}, ProposeStop(state) PROVE AuditInv'
  <2>1. loop' = Terminal(Audit(loop, "provider_proposed"), state)
    BY <1>4 DEF ProposeStop, Proposed
  <2> QED
    BY <1>1, <2>1, TerminalTold
<1>5. ASSUME NEW a, NEW retrieved, ProposeCompleted(a, retrieved), loop' # Fail(loop) PROVE AuditInv'
  <2> DEFINE l == Audit(loop, "provider_proposed")
             t == Terminal(l, "completed")
  <2>1. loop' = [t EXCEPT !.cites = a.refs]
    BY <1>5 DEF ProposeCompleted, Proposed
  <2>2. l \in LoopState /\ l.round = loop.round /\ l.prior = loop.prior
    BY <1>1, Noted DEF Kinds
  <2>3. t \in LoopState /\ t.phase = "done" /\ t.prior = loop.prior /\ t.state = "completed"
    BY <1>1, <2>2, Ended, Noting
  <2> HIDE DEF l, t
  <2>4. /\ loop'.phase = "done" /\ loop'.prior = loop.prior /\ loop'.state = "completed"
        /\ loop'.audit = t.audit
    BY <2>1, <2>3 DEF LoopState
  <2> QED
    BY <1>1, <2>4, EndsTold DEF l, t
<1> QED
  BY <1>2, <1>3, <1>4, <1>5 DEF ProposalUnusable

(* Reads are taken on only where the rounds leave room for them.            *)
LEMMA ReadsTold ==
  ASSUME Inv, AuditInv, NEW n \in 1..MaxRequests, NEW requests \in [1..n -> Read], ProposeReads(requests)
  PROVE  AuditInv'
<1>1. loop \in LoopState /\ loop.phase = "proposing" /\ loop.round \in 1..MaxRounds
  BY DEF ProposeReads, Inv, LTypeOK, RoundInv
<1> DEFINE l == Audit(loop, "provider_proposed")
<1>2. CASE loop' = Terminal(loop, "failed")
  BY <1>1, <1>2, TerminalTold
<1>3. CASE loop' = Terminal(Audit(loop, "duplicate_request_rejected"), "failed")
  BY <1>1, <1>3, TerminalTold
<1>4. CASE loop' = Terminal(l, "blocked")
  BY <1>1, <1>4, TerminalTold
<1>5. ASSUME NEW reads \in Seq(Read), Len(reads) = n, Takes(reads) PROVE AuditInv'
  <2>1. loop' = [l EXCEPT !.phase = "collecting", !.queue = reads]
    BY <1>5 DEF Takes
  <2>2. "provider_proposed" \in Kinds /\ "provider_proposed" \notin Outcomes
    BY DEF Kinds, Outcomes, Ends
  <2>3. l \in LoopState /\ l.round = loop.round /\ l.prior = loop.prior
    BY <1>1, <2>2, Noted
  <2> HIDE DEF l
  <2>4. /\ loop'.phase = "collecting" /\ loop'.queue = reads /\ loop'.round = loop.round
        /\ loop'.prior = loop.prior /\ loop'.audit = l.audit
    BY <2>1, <2>3 DEF LoopState
  <2>5. ASSUME Len(loop'.audit) = Len(loop.audit) + 1 PROVE AuditFits'
    <3> DEFINE a == Len(loop.audit)
               c == Room(loop.round - 1)
    <3>1. a <= c + 1 /\ a \in Nat /\ c \in Nat
      BY <1>1, Rooms DEF AuditInv, AuditFits, LoopState
    <3>2. Room(loop.round) = c + 2 + 3 * MaxRequests /\ MaxRequests \in Nat /\ n \in Nat /\ n <= MaxRequests
      BY <1>1, Rooms, LoopAssumption
    <3> HIDE DEF a, c
    <3>3. (a + 1) + 3 * n <= Room(loop.round)
      BY <3>1, <3>2
    <3>4. Len(loop'.audit) + 3 * Len(loop'.queue) <= Room(loop'.round)
      BY <1>5, <2>4, <2>5, <3>3 DEF a
    <3> QED
      BY <2>4, <3>4 DEF AuditFits
  <2> QED
    BY <1>1, <2>2, <2>4, <2>5, GoesOn DEF l
<1> QED
  BY <1>2, <1>3, <1>4, <1>5, ReadsAre

(* A collection is noted after its request, and adds its evidence.          *)
LEMMA GatheredTold ==
  ASSUME Inv, AuditInv, loop.phase = "collecting", NEW noted,
         noted = Gathered \/ noted = Audit(Gathered, "evidence_redacted")
  PROVE  /\ Told(noted.audit) /\ Open(noted.audit) /\ Len(noted.audit) \in Nat
         /\ Len(noted.audit) <= Len(loop.audit) + 3
         /\ Cardinality(Collections(noted.audit)) = Len(loop.prior) + 1
<1> DEFINE asked == Audit(loop, "evidence_requested")
           redacted == Audit(Gathered, "evidence_redacted")
<1>1. /\ loop \in LoopState /\ loop.round \in 1..MaxRounds
      /\ "evidence_requested" \in Kinds /\ "evidence_collected" \in Kinds /\ "evidence_redacted" \in Kinds
      /\ "evidence_requested" \notin Outcomes /\ "evidence_collected" \notin Outcomes
      /\ "evidence_redacted" \notin Outcomes
  BY DEF Inv, LTypeOK, RoundInv, Kinds, Outcomes, Ends
<1>2. asked \in LoopState /\ asked.round = loop.round
  BY <1>1, Noted
<1>3. Gathered = Audit(asked, "evidence_collected")
  BY DEF Gathered
<1>4. Gathered \in LoopState /\ Gathered.round = loop.round
  BY <1>1, <1>2, <1>3, Noted
<1>5. /\ loop.audit \in Seq(Event) /\ asked.audit \in Seq(Event) /\ Gathered.audit \in Seq(Event)
      /\ More(asked.audit, loop.audit, "evidence_requested")
      /\ More(Gathered.audit, asked.audit, "evidence_collected")
      /\ More(redacted.audit, Gathered.audit, "evidence_redacted")
  BY <1>1, <1>2, <1>3, <1>4, Noting
<1>6. /\ Told(loop.audit) /\ Open(loop.audit) /\ Cardinality(Collections(loop.audit)) = Len(loop.prior)
      /\ Len(loop.prior) \in Nat
  BY <1>1 DEF AuditInv, LoopState
<1> DEFINE s == asked.audit
           g == Gathered.audit
           d == redacted.audit
<1> HIDE DEF asked, redacted, s, g, d
<1>7. /\ Told(asked.audit) /\ Open(asked.audit) /\ Len(asked.audit) = Len(loop.audit) + 1
      /\ Len(loop.audit) \in Nat
      /\ asked.audit # <<>> /\ asked.audit[Len(asked.audit)].kind = "evidence_requested"
      /\ Cardinality(Collections(asked.audit)) = Len(loop.prior)
  <2>1. s \in Seq(Event) /\ More(s, loop.audit, "evidence_requested") /\ loop.audit \in Seq(Event)
    BY <1>5 DEF s
  <2>2. /\ Told(s) /\ Open(s) /\ Len(s) = Len(loop.audit) + 1 /\ Len(loop.audit) \in Nat
        /\ s # <<>> /\ s[Len(s)].kind = "evidence_requested"
        /\ Cardinality(Collections(s)) = Cardinality(Collections(loop.audit))
    BY <1>1, <1>6, <2>1, OneMore
  <2> QED
    BY <1>6, <2>2 DEF s
<1>8. /\ Told(Gathered.audit) /\ Open(Gathered.audit)
      /\ Len(Gathered.audit) = Len(asked.audit) + 1
      /\ Cardinality(Collections(Gathered.audit)) = Len(loop.prior) + 1
  <2>1. s \in Seq(Event) /\ g \in Seq(Event) /\ More(g, s, "evidence_collected")
    BY <1>5 DEF s, g
  <2>2. Told(s) /\ Open(s) /\ s # <<>> /\ s[Len(s)].kind = "evidence_requested"
    BY <1>7 DEF s
  <2>3. /\ Told(g) /\ Open(g) /\ Len(g) = Len(s) + 1
        /\ Cardinality(Collections(g)) = Cardinality(Collections(s)) + 1
    BY <1>1, <2>1, <2>2, OneMore
  <2> QED
    BY <1>7, <2>3 DEF s, g
<1>9. /\ Told(redacted.audit) /\ Open(redacted.audit)
      /\ Len(redacted.audit) = Len(Gathered.audit) + 1
      /\ Cardinality(Collections(redacted.audit)) = Len(loop.prior) + 1
  <2>1. g \in Seq(Event) /\ d \in Seq(Event) /\ More(d, g, "evidence_redacted")
    BY <1>5, OneMore DEF d, g
  <2>2. Told(g) /\ Open(g)
    BY <1>8 DEF g
  <2>3. /\ Told(d) /\ Open(d) /\ Len(d) = Len(g) + 1
        /\ Cardinality(Collections(d)) = Cardinality(Collections(g))
        /\ Cardinality(Collections(g)) \in Nat
    BY <1>1, <2>1, <2>2, OneMore
  <2> QED
    BY <1>8, <2>3 DEF d, g
<1>10. noted = Gathered \/ noted = redacted
  BY DEF redacted
<1> QED
  BY <1>7, <1>8, <1>9, <1>10

LEMMA CollectTold ==
  ASSUME Inv, AuditInv, NEW facts \in SUBSET Fact, Collect(facts)
  PROVE  AuditInv'
<1>1. /\ loop \in LoopState /\ loop.phase = "collecting" /\ loop.round \in 1..MaxRounds
      /\ loop.queue # <<>>
  BY DEF Collect, Inv, LTypeOK, RoundInv
<1>2. CASE loop' = Terminal(Audit(loop, "evidence_requested"), "failed")
  BY <1>1, <1>2, TerminalTold
<1>3. ASSUME NEW evidence \in Evidence, NEW noted, Collects(evidence, noted)
      PROVE  AuditInv'
  <2> DEFINE a == Len(loop.audit)
             k == Len(loop.queue)
  <2>1. /\ noted = Gathered \/ noted = Audit(Gathered, "evidence_redacted")
        /\ loop'.audit = noted.audit /\ loop'.prior = Append(loop.prior, evidence)
        /\ loop'.queue = Tail(loop.queue)
        /\ loop'.phase = (IF k = 1 THEN "round" ELSE "collecting")
        /\ loop'.round = (IF k = 1 THEN loop.round + 1 ELSE loop.round)
    BY <1>3 DEF Collects
  <2>2. /\ Told(loop'.audit) /\ Open(loop'.audit) /\ Len(loop'.audit) \in Nat
        /\ Len(loop'.audit) <= a + 3
        /\ Cardinality(Collections(loop'.audit)) = Len(loop.prior) + 1
    BY <1>1, <2>1, GatheredTold
  <2>3. Len(loop'.prior) = Len(loop.prior) + 1 /\ a \in Nat
    BY <1>1, <2>1 DEF LoopState
  <2>4. k \in Nat /\ k > 0 /\ Len(loop'.queue) = k - 1
    BY <1>1, <2>1 DEF LoopState
  <2>5. a + 3 * k <= Room(loop.round) /\ Room(loop.round) \in Nat
    BY <1>1, Rooms DEF AuditInv, AuditFits
  <2>6. loop'.phase # "done" /\ loop'.phase # "proposing"
    BY <2>1
  <2>7. AuditFits'
    <3> DEFINE room == Room(loop.round)
               b == Len(loop'.audit)
    <3>1. b \in Nat /\ room \in Nat /\ b <= a + 3 /\ a + 3 * k <= room
      BY <2>2, <2>5
    <3> HIDE DEF a, k, room, b
    <3>2. b + 3 * (k - 1) <= room /\ (k = 1 => b <= room)
      BY <2>3, <2>4, <3>1
    <3>3. CASE k = 1
      <4>1. loop'.phase = "round" /\ loop'.round - 1 = loop.round
        BY <1>1, <2>1, <3>3, LoopAssumption DEF k
      <4> QED
        BY <3>2, <3>3, <4>1 DEF AuditFits, b, room
    <3>4. CASE k # 1
      <4>1. loop'.phase = "collecting" /\ loop'.round = loop.round
        BY <2>1, <3>4 DEF k
      <4> QED
        BY <2>4, <3>2, <4>1 DEF AuditFits, b, room
    <3> QED
      BY <3>3, <3>4
  <2> QED
    BY <2>2, <2>3, <2>6, <2>7 DEF AuditInv
<1> QED
  BY <1>2, <1>3, CollectIs

(* A run begins with nothing told.                                          *)
LEMMA NothingTold ==
  /\ Told(<<>>) /\ Open(<<>>) /\ Cardinality(Collections(<<>>)) = 0 /\ Len(<<>>) = 0 /\ Room(0) = 0
<1>1. Collections(<<>>) = {}
  BY DEF Collections
<1>2. Room(0) = 0
  BY LoopAssumption DEF Room
<1> QED
  BY <1>1, <1>2, FS_EmptySet DEF Told, Open

LEMMA FreshTold ==
  ASSUME loop' = NoLoop \/ loop' = [NoLoop EXCEPT !.phase = "round", !.round = 1]
  PROVE  AuditInv'
<1>1. /\ loop'.audit = <<>> /\ loop'.prior = <<>> /\ loop'.phase \in {"idle", "round"}
      /\ loop'.phase = "round" => loop'.round - 1 = 0
  <2>1. CASE loop' = NoLoop
    BY <2>1 DEF NoLoop
  <2>2. CASE loop' = [NoLoop EXCEPT !.phase = "round", !.round = 1]
    BY <2>2 DEF NoLoop
  <2> QED
    BY <2>1, <2>2
<1>2. AuditFits'
  BY <1>1, NothingTold DEF AuditFits
<1> QED
  BY <1>1, <1>2, NothingTold DEF AuditInv

(* Every step keeps the timeline true.                                      *)
LEMMA AuditStep ==
  ASSUME Inv, AuditInv, [LNext]_loop
  PROVE  AuditInv'
<1>1. CASE UNCHANGED loop
  BY <1>1 DEF AuditInv, AuditFits
<1>2. CASE Refuse
  BY <1>1, <1>2 DEF Refuse
<1>3. CASE Run \/ Return
  BY <1>3, FreshTold DEF Run, Return
<1>4. CASE StartRound
  BY <1>4, RoundTold
<1>5. CASE Propose
  <2>1. CASE ProposalUnusable
    BY <2>1, EndTold
  <2>2. ASSUME NEW a, NEW retrieved, ProposeCompleted(a, retrieved) PROVE AuditInv'
    BY <2>2, EndTold
  <2>3. ASSUME NEW state \in {"blocked", "failed"}, ProposeStop(state) PROVE AuditInv'
    BY <2>3, EndTold
  <2>4. ASSUME NEW requests \in Proposals(MaxRequests), ProposeReads(requests) PROVE AuditInv'
    BY <2>4, ReadsTold DEF Proposals
  <2> QED
    BY <1>5, <2>1, <2>2, <2>3, <2>4 DEF Propose
<1>6. CASE CollectFails
  BY <1>6, EndTold
<1>7. ASSUME NEW facts \in SUBSET Fact, Collect(facts) PROVE AuditInv'
  BY <1>7, CollectTold
<1>8. CASE Expire
  <2>1. /\ loop'.phase = loop.phase /\ loop'.queue = loop.queue /\ loop'.round = loop.round
        /\ loop'.prior = loop.prior /\ loop'.audit = loop.audit /\ loop'.state = loop.state
    BY <1>8 DEF Expire, Inv, LTypeOK, LoopState
  <2> QED
    BY <2>1 DEF AuditInv, AuditFits
<1> QED
  BY <1>1, <1>2, <1>3, <1>4, <1>5, <1>6, <1>7, <1>8 DEF LNext, Advance

(* The timeline is true throughout every run.                               *)
LEMMA AlwaysTold == LSpec => [](Inv /\ AuditInv)
<1>1. LInit => Inv /\ AuditInv
  BY InvInit, NothingTold DEF LInit, NoLoop, AuditInv, AuditFits
<1>2. Inv /\ AuditInv /\ [LNext]_loop => (Inv /\ AuditInv)'
  BY InvStep, AuditStep
<1> QED
  BY <1>1, <1>2, PTL DEF LSpec

-----------------------------------------------------------------------------
(* The theorems.                                                            *)

(* The loop keeps its types: no round above the limit is ever begun.        *)
THEOREM TypedLoop == LSpec => []LTypeOK
<1>1. Inv => LTypeOK
  BY DEF Inv
<1> QED
  BY <1>1, Always, PTL

(* Whatever a provider asks for and a collector brings, private facts and   *)
(* evidence that must not be uploaded are neither shown nor cited.          *)
THEOREM NothingPrivate == LSpec => []EvidenceShown
<1>1. Inv => EvidenceShown
  BY DEF Inv, PrivacyInv
<1> QED
  BY <1>1, Always, PTL

(* However a provider spells its requests, nothing is read twice.           *)
THEOREM OnlyOnce == LSpec => []ReadOnce
<1>1. Inv => ReadOnce
  <2> SUFFICES ASSUME Inv, NEW i \in 1..Len(loop.prior), NEW j \in 1..Len(loop.prior),
                      <<loop.prior[i].op, loop.prior[i].arg>> = <<loop.prior[j].op, loop.prior[j].arg>>
               PROVE  i = j
    BY DEF ReadOnce
  <2>1. loop.prior[i].op = loop.prior[j].op /\ loop.prior[i].arg = loop.prior[j].arg
    OBVIOUS
  <2> QED
    BY <2>1 DEF Inv, ReadInv, AskedFor
<1> QED
  BY <1>1, Always, PTL

(* The audit timeline of a run that ended tells what happened, with one     *)
(* outcome at its end, and fits the rounds and requests there may be.       *)
THEOREM TimelineTells == LSpec => []AuditTells
<1>1. Inv /\ AuditInv => AuditTells
  <2> SUFFICES ASSUME Inv, AuditInv, loop.phase = "done" PROVE AuditTells
    BY DEF AuditTells
  <2> DEFINE last == Len(loop.audit)
  <2>1. PICK audit \in Seq(Event), e \in Event :
          Open(audit) /\ loop.audit = Append(audit, e) /\ e.kind = Ends[loop.state]
    BY DEF AuditInv
  <2>2. /\ last = Len(audit) + 1 /\ Len(audit) \in Nat /\ loop.audit[last] = e
        /\ \A i \in 1..Len(audit) : loop.audit[i] = audit[i]
    BY <2>1
  <2>3. 1..last - 1 = 1..Len(audit)
    BY <2>2
  <2>4. \A i \in 1..last - 1 : loop.audit[i].kind \notin Outcomes
    BY <2>1, <2>2, <2>3 DEF Open
  <2>5. Count("evidence_collected") = Len(loop.prior)
    BY DEF AuditInv, Count, Collections
  <2>6. \A i \in 2..last : loop.audit[i].kind = "evidence_collected"
                              => loop.audit[i - 1].kind = "evidence_requested"
    BY DEF AuditInv, Told
  <2>7. last <= MaxAuditEvents
    BY DEF AuditInv, AuditFits
  <2> QED
    BY <2>1, <2>2, <2>4, <2>5, <2>6, <2>7 DEF AuditTells
<1> QED
  BY <1>1, AlwaysTold, PTL

(* With the limits of the code, three rounds of at most eight reads, no     *)
(* timeline outgrows the 64 events a result has room for.                   *)
THEOREM TimelineFits == MaxRounds <= 3 /\ MaxRequests <= 8 =>
                          (LSpec => [](loop.phase = "done" => Len(loop.audit) <= 64))
<1> SUFFICES ASSUME MaxRounds <= 3, MaxRequests <= 8
             PROVE  LSpec => [](loop.phase = "done" => Len(loop.audit) <= 64)
  OBVIOUS
<1>1. MaxAuditEvents <= 55 /\ MaxAuditEvents \in Nat
  <2>1. MaxRounds \in {1, 2, 3} /\ MaxRequests \in Nat
    BY LoopAssumption
  <2> QED
    BY <2>1 DEF MaxAuditEvents
<1>2. Inv /\ AuditInv => (loop.phase = "done" => Len(loop.audit) <= 64)
  <2> SUFFICES ASSUME Inv, AuditInv, loop.phase = "done" PROVE Len(loop.audit) <= 64
    OBVIOUS
  <2>1. Len(loop.audit) <= MaxAuditEvents /\ Len(loop.audit) \in Nat
    BY DEF AuditInv, AuditFits, Inv, LTypeOK, LoopState
  <2> QED
    BY <1>1, <2>1
<1> QED
  BY <1>2, AlwaysTold, PTL
=============================================================================
