-------------------------- MODULE OnlineAssessment --------------------------
(***************************************************************************)
(* What may be sent to the online analysis and what is accepted from it:   *)
(* the policy of internal/gateway that the gateway, its client and the     *)
(* agent loop share.                                                       *)
(*                                                                         *)
(* Abstracted: a request by the evidence paths its report and session have *)
(* and the questions it answers; an assessment by the union of what its    *)
(* findings cite, what it asks and what it proposes.  wellFormed stands    *)
(* for the schema version, mode, ids, enumerations and text bounds.        *)
(***************************************************************************)
EXTENDS Naturals, FiniteSets

CONSTANTS Ref,           \* evidence paths
          Private,       \* those that sanitizing removes: the hostname, the service
                         \* events, an earlier assessment
          Question,
          Operation,
          ReadOnly,      \* readOnlyOperations
          Source,        \* retrieved pages
          Official,      \* those on an allowed domain
          MaxLimitations

ASSUME PolicyAssumption ==
  /\ Private \subseteq Ref /\ ReadOnly \subseteq Operation /\ Official \subseteq Source
  /\ MaxLimitations \in Nat \ {0}

(* call names the report: every call is about its own.  fits: versions,     *)
(* counts and texts are within bounds and the session is the report's.      *)
Request == [call : Nat, approved : BOOLEAN, fits : BOOLEAN, refs : SUBSET Ref,
            answered : SUBSET Question]

Assessment == [call : Nat, wellFormed : BOOLEAN, refs : SUBSET Ref, cited : SUBSET Source,
               sources : SUBSET Source, asks : SUBSET Question, ops : SUBSET Operation,
               limits : 0..MaxLimitations + 1]

ValidRequest(r) == r.approved /\ r.fits

(* Mutant: the technician's answers are removed as well.                    *)
SanitizeForgetsAnswers(r) ==
  [r EXCEPT !.refs = @ \ Private, !.answered = {}]

Sanitize(r) == [r EXCEPT !.refs = @ \ Private]

(* The catalogue of what a finding may cite never has more than was sent.   *)
EvidenceReferences(r) == Sanitize(r).refs

(* ValidateOnlineAssessmentWithEvidence.                                    *)
Accepted(a, r, extra) ==
  /\ a.wellFormed /\ a.call = r.call
  /\ a.refs \subseteq EvidenceReferences(r) \cup extra
  /\ a.cited \subseteq a.sources
  /\ a.asks \cap r.answered = {}
  /\ a.ops \subseteq ReadOnly
  /\ a.limits \in 1..MaxLimitations

(* The provider's answer: what the model wrote, with the sources that were  *)
(* really retrieved from an allowed domain, and a limitation when there is  *)
(* none.                                                                    *)
ModelAnswer == [wellFormed : BOOLEAN, refs : SUBSET Ref, cited : SUBSET Source,
                asks : SUBSET Question, ops : SUBSET Operation, limits : 0..MaxLimitations]

Assemble(model, retrieved, r) ==
  LET sources == retrieved \cap Official
  IN [call |-> r.call, wellFormed |-> model.wellFormed, refs |-> model.refs,
      cited |-> model.cited, sources |-> sources, asks |-> model.asks, ops |-> model.ops,
      limits |-> model.limits + (IF sources = {} THEN 1 ELSE 0)]

Answers(r) ==
  IF ~ValidRequest(r) THEN {}
  ELSE {a \in {Assemble(model, retrieved, r) : model \in ModelAnswer, retrieved \in SUBSET Source} :
          Accepted(a, Sanitize(r), {})}
=============================================================================
