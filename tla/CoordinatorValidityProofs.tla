----------------------- MODULE CoordinatorValidityProofs -----------------------
(***************************************************************************)
(* What the coordinator builds passes the validation of the case store: on *)
(* any history, for every set of callers, requests, evidence orders, clocks *)
(* and faults.  The validator of a snapshot is written separately from the *)
(* operations; what it demands of a history is more than any one of them   *)
(* checks before it appends to it.                                         *)
(***************************************************************************)
EXTENDS CoordinatorProofs, FiniteSetTheorems

-----------------------------------------------------------------------------
(* The invariant.                                                           *)

(* A snapshot whose history is sound: revisions name events, a committed    *)
(* plan has a name, and no event that ends a case is left behind.           *)
Sound(s) ==
  /\ s.rev # 0
  /\ IsFiniteSet(s.events)
  /\ \A e, f \in s.events : e.rev = f.rev => e = f
  /\ \A e \in s.events : e.type = "plan_committed" => e.plan # NoId
  /\ \A e \in s.events : e.type \in {"case_failed", "case_cancelled"} => s.state \in Terminal

Good(s) == IF s.state = "none" THEN s = Imported ELSE Valid(s) /\ Sound(s)

(* An acquisition used evidence of its source commit and added new one.     *)
Traced(a, chain) == /\ a.source \in 1..Len(chain)
                    /\ a.inputs \subseteq chain[a.source].evidence
                    /\ a.added \notin chain[a.source].evidence

(* The snapshot s may stand after commit n of a chain.                      *)
Follows(s, n, chain) == /\ Good(s)
                        /\ \A x \in s.evidence : x.source <= n
                        /\ \A a \in s.acqs : Traced(a, chain) /\ a.source <= n

LogValid == \A i \in 1..Len(log) : Follows(log[i], i - 1, log)

JobValid ==
  \A c \in Client :
    /\ pc[c] = "commit" => /\ job[c].parent \in 0..Len(log)
                           /\ Follows(job[c].next, job[c].parent, log)
    /\ pc[c] = "analyse" => /\ job[c].refs # {}
                            /\ job[c].refs \subseteq log[job[c].parent].evidence

VInv == TypeInv /\ LogValid /\ JobValid

-----------------------------------------------------------------------------
(* Histories.                                                               *)

(* A revision names its event.                                              *)
LEMMA EventAtIs ==
  ASSUME NEW s, \A e, f \in s.events : e.rev = f.rev => e = f, NEW e \in s.events
  PROVE  EventAt(s, e.rev) = e
BY DEF EventAt

(* t is s with the event f, a stamped copy of e, as the last of its history.  *)
Adds(t, s, e, f) ==
  /\ t.events = s.events \cup {f} /\ t.rev = s.rev + 1 /\ f.rev = s.rev + 1
  /\ t.at = f.at /\ f.at >= s.at /\ t.state = e.next
  /\ t.evidence = s.evidence /\ t.findings = s.findings /\ t.plan = s.plan
  /\ t.acqs = s.acqs /\ t.consults = s.consults
  /\ f.type = e.type /\ f.prev = e.prev /\ f.next = e.next /\ f.actor = e.actor
  /\ f.parent = e.parent /\ f.refs = e.refs /\ f.plan = e.plan

(* An event that is applied becomes the last one of the history.            *)
LEMMA AdvanceIs ==
  ASSUME NEW s \in Snapshot, NEW e \in Event, NEW now \in Nat
  PROVE  \E f \in Event : Adds(Advance(s, e, now), s, e, f)
<1> DEFINE at == MonotonicNow(s, now)
           f == [e EXCEPT !.rev = s.rev + 1, !.at = at]
<1>1. s.rev \in Nat /\ s.rev + 1 \in Nat /\ s.at \in Nat
  BY DEF Snapshot
<1>2. at \in Nat /\ at >= s.at
  BY <1>1 DEF MonotonicNow
<1> HIDE DEF at
<1>3. f \in Event
  BY <1>1, <1>2, StampType
<1>4. /\ f.rev = s.rev + 1 /\ f.at = at
      /\ f.type = e.type /\ f.prev = e.prev /\ f.next = e.next /\ f.actor = e.actor
      /\ f.parent = e.parent /\ f.refs = e.refs /\ f.plan = e.plan
  BY DEF Event
<1>5. Advance(s, e, now) = [s EXCEPT !.state = e.next, !.rev = @ + 1, !.at = at,
                                     !.events = @ \cup {f}]
  BY DEF Advance, at
<1> HIDE DEF f
<1>6. /\ Advance(s, e, now).events = s.events \cup {f}
      /\ Advance(s, e, now).rev = s.rev + 1 /\ Advance(s, e, now).at = at
      /\ Advance(s, e, now).state = e.next
      /\ Advance(s, e, now).evidence = s.evidence
      /\ Advance(s, e, now).findings = s.findings
      /\ Advance(s, e, now).plan = s.plan
      /\ Advance(s, e, now).acqs = s.acqs
      /\ Advance(s, e, now).consults = s.consults
  BY <1>5 DEF Snapshot
<1>7. Adds(Advance(s, e, now), s, e, f)
  BY <1>2, <1>4, <1>6 DEF Adds
<1> QED
  BY <1>3, <1>7

(* f is the last event of t, and s is what t was before it.                 *)
Appends(t, s, f) ==
  /\ t.events = s.events \cup {f} /\ t.rev = s.rev + 1 /\ f.rev = s.rev + 1
  /\ t.at = f.at /\ f.at >= s.at /\ f.prev = s.state

(* The revisions stay contiguous and each still names its event.            *)
LEMMA HistoryGrows ==
  ASSUME NEW s \in Snapshot, Valid(s), Sound(s), s.state # "none",
         NEW t, NEW f \in Event, Appends(t, s, f)
  PROVE  /\ RevisionsContiguous(t) /\ HistoryChained(t)
         /\ t.rev # 0 /\ IsFiniteSet(t.events)
         /\ \A e, g \in t.events : e.rev = g.rev => e = g
         /\ EventAt(t, t.rev) = f
         /\ \A e \in s.events : e.rev \in Nat /\ e.rev # 0 /\ e.rev # f.rev
         /\ f.rev # 1
<1>0. /\ t.events = s.events \cup {f} /\ t.rev = s.rev + 1 /\ f.rev = s.rev + 1
      /\ t.at = f.at /\ f.at >= s.at /\ f.prev = s.state
  BY DEF Appends
<1> USE <1>0
<1>1. /\ Cardinality(s.events) = s.rev /\ {e.rev : e \in s.events} = 1..s.rev
      /\ HistoryChained(s) /\ StateFits(s)
  BY DEF Valid, RevisionsContiguous
<1>2. s.rev \in Nat /\ s.rev # 0 /\ IsFiniteSet(s.events)
      /\ \A e, g \in s.events : e.rev = g.rev => e = g
  BY DEF Snapshot, Sound
<1>3. \A e \in s.events : e.rev \in 1..s.rev
  BY <1>1
<1>4. \A e \in s.events : e.rev \in Nat /\ e.rev # 0 /\ e.rev # f.rev
  BY <1>2, <1>3
<1>5. f \notin s.events
  BY <1>4
<1>6. IsFiniteSet(t.events) /\ Cardinality(t.events) = s.rev + 1
  <2>1. /\ IsFiniteSet(s.events \cup {f})
        /\ Cardinality(s.events \cup {f}) = Cardinality(s.events) + 1
    BY <1>2, <1>5, FS_AddElement
  <2> QED
    BY <1>1, <2>1
<1>7. {e.rev : e \in t.events} = 1..s.rev + 1
  <2>1. {e.rev : e \in t.events} = (1..s.rev) \cup {s.rev + 1}
    BY <1>1
  <2>2. (1..s.rev) \cup {s.rev + 1} = 1..s.rev + 1
    BY <1>2
  <2> QED
    BY <2>1, <2>2
<1>8. \A e, g \in t.events : e.rev = g.rev => e = g
  BY <1>2, <1>4
<1>9. EventAt(t, s.rev + 1) = f
  BY <1>8, EventAtIs
<1>10. \A r \in 1..s.rev : EventAt(t, r) = EventAt(s, r)
  <2>1. SUFFICES ASSUME NEW e \in s.events PROVE EventAt(t, e.rev) = EventAt(s, e.rev)
    BY <1>1
  <2>2. EventAt(s, e.rev) = e
    BY <1>2, EventAtIs
  <2>3. EventAt(t, e.rev) = e
    BY <1>8, EventAtIs
  <2> QED
    BY <2>2, <2>3
<1>11. HistoryChained(t)
  <2>1. SUFFICES ASSUME NEW r \in 2..s.rev + 1
                 PROVE  /\ EventAt(t, r).prev = EventAt(t, r - 1).next
                        /\ EventAt(t, r).at >= EventAt(t, r - 1).at
    BY DEF HistoryChained
  <2>2. r - 1 \in 1..s.rev /\ (r \in 2..s.rev \/ r = s.rev + 1)
    BY <1>2
  <2>3. EventAt(t, r - 1) = EventAt(s, r - 1)
    BY <1>10, <2>2
  <2>4. CASE r \in 2..s.rev
    <3>1. r \in 1..s.rev
      BY <1>2, <2>4
    <3>2. EventAt(t, r) = EventAt(s, r)
      BY <1>10, <3>1
    <3> QED
      BY <1>1, <2>3, <2>4, <3>2 DEF HistoryChained
  <2>5. CASE r = s.rev + 1
    <3>1. r - 1 = s.rev
      BY <1>2, <2>5
    <3>2. EventAt(s, s.rev).next = s.state /\ EventAt(s, s.rev).at = s.at
      BY <1>1 DEF StateFits
    <3> QED
      BY <1>9, <2>3, <2>5, <3>1, <3>2
  <2> QED
    BY <2>2, <2>4, <2>5
<1> QED
  BY <1>2, <1>4, <1>6, <1>7, <1>8, <1>9, <1>11 DEF RevisionsContiguous

(* What the events of an authorised history refer to.                       *)
LEMMA ReferencesAre ==
  ASSUME NEW s, EventsAuthorised(s)
  PROVE  ReferencesExact(s) <=>
           \A e \in s.events :
             /\ e.rev = 1 => e.refs = s.evidence \ Acquired(s)
             /\ e.type = "analysis_committed" => e.refs # {} /\ e.refs \subseteq s.findings
             /\ e.rev # 1 /\ e.type # "analysis_committed" => e.plan = s.plan
<1>1. \A e \in s.events : e.rev = 1 => e.type # "analysis_committed"
  BY DEF EventsAuthorised
<1> QED
  BY <1>1 DEF ReferencesExact

(* What is known of the history of a case that is not over: nothing ended   *)
(* it, and if a plan was committed it is the plan of the case.              *)
LEMMA OpenHistory ==
  ASSUME NEW s, Valid(s), Sound(s), s.state \notin Terminal \cup {"none"}
  PROVE  \A e \in s.events : /\ e.type \notin {"case_failed", "case_cancelled"}
                             /\ e.type = "plan_committed" => e.plan = s.plan /\ s.plan # NoId
<1>1. SUFFICES ASSUME NEW e \in s.events, e.type = "plan_committed" PROVE e.plan = s.plan
  BY DEF Sound
<1>2. e.rev # 1
  BY <1>1 DEF Valid, EventsAuthorised
<1> QED
  BY <1>1, <1>2, ReferencesAre DEF Valid

(* A move of the workflow keeps a case valid.                               *)
LEMMA MoveGood ==
  ASSUME NEW s \in Snapshot, Good(s), s.state # "none",
         NEW u \in Snapshot, NEW e \in Event, NEW now \in Nat,
         u.events = s.events, u.evidence = s.evidence, u.acqs = s.acqs,
         u.consults = s.consults, u.rev = s.rev, u.at = s.at,
         Allowed(e), e.prev = s.state, e.parent # 0,
         \/ /\ e.type = "analysis_committed" /\ e.refs # {} /\ e.refs \subseteq s.evidence
            /\ u.findings = s.findings \cup e.refs /\ u.plan = s.plan
         \/ /\ e.type = "plan_committed" /\ e.plan # NoId
            /\ u.findings = s.findings /\ u.plan = e.plan
         \/ /\ e.type \in {"case_failed", "case_cancelled"} /\ e.plan = s.plan
            /\ u.findings = s.findings /\ u.plan = s.plan
  PROVE  Good(Advance(u, e, now))
<1> DEFINE v == Advance(u, e, now)
<1>0. PICK f \in Event : Adds(v, u, e, f)
  BY AdvanceIs
<1> HIDE DEF v
<1>1. /\ v.events = u.events \cup {f} /\ v.rev = u.rev + 1 /\ f.rev = u.rev + 1
      /\ v.at = f.at /\ f.at >= u.at /\ v.state = e.next
      /\ v.evidence = u.evidence /\ v.findings = u.findings /\ v.plan = u.plan
      /\ v.acqs = u.acqs /\ v.consults = u.consults
      /\ f.type = e.type /\ f.prev = e.prev /\ f.next = e.next /\ f.actor = e.actor
      /\ f.parent = e.parent /\ f.refs = e.refs /\ f.plan = e.plan
  BY <1>0 DEF Adds
<1>2. Valid(s) /\ Sound(s)
  BY DEF Good
<1>3. /\ RevisionsContiguous(v) /\ HistoryChained(v)
      /\ v.rev # 0 /\ IsFiniteSet(v.events)
      /\ \A x, y \in v.events : x.rev = y.rev => x = y
      /\ EventAt(v, v.rev) = f /\ f.rev # 1
  <2>1. /\ v.events = s.events \cup {f} /\ v.rev = s.rev + 1 /\ f.rev = s.rev + 1
        /\ v.at = f.at /\ f.at >= s.at /\ f.prev = s.state
    BY <1>1
  <2>2. Appends(v, s, f)
    BY <2>1 DEF Appends
  <2> QED
    BY <1>2, <2>2, HistoryGrows
<1>4. /\ Transition(e.type, s.state, e.next) /\ MayEmit(e.actor, e.type)
      /\ s.state \notin Terminal \cup {"none"}
  BY AllowedLeaves DEF Allowed, Transition
<1>5. \/ /\ e.type = "analysis_committed" /\ e.next = "analyzed"
         /\ s.state \in {"evidence_collected", "analyzed"}
      \/ e.type = "plan_committed" /\ e.next = "plan_proposed" /\ s.state = "analyzed"
      \/ e.type \in {"case_failed", "case_cancelled"} /\ e.next \in Terminal
  BY <1>4 DEF Transition, Terminal
<1>6. \A x \in s.events : /\ x.type \notin {"case_failed", "case_cancelled"}
                          /\ x.type = "plan_committed" => x.plan = s.plan /\ s.plan # NoId
  BY <1>2, <1>4, OpenHistory
<1>7. /\ s.state \in {"evidence_collected", "analyzed"} => s.plan = NoId
      /\ s.state = "analyzed" => s.findings # {}
  BY <1>2, <1>4 DEF Valid, StateFits
<1>8. EventsAuthorised(v)
  <2>1. /\ Transition(f.type, f.prev, f.next) /\ MayEmit(f.actor, f.type)
        /\ f.type \notin {"case_created", "legacy_case_adopted"} /\ f.parent # 0
    BY <1>1, <1>4, <1>5
  <2>2. EventsAuthorised(s)
    BY <1>2, <1>4 DEF Valid
  <2> QED
    BY <1>1, <1>3, <2>1, <2>2 DEF EventsAuthorised
<1>9. ReferencesExact(v)
  <2>1. SUFFICES ASSUME NEW x \in v.events
                 PROVE  /\ x.rev = 1 => x.refs = v.evidence \ Acquired(v)
                        /\ x.type = "analysis_committed" =>
                             x.refs # {} /\ x.refs \subseteq v.findings
                        /\ x.rev # 1 /\ x.type # "analysis_committed" => x.plan = v.plan
    BY <1>8, ReferencesAre
  <2>2. CASE x = f
    BY <1>1, <1>3, <1>5, <2>2
  <2>3. CASE x \in s.events
    <3>1. /\ x.rev = 1 => x.refs = s.evidence \ Acquired(s)
          /\ x.type = "analysis_committed" => x.refs # {} /\ x.refs \subseteq s.findings
          /\ x.rev # 1 /\ x.type # "analysis_committed" => x.plan = s.plan
      BY <1>2, <2>3, ReferencesAre DEF Valid
    <3>2. v.evidence = s.evidence /\ Acquired(v) = Acquired(s) /\ s.findings \subseteq v.findings
      BY <1>1 DEF Acquired
    <3>3. x.rev # 1 /\ x.type # "analysis_committed" => v.plan = s.plan
      <4>1. SUFFICES ASSUME x.rev # 1, x.type # "analysis_committed" PROVE v.plan = s.plan
        OBVIOUS
      <4>2. x.type \notin {"case_created", "legacy_case_adopted"} /\ x \in Event
        BY <1>2, <2>3, <4>1 DEF Valid, EventsAuthorised, Snapshot
      <4>3. x.type = "plan_committed"
        BY <1>6, <2>3, <4>1, <4>2 DEF Event
      <4>4. s.plan # NoId
        BY <1>6, <2>3, <4>3
      <4> QED
        BY <1>1, <1>5, <1>7, <4>4
    <3> QED
      BY <3>1, <3>2, <3>3
  <2> QED
    BY <1>1, <2>2, <2>3
<1>10. FindingsAudited(v)
  <2>1. /\ s.findings \subseteq s.evidence
        /\ s.findings \subseteq
             UNION {x.refs : x \in {y \in s.events : y.type = "analysis_committed"}}
        /\ s.plan # NoId => \E x \in s.events : x.type = "plan_committed" /\ x.plan = s.plan
    BY <1>2, <1>4 DEF Valid, FindingsAudited
  <2>2. \A d \in v.findings : \E x \in v.events : x.type = "analysis_committed" /\ d \in x.refs
    BY <1>1, <1>5, <2>1
  <2>3. v.findings \subseteq v.evidence
    BY <1>1, <2>1
  <2>4. v.plan # NoId => \E x \in v.events : x.type = "plan_committed" /\ x.plan = v.plan
    BY <1>1, <2>1
  <2> QED
    BY <2>2, <2>3, <2>4 DEF FindingsAudited
<1>11. StateFits(v)
  <2>1. EventAt(v, v.rev).next = v.state /\ EventAt(v, v.rev).at = v.at
    BY <1>1, <1>3
  <2>2. /\ v.state = "evidence_collected" => FALSE
        /\ v.state = "analyzed" => v.findings # {} /\ v.plan = NoId
        /\ v.state = "plan_proposed" => v.findings # {} /\ v.plan # NoId
    BY <1>1, <1>5, <1>7 DEF Terminal
  <2> QED
    BY <2>1, <2>2 DEF StateFits
<1>12. OriginsUnique(v)
  BY <1>1, <1>2, <1>4 DEF Valid, OriginsUnique
<1>13. v.state # "none"
  BY <1>1, <1>5 DEF Terminal
<1>14. Valid(v)
  BY <1>3, <1>8, <1>9, <1>10, <1>11, <1>12, <1>13 DEF Valid
<1>15. Sound(v)
  <2>1. \A x \in s.events : x.type = "plan_committed" => x.plan # NoId
    BY <1>6
  <2> QED
    BY <1>1, <1>3, <1>5, <1>6, <2>1 DEF Sound
<1> QED
  BY <1>13, <1>14, <1>15 DEF Good, v

(* The first event of a case, created or adopted, is a sound history ...    *)
LEMMA FirstSound ==
  ASSUME NEW e \in Event, NEW now \in Nat, Allowed(e),
         e.type \in {"case_created", "legacy_case_adopted"}
  PROVE  /\ Sound(Advance(Imported, e, now))
         /\ Advance(Imported, e, now).state = "evidence_collected"
<1> DEFINE v == Advance(Imported, e, now)
<1>0. PICK f \in Event : Adds(v, Imported, e, f)
  BY EmptyTypes, AdvanceIs
<1> HIDE DEF v
<1>1. /\ v.events = Imported.events \cup {f} /\ v.rev = Imported.rev + 1
      /\ v.state = e.next /\ f.type = e.type
  BY <1>0 DEF Adds
<1>2. v.events = {f} /\ v.rev = 1
  BY <1>1 DEF Imported
<1>3. IsFiniteSet(v.events)
  BY <1>2, FS_Singleton
<1>4. Sound(v)
  BY <1>1, <1>2, <1>3 DEF Sound
<1>5. v.state = "evidence_collected"
  BY <1>1 DEF Allowed, Transition
<1> QED
  BY <1>4, <1>5 DEF v

(* ... and a valid one, be the case new or adopted.                         *)
LEMMA FirstGood ==
  ASSUME NEW e \in Event, NEW now \in Nat, Allowed(e),
         e.type \in {"case_created", "legacy_case_adopted"},
         e.refs = Imported.evidence, (e.parent = 0) <=> (e.type = "case_created")
  PROVE  Good(Advance(Imported, e, now))
<1> DEFINE v == Advance(Imported, e, now)
<1>0. PICK f \in Event : Adds(v, Imported, e, f)
  BY EmptyTypes, AdvanceIs
<1>2. Sound(v) /\ v.state = "evidence_collected"
  BY FirstSound
<1> HIDE DEF v
<1>1. /\ v.events = Imported.events \cup {f} /\ v.rev = Imported.rev + 1
      /\ f.rev = Imported.rev + 1 /\ v.at = f.at /\ v.state = e.next
      /\ v.evidence = Imported.evidence /\ v.findings = Imported.findings
      /\ v.plan = Imported.plan /\ v.acqs = Imported.acqs /\ v.consults = Imported.consults
      /\ f.type = e.type /\ f.prev = e.prev /\ f.next = e.next /\ f.actor = e.actor
      /\ f.parent = e.parent /\ f.refs = e.refs
  BY <1>0 DEF Adds
<1>3. /\ v.events = {f} /\ v.rev = 1 /\ f.rev = 1 /\ v.evidence = Imported.evidence
      /\ v.findings = {} /\ v.plan = NoId /\ v.acqs = {} /\ v.consults = {}
  BY <1>1 DEF Imported
<1>4. RevisionsContiguous(v)
  <2>1. Cardinality({f}) = 1
    BY FS_Singleton
  <2>2. 1..1 = {1}
    OBVIOUS
  <2>3. {g.rev : g \in {f}} = {1}
    BY <1>3
  <2> QED
    BY <1>3, <2>1, <2>2, <2>3 DEF RevisionsContiguous
<1>5. HistoryChained(v)
  BY <1>3 DEF HistoryChained
<1>6. EventsAuthorised(v)
  BY <1>1, <1>3 DEF EventsAuthorised, Allowed
<1>7. ReferencesExact(v)
  <2>1. Acquired(v) = {}
    BY <1>3 DEF Acquired
  <2> QED
    BY <1>1, <1>3, <1>6, <2>1, ReferencesAre
<1>8. EventAt(v, v.rev) = f
  BY <1>2, <1>3, EventAtIs DEF Sound
<1>9. FindingsAudited(v) /\ OriginsUnique(v)
  BY <1>3 DEF FindingsAudited, OriginsUnique
<1>10. StateFits(v)
  BY <1>1, <1>2, <1>3, <1>8 DEF StateFits
<1>11. Valid(v)
  BY <1>2, <1>4, <1>5, <1>6, <1>7, <1>9, <1>10 DEF Valid
<1> QED
  BY <1>2, <1>11 DEF Good, v

(* New evidence and new consultations leave the history as it is.           *)
LEMMA EnrichGood ==
  ASSUME NEW s \in Snapshot, Good(s), s.state # "none",
         NEW t, t.events = s.events, t.rev = s.rev, t.at = s.at, t.state = s.state,
         t.findings = s.findings, t.plan = s.plan, OriginsUnique(t),
         s.evidence \subseteq t.evidence,
         t.evidence \ Acquired(t) = s.evidence \ Acquired(s)
  PROVE  Good(t)
<1>1. Valid(s) /\ Sound(s)
  BY DEF Good
<1>2. RevisionsContiguous(t) /\ HistoryChained(t) /\ StateFits(t)
  BY <1>1 DEF Valid, RevisionsContiguous, HistoryChained, StateFits, EventAt
<1>3. EventsAuthorised(s) /\ EventsAuthorised(t)
  BY <1>1 DEF Valid, EventsAuthorised
<1>4. ReferencesExact(t)
  BY <1>1, <1>3, ReferencesAre DEF Valid
<1>5. FindingsAudited(t)
  BY <1>1 DEF Valid, FindingsAudited
<1>6. Sound(t)
  BY <1>1 DEF Sound
<1> QED
  BY <1>2, <1>3, <1>4, <1>5, <1>6 DEF Good, Valid

(* A snapshot is determined by the documents that are only ever added: what *)
(* it says of state, clock, findings, plan and evidence follows from them.  *)
LEMMA Determined ==
  ASSUME NEW s \in Snapshot, NEW t \in Snapshot, Good(s), Good(t),
         s.events = t.events, s.acqs = t.acqs, s.consults = t.consults
  PROVE  s = t
<1>1. s.state = "none" <=> t.state = "none"
  <2>1. ASSUME NEW u \in {s, t} PROVE u.state = "none" <=> u.events = {}
    <3>1. CASE u.state = "none"
      BY <3>1 DEF Good, Imported
    <3>2. CASE u.state # "none"
      <4>1. Valid(u) /\ u.rev # 0
        BY <3>2 DEF Good, Sound
      <4>2. Cardinality(u.events) # 0
        BY <3>2, <4>1 DEF Valid, RevisionsContiguous
      <4>3. Cardinality({}) = 0
        BY FS_EmptySet
      <4> QED
        BY <3>2, <4>2, <4>3
    <3> QED
      BY <3>1, <3>2
  <2> QED
    BY <2>1
<1>2. CASE s.state = "none"
  BY <1>1, <1>2 DEF Good
<1>3. CASE s.state # "none"
  <2>1. Valid(s) /\ Sound(s) /\ Valid(t) /\ Sound(t) /\ t.state # "none"
    BY <1>1, <1>3 DEF Good
  <2>2. s.rev = t.rev
    BY <1>3, <2>1 DEF Valid, RevisionsContiguous
  <2>3. s.state = t.state /\ s.at = t.at
    BY <1>3, <2>1, <2>2 DEF Valid, StateFits, EventAt
  <2>4. \A u \in {s, t} : /\ EventsAuthorised(u) /\ ReferencesExact(u)
                          /\ FindingsAudited(u) /\ OriginsUnique(u)
    BY <1>3, <2>1 DEF Valid
  <2>5. \A u \in {s, t} : \A e \in u.events :
          /\ e.rev = 1 => e.refs = u.evidence \ Acquired(u)
          /\ e.type = "analysis_committed" => e.refs # {} /\ e.refs \subseteq u.findings
          /\ e.rev # 1 /\ e.type # "analysis_committed" => e.plan = u.plan
    BY <2>4, ReferencesAre
  <2>6. s.evidence = t.evidence
    <3>1. PICK e \in s.events : e.rev = 1
      <4>1. s.rev \in Nat \ {0}
        BY <2>1 DEF Snapshot, Sound
      <4>2. 1 \in 1..s.rev
        BY <4>1
      <4> QED
        BY <1>3, <2>1, <4>2 DEF Valid, RevisionsContiguous
    <3>2. \A u \in {s, t} : Acquired(u) \subseteq u.evidence
      BY <2>4 DEF OriginsUnique, Acquired
    <3>3. Acquired(s) = Acquired(t)
      BY DEF Acquired
    <3> QED
      BY <2>5, <3>1, <3>2, <3>3
  <2>7. s.findings = t.findings
    <3>1. ASSUME NEW u \in {s, t}, NEW d
          PROVE  d \in u.findings <=>
                   \E e \in s.events : e.type = "analysis_committed" /\ d \in e.refs
      <4>1. d \in u.findings => \E e \in u.events : e.type = "analysis_committed" /\ d \in e.refs
        BY <2>4 DEF FindingsAudited
      <4>2. \A e \in u.events : e.type = "analysis_committed" => e.refs \subseteq u.findings
        BY <2>5
      <4> QED
        BY <4>1, <4>2
    <3> QED
      BY <3>1
  <2>8. s.plan = t.plan
    <3>1. ASSUME NEW u \in {s, t}, NEW v \in {s, t}, u.plan # NoId PROVE v.plan = u.plan
      <4>1. PICK e \in u.events : e.type = "plan_committed" /\ e.plan = u.plan
        BY <2>4, <3>1 DEF FindingsAudited
      <4>2. e \in v.events /\ e.rev # 1
        BY <2>4, <4>1 DEF EventsAuthorised
      <4> QED
        BY <2>5, <4>1, <4>2
    <3> QED
      BY <3>1
  <2> QED
    BY <2>2, <2>3, <2>6, <2>7, <2>8 DEF Snapshot
<1> QED
  BY <1>2, <1>3

-----------------------------------------------------------------------------
(* Calls.                                                                   *)

(* The head of the case, and what leaves its evidence alone.                *)
LEMMA HeadFollows ==
  ASSUME VInv, log # <<>>
  PROVE  /\ Latest \in Snapshot /\ Len(log) \in Nat \ {0} /\ Good(Latest)
         /\ \A x \in Latest.evidence : x.source \in Nat /\ x.source < Len(log)
         /\ \A a \in Latest.acqs : Traced(a, log) /\ a.source <= Len(log)
         /\ \A t : Good(t) /\ t.evidence = Latest.evidence /\ t.acqs = Latest.acqs
                => Follows(t, Len(log), log)
<1>1. Latest \in Snapshot /\ Len(log) \in Nat \ {0}
  BY LatestType DEF VInv, TypeInv
<1>2. Follows(Latest, Len(log) - 1, log)
  BY <1>1 DEF VInv, LogValid, Latest
<1>3. /\ \A x \in Latest.evidence : x.source \in Nat
      /\ \A a \in Latest.acqs : a.source \in Nat
  BY <1>1 DEF Snapshot, Evidence, Acquisition
<1>4. \A k \in Nat : k <= Len(log) - 1 => k < Len(log) /\ k <= Len(log)
  BY <1>1
<1> QED
  BY <1>1, <1>2, <1>3, <1>4 DEF Follows

(* The step of a client that has not committed: what it is left holding may *)
(* follow its parent, and nothing but an adoption was refused as invalid.   *)
Checked(c) ==
  /\ log' = log
  /\ \A d \in Client \ {c} : pc'[d] = pc[d] /\ job'[d] = job[d]
  /\ \/ pc'[c] \notin {"commit", "analyse"}
     \/ /\ pc'[c] = "commit" /\ job'[c].parent \in 0..Len(log)
        /\ Follows(job'[c].next, job'[c].parent, log)
     \/ /\ pc'[c] = "analyse" /\ job'[c].refs # {}
        /\ job'[c].refs \subseteq log[job'[c].parent].evidence
  /\ reply'.status = "invalid" => reply'.op = "adopt"

(* What a reply says.                                                       *)
LEMMA ToldIs ==
  ASSUME NEW op, NEW req, NEW kind, NEW refs, NEW status, NEW commit
  PROVE  /\ Told(op, req, status, commit).status = status /\ Told(op, req, status, commit).op = op
         /\ AcquireTold(req, kind, status, commit).status = status
         /\ [Told(op, req, status, commit) EXCEPT !.refs = refs].status = status
         /\ NoReply.status # "invalid"
BY DEF Told, AcquireTold, NoReply

(* A call that is answered at once holds what it held ...                   *)
LEMMA AnswerChecks ==
  ASSUME VInv, NEW c \in Client, pc[c] = "idle", NEW r, r.status # "invalid",
         Answer(r), log' = log
  PROVE  Checked(c)
BY DEF Answer, Checked

(* ... and one that ends holds nothing.                                     *)
LEMMA EndChecks ==
  ASSUME VInv, NEW c \in Client, NEW status, status # "invalid", NEW commit,
         End(c, status, commit), log' = log
  PROVE  Checked(c)
<1>1. pc'[c] = "idle" /\ \A d \in Client \ {c} : pc'[d] = pc[d] /\ job'[d] = job[d]
  BY DEF End, VInv, TypeInv, TypeOK
<1>2. reply'.status # "invalid"
  BY ToldIs DEF End
<1> QED
  BY <1>1, <1>2 DEF Checked

(* A snapshot is submitted if it passes the validation, and it does.        *)
LEMMA SubmitChecks ==
  ASSUME VInv, NEW c \in Client, NEW op, NEW req, NEW parent \in 0..Len(log), NEW next,
         Valid(next) => Follows(next, parent, log), op # "adopt" => Valid(next),
         Submit(c, op, req, parent, next), log' = log
  PROVE  Checked(c)
<1>1. CASE Valid(next)
  <2> DEFINE j == [NoJob EXCEPT !.op = op, !.req = req, !.parent = parent, !.next = next]
  <2>1. pc' = [pc EXCEPT ![c] = "commit"] /\ job' = [job EXCEPT ![c] = j] /\ reply' = NoReply
    BY <1>1 DEF Submit
  <2>2. j.parent = parent /\ j.next = next
    BY DEF NoJob
  <2> HIDE DEF j
  <2>3. pc'[c] = "commit" /\ job'[c] = j
    BY <2>1 DEF VInv, TypeInv, TypeOK
  <2>4. \A d \in Client \ {c} : pc'[d] = pc[d] /\ job'[d] = job[d]
    BY <2>1 DEF VInv, TypeInv, TypeOK
  <2>5. reply'.status # "invalid"
    BY <2>1, ToldIs
  <2> QED
    BY <1>1, <2>2, <2>3, <2>4, <2>5 DEF Checked
<1>2. CASE ~Valid(next)
  <2>1. /\ pc' = [pc EXCEPT ![c] = "idle"] /\ job' = [job EXCEPT ![c] = NoJob]
        /\ reply' = Told(op, req, "invalid", 0) /\ op = "adopt"
    BY <1>2 DEF Submit
  <2>2. pc'[c] = "idle" /\ \A d \in Client \ {c} : pc'[d] = pc[d] /\ job'[d] = job[d]
    BY <2>1 DEF VInv, TypeInv, TypeOK
  <2>3. reply'.op = "adopt"
    BY <2>1, ToldIs
  <2> QED
    BY <2>2, <2>3 DEF Checked
<1> QED
  BY <1>1, <1>2

(* A move on the head of the case is submitted with a valid snapshot, or    *)
(* refused by the rules of the workflow.                                    *)
LEMMA MoveChecks ==
  ASSUME VInv, NEW c \in Client, log # <<>>, NEW op, op # "adopt",
         NEW u \in Snapshot, NEW e \in Event, NEW now \in Nat,
         u.events = Latest.events, u.evidence = Latest.evidence, u.acqs = Latest.acqs,
         u.consults = Latest.consults, u.rev = Latest.rev, u.at = Latest.at,
         e.prev = Latest.state, e.parent = Len(log),
         \/ /\ e.type = "analysis_committed" /\ e.refs # {} /\ e.refs \subseteq Latest.evidence
            /\ u.findings = Latest.findings \cup e.refs /\ u.plan = Latest.plan
         \/ /\ e.type = "plan_committed" /\ e.plan # NoId
            /\ u.findings = Latest.findings /\ u.plan = e.plan
         \/ /\ e.type \in {"case_failed", "case_cancelled"} /\ e.plan = Latest.plan
            /\ u.findings = Latest.findings /\ u.plan = Latest.plan
  PROVE  /\ Allowed(e) => Follows(Advance(u, e, now), Len(log), log) /\ Valid(Advance(u, e, now))
         /\ Move(c, op, u, e, now) => Checked(c)
<1>1. Latest \in Snapshot /\ Len(log) \in Nat \ {0} /\ Good(Latest)
  BY HeadFollows
<1>2. Len(log) \in 0..Len(log) /\ Len(log) # 0
  BY <1>1
<1>3. ASSUME Allowed(e)
      PROVE  Follows(Advance(u, e, now), Len(log), log) /\ Valid(Advance(u, e, now))
  <2> DEFINE v == Advance(u, e, now)
  <2>1. Latest.state # "none" /\ e.next # "none"
    BY <1>3 DEF Allowed, Transition
  <2>2. e.parent # 0
    BY <1>2
  <2>3. Good(v)
    BY <1>1, <1>3, <2>1, <2>2, MoveGood
  <2>4. \E f \in Event : Adds(v, u, e, f)
    BY AdvanceIs
  <2> HIDE DEF v
  <2>6. v.evidence = Latest.evidence /\ v.acqs = Latest.acqs /\ v.state = e.next
    BY <2>4 DEF Adds
  <2>5. Follows(v, Len(log), log) /\ Valid(v)
    BY <2>1, <2>3, <2>6, HeadFollows DEF Good
  <2> QED
    BY <2>5 DEF v
<1>4. ASSUME Move(c, op, u, e, now) PROVE Checked(c)
  <2>1. /\ pc[c] = "idle" /\ log' = log
        /\ \/ Answer(Told("workflow", NoId, Refusal(e), 0))
           \/ Allowed(e) /\ Submit(c, op, NoId, Len(log), Advance(u, e, now))
    BY <1>4 DEF Move
  <2>2. CASE Answer(Told("workflow", NoId, Refusal(e), 0))
    <3>1. Told("workflow", NoId, Refusal(e), 0).status = Refusal(e)
      BY ToldIs
    <3>2. Refusal(e) # "invalid"
      BY DEF Refusal
    <3> QED
      BY <2>1, <2>2, <3>1, <3>2, AnswerChecks
  <2>3. CASE Allowed(e) /\ Submit(c, op, NoId, Len(log), Advance(u, e, now))
    BY <1>2, <1>3, <2>1, <2>3, SubmitChecks
  <2> QED
    BY <2>1, <2>2, <2>3
<1> QED
  BY <1>3, <1>4

(* A new case is valid.                                                     *)
LEMMA CreateChecks ==
  ASSUME VInv, NEW c \in Client, NEW actor \in Actor, NEW now \in 0..MaxTime,
         CreateCase(c, actor, now)
  PROVE  Checked(c)
<1> DEFINE e == [NewEvent(c, "case_created", "created", "evidence_collected", actor, 0)
                   EXCEPT !.refs = Imported.evidence]
           v == Advance(Imported, e, now)
<1>1. /\ pc[c] = "idle" /\ log' = log
      /\ \/ Answer(Told("create", NoId, Refusal(e), 0))
         \/ Allowed(e) /\ Submit(c, "create", NoId, 0, v)
  BY DEF CreateCase
<1>2. Imported \in Snapshot /\ Imported.evidence \in SUBSET Evidence /\ now \in Nat
  BY EmptyTypes, CoordinatorAssumption DEF Snapshot
<1>3. e \in Event
  BY <1>2 DEF NewEvent, Event, States
<1>4. e.type = "case_created" /\ e.refs = Imported.evidence /\ e.parent = 0
  BY DEF NewEvent
<1> HIDE DEF e
<1>5. CASE Answer(Told("create", NoId, Refusal(e), 0))
  <2>1. Told("create", NoId, Refusal(e), 0).status = Refusal(e)
    BY ToldIs
  <2>2. Refusal(e) # "invalid"
    BY DEF Refusal
  <2> QED
    BY <1>1, <1>5, <2>1, <2>2, AnswerChecks
<1>6. CASE Allowed(e) /\ Submit(c, "create", NoId, 0, v)
  <2>1. Good(v)
    BY <1>2, <1>3, <1>4, <1>6, FirstGood
  <2>2. v.state = "evidence_collected"
    BY <1>2, <1>3, <1>4, <1>6, FirstSound
  <2>7. \E f \in Event : Adds(v, Imported, e, f)
    BY <1>2, <1>3, AdvanceIs
  <2> HIDE DEF v
  <2>3. v.evidence = Imported.evidence /\ v.acqs = Imported.acqs
    BY <2>7 DEF Adds
  <2>4. Follows(v, 0, log)
    BY <2>1, <2>3 DEF Follows, Imported, Initial
  <2>5. Valid(v)
    BY <2>1, <2>2 DEF Good
  <2>6. 0 \in 0..Len(log)
    BY DEF VInv, TypeInv, TypeOK
  <2> QED
    BY <1>1, <1>6, <2>4, <2>5, <2>6, SubmitChecks
<1> QED
  BY <1>1, <1>5, <1>6

(* An adoption that is not valid is refused; one that is opens a sound      *)
(* history, and that of an actor that may adopt is.                         *)
LEMMA AdoptChecks ==
  ASSUME VInv, NEW c \in Client, NEW actor \in Actor, NEW now \in 0..MaxTime,
         AdoptLegacyCase(c, actor, now)
  PROVE  /\ Checked(c)
         /\ MayEmit(actor, "legacy_case_adopted") => reply'.status # "invalid"
<1> DEFINE e == [NewEvent(c, "legacy_case_adopted", "none", "evidence_collected",
                          actor, Len(log)) EXCEPT !.refs = Latest.evidence]
           v == Advance(Latest, e, now)
<1>1. /\ pc[c] = "idle" /\ log' = log /\ log # <<>>
      /\ \/ Answer(Told("adopt", NoId, "transition", 0))
         \/ Latest.state = "none" /\ Submit(c, "adopt", NoId, Len(log), v)
  BY DEF AdoptLegacyCase
<1>2. /\ Latest \in Snapshot /\ Latest.evidence \in SUBSET Evidence /\ now \in Nat
      /\ Len(log) \in Nat \ {0} /\ Good(Latest)
  BY <1>1, HeadFollows, CoordinatorAssumption DEF Snapshot
<1>3. e \in Event
  BY <1>2 DEF NewEvent, Event, States
<1>4. e.type = "legacy_case_adopted" /\ e.prev = "none" /\ e.next = "evidence_collected"
      /\ e.actor = actor /\ e.refs = Latest.evidence /\ e.parent = Len(log)
  BY DEF NewEvent
<1> HIDE DEF e
<1>5. CASE Answer(Told("adopt", NoId, "transition", 0))
  <2>1. Told("adopt", NoId, "transition", 0).status # "invalid"
    BY ToldIs
  <2> QED
    BY <1>1, <1>5, <2>1, AnswerChecks DEF Answer
<1>6. CASE Latest.state = "none" /\ Submit(c, "adopt", NoId, Len(log), v)
  <2>1. Latest = Imported
    BY <1>2, <1>6 DEF Good
  <2>0. PICK f \in Event : Adds(v, Latest, e, f)
    BY <1>2, <1>3, AdvanceIs
  <2>2. /\ v.events = Latest.events \cup {f}
        /\ v.rev = Latest.rev + 1 /\ f.rev = Latest.rev + 1
        /\ v.at = f.at /\ f.at >= Latest.at
        /\ v.state = e.next
        /\ v.evidence = Latest.evidence
        /\ v.findings = Latest.findings
        /\ v.plan = Latest.plan
        /\ v.acqs = Latest.acqs
        /\ v.consults = Latest.consults
        /\ f.type = e.type /\ f.prev = e.prev /\ f.next = e.next /\ f.actor = e.actor
        /\ f.parent = e.parent /\ f.refs = e.refs /\ f.plan = e.plan
    BY <2>0 DEF Adds
  <2>3. ASSUME Valid(v) PROVE Follows(v, Len(log), log)
    <3>1. MayEmit(actor, "legacy_case_adopted")
      <4>1. EventsAuthorised(v)
        BY <1>4, <2>2, <2>3 DEF Valid
      <4>2. f \in v.events
        BY <2>2
      <4> HIDE DEF v
      <4> QED
        BY <1>4, <2>2, <4>1, <4>2 DEF EventsAuthorised
    <3>2. Allowed(e)
      BY <1>4, <3>1 DEF Allowed, Transition
    <3>3. Sound(v) /\ v.state = "evidence_collected"
      BY <1>2, <1>3, <1>4, <2>1, <3>2, FirstSound
    <3> HIDE DEF v
    <3>4. Good(v)
      BY <2>3, <3>3 DEF Good
    <3> QED
      BY <1>1, <2>2, <3>4, HeadFollows
  <2>4. Len(log) \in 0..Len(log)
    BY <1>2
  <2>5. MayEmit(actor, "legacy_case_adopted") => Valid(v)
    <3>1. SUFFICES ASSUME MayEmit(actor, "legacy_case_adopted") PROVE Valid(v)
      OBVIOUS
    <3>2. Allowed(e)
      BY <1>4, <3>1 DEF Allowed, Transition
    <3>3. Good(v) /\ v.state = "evidence_collected"
      BY <1>2, <1>3, <1>4, <2>1, <3>2, FirstGood, FirstSound
    <3> QED
      BY <3>3 DEF Good
  <2> HIDE DEF v
  <2>6. Valid(v) => reply'.status # "invalid"
    BY <1>6, ToldIs DEF Submit
  <2> QED
    BY <1>1, <1>6, <2>3, <2>4, <2>5, <2>6, SubmitChecks
<1> QED
  BY <1>1, <1>5, <1>6

(* Every operation of the workflow submits what is valid.                   *)
LEMMA WorkflowChecks ==
  ASSUME VInv, NEW c \in Client, Workflow(c)
  PROVE  Checked(c)
<1>1. CASE Stale(c)
  <2>1. PICK status \in {"notfound", "conflict"} : Answer(Told("workflow", NoId, status, 0))
    BY <1>1 DEF Stale
  <2>2. Told("workflow", NoId, status, 0).status # "invalid"
    BY ToldIs
  <2> QED
    BY <1>1, <2>1, <2>2, AnswerChecks DEF Stale
<1>2. ASSUME NEW actor \in Actor, NEW now \in 0..MaxTime, CommitAnalysis(c, actor, now)
      PROVE  Checked(c)
  <2>1. Latest \in Snapshot /\ Len(log) \in Nat /\ log # <<>> /\ now \in Nat
    BY <1>2, LatestType, CoordinatorAssumption DEF CommitAnalysis, VInv, TypeInv
  <2>2. PICK f \in Latest.evidence :
          Move(c, "analysis", [Latest EXCEPT !.findings = @ \cup {f}],
               [NewEvent(c, "analysis_committed", Latest.state, "analyzed", actor, Len(log))
                  EXCEPT !.refs = {f}], now)
    BY <1>2 DEF CommitAnalysis
  <2> DEFINE u == [Latest EXCEPT !.findings = @ \cup {f}]
             e == [NewEvent(c, "analysis_committed", Latest.state, "analyzed", actor, Len(log))
                     EXCEPT !.refs = {f}]
  <2>3. {f} \in SUBSET Evidence /\ Latest.state \in States \cup {"created"}
    BY <2>1, <2>2 DEF Snapshot
  <2>4. /\ u \in Snapshot /\ u.events = Latest.events /\ u.evidence = Latest.evidence
        /\ u.acqs = Latest.acqs /\ u.consults = Latest.consults /\ u.rev = Latest.rev
        /\ u.at = Latest.at /\ u.findings = Latest.findings \cup {f} /\ u.plan = Latest.plan
    BY <2>1, <2>3 DEF Snapshot
  <2>5. e \in Event
    BY <2>1, <2>3 DEF NewEvent, Event, States
  <2>6. /\ e.type = "analysis_committed" /\ e.refs = {f}
        /\ e.prev = Latest.state /\ e.parent = Len(log)
    BY DEF NewEvent
  <2>7. Move(c, "analysis", u, e, now)
    BY <2>2
  <2>8. e.refs # {} /\ e.refs \subseteq Latest.evidence
    BY <2>2, <2>6
  <2> HIDE DEF u, e
  <2> QED
    BY <2>1, <2>4, <2>5, <2>6, <2>7, <2>8, MoveChecks
<1>3. ASSUME NEW actor \in Actor, NEW now \in 0..MaxTime, CommitPlan(c, actor, now)
      PROVE  Checked(c)
  <2>1. Latest \in Snapshot /\ Len(log) \in Nat /\ log # <<>> /\ now \in Nat
    BY <1>3, LatestType, CoordinatorAssumption DEF CommitPlan, VInv, TypeInv
  <2>2. PICK p \in Plan :
          Move(c, "plan", [Latest EXCEPT !.plan = p],
               [NewEvent(c, "plan_committed", Latest.state, "plan_proposed", actor, Len(log))
                  EXCEPT !.plan = p], now)
    BY <1>3 DEF CommitPlan
  <2> DEFINE u == [Latest EXCEPT !.plan = p]
             e == [NewEvent(c, "plan_committed", Latest.state, "plan_proposed", actor, Len(log))
                     EXCEPT !.plan = p]
  <2>3. p # NoId /\ Latest.state \in States \cup {"created"}
    BY <2>1, <2>2, CoordinatorAssumption DEF Snapshot
  <2>4. /\ u \in Snapshot /\ u.events = Latest.events /\ u.evidence = Latest.evidence
        /\ u.acqs = Latest.acqs /\ u.consults = Latest.consults /\ u.rev = Latest.rev
        /\ u.at = Latest.at /\ u.findings = Latest.findings /\ u.plan = p
    BY <2>1, <2>2 DEF Snapshot
  <2>5. e \in Event
    BY <2>1, <2>2, <2>3 DEF NewEvent, Event, States
  <2>6. /\ e.type = "plan_committed" /\ e.plan = p
        /\ e.prev = Latest.state /\ e.parent = Len(log)
    BY DEF NewEvent
  <2>7. Move(c, "plan", u, e, now)
    BY <2>2
  <2> HIDE DEF u, e
  <2> QED
    BY <2>1, <2>3, <2>4, <2>5, <2>6, <2>7, MoveChecks
<1>4. ASSUME NEW actor \in Actor, NEW now \in 0..MaxTime,
             FailCase(c, actor, now) \/ CancelCase(c, actor, now)
      PROVE  Checked(c)
  <2> DEFINE fail == [NewEvent(c, "case_failed", Latest.state, "failed", actor, Len(log))
                        EXCEPT !.plan = Latest.plan]
             cancel == [NewEvent(c, "case_cancelled", Latest.state, "cancelled", actor, Len(log))
                          EXCEPT !.plan = Latest.plan]
  <2>1. Latest \in Snapshot /\ Len(log) \in Nat /\ log # <<>> /\ now \in Nat
    BY <1>4, LatestType, CoordinatorAssumption DEF FailCase, CancelCase, VInv, TypeInv
  <2>2. Latest.state \in States \cup {"created"} /\ Latest.plan \in Plan \cup {NoId}
    BY <2>1 DEF Snapshot
  <2>3. fail \in Event /\ cancel \in Event
    BY <2>1, <2>2 DEF NewEvent, Event, States
  <2>4. \A e \in {fail, cancel} :
          /\ e.type \in {"case_failed", "case_cancelled"} /\ e.plan = Latest.plan
          /\ e.prev = Latest.state /\ e.parent = Len(log)
    BY DEF NewEvent
  <2>5. Move(c, "failed", Latest, fail, now) \/ Move(c, "cancelled", Latest, cancel, now)
    BY <1>4 DEF FailCase, CancelCase
  <2> HIDE DEF fail, cancel
  <2>6. CASE Move(c, "failed", Latest, fail, now)
    BY <2>1, <2>3, <2>4, <2>6, MoveChecks
  <2>7. CASE Move(c, "cancelled", Latest, cancel, now)
    BY <2>1, <2>3, <2>4, <2>7, MoveChecks
  <2> QED
    BY <2>5, <2>6, <2>7
<1> QED
  BY <1>1, <1>2, <1>3, <1>4, CreateChecks, AdoptChecks DEF Workflow

(* Evidence acquired on the head is new to it: what was acquired before has *)
(* an earlier source.                                                       *)
LEMMA AcquireChecks ==
  ASSUME VInv, NEW c \in Client, NEW actor \in Actor, NEW req \in AcqReq, NEW kind \in Kinds,
         NEW expected \in Known, Acquire(c, actor, req, kind, expected)
  PROVE  Checked(c)
<1> DEFINE added == [kind |-> kind, source |-> expected]
           acq == [req |-> req, kind |-> kind, source |-> expected,
                   inputs |-> Latest.evidence, added |-> added, by |-> c]
           next == [Latest EXCEPT !.evidence = @ \cup {added}, !.acqs = @ \cup {acq}]
<1>1. /\ pc[c] = "idle" /\ log' = log /\ log # <<>> /\ OpenForEvidence(Latest)
      /\ \A a \in Latest.acqs : a.req # req
      /\ \/ Answer(AcquireTold(req, kind, "conflict", 0))
         \/ expected = Len(log) /\ Submit(c, "acquire", req, expected, next)
  BY DEF Acquire
<1>2. /\ Latest \in Snapshot /\ Len(log) \in Nat \ {0} /\ Good(Latest)
      /\ \A x \in Latest.evidence : x.source \in Nat /\ x.source < Len(log)
      /\ \A a \in Latest.acqs : Traced(a, log) /\ a.source <= Len(log)
  BY <1>1, HeadFollows
<1>3. /\ acq.req = req /\ acq.source = expected /\ acq.inputs = Latest.evidence
      /\ acq.added = added /\ added.source = expected
  OBVIOUS
<1>4. /\ next.events = Latest.events /\ next.rev = Latest.rev /\ next.at = Latest.at
      /\ next.state = Latest.state /\ next.findings = Latest.findings
      /\ next.plan = Latest.plan /\ next.consults = Latest.consults
      /\ next.evidence = Latest.evidence \cup {added}
      /\ next.acqs = Latest.acqs \cup {acq}
  BY <1>2 DEF Snapshot
<1> HIDE DEF next, acq, added
<1>5. CASE Answer(AcquireTold(req, kind, "conflict", 0))
  <2>1. AcquireTold(req, kind, "conflict", 0).status # "invalid"
    BY ToldIs
  <2> QED
    BY <1>1, <1>5, <2>1, AnswerChecks
<1>6. CASE expected = Len(log) /\ Submit(c, "acquire", req, expected, next)
  <2>1. Latest.state # "none"
    BY <1>1 DEF OpenForEvidence
  <2>2. added \notin Latest.evidence
    <3>1. \A x \in Latest.evidence : x.source # Len(log)
      BY <1>2
    <3> QED
      BY <1>3, <1>6, <3>1
  <2>3. OriginsUnique(Latest)
    BY <1>2, <2>1 DEF Good, Valid
  <2>4. OriginsUnique(next)
    <3>1. \A a \in Latest.acqs : a.req # acq.req /\ a.added # acq.added
      BY <1>1, <1>3, <2>2, <2>3 DEF OriginsUnique
    <3> QED
      BY <1>3, <1>4, <2>3, <3>1 DEF OriginsUnique
  <2>5. next.evidence \ Acquired(next) = Latest.evidence \ Acquired(Latest)
    <3>1. Acquired(next) = Acquired(Latest) \cup {added}
      BY <1>3, <1>4 DEF Acquired
    <3> QED
      BY <1>4, <2>2, <3>1
  <2>6. Good(next)
    BY <1>2, <1>4, <2>1, <2>4, <2>5, EnrichGood
  <2>7. Traced(acq, log)
    <3>1. Len(log) \in 1..Len(log)
      BY <1>2
    <3> QED
      BY <1>3, <1>6, <2>2, <3>1 DEF Traced, Latest
  <2>8. Len(log) <= Len(log) /\ Len(log) \in 0..Len(log)
    BY <1>2
  <2>9. \A x \in Latest.evidence : x.source <= Len(log)
    BY <1>2
  <2>10. Follows(next, Len(log), log)
    BY <1>2, <1>3, <1>4, <1>6, <2>6, <2>7, <2>8, <2>9 DEF Follows
  <2>11. Valid(next)
    BY <1>4, <2>1, <2>6 DEF Good
  <2> QED
    BY <1>1, <1>6, <2>8, <2>10, <2>11, SubmitChecks
<1> QED
  BY <1>1, <1>5, <1>6

(* A consultation is recorded under a request of its own.                   *)
LEMMA ConsultChecks ==
  ASSUME VInv, NEW c \in Client, NEW actor \in Actor, NEW req \in ConsultReq, NEW body \in Body,
         NEW source \in Known \cup {0}, NEW expected \in Known,
         Consult(c, actor, req, body, source, expected)
  PROVE  Checked(c)
<1> DEFINE cons == [req |-> req, body |-> body,
                    source |-> IF source = 0 THEN Len(log) ELSE source]
           recorded == {x \in Latest.consults : x.req = req}
           next == [Latest EXCEPT !.consults = @ \cup {cons}]
<1>1. pc[c] = "idle" /\ log' = log /\ log # <<>>
  BY DEF Consult
<1>2. Latest \in Snapshot /\ Len(log) \in Nat \ {0} /\ Good(Latest)
  BY <1>1, HeadFollows
<1>3. \/ \E status \in {"actor", "transition", "idempotent", "duplicate", "conflict"},
            commit \in Nat : Answer(Told("consult", req, status, commit))
      \/ /\ Latest.state = "analyzed" /\ recorded = {} /\ expected = Len(log)
         /\ Submit(c, "consult", req, expected, next)
  <2>1. 0 \in Nat /\ Len(log) \in Nat
    BY <1>2
  <2> HIDE DEF next
  <2>2. CASE actor = "deterministic_analyzer" \/ Latest.state # "analyzed"
    <3>1. PICK status \in {"actor", "transition"} : Answer(Told("consult", req, status, 0))
      BY <2>2 DEF Consult
    <3> QED
      BY <2>1, <3>1
  <2>3. CASE ~(actor = "deterministic_analyzer" \/ Latest.state # "analyzed")
    <3>1. \/ Answer(Told("consult", req, "idempotent", Len(log)))
          \/ Answer(Told("consult", req, "duplicate", 0))
          \/ Answer(Told("consult", req, "conflict", 0))
          \/ /\ recorded = {} /\ expected = Len(log)
             /\ Submit(c, "consult", req, expected, next)
      BY <2>3 DEF Consult, next
    <3> QED
      BY <2>1, <2>3, <3>1
  <2> QED
    BY <2>2, <2>3
<1>4. /\ next.events = Latest.events /\ next.rev = Latest.rev /\ next.at = Latest.at
      /\ next.state = Latest.state /\ next.findings = Latest.findings
      /\ next.plan = Latest.plan /\ next.evidence = Latest.evidence
      /\ next.acqs = Latest.acqs /\ next.consults = Latest.consults \cup {cons}
  BY <1>2 DEF Snapshot
<1>5. cons.req = req
  OBVIOUS
<1> HIDE DEF next, cons
<1>6. ASSUME NEW status \in {"actor", "transition", "idempotent", "duplicate", "conflict"},
             NEW commit, Answer(Told("consult", req, status, commit))
      PROVE  Checked(c)
  <2>1. Told("consult", req, status, commit).status # "invalid"
    BY ToldIs
  <2> QED
    BY <1>1, <1>6, <2>1, AnswerChecks
<1>7. CASE /\ Latest.state = "analyzed" /\ recorded = {} /\ expected = Len(log)
           /\ Submit(c, "consult", req, expected, next)
  <2>1. OriginsUnique(Latest)
    BY <1>2, <1>7 DEF Good, Valid
  <2>2. \A x \in Latest.consults : x.req # cons.req
    BY <1>5, <1>7
  <2>3. OriginsUnique(next)
    BY <1>4, <2>1, <2>2 DEF OriginsUnique
  <2>4. Acquired(next) = Acquired(Latest)
    BY <1>4 DEF Acquired
  <2>5. Good(next)
    BY <1>2, <1>4, <1>7, <2>3, <2>4, EnrichGood
  <2>6. Follows(next, Len(log), log)
    BY <1>1, <1>4, <2>5, HeadFollows
  <2>7. Valid(next)
    BY <1>4, <1>7, <2>5 DEF Good
  <2>8. Len(log) \in 0..Len(log)
    BY <1>2
  <2> QED
    BY <1>1, <1>7, <2>6, <2>7, <2>8, SubmitChecks
<1> QED
  BY <1>3, <1>6, <1>7

(* New evidence and new consultations are submitted valid.                  *)
LEMMA EnrichChecks ==
  ASSUME VInv, NEW c \in Client, Enrich(c)
  PROVE  Checked(c)
<1>1. ASSUME NEW actor \in Actor, NEW req \in AcqReq, NEW kind \in Kinds,
             AcquireRefused(c, actor, req, kind) \/ AcquireAgain(c, actor, req, kind)
      PROVE  Checked(c)
  <2>1. /\ pc[c] = "idle" /\ log' = log
        /\ \E status \in {"actor", "notfound", "transition", "idempotent", "duplicate"} :
             \E commit : Answer(AcquireTold(req, kind, status, commit))
    BY <1>1 DEF AcquireRefused, AcquireAgain
  <2>2. PICK status \in {"actor", "notfound", "transition", "idempotent", "duplicate"} :
          \E commit : Answer(AcquireTold(req, kind, status, commit))
    BY <2>1
  <2>3. PICK commit : Answer(AcquireTold(req, kind, status, commit))
    BY <2>2
  <2>4. AcquireTold(req, kind, status, commit).status # "invalid"
    BY ToldIs
  <2> QED
    BY <2>1, <2>3, <2>4, AnswerChecks
<1> QED
  BY <1>1, AcquireChecks, ConsultChecks DEF Enrich

(* A refusal of whatever is malformed is not one of the validation.         *)
LEMMA RefusedChecks ==
  ASSUME VInv, NEW c \in Client, Refused(c)
  PROVE  Checked(c)
<1>1. PICK op \in Ops, req \in Request : RefusedAtOnce(c, op, req)
  BY DEF Refused
<1>2. PICK status \in {"failed", "argument"} : Answer(Told(op, req, status, 0))
  BY <1>1 DEF RefusedAtOnce
<1>3. Told(op, req, status, 0).status # "invalid"
  BY ToldIs
<1> QED
  BY <1>1, <1>2, <1>3, AnswerChecks DEF RefusedAtOnce

(* The Boot Doctor holds a topology of the head while it analyses ...       *)
LEMMA StartBootDoctorChecks ==
  ASSUME VInv, NEW c \in Client, NEW actor \in Actor, NEW req \in BootReq,
         NEW pinned \in BOOLEAN, NEW command \in Command \cup {NoId}, NEW expected \in Known,
         StartBootDoctor(c, actor, req, command, pinned, expected)
  PROVE  Checked(c)
<1>1. pc[c] = "idle" /\ log' = log
  BY DEF StartBootDoctor
<1>2. PICK topology \in Selected(Latest, pinned) :
        \/ Answer(Told("boot", req, "conflict", 0))
        \/ /\ expected = Len(log)
           /\ pc' = [pc EXCEPT ![c] = "analyse"]
           /\ job' = [job EXCEPT ![c] =
                [NoJob EXCEPT !.op = "boot", !.req = req, !.parent = expected,
                   !.refs = {topology}, !.pinned = pinned, !.actor = actor,
                   !.command = command]]
           /\ reply' = NoReply
  BY DEF StartBootDoctor
<1> DEFINE j == [NoJob EXCEPT !.op = "boot", !.req = req, !.parent = expected,
                   !.refs = {topology}, !.pinned = pinned, !.actor = actor,
                   !.command = command]
<1>3. CASE Answer(Told("boot", req, "conflict", 0))
  <2>1. Told("boot", req, "conflict", 0).status # "invalid"
    BY ToldIs
  <2> QED
    BY <1>1, <1>3, <2>1, AnswerChecks
<1>4. CASE /\ expected = Len(log) /\ pc' = [pc EXCEPT ![c] = "analyse"]
           /\ job' = [job EXCEPT ![c] = j] /\ reply' = NoReply
  <2>1. j.parent = expected /\ j.refs = {topology}
    BY DEF NoJob
  <2>2. topology \in Latest.evidence
    BY DEF Selected, DefaultTopology, Topologies
  <2> HIDE DEF j
  <2>3. /\ pc'[c] = "analyse" /\ job'[c] = j
        /\ \A d \in Client \ {c} : pc'[d] = pc[d] /\ job'[d] = job[d]
    BY <1>4 DEF VInv, TypeInv, TypeOK
  <2>4. job'[c].refs # {} /\ job'[c].refs \subseteq log[job'[c].parent].evidence
    BY <1>4, <2>1, <2>2, <2>3 DEF Latest
  <2>5. reply'.status # "invalid"
    BY <1>4, ToldIs
  <2> QED
    BY <1>1, <2>3, <2>4, <2>5 DEF Checked
<1> QED
  BY <1>2, <1>3, <1>4

(* ... and adds a finding about it, if the head still is the same.          *)
LEMMA FinishBootDoctorChecks ==
  ASSUME VInv, NEW c \in Client, NEW now \in 0..MaxTime, FinishBootDoctor(c, now)
  PROVE  Checked(c)
<1> DEFINE j == job[c]
           cmd == IF j.command = NoId THEN j.req ELSE j.command
           e == [NewEvent(c, "analysis_committed", Latest.state, "analyzed", j.actor, j.parent)
                   EXCEPT !.refs = j.refs, !.command = cmd]
           s == [Latest EXCEPT !.findings = @ \cup j.refs]
<1>1. /\ pc[c] = "analyse" /\ log' = log
      /\ \/ End(c, "conflict", 0)
         \/ End(c, Refusal(e), 0)
         \/ /\ j.parent = Len(log) /\ Allowed(e)
            /\ Submit(c, "boot", j.req, j.parent, Advance(s, e, now))
  BY DEF FinishBootDoctor
<1>2. /\ j \in Job /\ j.req \in BootReq /\ j.actor \in Actor
      /\ j.parent \in Nat /\ log # <<>>
  BY <1>1 DEF VInv, TypeInv, TypeOK, JobTyped
<1>3. j.refs \in SUBSET Evidence /\ cmd \in Command \cup BootReq \cup {NoId}
  BY <1>2 DEF Job
<1>4. Latest \in Snapshot /\ Len(log) \in Nat \ {0} /\ now \in Nat
  BY <1>2, LatestType, CoordinatorAssumption DEF VInv, TypeInv
<1>5. Latest.state \in States \cup {"created"} /\ "analyzed" \in States
  BY <1>4 DEF Snapshot, States
<1>6. e \in Event
  BY <1>2, <1>3, <1>5 DEF NewEvent, Event
<1>7. /\ e.prev = Latest.state /\ e.parent = j.parent
      /\ e.type = "analysis_committed" /\ e.refs = j.refs
  BY DEF NewEvent
<1>8. /\ s \in Snapshot /\ s.events = Latest.events /\ s.evidence = Latest.evidence
      /\ s.acqs = Latest.acqs /\ s.consults = Latest.consults /\ s.rev = Latest.rev
      /\ s.at = Latest.at /\ s.findings = Latest.findings \cup j.refs /\ s.plan = Latest.plan
  BY <1>3, <1>4 DEF Snapshot
<1>9. j.refs # {} /\ j.refs \subseteq log[j.parent].evidence
  BY <1>1 DEF VInv, JobValid
<1> HIDE DEF e, s, cmd, j
<1>10. CASE End(c, "conflict", 0)
  BY <1>1, <1>10, EndChecks
<1>11. CASE End(c, Refusal(e), 0)
  <2>1. Refusal(e) # "invalid"
    BY DEF Refusal
  <2> QED
    BY <1>1, <1>11, <2>1, EndChecks
<1>12. CASE /\ j.parent = Len(log) /\ Allowed(e)
            /\ Submit(c, "boot", j.req, j.parent, Advance(s, e, now))
  <2>1. e.refs # {} /\ e.refs \subseteq Latest.evidence /\ e.parent = Len(log)
    BY <1>7, <1>9, <1>12 DEF Latest
  <2>2. Follows(Advance(s, e, now), Len(log), log) /\ Valid(Advance(s, e, now))
    <3>1. "boot" # "adopt"
      OBVIOUS
    <3> QED
      BY <1>2, <1>4, <1>6, <1>7, <1>8, <1>12, <2>1, <3>1, MoveChecks
  <2>3. Len(log) \in 0..Len(log)
    BY <1>4
  <2> QED
    BY <1>1, <1>12, <2>2, <2>3, SubmitChecks
<1> QED
  BY <1>1, <1>10, <1>11, <1>12

(* So do all its steps.                                                     *)
LEMMA BootDoctorChecks ==
  ASSUME VInv, NEW c \in Client, BootDoctor(c)
  PROVE  Checked(c)
<1>1. ASSUME NEW actor \in Actor, NEW req \in BootReq, BootDoctorRefused(c, actor, req)
      PROVE  Checked(c)
  <2>1. PICK status \in {"actor", "missing"} : Answer(Told("boot", req, status, 0))
    BY <1>1 DEF BootDoctorRefused
  <2>2. Told("boot", req, status, 0).status # "invalid"
    BY ToldIs
  <2> QED
    BY <1>1, <2>1, <2>2, AnswerChecks DEF BootDoctorRefused
<1>2. ASSUME NEW actor \in Actor, NEW req \in BootReq, NEW pinned \in BOOLEAN,
             BootDoctorAgain(c, actor, req, pinned)
      PROVE  Checked(c)
  <2>1. PICK topology \in Selected(Latest, pinned) :
          \/ Answer([Told("boot", req, "idempotent", Len(log)) EXCEPT !.refs = {topology}])
          \/ Answer(Told("boot", req, "duplicate", 0))
    BY <1>2 DEF BootDoctorAgain
  <2>2. /\ [Told("boot", req, "idempotent", Len(log)) EXCEPT !.refs = {topology}].status # "invalid"
        /\ Told("boot", req, "duplicate", 0).status # "invalid"
    BY ToldIs
  <2> QED
    BY <1>2, <2>1, <2>2, AnswerChecks DEF BootDoctorAgain
<1> QED
  BY <1>1, <1>2, StartBootDoctorChecks, FinishBootDoctorChecks DEF BootDoctor

(* Every call, up to its commit.                                            *)
LEMMA CallChecks ==
  ASSUME VInv, NEW c \in Client, Workflow(c) \/ Enrich(c) \/ BootDoctor(c) \/ Refused(c)
  PROVE  Checked(c)
BY WorkflowChecks, EnrichChecks, BootDoctorChecks, RefusedChecks

(* It changes nothing that other calls rest on.                             *)
LEMMA CheckedKeeps ==
  ASSUME VInv, NEW c \in Client, Checked(c)
  PROVE  LogValid' /\ JobValid'
<1>1. log' = log
  BY DEF Checked
<1>2. LogValid'
  BY <1>1 DEF VInv, LogValid, Follows, Traced
<1>3. ASSUME NEW d \in Client
      PROVE  /\ pc'[d] = "commit" => /\ job'[d].parent \in 0..Len(log)
                                     /\ Follows(job'[d].next, job'[d].parent, log)
             /\ pc'[d] = "analyse" => /\ job'[d].refs # {}
                                      /\ job'[d].refs \subseteq log[job'[d].parent].evidence
  <2>1. CASE d = c
    BY <2>1 DEF Checked
  <2>2. CASE d # c
    BY <2>2 DEF Checked, VInv, JobValid
  <2> QED
    BY <2>1, <2>2
<1>4. JobValid'
  BY <1>1, <1>3 DEF JobValid, Follows, Traced
<1> QED
  BY <1>2, <1>4

(* A call that ends, or that only waits for its answer, leaves the others   *)
(* as they are.                                                             *)
LEMMA OverKeeps ==
  ASSUME VInv, NEW c \in Client, log' = log, pc'[c] \in {"idle", "returning"},
         \A d \in Client \ {c} : pc'[d] = pc[d] /\ job'[d] = job[d]
  PROVE  LogValid' /\ JobValid'
<1>1. LogValid'
  BY DEF VInv, LogValid, Follows, Traced
<1>2. JobValid'
  BY DEF VInv, JobValid, Follows, Traced
<1> QED
  BY <1>1, <1>2

(* So does one that is answered.                                            *)
LEMMA EndedKeeps ==
  ASSUME VInv, NEW c \in Client, NEW status, NEW commit, End(c, status, commit), log' = log
  PROVE  LogValid' /\ JobValid'
<1>1. pc'[c] = "idle" /\ \A d \in Client \ {c} : pc'[d] = pc[d] /\ job'[d] = job[d]
  BY DEF End, VInv, TypeInv, TypeOK
<1> QED
  BY <1>1, OverKeeps

(* What may stand after a commit still may when the log has grown, or was   *)
(* cut no shorter than that commit.                                         *)
LEMMA FollowsStays ==
  ASSUME NEW chain, NEW other, Len(chain) \in Nat, Len(other) \in Nat,
         NEW s, NEW n \in Nat, Follows(s, n, chain), n <= Len(other),
         \A i \in 1..Len(chain) : i <= n => other[i] = chain[i]
  PROVE  Follows(s, n, other)
<1>1. ASSUME NEW a \in s.acqs PROVE Traced(a, other)
  <2>1. /\ a.source \in 1..Len(chain) /\ a.source <= n
        /\ a.inputs \subseteq chain[a.source].evidence
        /\ a.added \notin chain[a.source].evidence
    BY DEF Follows, Traced
  <2>2. a.source \in 1..Len(other) /\ other[a.source] = chain[a.source]
    BY <2>1
  <2> QED
    BY <2>1, <2>2 DEF Traced
<1> QED
  BY <1>1 DEF Follows

(* The commit point: the head is the parent, so the new entry follows it.   *)
LEMMA PublishChecks ==
  ASSUME VInv, NEW c \in Client, Publish(c)
  PROVE  LogValid' /\ JobValid'
<1>1. /\ log \in Seq(Snapshot) /\ Len(log) \in Nat /\ job[c] \in Job
      /\ pc[c] = "commit" /\ job[c].next \in Snapshot /\ job[c].parent = Len(log)
  BY DEF Publish, VInv, TypeInv, TypeOK, Job
<1>2. log' = Append(log, job[c].next)
  BY DEF Publish, Store!AppendSnapshot
<1>3. /\ Len(log') = Len(log) + 1 /\ log'[Len(log) + 1] = job[c].next
      /\ \A i \in 1..Len(log) : log'[i] = log[i]
  BY <1>1, <1>2, AppendProperties
<1>4. ASSUME NEW s, NEW n \in 0..Len(log), Follows(s, n, log) PROVE Follows(s, n, log')
  <2>1. n \in Nat /\ n <= Len(log') /\ Len(log') \in Nat
    BY <1>1, <1>3
  <2> QED
    BY <1>1, <1>3, <1>4, <2>1, FollowsStays
<1>5. LogValid'
  <2>1. SUFFICES ASSUME NEW i \in 1..Len(log) + 1 PROVE Follows(log'[i], i - 1, log')
    BY <1>3 DEF LogValid
  <2>2. i - 1 \in 0..Len(log) /\ (i \in 1..Len(log) \/ i = Len(log) + 1)
    BY <1>1
  <2>3. Follows(log'[i], i - 1, log)
    <3>1. CASE i \in 1..Len(log)
      BY <1>3, <3>1 DEF VInv, LogValid
    <3>2. CASE i = Len(log) + 1
      <4>1. i - 1 = Len(log)
        BY <1>1, <3>2
      <4>2. Follows(job[c].next, Len(log), log)
        BY <1>1 DEF VInv, JobValid
      <4> QED
        BY <1>3, <3>2, <4>1, <4>2
    <3> QED
      BY <2>2, <3>1, <3>2
  <2> QED
    BY <1>4, <2>2, <2>3
<1>6. JobValid'
  <2>1. /\ pc'[c] = "published"
        /\ \A d \in Client \ {c} : pc'[d] = pc[d] /\ job'[d] = job[d]
    BY DEF Publish, VInv, TypeInv, TypeOK
  <2>2. SUFFICES ASSUME NEW d \in Client \ {c}
                 PROVE  /\ pc[d] = "commit" => /\ job[d].parent \in 0..Len(log')
                                               /\ Follows(job[d].next, job[d].parent, log')
                        /\ pc[d] = "analyse" =>
                             /\ job[d].refs # {}
                             /\ job[d].refs \subseteq log'[job[d].parent].evidence
    BY <2>1 DEF JobValid
  <2>3. CASE pc[d] = "commit"
    <3>1. job[d].parent \in 0..Len(log) /\ Follows(job[d].next, job[d].parent, log)
      BY <2>3 DEF VInv, JobValid
    <3>2. job[d].parent \in 0..Len(log')
      BY <1>1, <1>3, <3>1
    <3> QED
      BY <1>4, <2>3, <3>1, <3>2
  <2>4. CASE pc[d] = "analyse"
    <3>1. job[d].parent \in 1..Len(log)
      BY <2>4 DEF VInv, TypeInv, JobTyped
    <3> QED
      BY <1>3, <2>4, <3>1 DEF VInv, JobValid
  <2> QED
    BY <2>3, <2>4
<1> QED
  BY <1>5, <1>6

(* The steps of a commit: none of them refuses a snapshot as invalid.       *)
LEMMA CommitChecks ==
  ASSUME VInv, NEW c \in Client, Commit(c)
  PROVE  LogValid' /\ JobValid' /\ reply'.status # "invalid"
<1>1. CASE Publish(c)
  <2>1. reply' = NoReply
    BY <1>1 DEF Publish
  <2> QED
    BY <1>1, <2>1, PublishChecks, ToldIs
<1>2. CASE Committed(c) \/ CommittedBefore(c)
  <2>1. /\ log' = log /\ pc'[c] = "returning" /\ reply' = NoReply
        /\ \A d \in Client \ {c} : pc'[d] = pc[d] /\ job'[d] = job[d]
    BY <1>2 DEF Committed, CommittedBefore, Store!Acknowledge, VInv, TypeInv, TypeOK
  <2> QED
    BY <2>1, OverKeeps, ToldIs
<1>3. CASE \/ Return(c) \/ CommitRefused(c) \/ CommitLocked(c) \/ CallFails(c)
           \/ OutcomeUnknown(c)
  <2>1. PICK status \in {"ok", "exists", "conflict", "busy", "failed", "unknown"} :
          log' = log /\ \E commit : End(c, status, commit)
    BY <1>3 DEF Return, CommitRefused, CommitLocked, CallFails, OutcomeUnknown
  <2>2. PICK commit : End(c, status, commit)
    BY <2>1
  <2>3. reply'.status = status
    BY <2>2, ToldIs DEF End
  <2> QED
    BY <2>1, <2>2, <2>3, EndedKeeps
<1>4. CASE Crash(c)
  <2>1. /\ log' = log /\ pc'[c] = "idle" /\ reply' = NoReply
        /\ \A d \in Client \ {c} : pc'[d] = pc[d] /\ job'[d] = job[d]
    BY <1>4 DEF Crash, VInv, TypeInv, TypeOK
  <2> QED
    BY <2>1, OverKeeps, ToldIs
<1> QED
  BY <1>1, <1>2, <1>3, <1>4 DEF Commit

(* What a power loss leaves is a prefix, in which every entry still follows *)
(* the ones before it.                                                      *)
LEMMA PowerLossChecks ==
  ASSUME VInv, PowerLoss
  PROVE  LogValid' /\ JobValid' /\ reply'.status # "invalid"
<1>1. PICK n \in safe..Len(log) : log' = SubSeq(log, 1, n)
  BY DEF PowerLoss, Store!Lose
<1>2. log \in Seq(Snapshot) /\ safe \in 0..Len(log) /\ Len(log) \in Nat
  BY DEF VInv, TypeInv, TypeOK
<1>3. n \in Nat /\ n <= Len(log) /\ \A i \in 1..n : log[i] \in Snapshot
  BY <1>2
<1>4. Len(log') = n /\ \A i \in 1..n : log'[i] = log[i]
  BY <1>1, <1>3, SubSeqProperties
<1>5. LogValid'
  <2>1. SUFFICES ASSUME NEW i \in 1..n PROVE Follows(log'[i], i - 1, log')
    BY <1>4 DEF LogValid
  <2>2. i \in 1..Len(log) /\ i - 1 \in Nat /\ i - 1 <= n
    BY <1>3
  <2>3. \A k \in 1..Len(log) : k <= i - 1 => log'[k] = log[k]
    BY <1>3, <1>4, <2>2
  <2>4. Follows(log[i], i - 1, log)
    BY <2>2 DEF VInv, LogValid
  <2>5. Follows(log[i], i - 1, log')
    BY <1>2, <1>3, <1>4, <2>2, <2>3, <2>4, FollowsStays
  <2> QED
    BY <1>4, <2>5
<1>6. JobValid'
  BY DEF PowerLoss, JobValid
<1>7. reply'.status # "invalid"
  BY ToldIs DEF PowerLoss
<1> QED
  BY <1>5, <1>6, <1>7

-----------------------------------------------------------------------------
(* The invariant is inductive.                                              *)
LEMMA VInvInductive ==
  /\ Init => VInv
  /\ VInv /\ [Next]_vars => VInv'
<1>1. ASSUME Init PROVE VInv
  <2>1. LogValid
    <3>1. ASSUME NEW i \in 1..Len(log) PROVE i = 1 /\ log[i] = Imported
      BY <1>1 DEF Init
    <3>2. Follows(Imported, 0, log)
      BY DEF Follows, Good, Imported, Initial
    <3> QED
      BY <3>1, <3>2 DEF LogValid
  <2>2. JobValid
    BY <1>1 DEF Init, JobValid
  <2> QED
    BY <1>1, <2>1, <2>2, TypeInvInductive DEF VInv
<1>2. ASSUME VInv, [Next]_vars PROVE VInv'
  <2>1. TypeInv'
    BY <1>2, TypeInvInductive DEF VInv
  <2>2. CASE UNCHANGED vars
    BY <1>2, <2>1, <2>2 DEF vars, VInv, LogValid, JobValid, Follows, Traced
  <2>3. ASSUME NEW c \in Client, Workflow(c) \/ Enrich(c) \/ BootDoctor(c) \/ Refused(c)
        PROVE  LogValid' /\ JobValid'
    BY <1>2, <2>3, CallChecks, CheckedKeeps
  <2>4. ASSUME NEW c \in Client, Commit(c)
        PROVE  LogValid' /\ JobValid'
    BY <1>2, <2>4, CommitChecks
  <2>5. CASE PowerLoss
    BY <1>2, <2>1, <2>5, PowerLossChecks DEF VInv
  <2> QED
    BY <1>2, <2>1, <2>2, <2>3, <2>4, <2>5 DEF Next, Call, VInv
<1> QED
  BY <1>1, <1>2

(* Every snapshot of the case, and every one that is about to be committed, *)
(* passes the validation of the case store.                                 *)
THEOREM ValidityInductive == Spec => []VInv
BY VInvInductive, PTL DEF Spec

(* The validator never stops what the coordinator built, but for an         *)
(* adoption that was claimed by an actor that may not adopt; and the        *)
(* provenance check of a commit always passes.                              *)
THEOREM NeverRefused == Spec => NeverInvalid
<1> DEFINE Granted == \E c \in Client, actor \in Actor, now \in 0..MaxTime :
                        MayEmit(actor, "legacy_case_adopted") /\ AdoptLegacyCase(c, actor, now)
<1>1. ASSUME VInv, [Next]_vars
      PROVE  [/\ reply'.status = "invalid" => reply'.op = "adopt" /\ ~Granted
              /\ \A c \in Client : pc[c] = "commit" /\ job[c].parent = Len(log)
                   => Provenance(job[c].next, log)]_vars
  <2>1. SUFFICES ASSUME Next
                 PROVE  /\ reply'.status = "invalid" => reply'.op = "adopt" /\ ~Granted
                        /\ \A c \in Client : pc[c] = "commit" /\ job[c].parent = Len(log)
                             => Provenance(job[c].next, log)
    BY <1>1
  <2>2. reply'.status = "invalid" => reply'.op = "adopt"
    <3>1. ASSUME NEW c \in Client, Workflow(c) \/ Enrich(c) \/ BootDoctor(c) \/ Refused(c)
          PROVE  reply'.status = "invalid" => reply'.op = "adopt"
      BY <1>1, <3>1, CallChecks DEF Checked
    <3>2. ASSUME NEW c \in Client, Commit(c) PROVE reply'.status # "invalid"
      BY <1>1, <3>2, CommitChecks
    <3>3. CASE PowerLoss
      BY <1>1, <3>3, PowerLossChecks
    <3> QED
      BY <2>1, <3>1, <3>2, <3>3 DEF Next, Call
  <2>3. Granted => reply'.status # "invalid"
    BY <1>1, AdoptChecks
  <2>4. ASSUME NEW c \in Client, pc[c] = "commit"
        PROVE  Provenance(job[c].next, log)
    BY <1>1, <2>4 DEF VInv, JobValid, Follows, Traced, Provenance
  <2> QED
    BY <2>2, <2>3, <2>4
<1> QED
  BY <1>1, ValidityInductive, PTL DEF Spec, NeverInvalid
==============================================================================
