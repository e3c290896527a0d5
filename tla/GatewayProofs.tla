---------------------------- MODULE GatewayProofs ----------------------------
(***************************************************************************)
(* Proofs about Gateway, for any clients, devices, limits, lifetimes and   *)
(* any policy: the types, the limits, the way of a job, the discarding of  *)
(* report context, and that a client gets its own result.                  *)
(***************************************************************************)
EXTENDS Gateway, FiniteSetTheorems, TLAPS

-----------------------------------------------------------------------------
(* The data.                                                                *)

(* The values that stand for nothing are values.                            *)
LEMMA Nothing == /\ NoRequest \in Request /\ NoAssessment \in Assessment
                 /\ NoResponse \in Response /\ NoClient \in ClientState
<1>1. NoRequest \in Request
  BY DEF NoRequest, Request
<1>2. NoAssessment \in Assessment
  BY PolicyAssumption DEF NoAssessment, Assessment
<1>3. NoResponse \in Response
  BY <1>2, GatewayAssumption DEF NoResponse, Response, Status
<1>4. NoClient \in ClientState
  BY <1>1, <1>3, GatewayAssumption DEF NoClient, ClientState
<1> QED
  BY <1>1, <1>2, <1>3, <1>4

(* Sanitizing keeps the call and the answers, and once is enough.           *)
LEMMA Sanitized ==
  ASSUME NEW r \in Request
  PROVE  /\ Sanitize(r) \in Request /\ Sanitize(Sanitize(r)) = Sanitize(r)
         /\ Sanitize(r).call = r.call /\ Sanitize(r).answered = r.answered
         /\ Sanitize(r).refs \cap Private = {} /\ Sanitize(r).approved = r.approved
  BY DEF Sanitize, Request

(* A client that judges by its own request accepts what was accepted for    *)
(* the sanitized one.                                                       *)
LEMMA AcceptedBoth ==
  ASSUME NEW r \in Request, NEW a \in Assessment, Accepted(a, Sanitize(r), {})
  PROVE  Accepted(a, r, {}) /\ a.call = r.call
  BY Sanitized DEF Accepted, EvidenceReferences

(* What the provider answers is an assessment, accepted for its request.    *)
LEMMA Answered ==
  ASSUME NEW r \in Request, NEW a \in Answers(r)
  PROVE  a \in Assessment /\ Accepted(a, Sanitize(r), {}) /\ ValidRequest(r)
<1>1. ValidRequest(r)
  BY DEF Answers
<1>2. PICK model \in ModelAnswer, retrieved \in SUBSET Source :
         a = Assemble(model, retrieved, r) /\ Accepted(a, Sanitize(r), {})
  BY <1>1 DEF Answers
<1>3. Assemble(model, retrieved, r) \in Assessment
  BY PolicyAssumption DEF Assemble, Assessment, ModelAnswer, Request
<1> QED
  BY <1>1, <1>2, <1>3

(* Pruning keeps some of the jobs as they are.                              *)
LEMMA PrunedJobs ==
  ASSUME NEW at
  PROVE  /\ DOMAIN Pruned(at) \subseteq Known
         /\ \A n \in DOMAIN Pruned(at) : Pruned(at)[n] = jobs[n]
  BY DEF Pruned, Known

-----------------------------------------------------------------------------
(* Types.                                                                   *)

(* Posts on their way: each of them may still become a job.                 *)
Posts(messages) == {m \in messages : m.kind = "post"}

(* There are ids for them all.                                              *)
Counted == IsFiniteSet(net) /\ Cardinality(Posts(net)) + issued <= calls

TypeInv == GTypeOK /\ Counted

(* The counters are numbers.                                                *)
LEMMA Numbers ==
  ASSUME TypeInv
  PROVE  /\ issued \in Nat /\ calls \in Nat /\ now \in Nat /\ MaxCalls \in Nat /\ calls <= MaxCalls
         /\ IsFiniteSet(net) /\ Cardinality(Posts(net)) \in Nat
         /\ Cardinality(Posts(net)) + issued <= calls
<1>1. IsFiniteSet(net) /\ Posts(net) \subseteq net
  BY DEF TypeInv, Counted, Posts
<1>2. Cardinality(Posts(net)) \in Nat
  BY <1>1, FS_Subset, FS_CardinalityType
<1>3. {issued, calls, now, MaxCalls} \subseteq Nat /\ calls <= MaxCalls
  BY GatewayAssumption DEF TypeInv, GTypeOK
<1> QED
  BY <1>1, <1>2, <1>3 DEF TypeInv, Counted

(* Posts(net) when one message goes.                                        *)
LEMMA OneLess ==
  ASSUME TypeInv, NEW m \in net
  PROVE  /\ IsFiniteSet(net \ {m})
         /\ Cardinality(Posts(net \ {m})) <= Cardinality(Posts(net))
         /\ m.kind = "post" => Cardinality(Posts(net \ {m})) = Cardinality(Posts(net)) - 1
         /\ m.kind = "post" => issued + 1 \in Id
<1>1. IsFiniteSet(net) /\ IsFiniteSet(Posts(net))
  <2>1. Posts(net) \subseteq net
    BY DEF Posts
  <2> QED
    BY <2>1, FS_Subset DEF TypeInv, Counted
<1>2. IsFiniteSet(net \ {m}) /\ IsFiniteSet(Posts(net \ {m}))
  <2>1. net \ {m} \subseteq net /\ Posts(net \ {m}) \subseteq net
    BY DEF Posts
  <2> QED
    BY <1>1, <2>1, FS_Subset
<1>3. Cardinality(Posts(net \ {m})) <= Cardinality(Posts(net))
  <2>1. Posts(net \ {m}) \subseteq Posts(net)
    BY DEF Posts
  <2> QED
    BY <1>1, <2>1, FS_Subset
<1>4. m.kind = "post" => Cardinality(Posts(net \ {m})) = Cardinality(Posts(net)) - 1
  <2> SUFFICES ASSUME m.kind = "post" PROVE Cardinality(Posts(net \ {m})) = Cardinality(Posts(net)) - 1
    OBVIOUS
  <2>1. Posts(net \ {m}) = Posts(net) \ {m} /\ m \in Posts(net)
    BY DEF Posts
  <2> QED
    BY <1>1, <2>1, FS_RemoveElement
<1>5. Cardinality(Posts(net \ {m})) \in Nat /\ Cardinality(Posts(net)) \in Nat
  BY <1>1, <1>2, FS_CardinalityType
<1>6. m.kind = "post" => issued + 1 \in Id
  BY <1>4, <1>5, GatewayAssumption DEF TypeInv, GTypeOK, Counted, Id
<1> QED
  BY <1>2, <1>3, <1>4, <1>6

(* A message that is neither a post nor known before changes no count.      *)
LEMMA OneMore ==
  ASSUME NEW N, IsFiniteSet(N), NEW m
  PROVE  /\ IsFiniteSet(N \cup {m})
         /\ Cardinality(Posts(N \cup {m})) <= Cardinality(Posts(N)) + 1
         /\ m.kind # "post" => Cardinality(Posts(N \cup {m})) = Cardinality(Posts(N))
         /\ Cardinality(Posts(N)) \in Nat /\ Cardinality(Posts(N \cup {m})) \in Nat
<1>1. IsFiniteSet(N \cup {m}) /\ IsFiniteSet(Posts(N)) /\ IsFiniteSet(Posts(N \cup {m}))
  <2>1. IsFiniteSet(N \cup {m})
    BY FS_AddElement
  <2>2. Posts(N) \subseteq N /\ Posts(N \cup {m}) \subseteq N \cup {m}
    BY DEF Posts
  <2> QED
    BY <2>1, <2>2, FS_Subset
<1>2. CASE m.kind = "post"
  <2>1. Posts(N \cup {m}) = Posts(N) \cup {m}
    BY <1>2 DEF Posts
  <2>2. Cardinality(Posts(N)) \in Nat /\ Cardinality(Posts(N \cup {m})) \in Nat
    BY <1>1, FS_CardinalityType
  <2>3. \/ Cardinality(Posts(N) \cup {m}) = Cardinality(Posts(N))
        \/ Cardinality(Posts(N) \cup {m}) = Cardinality(Posts(N)) + 1
    BY <1>1, FS_AddElement
  <2>4. Cardinality(Posts(N \cup {m})) <= Cardinality(Posts(N)) + 1
    BY <2>1, <2>2, <2>3
  <2> QED
    BY <1>1, <1>2, <2>2, <2>4
<1>3. CASE m.kind # "post"
  <2>1. Posts(N \cup {m}) = Posts(N)
    BY <1>3 DEF Posts
  <2> QED
    BY <1>1, <1>3, <2>1, FS_CardinalityType
<1> QED
  BY <1>2, <1>3

(* An answer leaves everything typed and one message less to come.          *)
LEMMA RespondTyped ==
  ASSUME TypeInv, NEW m \in net, NEW r \in Response, Respond(m, r)
  PROVE  /\ client' \in [Client -> ClientState] /\ net' \subseteq Message
         /\ now' \in 0..MaxTime /\ calls' \in 0..MaxCalls
         /\ net' = net \ {m} /\ calls' = calls
<1>1. net' = net \ {m} /\ now' = now /\ calls' = calls
  BY DEF Respond
<1>2. client' \in [Client -> ClientState]
  <2>1. m.from \in Client /\ client \in [Client -> ClientState]
    BY DEF TypeInv, GTypeOK, Message
  <2>2. [client[m.from] EXCEPT !.response = r] \in ClientState
    BY <2>1 DEF ClientState
  <2> QED
    BY <2>1, <2>2 DEF Respond
<1> QED
  BY <1>1, <1>2 DEF TypeInv, GTypeOK

(* An answer counts: what it consumed may have become a job.                *)
LEMMA RespondCounted ==
  ASSUME TypeInv, NEW m \in net, NEW r, Respond(m, r),
         issued' = issued \/ (m.kind = "post" /\ issued' = issued + 1)
  PROVE  Counted'
<1>1. net' = net \ {m} /\ calls' = calls
  BY DEF Respond
<1>2. /\ Cardinality(Posts(net)) + issued <= calls /\ issued \in Nat /\ calls \in Nat
      /\ Cardinality(Posts(net)) \in Nat
  BY Numbers
<1>3. Cardinality(Posts(net \ {m})) \in Nat
  <2>1. IsFiniteSet(net) /\ Posts(net \ {m}) \subseteq net
    BY Numbers DEF Posts
  <2> QED
    BY <2>1, FS_Subset, FS_CardinalityType
<1>4. CASE issued' = issued
  <2>1. IsFiniteSet(net \ {m}) /\ Cardinality(Posts(net \ {m})) <= Cardinality(Posts(net))
    BY OneLess
  <2> QED
    BY <1>1, <1>2, <1>3, <1>4, <2>1 DEF Counted
<1>5. CASE m.kind = "post" /\ issued' = issued + 1
  <2>1. Cardinality(Posts(net \ {m})) = Cardinality(Posts(net)) - 1 /\ IsFiniteSet(net \ {m})
    BY <1>5, OneLess
  <2> QED
    BY <1>1, <1>2, <1>5, <2>1 DEF Counted
<1> QED
  BY <1>4, <1>5

(* A job after its handler: pruning keeps the type, and so does one more.   *)
LEMMA PrunedTyped ==
  ASSUME TypeInv, NEW at
  PROVE  DOMAIN Pruned(at) \subseteq Id /\ \A n \in DOMAIN Pruned(at) : Pruned(at)[n] \in Job
  BY PrunedJobs DEF TypeInv, GTypeOK

(* Every step keeps the types, and an id for every post under way.          *)
LEMMA TypeStep ==
  ASSUME TypeInv, [GNext]_gvars
  PROVE  TypeInv'
<1> USE DEF Server
<1>1. ASSUME NEW c \in Client, NEW r \in Content, Diagnose(c, r)
      PROVE  TypeInv'
  <2> DEFINE mine == [r EXCEPT !.call = calls + 1]
             m == [from |-> c, kind |-> "post", id |-> 0, request |-> mine, handled |-> FALSE, at |-> 0]
  <2>1. mine \in Request /\ calls' = calls + 1 /\ calls' \in 0..MaxCalls
    <3>1. r \in Request /\ calls < MaxCalls /\ calls' = calls + 1
      BY <1>1, GatewayAssumption DEF Diagnose
    <3>2. calls + 1 \in Nat /\ calls + 1 \in 0..MaxCalls
      BY <3>1, Numbers
    <3> QED
      BY <3>1, <3>2 DEF Request
  <2>2. m \in Message
    BY <2>1, GatewayAssumption DEF Message
  <2>3. CASE r.approved
    <3>1. /\ client' = [client EXCEPT ![c] = [NoClient EXCEPT !.phase = "posting", !.request = mine]]
          /\ net' = net \cup {m}
      BY <1>1, <2>3 DEF Diagnose
    <3>2. [NoClient EXCEPT !.phase = "posting", !.request = mine] \in ClientState
      BY <2>1, Nothing DEF ClientState
    <3>3. client' \in [Client -> ClientState] /\ net' \subseteq Message
      BY <2>2, <3>1, <3>2 DEF TypeInv, GTypeOK
    <3>4. Counted'
      <4> HIDE DEF m
      <4>1. issued' = issued
        BY <1>1 DEF Diagnose
      <4>2. IsFiniteSet(net \cup {m}) /\ Cardinality(Posts(net \cup {m})) <= Cardinality(Posts(net)) + 1
            /\ Cardinality(Posts(net \cup {m})) \in Nat
        BY Numbers, OneMore
      <4> QED
        BY <2>1, <3>1, <4>1, <4>2, Numbers DEF Counted
    <3> QED
      BY <1>1, <2>1, <3>3, <3>4 DEF Diagnose, TypeInv, GTypeOK, Known
  <2>4. CASE ~r.approved
    <3>1. client' = [client EXCEPT ![c] = [NoClient EXCEPT !.outcome = "error"]] /\ net' = net
      BY <1>1, <2>4 DEF Diagnose
    <3>2. [NoClient EXCEPT !.outcome = "error"] \in ClientState
      BY Nothing DEF ClientState
    <3>3. Counted'
      BY <1>1, <2>1, <3>1, Numbers DEF Diagnose, Counted
    <3> QED
      BY <1>1, <2>1, <3>1, <3>2, <3>3 DEF Diagnose, TypeInv, GTypeOK, Known
  <2> QED
    BY <2>3, <2>4
<1>2. ASSUME NEW c \in Client, Continue(c) \/ Cancelled(c) \/ LoseAnswer(c)
      PROVE  TypeInv'
  <2>1. /\ UNCHANGED <<now, calls, issued, jobs, worker, queue, taken>>
        /\ client \in [Client -> ClientState]
    BY <1>2 DEF Continue, Receipt, Poll, Polled, Unanswered, Cancelled, Ended, LoseAnswer, TypeInv, GTypeOK
  <2>2. \A outcome \in {"ok", "error"} : [NoClient EXCEPT !.outcome = outcome] \in ClientState
    BY Nothing DEF ClientState
  <2>3. CASE Receipt(c)
    <3>1. client[c] \in ClientState /\ client[c].response \in Response
      BY <2>1 DEF ClientState
    <3>2. [client[c] EXCEPT !.phase = "sleeping", !.id = client[c].response.id, !.response = NoResponse] \in ClientState
      BY <3>1, Nothing DEF ClientState, Response
    <3>3. client' \in [Client -> ClientState]
      BY <2>1, <2>2, <2>3, <3>2 DEF Receipt, Ended
    <3> QED
      BY <2>1, <2>3, <3>3 DEF Receipt, TypeInv, GTypeOK, Known, Counted
  <2>4. CASE Poll(c)
    <3> DEFINE m == [from |-> c, kind |-> "get", id |-> client[c].id, request |-> NoRequest,
                     handled |-> FALSE, at |-> 0]
    <3>1. client[c] \in ClientState /\ net' = net \cup {m}
      BY <2>1, <2>4 DEF Poll
    <3>2. m \in Message
      BY <3>1, Nothing, GatewayAssumption DEF ClientState, Message
    <3>3. client' \in [Client -> ClientState]
      BY <2>1, <2>4, <3>1 DEF Poll, ClientState
    <3>4. Counted'
      BY <2>1, <3>1, OneMore DEF TypeInv, Counted
    <3> QED
      BY <2>1, <3>1, <3>2, <3>3, <3>4 DEF TypeInv, GTypeOK, Known
  <2>5. CASE Polled(c)
    <3>1. client[c] \in ClientState
      BY <2>1
    <3>2. [client[c] EXCEPT !.phase = "sleeping", !.response = NoResponse] \in ClientState
      BY <3>1, Nothing DEF ClientState
    <3>3. \/ client' = [client EXCEPT ![c].phase = "sleeping", ![c].response = NoResponse]
          \/ \E outcome \in {"ok", "error"} : Ended(c, outcome)
      BY <2>5 DEF Polled
    <3>4. client' \in [Client -> ClientState]
      BY <2>1, <2>2, <3>2, <3>3 DEF Ended
    <3>5. net' = net
      BY <2>5 DEF Polled, Ended
    <3> QED
      BY <2>1, <3>4, <3>5 DEF TypeInv, GTypeOK, Known, Counted
  <2>6. CASE Unanswered(c) \/ Cancelled(c)
    <3>1. net' = net /\ client' \in [Client -> ClientState]
      BY <2>1, <2>2, <2>6 DEF Unanswered, Cancelled, Ended
    <3> QED
      BY <2>1, <3>1 DEF TypeInv, GTypeOK, Known, Counted
  <2>7. CASE LoseAnswer(c)
    <3>1. [client[c] EXCEPT !.response = NoResponse] \in ClientState
      BY <2>1, Nothing DEF ClientState
    <3>2. net' = net /\ client' \in [Client -> ClientState]
      BY <2>1, <2>7, <3>1 DEF LoseAnswer
    <3> QED
      BY <2>1, <3>2 DEF TypeInv, GTypeOK, Known, Counted
  <2> QED
    BY <1>2, <2>3, <2>4, <2>5, <2>6, <2>7 DEF Continue
<1>3. ASSUME NEW m \in net, Arrive(m)
      PROVE  TypeInv'
  <2> DEFINE h == [m EXCEPT !.handled = TRUE, !.at = now]
  <2>1. m \in Message /\ net' = (net \ {m}) \cup {h}
    BY <1>3 DEF Arrive, TypeInv, GTypeOK
  <2>2. h \in Message /\ h.kind = m.kind
    BY <2>1 DEF Message, TypeInv, GTypeOK
  <2>3. Cardinality(Posts(net')) <= Cardinality(Posts(net)) /\ IsFiniteSet(net') /\ Cardinality(Posts(net')) \in Nat
    <3>1. IsFiniteSet(net \ {m}) /\ Cardinality(Posts(net \ {m})) <= Cardinality(Posts(net))
          /\ (m.kind = "post" => Cardinality(Posts(net \ {m})) = Cardinality(Posts(net)) - 1)
      BY OneLess
    <3>2. Cardinality(Posts(net)) \in Nat
      BY OneMore DEF TypeInv, Counted
    <3> HIDE DEF h
    <3>3. /\ IsFiniteSet((net \ {m}) \cup {h})
          /\ Cardinality(Posts((net \ {m}) \cup {h})) <= Cardinality(Posts(net \ {m})) + 1
          /\ h.kind # "post" => Cardinality(Posts((net \ {m}) \cup {h})) = Cardinality(Posts(net \ {m}))
          /\ Cardinality(Posts(net \ {m})) \in Nat /\ Cardinality(Posts((net \ {m}) \cup {h})) \in Nat
      BY <3>1, OneMore
    <3> QED
      BY <2>1, <2>2, <3>1, <3>2, <3>3
  <2>4. UNCHANGED <<now, calls, client, issued, jobs, worker, queue, taken>>
    BY <1>3 DEF Arrive
  <2>5. Counted'
    <3> HIDE DEF h
    <3> QED
      BY <2>3, <2>4, Numbers DEF Counted
  <2>6. net' \subseteq Message
    BY <2>1, <2>2 DEF TypeInv, GTypeOK
  <2> QED
    BY <2>4, <2>5, <2>6 DEF TypeInv, GTypeOK, Known
<1>4. ASSUME NEW m \in net, PostInvalid(m)
      PROVE  TypeInv'
  <2>1. Told("refused") \in Response
    BY Nothing DEF Told, Response, Status
  <2>2. Respond(m, Told("refused")) /\ UNCHANGED Server
    BY <1>4 DEF PostInvalid
  <2>3. Counted'
    BY <2>2, RespondCounted
  <2> QED
    BY <2>1, <2>2, <2>3, RespondTyped DEF TypeInv, GTypeOK, Known
<1>5. ASSUME NEW m \in net, CreateJob(m)
      PROVE  TypeInv'
  <2> DEFINE kept == Pruned(m.at)
             d == TokenOf[m.from]
             id == NewDiagnosisID(kept)
             new == [owner |-> d, status |-> "queued", created |-> m.at,
                     request |-> Sanitize(m.request), result |-> NoAssessment]
  <2>1. m \in Message /\ m.kind = "post" /\ id = issued + 1 /\ id \in Id
    BY <1>5, OneLess DEF CreateJob, TypeInv, GTypeOK, NewDiagnosisID
  <2>2. new \in Job
    BY <2>1, Nothing, Sanitized, GatewayAssumption DEF Message, Job
  <2>3. Told("refused") \in Response /\ [Told("accepted") EXCEPT !.id = id] \in Response
    <3> HIDE DEF id
    <3>1. Told("refused") \in Response /\ Told("accepted") \in Response
      BY Nothing DEF Told, Response, Status
    <3>2. id \in 0..MaxCalls
      BY <2>1, Numbers DEF Id
    <3> QED
      BY <3>1, <3>2 DEF Response
  <2>4. DOMAIN kept \subseteq Id /\ \A n \in DOMAIN kept : kept[n] \in Job
    BY PrunedTyped
  <2>5. CASE Room(kept, d)
    <3>1. /\ jobs' = [n \in DOMAIN kept \cup {id} |-> IF n = id THEN new ELSE kept[n]]
          /\ issued' = issued + 1 /\ worker' = [worker EXCEPT ![id] = "spawned"]
          /\ Respond(m, [Told("accepted") EXCEPT !.id = id]) /\ UNCHANGED <<queue, taken>>
      BY <1>5, <2>5 DEF CreateJob
    <3>2. Known' \subseteq Id /\ \A n \in Known' : jobs'[n] \in Job
      <4> HIDE DEF kept, id, new
      <4> QED
        BY <2>1, <2>2, <2>4, <3>1 DEF Known
    <3>3. issued' \in 0..MaxCalls /\ worker' \in [Id -> {"none", "spawned", "waiting", "analysing"}]
      BY <2>1, <3>1, GatewayAssumption DEF TypeInv, GTypeOK, Id
    <3>4. Counted'
      BY <2>1, <3>1, RespondCounted
    <3> QED
      BY <2>3, <3>1, <3>2, <3>3, <3>4, RespondTyped DEF TypeInv, GTypeOK
  <2>6. CASE ~Room(kept, d)
    <3>1. jobs' = kept /\ Respond(m, Told("refused")) /\ UNCHANGED <<issued, worker, queue, taken>>
      BY <1>5, <2>6 DEF CreateJob
    <3>2. Known' \subseteq Id /\ \A n \in Known' : jobs'[n] \in Job
      BY <2>4, <3>1 DEF Known
    <3>3. Counted'
      BY <3>1, RespondCounted
    <3> QED
      BY <2>3, <3>1, <3>2, <3>3, RespondTyped DEF TypeInv, GTypeOK
  <2> QED
    BY <2>5, <2>6
<1>6. ASSUME NEW m \in net, LookupJob(m)
      PROVE  TypeInv'
  <2> DEFINE kept == Pruned(m.at)
             told == IF m.id \in OwnedBy(kept, TokenOf[m.from])
                     THEN [status |-> kept[m.id].status, id |-> m.id, result |-> kept[m.id].result]
                     ELSE Told("notfound")
  <2>1. jobs' = kept /\ Respond(m, told) /\ UNCHANGED <<issued, worker, queue, taken>>
    BY <1>6 DEF LookupJob
  <2>2. DOMAIN kept \subseteq Id /\ \A n \in DOMAIN kept : kept[n] \in Job
    BY PrunedTyped
  <2>3. told \in Response
    <3>1. Told("notfound") \in Response
      BY Nothing DEF Told, Response, Status
    <3>2. ASSUME m.id \in OwnedBy(kept, TokenOf[m.from])
          PROVE  [status |-> kept[m.id].status, id |-> m.id, result |-> kept[m.id].result] \in Response
      <4> HIDE DEF kept
      <4>1. m.id \in DOMAIN kept
        BY <3>2 DEF OwnedBy
      <4>2. kept[m.id] \in Job /\ m.id \in Id
        BY <2>2, <4>1
      <4> QED
        BY <4>2 DEF Job, Response, Status, Id
    <3> QED
      BY <3>1, <3>2
  <2>4. Known' \subseteq Id /\ \A n \in Known' : jobs'[n] \in Job
    BY <2>1, <2>2 DEF Known
  <2>5. Counted'
    BY <2>1, RespondCounted
  <2> HIDE DEF told
  <2> QED
    BY <2>1, <2>3, <2>4, <2>5, RespondTyped DEF TypeInv, GTypeOK
<1>7. ASSUME NEW m \in net, Lose(m)
      PROVE  TypeInv'
  <2>1. net' = net \ {m} /\ UNCHANGED <<now, calls, client, Server>>
    BY <1>7 DEF Lose
  <2>2. Cardinality(Posts(net \ {m})) \in Nat /\ IsFiniteSet(net \ {m})
        /\ Cardinality(Posts(net \ {m})) <= Cardinality(Posts(net))
    BY OneLess, OneMore
  <2>3. Counted'
    BY <2>1, <2>2, Numbers DEF Counted
  <2> QED
    BY <2>1, <2>3 DEF TypeInv, GTypeOK, Known
<1>8. ASSUME NEW n \in Id, Goroutine(n)
      PROVE  TypeInv'
  <2>1. UNCHANGED <<now, calls, issued, net, client>>
    BY <1>8 DEF Goroutine, Enter, MarkRunning, Analysed
  <2>2. Counted'
    BY <2>1 DEF TypeInv, Counted
  <2>3. CASE Enter(n)
    BY <2>1, <2>2, <2>3 DEF Enter, TypeInv, GTypeOK, Known
  <2>4. CASE MarkRunning(n)
    <3>1. queue' \in Seq(Id) /\ worker' \in [Id -> {"none", "spawned", "waiting", "analysing"}]
      BY <2>4 DEF MarkRunning, TypeInv, GTypeOK
    <3>2. CASE n \in Known /\ jobs[n].status = "queued"
      <4>1. jobs' = [jobs EXCEPT ![n].status = "running"] /\ taken' = [taken EXCEPT ![n] = jobs[n].request]
        BY <2>4, <3>2 DEF MarkRunning
      <4>2. jobs[n] \in Job
        BY <3>2 DEF TypeInv, GTypeOK
      <4>3. [jobs[n] EXCEPT !.status = "running"] \in Job /\ jobs[n].request \in Request
        BY <4>2 DEF Job
      <4> QED
        BY <2>1, <2>2, <3>1, <4>1, <4>3 DEF TypeInv, GTypeOK, Known
    <3>3. CASE ~(n \in Known /\ jobs[n].status = "queued")
      <4>1. UNCHANGED <<jobs, taken>>
        BY <2>4, <3>3 DEF MarkRunning
      <4> QED
        BY <2>1, <2>2, <3>1, <4>1 DEF TypeInv, GTypeOK, Known
    <3> QED
      BY <3>2, <3>3
  <2>5. CASE Analysed(n)
    <3>1. \E status \in {"complete", "failed"}, a \in Assessment : FinishJob(n, status, a)
      BY <2>5, Nothing, Answered DEF Analysed, TypeInv, GTypeOK
    <3>2. Known' \subseteq Id /\ \A i \in Known' : jobs'[i] \in Job
      <4>1. PICK status \in {"complete", "failed"}, a \in Assessment : FinishJob(n, status, a)
        BY <3>1
      <4>2. \A i \in Known : jobs[i] \in Job
                /\ [jobs[i] EXCEPT !.status = status, !.result = a, !.request = NoRequest] \in Job
        BY <4>1, Nothing DEF TypeInv, GTypeOK, Job
      <4>3. CASE n \notin Known
        BY <4>1, <4>3 DEF FinishJob, TypeInv, GTypeOK, Known
      <4>4. CASE n \in Known
        <5>1. jobs' = [jobs EXCEPT ![n].status = status, ![n].result = a, ![n].request = NoRequest]
          BY <4>1, <4>4 DEF FinishJob
        <5> QED
          BY <4>2, <5>1 DEF TypeInv, GTypeOK, Known
      <4> QED
        BY <4>3, <4>4
    <3>3. /\ worker' \in [Id -> {"none", "spawned", "waiting", "analysing"}]
          /\ taken' \in [Id -> Request] /\ queue' \in Seq(Id)
      BY <2>5, Nothing DEF Analysed, TypeInv, GTypeOK
    <3> QED
      BY <2>1, <2>2, <3>2, <3>3 DEF TypeInv, GTypeOK
  <2> QED
    BY <1>8, <2>3, <2>4, <2>5 DEF Goroutine
<1>9. CASE Tick
  BY <1>9, GatewayAssumption DEF Tick, TypeInv, GTypeOK, Known, Counted
<1>10. CASE Restart
  <2>1. jobs' = <<>> /\ queue' = <<>> /\ net' = {} /\ UNCHANGED <<now, calls, issued, client>>
    BY <1>10 DEF Restart
  <2>2. Known' = {}
    BY <2>1 DEF Known
  <2>3. Posts(net') = {}
    BY <2>1 DEF Posts
  <2>4. Counted'
    <3>1. IsFiniteSet(net') /\ Cardinality(Posts(net')) = 0
      BY <2>1, <2>3, FS_EmptySet
    <3>2. Cardinality(Posts(net')) + issued' <= calls'
      BY <2>1, <3>1, Numbers
    <3> QED
      BY <3>1, <3>2 DEF Counted
  <2> QED
    BY <1>10, <2>1, <2>2, <2>4, Nothing DEF Restart, TypeInv, GTypeOK
<1>11. CASE UNCHANGED gvars
  BY <1>11 DEF gvars, TypeInv, GTypeOK, Known, Counted
<1> QED
  BY <1>1, <1>2, <1>3, <1>4, <1>5, <1>6, <1>7, <1>8, <1>9, <1>10, <1>11 DEF GNext, Handle

(* At first there are no jobs and no calls.                                 *)
LEMMA TypeInit == GInit => TypeInv
<1> SUFFICES ASSUME GInit PROVE TypeInv
  OBVIOUS
<1>1. Known = {}
  BY DEF GInit, Known
<1>2. Posts(net) = {}
  BY DEF GInit, Posts
<1>3. IsFiniteSet(net) /\ Cardinality(Posts(net)) = 0
  BY <1>2, FS_EmptySet DEF GInit
<1>4. Counted
  BY <1>3 DEF GInit, Counted
<1>5. GTypeOK
  BY <1>1, Nothing, GatewayAssumption DEF GInit, GTypeOK
<1> QED
  BY <1>4, <1>5 DEF TypeInv

(* Every variable has its type: in particular the server never runs out of  *)
(* ids, a job being made of a request that was sent for it (CreateJob).     *)
THEOREM TypeCorrect == GSpec => []GTypeOK
<1>1. GInit => TypeInv
  BY TypeInit
<1>2. TypeInv /\ [GNext]_gvars => TypeInv'
  BY TypeStep
<1>3. TypeInv => GTypeOK
  BY DEF TypeInv
<1> QED
  BY <1>1, <1>2, <1>3, PTL DEF GSpec

-----------------------------------------------------------------------------
(* The limits.                                                              *)

(* Only these steps change what the server keeps.                           *)
LEMMA ServerSteps ==
  ASSUME [GNext]_gvars
  PROVE  \/ UNCHANGED Server
         \/ \E m \in net : CreateJob(m) \/ LookupJob(m)
         \/ \E n \in Id : Goroutine(n)
         \/ Restart
<1>1. ASSUME NEW c \in Client, NEW r \in Content, Diagnose(c, r) PROVE UNCHANGED Server
  BY <1>1 DEF Diagnose
<1>2. ASSUME NEW c \in Client, Continue(c) \/ Cancelled(c) \/ LoseAnswer(c) PROVE UNCHANGED Server
  BY <1>2 DEF Continue, Receipt, Poll, Polled, Unanswered, Cancelled, LoseAnswer
<1>3. ASSUME NEW m \in net, Arrive(m) \/ PostInvalid(m) \/ Lose(m) PROVE UNCHANGED Server
  BY <1>3 DEF Arrive, PostInvalid, Lose
<1>4. CASE Tick
  BY <1>4 DEF Tick, Server
<1>5. CASE UNCHANGED gvars
  BY <1>5 DEF gvars, Server
<1> QED
  BY <1>1, <1>2, <1>3, <1>4, <1>5 DEF GNext, Handle

(* Sets of ids are finite, and counted.                                     *)
LEMMA Ids ==
  ASSUME NEW S \in SUBSET Id, NEW T \in SUBSET S
  PROVE  /\ IsFiniteSet(S) /\ IsFiniteSet(T) /\ Cardinality(T) <= Cardinality(S)
         /\ Cardinality(S) \in Nat /\ Cardinality(T) \in Nat
<1>1. IsFiniteSet(Id)
  BY FS_Interval, GatewayAssumption DEF Id
<1>2. IsFiniteSet(S)
  BY <1>1, FS_Subset
<1>3. IsFiniteSet(T) /\ Cardinality(T) <= Cardinality(S)
  BY <1>2, FS_Subset
<1> QED
  BY <1>2, <1>3, FS_CardinalityType

(* Where fewer than the limit are, there is room for one more.              *)
LEMMA OneMoreId ==
  ASSUME NEW S \in SUBSET Id, NEW n \in Id, NEW limit \in Nat, Cardinality(S) < limit,
         NEW T \in SUBSET (S \cup {n})
  PROVE  Cardinality(T) <= limit
<1>1. IsFiniteSet(S) /\ Cardinality(S) \in Nat
  BY Ids
<1>2. Cardinality(S \cup {n}) = Cardinality(S) \/ Cardinality(S \cup {n}) = Cardinality(S) + 1
  BY <1>1, FS_AddElement
<1>3. S \cup {n} \in SUBSET Id
  OBVIOUS
<1>4. Cardinality(T) <= Cardinality(S \cup {n}) /\ Cardinality(T) \in Nat
  BY <1>3, Ids
<1> QED
  BY <1>1, <1>2, <1>4

(* Every step keeps the limits.                                             *)
LEMMA LimitStep ==
  ASSUME TypeInv, WithinLimits, [GNext]_gvars
  PROVE  WithinLimits'
<1>1. /\ MaxJobs \in Nat /\ MaxJobsPerDevice \in Nat /\ MaxConcurrent \in Nat
      /\ Known \in SUBSET Id /\ Analysing \in SUBSET Id
      /\ \A d : OwnedBy(jobs, d) \in SUBSET Id
  BY GatewayAssumption DEF TypeInv, GTypeOK, Analysing, OwnedBy, Known
<1>2. ASSUME NEW T \in SUBSET Known, Known' = T, \A d : OwnedBy(jobs', d) \in SUBSET OwnedBy(jobs, d),
             Analysing' \in SUBSET Analysing
      PROVE  WithinLimits'
  <2>1. /\ Cardinality(Known') <= Cardinality(Known) /\ Cardinality(Known') \in Nat
        /\ Cardinality(Known) \in Nat
    BY <1>1, <1>2, Ids
  <2>2. /\ Cardinality(Analysing') <= Cardinality(Analysing) /\ Cardinality(Analysing') \in Nat
        /\ Cardinality(Analysing) \in Nat
    BY <1>1, <1>2, Ids
  <2>3. ASSUME NEW d \in Device PROVE Cardinality(OwnedBy(jobs', d)) <= MaxJobsPerDevice
    <3>1. /\ Cardinality(OwnedBy(jobs', d)) <= Cardinality(OwnedBy(jobs, d))
          /\ Cardinality(OwnedBy(jobs', d)) \in Nat /\ Cardinality(OwnedBy(jobs, d)) \in Nat
      BY <1>1, <1>2, Ids
    <3> QED
      BY <1>1, <3>1 DEF WithinLimits
  <2> QED
    BY <1>1, <2>1, <2>2, <2>3 DEF WithinLimits
<1>3. CASE UNCHANGED Server
  BY <1>1, <1>2, <1>3 DEF Server, Known, Analysing
<1>4. ASSUME NEW m \in net, CreateJob(m) \/ LookupJob(m)
      PROVE  WithinLimits'
  <2> DEFINE kept == Pruned(m.at)
             owner == TokenOf[m.from]
             id == NewDiagnosisID(kept)
  <2>1. DOMAIN kept \in SUBSET Known /\ \A d : OwnedBy(kept, d) \in SUBSET OwnedBy(jobs, d)
    BY PrunedJobs DEF OwnedBy, Known
  <2>2. CASE jobs' = kept /\ worker' = worker
    <3>1. Known' = DOMAIN kept /\ Analysing' = Analysing
      BY <2>2 DEF Known, Analysing
    <3> QED
      BY <1>2, <2>1, <2>2, <3>1
  <2>3. CASE /\ CreateJob(m) /\ Room(kept, owner)
    <3>1. /\ id \in Id /\ m.from \in Client
          /\ worker' = [worker EXCEPT ![id] = "spawned"]
          /\ jobs' = [n \in DOMAIN kept \cup {id} |->
                        IF n = id THEN [owner |-> owner, status |-> "queued", created |-> m.at,
                                        request |-> Sanitize(m.request), result |-> NoAssessment]
                        ELSE kept[n]]
      BY <2>3, OneLess DEF CreateJob, NewDiagnosisID, TypeInv, GTypeOK, Message
    <3>2. Cardinality(DOMAIN kept) < MaxJobs /\ Cardinality(OwnedBy(kept, owner)) < MaxJobsPerDevice
      BY <2>3 DEF Room
    <3> HIDE DEF kept, id
    <3>3. Known' = DOMAIN kept \cup {id}
      BY <3>1 DEF Known
    <3>4. Cardinality(Known') <= MaxJobs
      BY <1>1, <2>1, <3>1, <3>2, <3>3, OneMoreId
    <3>5. ASSUME NEW d \in Device PROVE Cardinality(OwnedBy(jobs', d)) <= MaxJobsPerDevice
      <4>1. CASE d = owner
        <5>1. OwnedBy(jobs', d) \in SUBSET (OwnedBy(kept, d) \cup {id})
          BY <3>1 DEF OwnedBy
        <5>2. OwnedBy(kept, d) \in SUBSET Id
          BY <1>1, <2>1
        <5> QED
          BY <1>1, <3>1, <3>2, <4>1, <5>1, <5>2, OneMoreId
      <4>2. CASE d # owner
        <5>1. OwnedBy(jobs', d) \in SUBSET OwnedBy(kept, d)
          BY <3>1, <4>2 DEF OwnedBy
        <5>2. OwnedBy(jobs', d) \in SUBSET OwnedBy(jobs, d)
          BY <2>1, <5>1
        <5>3. /\ Cardinality(OwnedBy(jobs', d)) <= Cardinality(OwnedBy(jobs, d))
              /\ Cardinality(OwnedBy(jobs', d)) \in Nat /\ Cardinality(OwnedBy(jobs, d)) \in Nat
          BY <1>1, <5>2, Ids
        <5> QED
          BY <1>1, <5>3 DEF WithinLimits
      <4> QED
        BY <4>1, <4>2
    <3>6. Cardinality(Analysing') <= MaxConcurrent
      <4>1. Analysing' \in SUBSET Analysing
        BY <3>1 DEF Analysing, TypeInv, GTypeOK
      <4>2. /\ Cardinality(Analysing') <= Cardinality(Analysing) /\ Cardinality(Analysing') \in Nat
            /\ Cardinality(Analysing) \in Nat
        BY <1>1, <4>1, Ids
      <4> QED
        BY <1>1, <4>2 DEF WithinLimits
    <3> QED
      BY <3>4, <3>5, <3>6 DEF WithinLimits
  <2>4. CASE ~(CreateJob(m) /\ Room(kept, owner))
    BY <1>4, <2>2, <2>4 DEF CreateJob, LookupJob
  <2> QED
    BY <2>3, <2>4
<1>5. ASSUME NEW n \in Id, Goroutine(n)
      PROVE  WithinLimits'
  <2>1. Known' = Known /\ \A d : OwnedBy(jobs', d) = OwnedBy(jobs, d)
    <3>1. CASE Enter(n)
      BY <3>1 DEF Enter, Known, OwnedBy
    <3>2. CASE MarkRunning(n)
      <4>1. jobs' = jobs \/ (n \in Known /\ jobs' = [jobs EXCEPT ![n].status = "running"])
        BY <3>2 DEF MarkRunning
      <4>2. \A i \in Known : jobs[i] \in Job
        BY DEF TypeInv, GTypeOK
      <4> QED
        BY <4>1, <4>2 DEF Known, OwnedBy, Job
    <3>3. CASE Analysed(n)
      <4>1. PICK status, a : FinishJob(n, status, a)
        BY <3>3 DEF Analysed
      <4>2. \A i \in Known : jobs[i] \in Job
        BY DEF TypeInv, GTypeOK
      <4> QED
        BY <4>1, <4>2 DEF FinishJob, Known, OwnedBy, Job
    <3> QED
      BY <1>5, <3>1, <3>2, <3>3 DEF Goroutine
  <2>2. CASE Enter(n) \/ Analysed(n)
    <3>1. Analysing' \in SUBSET Analysing
      BY <2>2 DEF Enter, Analysed, Analysing, TypeInv, GTypeOK
    <3> QED
      BY <1>2, <2>1, <3>1
  <2>3. CASE MarkRunning(n)
    <3>1. Cardinality(Analysing) < MaxConcurrent /\ Analysing' \in SUBSET (Analysing \cup {n})
      BY <2>3 DEF MarkRunning, Analysing, TypeInv, GTypeOK
    <3>2. Cardinality(Analysing') <= MaxConcurrent
      BY <1>1, <3>1, OneMoreId
    <3> QED
      BY <2>1, <3>2 DEF WithinLimits
  <2> QED
    BY <1>5, <2>2, <2>3 DEF Goroutine
<1>6. CASE Restart
  <2>1. jobs' = <<>> /\ worker' = [n \in Id |-> "none"]
    BY <1>6 DEF Restart
  <2>2. Known' = {} /\ Analysing' = {} /\ \A d : OwnedBy(jobs', d) = {}
    BY <2>1 DEF Known, Analysing, OwnedBy
  <2> QED
    BY <1>2, <2>2
<1> QED
  BY <1>3, <1>4, <1>5, <1>6, ServerSteps

(* The limits on jobs, on the jobs of a device and on analyses under way    *)
(* hold whatever is pruned under its goroutine: createJob and runJob.       *)
THEOREM LimitsHold == GSpec => []WithinLimits
<1>1. GInit => TypeInv
  BY TypeInit
<1>2. GInit => WithinLimits
  <2> SUFFICES ASSUME GInit PROVE WithinLimits
    OBVIOUS
  <2>1. Known = {} /\ Analysing = {} /\ \A d : OwnedBy(jobs, d) = {}
    BY DEF GInit, Known, Analysing, OwnedBy
  <2> QED
    BY <2>1, FS_EmptySet, GatewayAssumption DEF WithinLimits
<1>3. TypeInv /\ [GNext]_gvars => TypeInv'
  BY TypeStep
<1>4. TypeInv /\ WithinLimits /\ [GNext]_gvars => WithinLimits'
  BY LimitStep
<1> QED
  BY <1>1, <1>2, <1>3, <1>4, PTL DEF GSpec

-----------------------------------------------------------------------------
(* The way of a job.                                                        *)

(* What no handler has given out has no job, goroutine or request.          *)
Fresh == /\ Known \subseteq 1..issued
         /\ \A n \in Id : n > issued => worker[n] = "none" /\ taken[n] = NoRequest

(* A goroutine waits in the queue once.                                     *)
QueueInv == /\ \A i \in 1..Len(queue) : worker[queue[i]] = "waiting"
            /\ \A i, j \in 1..Len(queue) : queue[i] = queue[j] => i = j

(* A goroutine that analyses has its job running.                           *)
Analyses == \A n \in Known : worker[n] = "analysing" => jobs[n].status = "running"

JobInv == Fresh /\ QueueInv /\ Analyses /\ ContextDiscarded

(* Pruning takes jobs away and changes nothing else.                        *)
LEMMA PruneStep ==
  ASSUME TypeInv, JobInv, Known' \subseteq Known, \A n \in Known' : jobs'[n] = jobs[n],
         UNCHANGED <<issued, worker, queue, taken>>
  PROVE  JobInv'
<1>1. Fresh' /\ QueueInv'
  BY DEF JobInv, Fresh, QueueInv
<1>2. Analyses' /\ ContextDiscarded'
  BY DEF JobInv, Analyses, ContextDiscarded
<1> QED
  BY <1>1, <1>2 DEF JobInv

(* The head of the queue waits, and nobody behind it is the same.           *)
LEMMA QueueHead ==
  ASSUME TypeInv, QueueInv, queue # <<>>
  PROVE  /\ Head(queue) \in Id /\ worker[Head(queue)] = "waiting"
         /\ Tail(queue) \in Seq(Id) /\ Len(Tail(queue)) = Len(queue) - 1
         /\ \A i \in 1..Len(Tail(queue)) : /\ i + 1 \in 1..Len(queue) /\ Tail(queue)[i] = queue[i + 1]
                                           /\ Tail(queue)[i] # Head(queue)
<1>1. queue \in Seq(Id) /\ Len(queue) \in Nat /\ Len(queue) # 0
  BY DEF TypeInv, GTypeOK
<1>2. Head(queue) = queue[1] /\ 1 \in 1..Len(queue) /\ queue[1] \in Id
  BY <1>1
<1>3. /\ Tail(queue) \in Seq(Id) /\ Len(Tail(queue)) = Len(queue) - 1
      /\ \A i \in 1..Len(Tail(queue)) : i + 1 \in 1..Len(queue) /\ Tail(queue)[i] = queue[i + 1]
  BY <1>1
<1>4. \A i \in 1..Len(Tail(queue)) : Tail(queue)[i] # Head(queue)
  BY <1>1, <1>2, <1>3 DEF QueueInv
<1> QED
  BY <1>2, <1>3, <1>4 DEF QueueInv

(* Every step keeps what is known of jobs and goroutines.                   *)
LEMMA JobStep ==
  ASSUME TypeInv, JobInv, [GNext]_gvars
  PROVE  JobInv'
<1>1. CASE UNCHANGED Server
  BY <1>1, PruneStep DEF Server, Known
<1>2. ASSUME NEW m \in net, CreateJob(m) \/ LookupJob(m)
      PROVE  JobInv'
  <2> DEFINE kept == Pruned(m.at)
             owner == TokenOf[m.from]
             id == NewDiagnosisID(kept)
             new == [owner |-> owner, status |-> "queued", created |-> m.at,
                     request |-> Sanitize(m.request), result |-> NoAssessment]
  <2>1. DOMAIN kept \subseteq Known /\ \A n \in DOMAIN kept : kept[n] = jobs[n]
    BY PrunedJobs
  <2>2. CASE jobs' = kept /\ UNCHANGED <<issued, worker, queue, taken>>
    BY <2>1, <2>2, PruneStep DEF Known
  <2>3. CASE CreateJob(m) /\ Room(kept, owner)
    <3>1. /\ m \in Message /\ m.kind = "post" /\ ValidRequest(m.request)
          /\ id = issued + 1 /\ issued' = issued + 1 /\ UNCHANGED <<queue, taken>>
          /\ worker' = [worker EXCEPT ![id] = "spawned"]
          /\ jobs' = [n \in DOMAIN kept \cup {id} |-> IF n = id THEN new ELSE kept[n]]
      BY <2>3 DEF CreateJob, NewDiagnosisID, TypeInv, GTypeOK
    <3>2. id \in Id /\ issued \in Nat /\ id > issued /\ id \in Nat
      <4>1. issued + 1 \in Id
        BY <3>1, OneLess
      <4>2. issued \in Nat
        BY Numbers
      <4> HIDE DEF id
      <4> QED
        BY <3>1, <4>1, <4>2
    <3>3. new.request.refs \cap Private = {} /\ new.request # NoRequest /\ new.status = "queued"
      BY <3>1, Sanitized DEF Message, ValidRequest, NoRequest
    <3> HIDE DEF kept, id, new
    <3>4. worker[id] = "none" /\ Known \subseteq 1..issued /\ id \notin Known
      <4>1. worker[id] = "none" /\ Known \subseteq 1..issued
        BY <3>2 DEF JobInv, Fresh
      <4>2. \A i \in Known : i \in 1..issued
        BY <4>1
      <4> QED
        BY <3>2, <4>1, <4>2
    <3>5. Known' = DOMAIN kept \cup {id} /\ \A n \in Id \ {id} : worker'[n] = worker[n]
      BY <3>1 DEF Known, TypeInv, GTypeOK
    <3>6. worker'[id] = "spawned" /\ jobs'[id] = new
      BY <3>1, <3>2 DEF TypeInv, GTypeOK
    <3>7. \A n \in Known' : n # id => n \in Known /\ n \in Id /\ jobs'[n] = jobs[n]
      BY <2>1, <3>1, <3>5 DEF TypeInv, GTypeOK
    <3>8. Fresh'
      <4>1. Known' \subseteq 1..issued'
        <5>1. issued' = issued + 1 /\ id = issued + 1 /\ issued \in Nat
          BY <3>1, <3>2
        <5>2. id \in 1..issued' /\ \A i \in 1..issued : i \in 1..issued'
          BY <5>1
        <5>3. DOMAIN kept \subseteq 1..issued
          BY <2>1, <3>4
        <5> QED
          BY <3>5, <5>2, <5>3
      <4>2. \A n \in Id : n > issued' => n > issued /\ n # id
        BY <3>1, <3>2 DEF Id
      <4> QED
        BY <3>1, <3>5, <4>1, <4>2 DEF JobInv, Fresh
    <3>9. QueueInv'
      <4>1. \A i \in 1..Len(queue) : queue[i] \in Id /\ queue[i] # id
        BY <3>4 DEF JobInv, QueueInv, TypeInv, GTypeOK
      <4> QED
        BY <3>1, <3>5, <4>1 DEF JobInv, QueueInv
    <3>10. Analyses'
      BY <3>5, <3>6, <3>7 DEF JobInv, Analyses
    <3>11. ContextDiscarded'
      BY <3>3, <3>5, <3>6, <3>7 DEF JobInv, ContextDiscarded
    <3> QED
      BY <3>8, <3>9, <3>10, <3>11 DEF JobInv
  <2>4. CASE ~(CreateJob(m) /\ Room(kept, owner))
    BY <1>2, <2>2, <2>4 DEF CreateJob, LookupJob
  <2> QED
    BY <2>3, <2>4
<1>3. ASSUME NEW n \in Id, Enter(n)
      PROVE  JobInv'
  <2>1. /\ worker[n] = "spawned" /\ worker' = [worker EXCEPT ![n] = "waiting"]
        /\ queue' = Append(queue, n) /\ UNCHANGED <<issued, jobs, taken>>
    BY <1>3 DEF Enter
  <2>2. worker \in [Id -> {"none", "spawned", "waiting", "analysing"}] /\ queue \in Seq(Id) /\ Known \subseteq Id
    BY DEF TypeInv, GTypeOK
  <2>3. Fresh'
    BY <2>1, <2>2 DEF JobInv, Fresh, Known
  <2>4. QueueInv'
    <3>1. /\ Len(queue) \in Nat /\ Len(queue') = Len(queue) + 1 /\ queue'[Len(queue) + 1] = n
          /\ \A i \in 1..Len(queue) : queue'[i] = queue[i] /\ queue[i] \in Id
      BY <2>1, <2>2
    <3>2. \A i \in 1..Len(queue) : queue[i] # n /\ worker'[queue[i]] = "waiting"
      BY <2>1, <2>2, <3>1 DEF JobInv, QueueInv
    <3>3. worker'[n] = "waiting"
      BY <2>1, <2>2
    <3>4. \A i \in 1..Len(queue') : i \in 1..Len(queue) \/ i = Len(queue) + 1
      BY <3>1
    <3> QED
      BY <3>1, <3>2, <3>3, <3>4 DEF JobInv, QueueInv
  <2>5. Analyses' /\ ContextDiscarded'
    BY <2>1, <2>2 DEF JobInv, Analyses, ContextDiscarded, Known
  <2> QED
    BY <2>3, <2>4, <2>5 DEF JobInv
<1>4. ASSUME NEW n \in Id, MarkRunning(n)
      PROVE  JobInv'
  <2>1. queue # <<>> /\ n = Head(queue) /\ queue' = Tail(queue) /\ issued' = issued
    BY <1>4 DEF MarkRunning
  <2>2. worker \in [Id -> {"none", "spawned", "waiting", "analysing"}] /\ Known \subseteq Id
        /\ taken \in [Id -> Request] /\ \A i \in Known : jobs[i] \in Job
    BY DEF TypeInv, GTypeOK
  <2>3. worker[n] = "waiting" /\ \A i \in 1..Len(queue') : queue'[i] # n /\ queue'[i] \in Id
    BY <2>1, QueueHead DEF JobInv
  <2>4. /\ \A i \in Id \ {n} : worker'[i] = worker[i] /\ taken'[i] = taken[i]
        /\ worker'[n] \in {"none", "analysing"}
    BY <1>4, <2>2 DEF MarkRunning
  <2>5. QueueInv'
    <3>1. /\ Len(queue') \in Nat
          /\ \A i \in 1..Len(queue') : i \in Nat /\ i + 1 \in 1..Len(queue) /\ queue'[i] = queue[i + 1]
      BY <2>1, QueueHead DEF JobInv
    <3>2. \A i \in 1..Len(queue') : worker'[queue'[i]] = "waiting"
      BY <2>3, <2>4, <3>1 DEF JobInv, QueueInv
    <3>3. ASSUME NEW i \in 1..Len(queue'), NEW j \in 1..Len(queue'), queue'[i] = queue'[j] PROVE i = j
      <4>1. queue[i + 1] = queue[j + 1]
        BY <3>1, <3>3
      <4>2. i + 1 = j + 1
        BY <3>1, <4>1 DEF JobInv, QueueInv
      <4> QED
        BY <3>1, <4>2
    <3> QED
      BY <3>2, <3>3 DEF QueueInv
  <2>6. n <= issued /\ \A i \in Id : i > issued => i # n
    BY <2>3, Numbers DEF JobInv, Fresh, Id
  <2>7. CASE n \in Known /\ jobs[n].status = "queued"
    <3>1. jobs' = [jobs EXCEPT ![n].status = "running"] /\ worker'[n] = "analysing"
      BY <1>4, <2>2, <2>7 DEF MarkRunning
    <3>2. /\ Known' = Known /\ \A i \in Known \ {n} : jobs'[i] = jobs[i]
          /\ jobs'[n].status = "running" /\ jobs'[n].request = jobs[n].request
      BY <2>2, <2>7, <3>1 DEF Known, Job
    <3>3. Fresh'
      BY <2>1, <2>4, <2>6, <3>2 DEF JobInv, Fresh
    <3>4. Analyses'
      BY <2>2, <2>4, <3>2 DEF JobInv, Analyses
    <3>5. ContextDiscarded'
      BY <2>2, <2>4, <2>7, <3>1, <3>2 DEF JobInv, ContextDiscarded
    <3> QED
      BY <2>5, <3>3, <3>4, <3>5 DEF JobInv
  <2>8. CASE ~(n \in Known /\ jobs[n].status = "queued")
    <3>1. jobs' = jobs /\ worker'[n] = "none" /\ Known' = Known
      BY <1>4, <2>2, <2>8 DEF MarkRunning, Known
    <3>2. Fresh'
      BY <2>1, <2>4, <2>6, <3>1 DEF JobInv, Fresh
    <3>3. Analyses'
      BY <2>2, <2>4, <3>1 DEF JobInv, Analyses
    <3>4. ContextDiscarded'
      BY <2>2, <2>3, <2>4, <2>8, <3>1 DEF JobInv, ContextDiscarded
    <3> QED
      BY <2>5, <3>2, <3>3, <3>4 DEF JobInv
  <2> QED
    BY <2>7, <2>8
<1>5. ASSUME NEW n \in Id, Analysed(n)
      PROVE  JobInv'
  <2>1. /\ worker[n] = "analysing" /\ worker' = [worker EXCEPT ![n] = "none"]
        /\ taken' = [taken EXCEPT ![n] = NoRequest] /\ UNCHANGED <<issued, queue>>
    BY <1>5 DEF Analysed
  <2>2. PICK status, a : status \in {"complete", "failed"} /\ FinishJob(n, status, a)
    BY <1>5 DEF Analysed
  <2>3. worker \in [Id -> {"none", "spawned", "waiting", "analysing"}] /\ Known \subseteq Id
        /\ taken \in [Id -> Request] /\ \A i \in Known : jobs[i] \in Job
    BY DEF TypeInv, GTypeOK
  <2>4. /\ Known' = Known /\ \A i \in Known \ {n} : jobs'[i] = jobs[i]
        /\ n \in Known => jobs'[n].status = status /\ jobs'[n].request = NoRequest
    BY <2>2, <2>3 DEF FinishJob, Known, Job
  <2>5. Fresh'
    BY <2>1, <2>3, <2>4 DEF JobInv, Fresh
  <2>6. QueueInv'
    BY <2>1, <2>3 DEF JobInv, QueueInv
  <2>7. Analyses'
    BY <2>1, <2>3, <2>4 DEF JobInv, Analyses
  <2>8. ContextDiscarded'
    BY <2>1, <2>2, <2>3, <2>4 DEF JobInv, ContextDiscarded
  <2> QED
    BY <2>5, <2>6, <2>7, <2>8 DEF JobInv
<1>6. CASE Restart
  <2>1. /\ jobs' = <<>> /\ queue' = <<>> /\ issued' = issued
        /\ worker' = [n \in Id |-> "none"] /\ taken' = [n \in Id |-> NoRequest]
    BY <1>6 DEF Restart
  <2>2. Known' = {} /\ Len(queue') = 0
    BY <2>1 DEF Known
  <2> QED
    BY <2>1, <2>2 DEF JobInv, Fresh, QueueInv, Analyses, ContextDiscarded
<1> QED
  BY <1>1, <1>2, <1>3, <1>4, <1>5, <1>6, ServerSteps DEF Goroutine

(* At first there are no jobs.                                              *)
LEMMA JobInit == GInit => JobInv
<1> SUFFICES ASSUME GInit PROVE JobInv
  OBVIOUS
<1>1. Known = {} /\ Len(queue) = 0
  BY DEF GInit, Known
<1> QED
  BY <1>1 DEF GInit, JobInv, Fresh, QueueInv, Analyses, ContextDiscarded

(* Report context is in memory only for a job that a goroutine of its own   *)
(* will end: whenever a job is finished the request goes (runJob), and a    *)
(* job that the semaphore has not reached still has its goroutine.          *)
THEOREM Discarded == GSpec => []ContextDiscarded
<1>1. GInit => TypeInv /\ JobInv
  BY TypeInit, JobInit
<1>2. TypeInv /\ JobInv /\ [GNext]_gvars => TypeInv' /\ JobInv'
  BY TypeStep, JobStep
<1>3. JobInv => ContextDiscarded
  BY DEF JobInv
<1> QED
  BY <1>1, <1>2, <1>3, PTL DEF GSpec

(* What JobsGoForward says of a step.                                       *)
Forward ==
  /\ \A n \in 1..issued : n \notin Known => n \notin DOMAIN jobs'
  /\ \A n \in Known \cap DOMAIN jobs' :
       /\ jobs'[n].owner = jobs[n].owner
       /\ \/ jobs'[n] = jobs[n]
          \/ Progress(jobs'[n].status) > Progress(jobs[n].status)

(* Jobs that stay, stay as they are, and new ones have new ids.             *)
LEMMA ForwardStep ==
  ASSUME TypeInv, JobInv, [GNext]_gvars
  PROVE  Forward
<1>1. CASE UNCHANGED Server
  BY <1>1 DEF Server, Forward, Known
<1>2. ASSUME NEW m \in net, CreateJob(m) \/ LookupJob(m)
      PROVE  Forward
  <2> DEFINE kept == Pruned(m.at)
             id == NewDiagnosisID(kept)
  <2>1. DOMAIN kept \subseteq Known /\ \A n \in DOMAIN kept : kept[n] = jobs[n]
    BY PrunedJobs
  <2>2. issued \in Nat /\ id = issued + 1 /\ Known \subseteq 1..issued
    BY Numbers DEF NewDiagnosisID, JobInv, Fresh
  <2>3. id \notin 1..issued
    BY <2>2
  <2>4. \/ jobs' = kept
        \/ /\ DOMAIN jobs' = DOMAIN kept \cup {id}
           /\ \A n \in DOMAIN kept : n # id => jobs'[n] = kept[n]
    BY <1>2 DEF CreateJob, LookupJob
  <2> HIDE DEF kept, id
  <2>5. \A n \in DOMAIN jobs' : n \in 1..issued => n \in DOMAIN kept /\ jobs'[n] = kept[n]
    BY <2>3, <2>4
  <2> QED
    BY <2>1, <2>2, <2>5 DEF Forward
<1>3. ASSUME NEW n \in Id, Goroutine(n)
      PROVE  Forward
  <2>1. \A i \in Known : jobs[i] \in Job
    BY DEF TypeInv, GTypeOK
  <2>2. CASE Enter(n)
    BY <2>2 DEF Enter, Forward, Known
  <2>3. CASE MarkRunning(n)
    <3>1. jobs' = jobs \/ (n \in Known /\ jobs[n].status = "queued" /\ jobs' = [jobs EXCEPT ![n].status = "running"])
      BY <2>3 DEF MarkRunning
    <3>2. Progress("running") > Progress("queued")
      BY DEF Progress
    <3> QED
      BY <2>1, <3>1, <3>2 DEF Forward, Known, Job
  <2>4. CASE Analysed(n)
    <3>1. worker[n] = "analysing"
      BY <2>4 DEF Analysed
    <3>2. PICK status, a : status \in {"complete", "failed"} /\ FinishJob(n, status, a)
      BY <2>4 DEF Analysed
    <3>3. Progress(status) > Progress("running")
      BY <3>2 DEF Progress
    <3>4. CASE n \notin Known
      BY <3>2, <3>4 DEF FinishJob, Forward, Known
    <3>5. CASE n \in Known
      <4>1. jobs[n].status = "running"
        BY <3>1, <3>5 DEF JobInv, Analyses
      <4>2. jobs' = [jobs EXCEPT ![n].status = status, ![n].result = a, ![n].request = NoRequest]
        BY <3>2, <3>5 DEF FinishJob
      <4>3. /\ DOMAIN jobs' = Known /\ \A i \in Known \ {n} : jobs'[i] = jobs[i]
            /\ jobs'[n].owner = jobs[n].owner /\ jobs'[n].status = status
        BY <2>1, <3>5, <4>2 DEF Known, Job
      <4> QED
        BY <3>3, <4>1, <4>3 DEF Forward
    <3> QED
      BY <3>4, <3>5
  <2> QED
    BY <1>3, <2>2, <2>3, <2>4 DEF Goroutine
<1>4. CASE Restart
  BY <1>4 DEF Restart, Forward
<1> QED
  BY <1>1, <1>2, <1>3, <1>4, ServerSteps

(* A job never goes back, changes hands or returns once it was pruned or    *)
(* lost: createJob, lookupJob, runJob and restarts.                         *)
THEOREM GoesForward == GSpec => JobsGoForward
<1>1. GInit => TypeInv /\ JobInv
  BY TypeInit, JobInit
<1>2. TypeInv /\ JobInv /\ [GNext]_gvars => TypeInv' /\ JobInv'
  BY TypeStep, JobStep
<1>3. TypeInv /\ JobInv /\ [GNext]_gvars => [Forward]_gvars
  BY ForwardStep
<1>4. JobsGoForward <=> [][Forward]_gvars
  BY PTL DEF JobsGoForward, Forward
<1> QED
  BY <1>1, <1>2, <1>3, <1>4, PTL DEF GSpec

-----------------------------------------------------------------------------
(* The result of a client.                                                  *)

(* The id a client was given.                                               *)
Holds(c, n) == \/ client[c].phase \in {"sleeping", "polling"} /\ client[c].id = n
               \/ client[c].response.status = "accepted" /\ client[c].response.id = n

(* The job of that id, if it is still there, is about this request.         *)
Granted(q, n) ==
  /\ n \in 1..issued
  /\ taken[n] \in {NoRequest, Sanitize(q)}
  /\ n \in Known => /\ jobs[n].request \in {NoRequest, Sanitize(q)}
                    /\ jobs[n].status = "complete" => Accepted(jobs[n].result, Sanitize(q), {})

Answer(c) == client[c].response.status = "complete" =>
               Accepted(client[c].response.result, Sanitize(client[c].request), {})

ClientOne(c) == Answer(c) /\ \A n \in Id : Holds(c, n) => Granted(client[c].request, n)

ClientInv == \A c \in Client : ClientOne(c)

(* Whatever the server does, a job stays about the request it was made for. *)
LEMMA GrantStep ==
  ASSUME TypeInv, JobInv, [GNext]_gvars, NEW q \in Request, NEW n \in Id, Granted(q, n)
  PROVE  Granted(q, n)'
<1>1. CASE UNCHANGED Server
  BY <1>1 DEF Server, Granted, Known
<1>2. ASSUME NEW m \in net, CreateJob(m) \/ LookupJob(m)
      PROVE  Granted(q, n)'
  <2>1. issued' \in Nat /\ issued' >= issued /\ taken' = taken
    BY <1>2, Numbers DEF CreateJob, LookupJob
  <2>2. n \in 1..issued'
    BY <2>1, Numbers DEF Granted
  <2>3. Forward
    BY ForwardStep
  <2>4. n \in Known' => n \in Known /\ (jobs'[n] = jobs[n] \/ Progress(jobs'[n].status) > Progress(jobs[n].status))
    BY <2>3 DEF Forward, Granted, Known
  <2>5. n \in Known' => jobs'[n] = jobs[n]
    <3> DEFINE kept == Pruned(m.at)
               id == NewDiagnosisID(kept)
    <3>1. DOMAIN kept \subseteq Known /\ \A i \in DOMAIN kept : kept[i] = jobs[i]
      BY PrunedJobs
    <3>2. id = issued + 1 /\ n # issued + 1
      BY Numbers DEF NewDiagnosisID, Granted
    <3>3. \/ jobs' = kept
          \/ /\ DOMAIN jobs' = DOMAIN kept \cup {id}
             /\ \A i \in DOMAIN kept : i # id => jobs'[i] = kept[i]
      BY <1>2 DEF CreateJob, LookupJob
    <3> HIDE DEF kept, id
    <3> QED
      BY <3>1, <3>2, <3>3 DEF Known
  <2> QED
    BY <2>1, <2>2, <2>4, <2>5 DEF Granted
<1>3. ASSUME NEW i \in Id, Goroutine(i)
      PROVE  Granted(q, n)'
  <2>1. taken \in [Id -> Request] /\ \A j \in Known : jobs[j] \in Job
    BY DEF TypeInv, GTypeOK
  <2>2. CASE Enter(i)
    BY <2>2 DEF Enter, Granted, Known
  <2>3. CASE MarkRunning(i)
    <3>1. issued' = issued
      BY <2>3 DEF MarkRunning
    <3>2. CASE i \in Known /\ jobs[i].status = "queued"
      <4>1. jobs' = [jobs EXCEPT ![i].status = "running"] /\ taken' = [taken EXCEPT ![i] = jobs[i].request]
        BY <2>3, <3>2 DEF MarkRunning
      <4>2. CASE i = n
        <5>1. /\ Known' = Known /\ jobs'[n].request = jobs[n].request /\ jobs'[n].status = "running"
              /\ taken'[n] = jobs[n].request
          BY <2>1, <3>2, <4>1, <4>2 DEF Known, Job
        <5> QED
          BY <3>1, <3>2, <4>2, <5>1 DEF Granted
      <4>3. CASE i # n
        <5>1. Known' = Known /\ taken'[n] = taken[n] /\ (n \in Known => jobs'[n] = jobs[n])
          BY <2>1, <4>1, <4>3 DEF Known
        <5> QED
          BY <3>1, <5>1 DEF Granted
      <4> QED
        BY <4>2, <4>3
    <3>3. CASE ~(i \in Known /\ jobs[i].status = "queued")
      BY <2>3, <3>3 DEF MarkRunning, Granted, Known
    <3> QED
      BY <3>2, <3>3
  <2>4. CASE Analysed(i)
    <3>1. issued' = issued /\ taken' = [taken EXCEPT ![i] = NoRequest]
      BY <2>4 DEF Analysed
    <3>2. taken'[n] \in {NoRequest, Sanitize(q)}
      BY <2>1, <3>1 DEF Granted
    <3>3. PICK status, a : /\ status \in {"complete", "failed"} /\ FinishJob(i, status, a)
                           /\ (status = "complete" => a \in Answers(taken[i]))
      BY <2>4 DEF Analysed
    <3>4. CASE i \notin Known \/ i # n
      <4>1. Known' = Known /\ (n \in Known => jobs'[n] = jobs[n])
        BY <2>1, <3>3, <3>4 DEF FinishJob, Known
      <4> QED
        BY <3>1, <3>2, <4>1 DEF Granted
    <3>5. CASE i \in Known /\ i = n
      <4>1. /\ Known' = Known /\ jobs'[n].request = NoRequest
            /\ jobs'[n].status = status /\ jobs'[n].result = a
        BY <2>1, <3>3, <3>5 DEF FinishJob, Known, Job
      <4>2. status = "complete" => Accepted(a, Sanitize(q), {})
        <5> SUFFICES ASSUME status = "complete" PROVE Accepted(a, Sanitize(q), {})
          OBVIOUS
        <5>1. taken[n] \in Request /\ a \in Answers(taken[n])
          BY <2>1, <3>3, <3>5
        <5>2. ValidRequest(taken[n]) /\ Accepted(a, Sanitize(taken[n]), {})
          BY <5>1, Answered
        <5>3. taken[n] = Sanitize(q)
          BY <5>2 DEF Granted, ValidRequest, NoRequest
        <5> QED
          BY <5>2, <5>3, Sanitized
      <4> QED
        BY <3>1, <3>2, <4>1, <4>2 DEF Granted
    <3> QED
      BY <3>4, <3>5
  <2> QED
    BY <1>3, <2>2, <2>3, <2>4 DEF Goroutine
<1>4. CASE Restart
  <2>1. jobs' = <<>> /\ issued' = issued /\ taken' = [j \in Id |-> NoRequest]
    BY <1>4 DEF Restart
  <2>2. Known' = {}
    BY <2>1 DEF Known
  <2> QED
    BY <2>1, <2>2 DEF Granted
<1> QED
  BY <1>1, <1>2, <1>3, <1>4, ServerSteps

(* A client that keeps its request and learns no id keeps what it has.      *)
LEMMA Carry ==
  ASSUME TypeInv, JobInv, ClientInv, [GNext]_gvars, NEW c \in Client,
         client'[c].request = client[c].request, Answer(c)',
         \A n \in Id : Holds(c, n)' => Holds(c, n)
  PROVE  ClientOne(c)'
<1> SUFFICES ASSUME NEW n \in Id, Holds(c, n)' PROVE Granted(client[c].request, n)'
  BY DEF ClientOne
<1>1. PICK q \in Request : q = client[c].request
  BY DEF TypeInv, GTypeOK, ClientState
<1>2. Granted(q, n)
  BY <1>1 DEF ClientInv, ClientOne
<1>3. Granted(q, n)'
  BY <1>2, GrantStep
<1>4. client'[c].request = q
  BY <1>1
<1> QED
  BY <1>3, <1>4 DEF Granted

(* A client nothing happens to.                                             *)
LEMMA Same ==
  ASSUME TypeInv, JobInv, ClientInv, [GNext]_gvars, NEW c \in Client, client'[c] = client[c]
  PROVE  ClientOne(c)'
<1>1. Answer(c)' /\ \A n \in Id : Holds(c, n)' => Holds(c, n)
  BY DEF ClientInv, ClientOne, Answer, Holds
<1> QED
  BY <1>1, Carry

(* A client without an id or an answer has nothing to show.                 *)
LEMMA Blank ==
  ASSUME NEW c \in Client, client'[c].phase \notin {"sleeping", "polling"},
         client'[c].response.status = "none"
  PROVE  ClientOne(c)'
  BY DEF ClientOne, Answer, Holds

(* What a client does by itself.                                            *)
LEMMA OwnStep ==
  ASSUME TypeInv, JobInv, ClientInv, [GNext]_gvars, NEW c \in Client,
         Continue(c) \/ Cancelled(c) \/ LoseAnswer(c)
  PROVE  ClientInv'
<1>1. client \in [Client -> ClientState]
  BY DEF TypeInv, GTypeOK
<1>2. ASSUME NEW d \in Client, d # c PROVE client'[d] = client[d]
  BY <1>1, <1>2 DEF Continue, Receipt, Poll, Polled, Unanswered, Cancelled, LoseAnswer, Ended
<1>3. CASE \E outcome : Ended(c, outcome)
  <2>1. client'[c].phase = "idle" /\ client'[c].response.status = "none"
    BY <1>1, <1>3 DEF Ended, NoClient, NoResponse
  <2> QED
    BY <1>2, <2>1, Blank, Same DEF ClientInv
<1>4. CASE Receipt(c) /\ client[c].response.status = "accepted"
  <2>1. client' = [client EXCEPT ![c].phase = "sleeping", ![c].id = client[c].response.id,
                                 ![c].response = NoResponse]
    BY <1>4 DEF Receipt
  <2>2. /\ client'[c].phase = "sleeping" /\ client'[c].id = client[c].response.id
        /\ client'[c].response = NoResponse /\ client'[c].request = client[c].request
    BY <1>1, <2>1 DEF ClientState
  <2>3. Answer(c)' /\ \A n \in Id : Holds(c, n)' => Holds(c, n)
    BY <1>4, <2>2 DEF Answer, Holds, NoResponse
  <2> QED
    BY <1>2, <2>2, <2>3, Carry, Same DEF ClientInv
<1>5. CASE Poll(c)
  <2>1. client[c].phase = "sleeping" /\ client' = [client EXCEPT ![c].phase = "polling"]
    BY <1>5 DEF Poll
  <2>2. /\ client'[c].phase = "polling" /\ client'[c].id = client[c].id
        /\ client'[c].response = client[c].response /\ client'[c].request = client[c].request
    BY <1>1, <2>1 DEF ClientState
  <2>3. Answer(c)'
    <3>1. Answer(c)
      BY DEF ClientInv, ClientOne
    <3> QED
      BY <2>2, <3>1 DEF Answer
  <2>4. \A n \in Id : Holds(c, n)' => Holds(c, n)
    BY <2>1, <2>2 DEF Holds
  <2> QED
    BY <1>2, <2>2, <2>3, <2>4, Carry, Same DEF ClientInv
<1>6. CASE Polled(c) /\ client[c].response.status \in {"queued", "running"}
  <2>1. /\ client[c].phase = "polling"
        /\ client' = [client EXCEPT ![c].phase = "sleeping", ![c].response = NoResponse]
    BY <1>6 DEF Polled
  <2>2. /\ client'[c].phase = "sleeping" /\ client'[c].id = client[c].id
        /\ client'[c].response = NoResponse /\ client'[c].request = client[c].request
    BY <1>1, <2>1 DEF ClientState
  <2>3. NoResponse.status = "none"
    BY DEF NoResponse
  <2>4. Answer(c)'
    BY <2>2, <2>3 DEF Answer
  <2>5. \A n \in Id : Holds(c, n)' => Holds(c, n)
    BY <2>1, <2>2, <2>3 DEF Holds
  <2> QED
    BY <1>2, <2>2, <2>4, <2>5, Carry, Same DEF ClientInv
<1>7. CASE LoseAnswer(c)
  <2>1. client' = [client EXCEPT ![c].response = NoResponse]
    BY <1>7 DEF LoseAnswer
  <2>2. /\ client'[c].phase = client[c].phase /\ client'[c].id = client[c].id
        /\ client'[c].response = NoResponse /\ client'[c].request = client[c].request
    BY <1>1, <2>1 DEF ClientState
  <2>3. Answer(c)' /\ \A n \in Id : Holds(c, n)' => Holds(c, n)
    BY <2>2 DEF Answer, Holds, NoResponse
  <2> QED
    BY <1>2, <2>2, <2>3, Carry, Same DEF ClientInv
<1> QED
  BY <1>3, <1>4, <1>5, <1>6, <1>7 DEF Continue, Receipt, Polled, Unanswered, Cancelled

(* What a client is told.                                                   *)
LEMMA ToldStep ==
  ASSUME TypeInv, JobInv, ClientInv, [GNext]_gvars, NEW m \in net,
         PostInvalid(m) \/ CreateJob(m) \/ LookupJob(m)
  PROVE  ClientInv'
<1> DEFINE c == m.from
           kept == Pruned(m.at)
           id == NewDiagnosisID(kept)
<1>1. client \in [Client -> ClientState] /\ m \in Message /\ c \in Client
  BY DEF TypeInv, GTypeOK, Message
<1>2. PICK r : Respond(m, r)
  BY DEF PostInvalid, CreateJob, LookupJob
<1>3. ASSUME NEW d \in Client, d # c PROVE client'[d] = client[d]
  BY <1>1, <1>2, <1>3 DEF Respond
<1>4. CASE ~Awaits(m)
  <2>1. client' = client
    BY <1>2, <1>4 DEF Respond
  <2> QED
    BY <2>1, Same DEF ClientInv
<1>5. ASSUME NEW told, Respond(m, told), Awaits(m), told.status # "accepted",
             told.status = "complete" => Accepted(told.result, Sanitize(client[c].request), {})
      PROVE  ClientInv'
  <2>1. client' = [client EXCEPT ![c].response = told]
    BY <1>5 DEF Respond
  <2>2. /\ client'[c].phase = client[c].phase /\ client'[c].id = client[c].id
        /\ client'[c].response = told /\ client'[c].request = client[c].request
    BY <1>1, <2>1 DEF ClientState
  <2>3. Answer(c)' /\ \A n \in Id : Holds(c, n)' => Holds(c, n)
    BY <1>5, <2>2 DEF Answer, Holds
  <2> QED
    BY <1>1, <1>3, <2>2, <2>3, Carry, Same DEF ClientInv
<1>6. CASE Awaits(m) /\ PostInvalid(m)
  <2>1. Respond(m, Told("refused")) /\ Told("refused").status = "refused"
    BY <1>6 DEF PostInvalid, Told, NoResponse
  <2> QED
    BY <1>5, <1>6, <2>1
<1>7. CASE Awaits(m) /\ CreateJob(m) /\ ~Room(kept, TokenOf[c])
  <2>1. Respond(m, Told("refused")) /\ Told("refused").status = "refused"
    BY <1>7 DEF CreateJob, Told, NoResponse
  <2> QED
    BY <1>5, <1>7, <2>1
<1>8. CASE Awaits(m) /\ CreateJob(m) /\ Room(kept, TokenOf[c])
  <2> DEFINE told == [Told("accepted") EXCEPT !.id = id]
             new == [owner |-> TokenOf[c], status |-> "queued", created |-> m.at,
                     request |-> Sanitize(m.request), result |-> NoAssessment]
  <2>1. /\ m.kind = "post" /\ Respond(m, told) /\ issued' = issued + 1 /\ taken' = taken
        /\ jobs' = [n \in DOMAIN kept \cup {id} |-> IF n = id THEN new ELSE kept[n]]
        /\ id = issued + 1
    BY <1>8 DEF CreateJob, NewDiagnosisID
  <2>2. client' = [client EXCEPT ![c].response = told]
    BY <1>8, <2>1 DEF Respond
  <2>3. told.status = "accepted" /\ told.id = id
    BY DEF Told, NoResponse
  <2>4. client[c].phase = "posting" /\ client[c].request = m.request
    BY <1>8, <2>1 DEF Awaits
  <2>5. issued + 1 \in Id /\ issued \in Nat
    BY <2>1, OneLess, Numbers
  <2>6. new.request = Sanitize(m.request) /\ new.status = "queued"
    OBVIOUS
  <2> HIDE DEF told, new, kept, id
  <2>7. /\ client'[c].phase = "posting" /\ client'[c].response = told
        /\ client'[c].request = m.request
    BY <1>1, <2>2, <2>4 DEF ClientState
  <2>8. ASSUME NEW n \in Id, Holds(c, n)' PROVE Granted(client[c].request, n)'
    <3>1. n = id
      BY <2>3, <2>7, <2>8 DEF Holds
    <3>2. n \in 1..issued' /\ n > issued
      BY <2>1, <2>5, <3>1
    <3>3. taken'[n] = NoRequest
      BY <2>1, <3>2 DEF JobInv, Fresh
    <3>4. jobs'[n] = new
      BY <2>1, <3>1
    <3> QED
      BY <2>6, <2>7, <3>2, <3>3, <3>4 DEF Granted
  <2>9. Answer(c)'
    BY <2>3, <2>7 DEF Answer
  <2>10. ClientOne(c)'
    BY <2>8, <2>9 DEF ClientOne
  <2> QED
    BY <1>1, <1>3, <2>10, Same DEF ClientInv
<1>9. CASE Awaits(m) /\ LookupJob(m)
  <2>1. CASE m.id \notin OwnedBy(kept, TokenOf[c])
    <3>1. Respond(m, Told("notfound")) /\ Told("notfound").status = "notfound"
      BY <1>9, <2>1 DEF LookupJob, Told, NoResponse
    <3> QED
      BY <1>5, <1>9, <3>1
  <2>2. CASE m.id \in OwnedBy(kept, TokenOf[c])
    <3> DEFINE told == [status |-> kept[m.id].status, id |-> m.id, result |-> kept[m.id].result]
    <3>1. Respond(m, told) /\ m.kind = "get"
      BY <1>9, <2>2 DEF LookupJob
    <3>2. m.id \in Known /\ kept[m.id] = jobs[m.id] /\ m.id \in Id /\ jobs[m.id] \in Job
      BY <2>2, PrunedJobs DEF OwnedBy, TypeInv, GTypeOK
    <3>3. client[c].phase = "polling" /\ client[c].id = m.id
      BY <1>9, <3>1 DEF Awaits
    <3>4. Granted(client[c].request, m.id)
      BY <1>1, <3>2, <3>3 DEF ClientInv, ClientOne, Holds
    <3>5. told.status = jobs[m.id].status /\ told.result = jobs[m.id].result
      BY <3>2
    <3>6. told.status # "accepted"
      BY <3>2, <3>5 DEF Job
    <3>7. told.status = "complete" => Accepted(told.result, Sanitize(client[c].request), {})
      BY <3>2, <3>4, <3>5 DEF Granted
    <3> HIDE DEF told
    <3> QED
      BY <1>5, <1>9, <3>1, <3>6, <3>7
  <2> QED
    BY <2>1, <2>2
<1> QED
  BY <1>4, <1>6, <1>7, <1>8, <1>9

(* Every step keeps it.                                                     *)
LEMMA ClientStep ==
  ASSUME TypeInv, JobInv, ClientInv, [GNext]_gvars
  PROVE  ClientInv'
<1>1. client \in [Client -> ClientState]
  BY DEF TypeInv, GTypeOK
<1>2. ASSUME NEW d \in Client, NEW r \in Content, Diagnose(d, r) PROVE ClientInv'
  <2>1. \A c \in Client : c # d => client'[c] = client[c]
    BY <1>1, <1>2 DEF Diagnose
  <2>2. client'[d].phase \notin {"sleeping", "polling"} /\ client'[d].response.status = "none"
    <3>1. \/ \E mine : client' = [client EXCEPT ![d] = [NoClient EXCEPT !.phase = "posting", !.request = mine]]
          \/ client' = [client EXCEPT ![d] = [NoClient EXCEPT !.outcome = "error"]]
      BY <1>2 DEF Diagnose
    <3>2. NoClient.response.status = "none" /\ NoClient.phase = "idle"
      BY DEF NoClient, NoResponse
    <3>3. \/ client'[d].phase = "posting" /\ client'[d].response = NoClient.response
          \/ client'[d].phase = "idle" /\ client'[d].response = NoClient.response
      BY <1>1, <3>1 DEF NoClient
    <3> QED
      BY <3>2, <3>3
  <2> QED
    BY <2>1, <2>2, Same, Blank DEF ClientInv
<1>3. ASSUME NEW c \in Client, Continue(c) \/ Cancelled(c) \/ LoseAnswer(c) PROVE ClientInv'
  BY <1>3, OwnStep
<1>4. ASSUME NEW m \in net, PostInvalid(m) \/ CreateJob(m) \/ LookupJob(m) PROVE ClientInv'
  BY <1>4, ToldStep
<1>5. CASE client' = client
  BY <1>5, Same DEF ClientInv
<1>6. ASSUME NEW m \in net, Arrive(m) \/ Lose(m) PROVE client' = client
  BY <1>6 DEF Arrive, Lose
<1>7. ASSUME NEW n \in Id, Goroutine(n) PROVE client' = client
  BY <1>7 DEF Goroutine, Enter, MarkRunning, Analysed
<1>8. Tick \/ Restart \/ UNCHANGED gvars => client' = client
  BY DEF Tick, Restart, gvars
<1> QED
  BY <1>2, <1>3, <1>4, <1>5, <1>6, <1>7, <1>8 DEF GNext, Handle

(* A client gets the result of its own call, and takes what the server      *)
(* accepted: Diagnose judges by the request it did not sanitize.            *)
THEOREM OwnResults == GSpec => []OwnResult
<1>1. GInit => TypeInv /\ JobInv
  BY TypeInit, JobInit
<1>2. GInit => ClientInv
  BY DEF GInit, ClientInv, ClientOne, Answer, Holds, NoClient, NoResponse
<1>3. TypeInv /\ JobInv /\ [GNext]_gvars => TypeInv' /\ JobInv'
  BY TypeStep, JobStep
<1>4. TypeInv /\ JobInv /\ ClientInv /\ [GNext]_gvars => ClientInv'
  BY ClientStep
<1>5. TypeInv /\ ClientInv => OwnResult
  <2> SUFFICES ASSUME TypeInv, ClientInv, NEW c \in Client, client[c].response.status = "complete"
               PROVE  LET result == client[c].response.result
                      IN result.call = client[c].request.call /\ Accepted(result, client[c].request, {})
    BY DEF OwnResult
  <2>1. client[c].request \in Request /\ client[c].response.result \in Assessment
    BY DEF TypeInv, GTypeOK, ClientState, Response
  <2>2. Accepted(client[c].response.result, Sanitize(client[c].request), {})
    BY DEF ClientInv, ClientOne, Answer
  <2> QED
    BY <2>1, <2>2, AcceptedBoth
<1> QED
  BY <1>1, <1>2, <1>3, <1>4, <1>5, PTL DEF GSpec
=============================================================================
