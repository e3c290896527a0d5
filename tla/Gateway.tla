------------------------------- MODULE Gateway -------------------------------
(***************************************************************************)
(* The gateway of internal/gateway and its clients: a client posts a       *)
(* request and polls the job it was given; the server keeps jobs in memory *)
(* under a lock, one goroutine for each, and lets a few of them analyse at *)
(* a time.  Old jobs are pruned when a request looks at the jobs, whatever *)
(* their goroutines are doing.                                             *)
(*                                                                         *)
(* The clock of a handler is read before it takes the lock.  A message or  *)
(* its answer may be lost, a client gives up whenever its context ends,    *)
(* and what it sent is handled all the same; the server may restart.       *)
(***************************************************************************)
EXTENDS OnlineAssessment, Sequences

CONSTANTS Client,
          Device,           \* device tokens the server knows
          TokenOf,          \* the device of a client
          Content,          \* what technicians ask about: requests without a call
          MaxJobs, MaxJobsPerDevice, MaxConcurrent,
          TTL,              \* JobTTL
          MaxTime,          \* bound on the clock
          MaxCalls          \* bound on the number of calls, thus of jobs

ASSUME GatewayAssumption ==
  /\ TokenOf \in [Client -> Device]
  /\ Content \subseteq Request
  /\ {MaxJobs, MaxJobsPerDevice, MaxConcurrent} \subseteq Nat \ {0}
  /\ {TTL, MaxTime, MaxCalls} \subseteq Nat

VARIABLES now, calls, issued,
          jobs,    \* the jobs the server keeps, by id
          worker,  \* the goroutine of each job: none, spawned, waiting, analysing
          queue,   \* the goroutines waiting for the semaphore, first come first served
          taken,   \* the request each goroutine took from its job
          net,     \* requests on their way to the server or in a handler
          client

gvars == <<now, calls, issued, jobs, worker, queue, taken, net, client>>

Id == 1..MaxCalls
NoRequest == [call |-> 0, approved |-> FALSE, fits |-> FALSE, refs |-> {}, answered |-> {}]
NoAssessment == [call |-> 0, wellFormed |-> FALSE, refs |-> {}, cited |-> {},
                 sources |-> {}, asks |-> {}, ops |-> {}, limits |-> 0]

Job == [owner : Device, status : {"queued", "running", "complete", "failed"},
        created : 0..MaxTime, request : Request, result : Assessment]

(* at: the clock of its handler, or 0 before it has one.                    *)
Message == [from : Client, kind : {"post", "get"}, id : 0..MaxCalls, request : Request,
            handled : BOOLEAN, at : 0..MaxTime]

Status == {"none", "accepted", "refused", "notfound", "queued", "running", "complete", "failed"}
Response == [status : Status, id : 0..MaxCalls, result : Assessment]
NoResponse == [status |-> "none", id |-> 0, result |-> NoAssessment]

ClientState == [phase : {"idle", "posting", "sleeping", "polling"}, request : Request,
                id : 0..MaxCalls, response : Response, outcome : {"none", "ok", "error"}]
NoClient == [phase |-> "idle", request |-> NoRequest, id |-> 0, response |-> NoResponse,
             outcome |-> "none"]

GInit ==
  /\ now = 0 /\ calls = 0 /\ issued = 0
  /\ jobs = <<>> /\ queue = <<>> /\ net = {}
  /\ worker = [n \in Id |-> "none"] /\ taken = [n \in Id |-> NoRequest]
  /\ client = [c \in Client |-> NoClient]

Server == <<issued, jobs, worker, queue, taken>>
Known  == DOMAIN jobs

-----------------------------------------------------------------------------
(* The client: Diagnose.                                                    *)

(* Every call is about a report of its own, and uploads nothing without     *)
(* approval.                                                                *)
Diagnose(c, r) ==
  /\ client[c].phase = "idle" /\ calls < MaxCalls
  /\ calls' = calls + 1
  /\ LET mine == [r EXCEPT !.call = calls + 1]
     IN IF r.approved
        THEN /\ client' = [client EXCEPT ![c] = [NoClient EXCEPT !.phase = "posting", !.request = mine]]
             /\ net' = net \cup {[from |-> c, kind |-> "post", id |-> 0, request |-> mine,
                                  handled |-> FALSE, at |-> 0]}
        ELSE /\ client' = [client EXCEPT ![c] = [NoClient EXCEPT !.outcome = "error"]]
             /\ UNCHANGED net
  /\ UNCHANGED <<now, Server>>

Ended(c, outcome) == client' = [client EXCEPT ![c] = [NoClient EXCEPT !.outcome = outcome]]

Receipt(c) ==
  /\ client[c].phase = "posting" /\ client[c].response.status # "none"
  /\ IF client[c].response.status = "accepted"
     THEN client' = [client EXCEPT ![c].phase = "sleeping", ![c].id = client[c].response.id,
                                   ![c].response = NoResponse]
     ELSE Ended(c, "error")
  /\ UNCHANGED <<now, calls, net, Server>>

Poll(c) ==
  /\ client[c].phase = "sleeping"
  /\ client' = [client EXCEPT ![c].phase = "polling"]
  /\ net' = net \cup {[from |-> c, kind |-> "get", id |-> client[c].id, request |-> NoRequest,
                       handled |-> FALSE, at |-> 0]}
  /\ UNCHANGED <<now, calls, Server>>

(* The client judges the result by its own, unsanitized request.            *)
Polled(c) ==
  /\ client[c].phase = "polling" /\ client[c].response.status # "none"
  /\ LET told == client[c].response
     IN CASE told.status \in {"queued", "running"} ->
               client' = [client EXCEPT ![c].phase = "sleeping", ![c].response = NoResponse]
          [] told.status = "complete" ->
               Ended(c, IF Accepted(told.result, client[c].request, {}) THEN "ok" ELSE "error")
          [] OTHER -> Ended(c, "error")
  /\ UNCHANGED <<now, calls, net, Server>>

(* The context of the caller ends, in the middle of anything.               *)
Cancelled(c) ==
  /\ client[c].phase # "idle"
  /\ Ended(c, "error")
  /\ UNCHANGED <<now, calls, net, Server>>

(* The connection breaks: neither request nor response will come through.   *)
Unanswered(c) ==
  /\ client[c].phase \in {"posting", "polling"} /\ client[c].response.status = "none"
  /\ \A m \in net : m.from # c
  /\ Ended(c, "error")
  /\ UNCHANGED <<now, calls, net, Server>>

-----------------------------------------------------------------------------
(* The server: handlers.                                                    *)
Arrive(m) ==
  /\ ~m.handled
  /\ net' = (net \ {m}) \cup {[m EXCEPT !.handled = TRUE, !.at = now]}
  /\ UNCHANGED <<now, calls, client, Server>>

(* An answer reaches the client that waits for it, if it still does.        *)
Awaits(m) ==
  LET k == client[m.from]
  IN /\ k.phase = (IF m.kind = "post" THEN "posting" ELSE "polling")
     /\ k.response.status = "none"
     /\ IF m.kind = "post" THEN k.request = m.request ELSE k.id = m.id

Respond(m, r) ==
  /\ net' = net \ {m}
  /\ client' = IF Awaits(m) THEN [client EXCEPT ![m.from].response = r] ELSE client
  /\ UNCHANGED <<now, calls>>

Told(status) == [NoResponse EXCEPT !.status = status]

(* pruneLocked.                                                             *)
Pruned(at) == [n \in {i \in Known : at - jobs[i].created <= TTL} |-> jobs[n]]

OwnedBy(kept, d) == {n \in DOMAIN kept : kept[n].owner = d}

(* The request is refused before it becomes a job.                          *)
PostInvalid(m) ==
  /\ m.handled /\ m.kind = "post"
  /\ ~ValidRequest(m.request)
  /\ Respond(m, Told("refused"))
  /\ UNCHANGED Server

(* Mutant: finished jobs do not count.                                      *)
RoomForUnfinished(kept, d) ==
  LET busy == {n \in DOMAIN kept : kept[n].status \in {"queued", "running"}}
  IN Cardinality(busy) < MaxJobs /\ Cardinality(OwnedBy(kept, d) \cap busy) < MaxJobsPerDevice

Room(kept, d) == /\ Cardinality(DOMAIN kept) < MaxJobs
                 /\ Cardinality(OwnedBy(kept, d)) < MaxJobsPerDevice

(* Mutant: an id is used again when its job is gone.                        *)
NewIdFromZero(kept) == Cardinality(DOMAIN kept)

(* A random id: none was given out twice.                                   *)
NewDiagnosisID(kept) == issued + 1

(* createJob, and the goroutine that is started for it.                     *)
CreateJob(m) ==
  /\ m.handled /\ m.kind = "post" /\ ValidRequest(m.request)
  /\ LET kept == Pruned(m.at)
         d == TokenOf[m.from]
         id == NewDiagnosisID(kept)
         job == [owner |-> d, status |-> "queued", created |-> m.at,
                 request |-> Sanitize(m.request), result |-> NoAssessment]
     IN IF Room(kept, d)
        THEN /\ jobs' = [n \in DOMAIN kept \cup {id} |-> IF n = id THEN job ELSE kept[n]]
             /\ issued' = issued + 1
             /\ worker' = [worker EXCEPT ![id] = "spawned"]
             /\ Respond(m, [Told("accepted") EXCEPT !.id = id])
        ELSE /\ jobs' = kept
             /\ Respond(m, Told("refused"))
             /\ UNCHANGED <<issued, worker>>
  /\ UNCHANGED <<queue, taken>>

LookupJob(m) ==
  /\ m.handled /\ m.kind = "get"
  /\ LET kept == Pruned(m.at)
         found == m.id \in OwnedBy(kept, TokenOf[m.from])
     IN /\ jobs' = kept
        /\ Respond(m, IF found THEN [status |-> kept[m.id].status, id |-> m.id,
                                     result |-> kept[m.id].result]
                      ELSE Told("notfound"))
  /\ UNCHANGED <<issued, worker, queue, taken>>

-----------------------------------------------------------------------------
(* The server: the goroutine of a job, runJob.                              *)
Enter(n) ==
  /\ worker[n] = "spawned"
  /\ worker' = [worker EXCEPT ![n] = "waiting"]
  /\ queue' = Append(queue, n)
  /\ UNCHANGED <<now, calls, issued, jobs, taken, net, client>>

Analysing == {n \in Id : worker[n] = "analysing"}

(* A slot is free: the job is marked running, unless it has been pruned.    *)
MarkRunning(n) ==
  /\ queue # <<>> /\ n = Head(queue)
  /\ Cardinality(Analysing) < MaxConcurrent
  /\ queue' = Tail(queue)
  /\ IF n \in Known /\ jobs[n].status = "queued"
     THEN /\ jobs' = [jobs EXCEPT ![n].status = "running"]
          /\ worker' = [worker EXCEPT ![n] = "analysing"]
          /\ taken' = [taken EXCEPT ![n] = jobs[n].request]
     ELSE /\ worker' = [worker EXCEPT ![n] = "none"]
          /\ UNCHANGED <<jobs, taken>>
  /\ UNCHANGED <<now, calls, issued, net, client>>

(* Mutant: a failed job keeps its request.                                  *)
FinishKeepsRequest(n, status, result) ==
  jobs' = IF n \notin Known THEN jobs
          ELSE [jobs EXCEPT ![n].status = status, ![n].result = result,
                            ![n].request = IF status = "failed" THEN @ ELSE NoRequest]

(* Mutant: a job that was pruned meanwhile is put back.                     *)
FinishAnyway(n, status, result) ==
  jobs' = [i \in Known \cup {n} |->
             IF i # n THEN jobs[i]
             ELSE [owner |-> IF n \in Known THEN jobs[n].owner ELSE CHOOSE d \in Device : TRUE,
                   status |-> status, created |-> IF n \in Known THEN jobs[n].created ELSE now,
                   request |-> NoRequest, result |-> result]]

(* Mutant: a failure is logged and forgotten.                               *)
FinishOnlyComplete(n, status, result) ==
  jobs' = IF n \notin Known \/ status = "failed" THEN jobs
          ELSE [jobs EXCEPT ![n].status = status, ![n].result = result, ![n].request = NoRequest]

FinishJob(n, status, result) ==
  jobs' = IF n \notin Known THEN jobs
          ELSE [jobs EXCEPT ![n].status = status, ![n].result = result, ![n].request = NoRequest]

(* The analysis ends, with an accepted assessment or an error (a timeout, a *)
(* refusal, an answer that policy rejects), and the slot is given back.     *)
Analysed(n) ==
  /\ worker[n] = "analysing"
  /\ \/ \E a \in Answers(taken[n]) : FinishJob(n, "complete", a)
     \/ FinishJob(n, "failed", NoAssessment)
  /\ worker' = [worker EXCEPT ![n] = "none"]
  /\ taken' = [taken EXCEPT ![n] = NoRequest]
  /\ UNCHANGED <<now, calls, issued, queue, net, client>>

-----------------------------------------------------------------------------
Tick == now < MaxTime /\ now' = now + 1
        /\ UNCHANGED <<calls, issued, jobs, worker, queue, taken, net, client>>

Lose(m) == net' = net \ {m} /\ UNCHANGED <<now, calls, client, Server>>

(* An answer is lost on its way to the client.                              *)
LoseAnswer(c) ==
  /\ client[c].response.status # "none"
  /\ client' = [client EXCEPT ![c].response = NoResponse]
  /\ UNCHANGED <<now, calls, net, Server>>

(* Everything the server keeps is in memory.                                *)
Restart ==
  /\ jobs' = <<>> /\ queue' = <<>> /\ net' = {}
  /\ worker' = [n \in Id |-> "none"] /\ taken' = [n \in Id |-> NoRequest]
  /\ UNCHANGED <<now, calls, issued, client>>

Handle(m) == Arrive(m) \/ PostInvalid(m) \/ CreateJob(m) \/ LookupJob(m)
Continue(c) == Receipt(c) \/ Poll(c) \/ Polled(c) \/ Unanswered(c)
Goroutine(n) == Enter(n) \/ MarkRunning(n) \/ Analysed(n)

GNext == \/ \E c \in Client : \/ \E r \in Content : Diagnose(c, r)
                              \/ Continue(c) \/ Cancelled(c) \/ LoseAnswer(c)
         \/ \E m \in net : Handle(m) \/ Lose(m)
         \/ \E n \in Id : Goroutine(n)
         \/ Tick \/ Restart

(* A message that has arrived is handled, a client goes on, a goroutine     *)
(* runs: an analysis ends with its timeout at the latest.                   *)
GFairness == /\ \A c \in Client : /\ WF_gvars(Continue(c))
                                 /\ WF_gvars(\E m \in net : m.from = c /\ Handle(m))
             /\ \A n \in Id : WF_gvars(Goroutine(n))

GSpec == GInit /\ [][GNext]_gvars /\ GFairness

-----------------------------------------------------------------------------
(* Properties.                                                              *)

(* Every variable has its type.                                             *)
GTypeOK ==
  /\ now \in 0..MaxTime /\ calls \in 0..MaxCalls /\ issued \in 0..MaxCalls
  /\ Known \subseteq Id /\ \A n \in Known : jobs[n] \in Job
  /\ worker \in [Id -> {"none", "spawned", "waiting", "analysing"}]
  /\ queue \in Seq(Id) /\ taken \in [Id -> Request]
  /\ net \subseteq Message /\ client \in [Client -> ClientState]

(* The result a client is handed was made from the very request of this     *)
(* call, whatever was lost, pruned, restarted or handled late; and the      *)
(* client, which judges by the request it did not sanitize, refuses nothing *)
(* that the server accepted.                                                *)
OwnResult ==
  \A c \in Client :
    client[c].response.status = "complete" =>
      LET result == client[c].response.result
      IN result.call = client[c].request.call /\ Accepted(result, client[c].request, {})

(* A request is in the memory of the server only while its job waits or is  *)
(* analysed, and then there is a goroutine that will end it                 *)
(* (docs/gateway.md:14).                                                    *)
ContextDiscarded ==
  \A n \in Known :
    IF jobs[n].request = NoRequest
    THEN jobs[n].status \in {"complete", "failed"}
    ELSE /\ jobs[n].status = "queued" => worker[n] \in {"spawned", "waiting"}
         /\ jobs[n].status = "running" => worker[n] = "analysing"
         /\ jobs[n].status \in {"queued", "running"}
         /\ jobs[n].request.refs \cap Private = {}

(* The limits hold while old jobs are pruned under their goroutines: kept   *)
(* jobs, those of a device, and analyses under way, which go on when their  *)
(* job is gone.                                                             *)
WithinLimits ==
  /\ Cardinality(Known) <= MaxJobs
  /\ \A d \in Device : Cardinality(OwnedBy(jobs, d)) <= MaxJobsPerDevice
  /\ Cardinality(Analysing) <= MaxConcurrent

(* A job goes from queued to running to its end and out, never back: a poll *)
(* is never told less than an earlier one, and what was pruned stays away.  *)
Progress(s) == CASE s = "queued" -> 1 [] s = "running" -> 2 [] OTHER -> 3

JobsGoForward ==
  [][/\ \A n \in 1..issued : n \notin Known => n \notin DOMAIN jobs'
     /\ \A n \in Known \cap DOMAIN jobs' :
          /\ jobs'[n].owner = jobs[n].owner
          /\ \/ jobs'[n] = jobs[n]
             \/ Progress(jobs'[n].status) > Progress(jobs[n].status)]_gvars

(* Every call of a client ends, also without a deadline of its own: when    *)
(* its job was pruned while it was queued or analysed, when the server was  *)
(* restarted, and when a message was lost.                                  *)
CallEnds == \A c \in Client : client[c].phase # "idle" ~> client[c].phase = "idle"
=============================================================================
