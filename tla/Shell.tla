-------------------------------- MODULE Shell --------------------------------
(***************************************************************************)
(* A diagnostic run of the technician shell: the UI thread of              *)
(* internal/shell/winui starts a worker that runs RunCollection of         *)
(* internal/shell/orchestrator, which runs the collector and the agent as  *)
(* child processes with a progress goroutine beside each, and reports      *)
(* through the queue of internal/shell/uiqueue.                            *)
(*                                                                         *)
(* The artifacts are files that anybody may write: the technician has a    *)
(* console (openCmd).                                                      *)
(*                                                                         *)
(* Abstracted: the clock of a rescue system may be set at any time, so any *)
(* file may look fresh or stale; percentages are steps; the screens are the*)
(* artifacts it was made from; a friendly message is its run and outcome.  *)
(***************************************************************************)
EXTENDS Integers, FiniteSets

CONSTANTS MaxRuns,    \* bound on the runs of diagnostics
          MaxVisits   \* bound on the files written from the console

ASSUME ShellAssumption == {MaxRuns, MaxVisits} \subseteq Nat

VARIABLES visits, disk, ui,
          queue,   \* uiqueue.Queue
          posts,   \* whether messages posted to the UI thread wait to be dispatched
          worker, pulser

svars == <<visits, disk, ui, queue, posts, worker, pulser>>

Artifact == {"report", "diagnosis", "session"}
Phase    == {"collector", "agent"}
Writes   == [p \in Phase |-> IF p = "collector" THEN {"report"} ELSE {"diagnosis", "session"}]

(* A report is named by the run it was collected in, or by 0.  born is the  *)
(* run a file was written in.  A file that cannot be decoded is worth as    *)
(* much as none.                                                            *)
File   == [valid : BOOLEAN, id : 0..MaxRuns, born : 0..MaxRuns]
NoFile == [valid |-> FALSE, id |-> 0, born |-> 0]
NoFiles == [f \in Artifact |-> NoFile]

(* The percentages 5, 10..55, 60..95 and 100.                               *)
From == [collector |-> 2, agent |-> 4]
To   == [collector |-> 3, agent |-> 5]
Full == 6

Progress   == [run : 0..MaxRuns, percent : 0..Full]
NoProgress == [run |-> 0, percent |-> 0]

Result   == [state : {"none", "ok", "failed"}, run : 0..MaxRuns, files : [Artifact -> File]]
NoResult == [state |-> "none", run |-> 0, files |-> NoFiles]

Idle == [pc |-> "idle", run |-> 0, phase |-> "collector", read |-> 0,
         failed |-> FALSE, expired |-> FALSE, result |-> NoResult]

Off == [state |-> "off", stop |-> FALSE, percent |-> 0]

SInit ==
  /\ visits = 0 /\ posts = FALSE
  /\ disk \in {NoFiles, [f \in Artifact |-> [NoFile EXCEPT !.valid = TRUE]]}
  /\ ui = [running |-> FALSE, runs |-> 0, ended |-> 0, state |-> "idle", progress |-> NoProgress,
           shown |-> [NoFiles EXCEPT !.report = disk.report]]
  /\ queue = [progress |-> NoProgress, terminal |-> NoResult, terminalSet |-> FALSE]
  /\ worker = Idle /\ pulser = [p \in Phase |-> Off]

-----------------------------------------------------------------------------
(* The queue.  Every push is followed by a PostMessage.                     *)
New == [progress |-> NoProgress, terminal |-> NoResult, terminalSet |-> FALSE]

PushProgress(q, p) == IF q.terminalSet THEN q ELSE [q EXCEPT !.progress = p]

PushTerminal(q, r) ==
  IF q.terminalSet THEN q ELSE [progress |-> NoProgress, terminal |-> r, terminalSet |-> TRUE]

QueueProgress(q, percent, run) ==
  /\ queue' = PushProgress(q, [run |-> run, percent |-> percent])
  /\ posts' = TRUE

(* Mutant: the terminal stays in the queue.                                 *)
DrainedKeepsTerminal(q) == [q EXCEPT !.progress = NoProgress]

(* terminalSet stays, so that late progress stays ignored.                  *)
Drained(q) == [q EXCEPT !.progress = NoProgress, !.terminal = NoResult]

-----------------------------------------------------------------------------
(* The UI thread.                                                           *)

(* Mutant: the queue of the run before is used on.                          *)
Unreset(q) == q

Reset(q) == New

StartDiagnostics ==
  /\ ~ui.running /\ ui.runs < MaxRuns
  /\ ui' = [ui EXCEPT !.running = TRUE, !.runs = @ + 1, !.state = "running"]
  /\ QueueProgress(Reset(queue), 1, ui.runs + 1)
  /\ worker' = [Idle EXCEPT !.pc = "clear", !.run = ui.runs + 1]
  /\ UNCHANGED <<visits, disk, pulser>>

(* What the screens show after a terminal: a run that failed before it had  *)
(* a report leaves them alone.                                              *)
Show(shown, r) == IF r.files.report = NoFile THEN shown ELSE r.files

(* drainUIEvents, for one of the messages.  The message box at its end      *)
(* dispatches messages as well.                                             *)
DrainUIEvents ==
  /\ posts
  /\ posts' \in BOOLEAN
  /\ queue' = Drained(queue)
  /\ LET progress == IF queue.progress = NoProgress THEN ui.progress ELSE queue.progress
         r == queue.terminal
     IN ui' = IF r = NoResult THEN [ui EXCEPT !.progress = progress]
              ELSE [ui EXCEPT !.running = FALSE, !.ended = @ + 1, !.state = r.state,
                              !.progress = [run |-> r.run, percent |-> Full],
                              !.shown = Show(@, r)]
  /\ UNCHANGED <<visits, disk, worker, pulser>>

-----------------------------------------------------------------------------
(* The worker: RunCollection.                                               *)
At(pc) == worker.pc = pc

(* Deliver the result, after the progress notice of its own that the late   *)
(* failures and the success have.                                           *)
Ending(state, files, notice) ==
  /\ worker' = [worker EXCEPT !.pc = "deliver",
                              !.result = [state |-> state, run |-> worker.run, files |-> files]]
  /\ IF notice THEN QueueProgress(queue, Full, worker.run) ELSE UNCHANGED <<queue, posts>>

Fail(files, notice) == Ending("failed", files, notice)

(* A tool is missing or an artifact can neither be archived nor removed.    *)
ClearFails(rest) ==
  /\ At("clear")
  /\ disk' = [f \in Artifact |-> IF f \in rest THEN disk[f] ELSE NoFile]
  /\ Fail(NoFiles, FALSE)
  /\ UNCHANGED <<visits, ui, pulser>>

ClearRunArtifacts(files) == NoFiles

(* The progress of a phase is notified, its goroutine and child started.    *)
Launch(p) ==
  /\ QueueProgress(queue, From[p], worker.run)
  /\ pulser' = [pulser EXCEPT ![p] = [state |-> "on", stop |-> FALSE, percent |-> From[p] - 1]]

Clear ==
  /\ At("clear")
  /\ disk' = ClearRunArtifacts(disk)
  /\ worker' = [worker EXCEPT !.pc = "child", !.phase = "collector"]
  /\ Launch("collector")
  /\ UNCHANGED <<visits, ui>>

(* The child, killed at the deadline, has returned.                         *)
ChildExits(failed) ==
  /\ At("child")
  /\ worker.expired => failed
  /\ worker' = [worker EXCEPT !.pc = "stop", !.failed = failed]
  /\ UNCHANGED <<visits, disk, ui, queue, posts, pulser>>

Expire ==
  /\ worker.pc \in {"child", "stop", "join", "judge"} /\ ~worker.expired
  /\ worker' = [worker EXCEPT !.expired = TRUE]
  /\ UNCHANGED <<visits, disk, ui, queue, posts, pulser>>

StopPulse ==
  /\ At("stop")
  /\ pulser' = [pulser EXCEPT ![worker.phase].stop = TRUE]
  /\ worker' = [worker EXCEPT !.pc = "join"]
  /\ UNCHANGED <<visits, disk, ui, queue, posts>>

(* Mutant: the goroutine is told to stop and not waited for.                *)
Unjoined(p) == TRUE

Joined(p) == pulser[p].state = "off"

JoinPulse ==
  /\ At("join") /\ Joined(worker.phase)
  /\ worker' = [worker EXCEPT !.pc = "judge"]
  /\ UNCHANGED <<visits, disk, ui, queue, posts, pulser>>

(* fileFreshnessError, decoding and validation of one artifact: whether it  *)
(* may be used.                                                             *)
Usable(f) == {disk[f].valid, FALSE}

(* Mutant: an assessment of any report will do.                             *)
MatchesAnything(f) == TRUE

(* validateAssessment and validateSession: of the report that was loaded.   *)
Matches(f) == disk[f].id = worker.result.files.report.id

JudgeCollector ==
  /\ At("judge") /\ worker.phase = "collector"
  /\ \E usable \in Usable("report") :
     IF worker.expired \/ worker.failed \/ ~usable
     THEN Fail(NoFiles, FALSE) /\ UNCHANGED pulser
     ELSE /\ worker' = [worker EXCEPT !.pc = "child", !.phase = "agent", !.expired = FALSE,
                                      !.read = disk.report.id,
                                      !.result.files.report = disk.report]
          /\ Launch("agent")
  /\ UNCHANGED <<visits, disk, ui>>

Loaded == worker.result.files

JudgeAgent ==
  /\ At("judge") /\ worker.phase = "agent"
  /\ IF worker.expired \/ worker.failed THEN Fail(Loaded, FALSE)
     ELSE worker' = [worker EXCEPT !.pc = "diagnosis"] /\ UNCHANGED <<queue, posts>>
  /\ UNCHANGED <<visits, disk, ui, pulser>>

LoadDiagnosis ==
  /\ At("diagnosis")
  /\ \E usable \in Usable("diagnosis") :
     IF usable /\ Matches("diagnosis")
     THEN /\ worker' = [worker EXCEPT !.pc = "session", !.result.files.diagnosis = disk.diagnosis]
          /\ UNCHANGED <<queue, posts>>
     ELSE Fail(Loaded, TRUE)
  /\ UNCHANGED <<visits, disk, ui, pulser>>

LoadSession ==
  /\ At("session")
  /\ \E usable \in Usable("session") :
     IF usable /\ Matches("session")
     THEN Ending("ok", [Loaded EXCEPT !.session = disk.session], TRUE)
     ELSE Fail(Loaded, TRUE)
  /\ UNCHANGED <<visits, disk, ui, pulser>>

QueueDone ==
  /\ At("deliver")
  /\ queue' = PushTerminal(queue, worker.result)
  /\ posts' = TRUE
  /\ worker' = Idle
  /\ UNCHANGED <<visits, disk, ui, pulser>>

-----------------------------------------------------------------------------
(* The progress goroutine.  A tick may be taken after it was told to stop.  *)
Pulse(p) ==
  /\ pulser[p].state = "on" /\ pulser[p].percent < To[p]
  /\ pulser' = [pulser EXCEPT ![p].percent = @ + 1]
  /\ QueueProgress(queue, pulser[p].percent + 1, ui.runs)
  /\ UNCHANGED <<visits, disk, ui, worker>>

PulseEnds(p) ==
  /\ pulser[p].state = "on" /\ pulser[p].percent >= From[p]
  /\ pulser[p].stop \/ worker.expired
  /\ pulser' = [pulser EXCEPT ![p] = Off]
  /\ UNCHANGED <<visits, disk, ui, queue, posts, worker>>

-----------------------------------------------------------------------------
(* Outside the shell.                                                       *)
Written(f, valid, id) ==
  disk' = [disk EXCEPT ![f] = IF valid THEN [valid |-> TRUE, id |-> id, born |-> ui.runs]
                              ELSE NoFile]

(* A child writes any of its artifacts, well or badly, about the report of  *)
(* this run or, the agent, about the one it found.                          *)
ChildWrites(f, valid) ==
  /\ At("child") /\ f \in Writes[worker.phase]
  /\ Written(f, valid, IF worker.phase = "collector" THEN worker.run ELSE worker.read)
  /\ UNCHANGED <<visits, ui, queue, posts, worker, pulser>>

AgentReads ==
  /\ At("child") /\ worker.phase = "agent" /\ disk.report.valid
  /\ worker' = [worker EXCEPT !.read = disk.report.id]
  /\ UNCHANGED <<visits, disk, ui, queue, posts, pulser>>

(* From the console, about some other report.                               *)
Console(f) ==
  /\ visits < MaxVisits /\ visits' = visits + 1
  /\ Written(f, TRUE, 0)
  /\ UNCHANGED <<ui, queue, posts, worker, pulser>>

-----------------------------------------------------------------------------
Work == \/ Clear \/ (\E rest \in SUBSET Artifact : ClearFails(rest))
        \/ (\E failed \in BOOLEAN : ChildExits(failed))
        \/ StopPulse \/ JoinPulse \/ JudgeCollector \/ JudgeAgent
        \/ LoadDiagnosis \/ LoadSession \/ QueueDone

Outside == \/ \E f \in Artifact : Console(f) \/ \E valid \in BOOLEAN : ChildWrites(f, valid)
           \/ AgentReads \/ Expire

SNext == \/ StartDiagnostics \/ DrainUIEvents \/ Work \/ Outside
         \/ \E p \in Phase : Pulse(p) \/ PulseEnds(p)

(* A child returns, being killed at its deadline; the UI thread dispatches. *)
SSpec == /\ SInit /\ [][SNext]_svars
         /\ WF_svars(Work) /\ WF_svars(DrainUIEvents)
         /\ \A p \in Phase : WF_svars(Pulse(p)) /\ WF_svars(PulseEnds(p))

-----------------------------------------------------------------------------
(* Properties.                                                              *)

(* Every run is ended by exactly one terminal event, and by its own: not by *)
(* one left over from the run before, and not twice by a message that was   *)
(* still on its way.                                                        *)
OneTerminal ==
  /\ ui.ended = ui.runs - (IF ui.running THEN 1 ELSE 0)
  /\ ~ui.running => worker = Idle /\ ui.progress.run = ui.runs
  /\ queue.terminal # NoResult => queue.terminal.run = ui.runs /\ ui.running

(* The screens never mix reports: assessment and session shown are those of *)
(* the report shown.  After a success all of them were written in that very *)
(* run, whatever an earlier run or the console left behind and wherever the *)
(* clock was set meanwhile.                                                 *)
ShownTogether ==
  /\ \A f \in Artifact : ui.shown[f] # NoFile => ui.shown[f].id = ui.shown.report.id
  /\ ui.state = "ok" => \A f \in Artifact : ui.shown[f].valid /\ ui.shown[f].born = ui.ended

(* The progress shown goes forward: never back within a run, never to an    *)
(* earlier run, and nowhere once the run has ended.                         *)
Rank(p) == p.run * (Full + 1) + p.percent

ProgressInOrder ==
  [][/\ Rank(ui'.progress) >= Rank(ui.progress)
     /\ ~ui.running => ui'.progress = ui.progress]_svars

(* A run that was started ends, and the technician can start another.       *)
RunEnds == ui.running ~> ~ui.running
=============================================================================
