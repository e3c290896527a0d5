----------------------------- MODULE ShellProofs -----------------------------
(***************************************************************************)
(* Proofs about Shell, for any number of runs: every run has one terminal  *)
(* event, progress goes forward, and the screens never mix reports.        *)
(***************************************************************************)
EXTENDS Shell, TLAPS

-----------------------------------------------------------------------------
(* The invariant.                                                           *)
Steps == {"idle", "clear", "child", "stop", "join", "judge", "diagnosis", "session", "deliver"}

Typed ==
  /\ disk \in [Artifact -> File]
  /\ ui \in [running : BOOLEAN, runs : 0..MaxRuns, ended : Int,
             state : {"idle", "running", "ok", "failed"}, progress : Progress,
             shown : [Artifact -> File]]
  /\ queue \in [progress : Progress, terminal : Result, terminalSet : BOOLEAN]
  /\ worker \in [pc : Steps, run : 0..MaxRuns, phase : Phase, read : 0..MaxRuns,
                 failed : BOOLEAN, expired : BOOLEAN, result : Result]
  /\ pulser \in [Phase -> [state : {"on", "off"}, stop : BOOLEAN, percent : 0..Full]]

(* A run is with the worker, then in the queue, then over.                  *)
Working == worker.pc # "idle"
Waiting == queue.terminal # NoResult

RunInv ==
  /\ ui.running <=> Working \/ Waiting
  /\ Working => worker.run = ui.runs /\ ~Waiting /\ ~queue.terminalSet /\ ui.runs > 0
  /\ ~Working => worker = Idle
  /\ Waiting => queue.terminalSet /\ queue.terminal.run = ui.runs /\ queue.terminal.state \in {"ok", "failed"}
  /\ ui.ended = ui.runs - (IF ui.running THEN 1 ELSE 0)
  /\ ui.running => ui.state = "running"

(* What is in the queue is of this run, and not behind what was shown.      *)
ProgressInv ==
  /\ ui.progress.run <= ui.runs
  /\ ~ui.running => ui.progress.run = ui.runs
  /\ queue.progress # NoProgress =>
       /\ Working /\ queue.progress.run = ui.runs
       /\ ui.progress.run = ui.runs => ui.progress.percent <= queue.progress.percent

(* How far the run has come.                                                *)
Reached == CASE worker.pc = "clear" -> 1
             [] worker.pc = "deliver" -> Full
             [] OTHER -> IF pulser[worker.phase].state = "off" THEN To[worker.phase]
                         ELSE IF pulser[worker.phase].percent < From[worker.phase]
                              THEN From[worker.phase] ELSE pulser[worker.phase].percent

PulseInv ==
  /\ \A p \in Phase : pulser[p].state = "on" =>
       /\ worker.pc \in {"child", "stop", "join"} /\ worker.phase = p
       /\ pulser[p].percent \in From[p] - 1..To[p]
  /\ Working =>
       /\ ui.progress.run = ui.runs => ui.progress.percent <= Reached
       /\ queue.progress # NoProgress => queue.progress.percent <= Reached

(* Files of a run are about one report, and once the artifacts of earlier   *)
(* runs are gone, whatever can be decoded was written in this run.          *)
OneReport(files) == \A f \in Artifact : files[f] # NoFile => files[f].id = files.report.id
Fresh(file) == file.valid /\ file.born = ui.runs

LoadedInv ==
  /\ worker.pc = "clear" => worker.phase = "collector"
  /\ worker.phase = "collector" => worker.result.files = NoFiles
  /\ worker.phase = "agent" => Fresh(worker.result.files.report)
  /\ worker.pc \in {"diagnosis", "session"} => worker.phase = "agent"
  /\ worker.pc = "session" => Fresh(worker.result.files.diagnosis)
  /\ worker.pc = "deliver" => worker.result.state \in {"ok", "failed"} /\ worker.result.run = worker.run
  /\ worker.pc = "deliver" /\ worker.result.state = "ok" =>
       \A f \in Artifact : Fresh(worker.result.files[f])
  /\ OneReport(worker.result.files)

FileInv ==
  /\ worker.pc \notin {"idle", "clear", "deliver"} => \A f \in Artifact : disk[f].valid => disk[f].born = ui.runs
  /\ Working => LoadedInv
  /\ OneReport(queue.terminal.files) /\ OneReport(ui.shown)
  /\ queue.terminal.state = "ok" => \A f \in Artifact : Fresh(queue.terminal.files[f])
  /\ ui.state = "ok" => \A f \in Artifact : Fresh(ui.shown[f])

Inv == Typed /\ RunInv /\ ProgressInv /\ PulseInv /\ FileInv

-----------------------------------------------------------------------------
(* The data.                                                                *)

(* The values that stand for nothing are values.                            *)
LEMMA Nothing ==
  /\ NoFile \in File /\ NoFiles \in [Artifact -> File] /\ NoProgress \in Progress
  /\ NoResult \in Result /\ NoResult.state = "none" /\ NoResult.files = NoFiles
  /\ NoFile.valid = FALSE /\ \A f \in Artifact : NoFiles[f] = NoFile
<1>1. 0 \in 0..MaxRuns /\ 0 \in 0..Full
  BY ShellAssumption DEF Full
<1>2. NoFile \in File /\ NoFile.valid = FALSE
  BY <1>1 DEF NoFile, File
<1>3. NoFiles \in [Artifact -> File] /\ \A f \in Artifact : NoFiles[f] = NoFile
  BY <1>2 DEF NoFiles
<1>4. NoProgress \in Progress
  BY <1>1 DEF NoProgress, Progress
<1>5. NoResult \in Result /\ NoResult.state = "none" /\ NoResult.files = NoFiles
  BY <1>1, <1>3 DEF NoResult, Result
<1> QED
  BY <1>2, <1>3, <1>4, <1>5

(* The artifacts, the phases and their percentages.                         *)
LEMMA Bounds ==
  /\ From["collector"] = 2 /\ To["collector"] = 3 /\ From["agent"] = 4 /\ To["agent"] = 5 /\ Full = 6
  /\ \A p \in Phase : p \in {"collector", "agent"}
  /\ "collector" \in Phase /\ "agent" \in Phase
  /\ "report" \in Artifact /\ "diagnosis" \in Artifact /\ "session" \in Artifact
  /\ \A f \in Artifact : f \in {"report", "diagnosis", "session"}
  /\ MaxRuns \in Nat
  BY ShellAssumption DEF From, To, Full, Phase, Artifact

(* Progress is pushed unless the terminal is there.                         *)
LEMMA Pushed ==
  ASSUME Typed, NEW percent \in 0..Full, NEW run \in 0..MaxRuns, QueueProgress(queue, percent, run)
  PROVE  /\ queue' \in [progress : Progress, terminal : Result, terminalSet : BOOLEAN]
         /\ queue'.terminal = queue.terminal /\ queue'.terminalSet = queue.terminalSet
         /\ queue.terminalSet => queue'.progress = queue.progress
         /\ ~queue.terminalSet => queue'.progress = [run |-> run, percent |-> percent]
<1> DEFINE new == [run |-> run, percent |-> percent]
<1>1. new \in Progress
  BY DEF Progress
<1>2. queue' = IF queue.terminalSet THEN queue ELSE [queue EXCEPT !.progress = new]
  BY DEF QueueProgress, PushProgress
<1> HIDE DEF new
<1>3. queue \in [progress : Progress, terminal : Result, terminalSet : BOOLEAN]
  BY DEF Typed
<1> QED
  BY <1>1, <1>2, <1>3 DEF new

-----------------------------------------------------------------------------
(* Steps.                                                                   *)

(* The worker ends its run, when no progress goroutine is left.             *)
LEMMA EndStep ==
  ASSUME Inv, NEW state \in {"ok", "failed"}, NEW files \in [Artifact -> File], NEW notice \in BOOLEAN,
         Working, worker.pc \notin {"child", "stop", "join", "deliver"}, Ending(state, files, notice),
         OneReport(files), state = "ok" => \A f \in Artifact : Fresh(files[f]),
         worker.phase = "agent" => files.report = worker.result.files.report,
         worker.phase = "collector" => files = NoFiles,
         disk' \in [Artifact -> File], UNCHANGED <<ui, pulser>>
  PROVE  Inv'
<1> DEFINE result == [state |-> state, run |-> worker.run, files |-> files]
<1>1. result \in Result /\ result.state = state /\ result.run = worker.run /\ result.files = files
  BY DEF Inv, Typed, Result
<1> HIDE DEF result
<1>2. worker' = [worker EXCEPT !.pc = "deliver", !.result = result]
  BY DEF Ending, result
<1>3. /\ worker'.pc = "deliver" /\ worker'.result = result /\ worker'.run = worker.run
      /\ worker'.phase = worker.phase /\ worker'.expired = worker.expired
      /\ worker' \in [pc : Steps, run : 0..MaxRuns, phase : Phase, read : 0..MaxRuns,
                      failed : BOOLEAN, expired : BOOLEAN, result : Result]
  BY <1>1, <1>2 DEF Inv, Typed, Steps
<1>4. worker.run \in 0..MaxRuns /\ Full \in 0..Full /\ worker.run = ui.runs /\ ~queue.terminalSet
  BY DEF Inv, Typed, RunInv, Full
<1>5. /\ queue' \in [progress : Progress, terminal : Result, terminalSet : BOOLEAN]
      /\ queue'.terminal = queue.terminal /\ queue'.terminalSet = queue.terminalSet
      /\ queue'.progress = queue.progress \/ queue'.progress = [run |-> ui.runs, percent |-> Full]
  <2>1. CASE notice
    BY <1>4, <2>1, Pushed DEF Ending, Inv
  <2>2. CASE ~notice
    BY <2>2 DEF Ending, Inv, Typed
  <2> QED
    BY <2>1, <2>2
<1>6. Typed'
  BY <1>3, <1>5 DEF Inv, Typed
<1>7. RunInv'
  BY <1>3, <1>5 DEF Inv, RunInv, Working, Waiting
<1>8. ui.progress.percent \in 0..Full /\ Full = 6 /\ queue.progress.percent \in 0..Full
  BY DEF Inv, Typed, Progress, Full
<1>9. ProgressInv'
  BY <1>3, <1>5, <1>8 DEF Inv, ProgressInv, Working
<1>10. PulseInv'
  <2>1. Reached' = Full
    BY <1>3 DEF Reached
  <2>2. \A p \in Phase : pulser[p].state # "on"
    BY DEF Inv, PulseInv
  <2>3. queue'.progress.percent <= Full /\ ui'.progress.percent <= Full
    BY <1>5, <1>8
  <2> QED
    BY <2>1, <2>2, <2>3 DEF PulseInv
<1>11. FileInv'
  <2>1. LoadedInv'
    BY <1>1, <1>3, <1>4 DEF LoadedInv, OneReport, Fresh, Inv, FileInv
  <2> QED
    BY <1>3, <1>5, <2>1 DEF Inv, FileInv, OneReport, Fresh
<1> QED
  BY <1>6, <1>7, <1>9, <1>10, <1>11 DEF Inv

(* The worker goes on with the files it has, its progress goroutine too.    *)
LEMMA WorkStep ==
  ASSUME Inv, Working, Working',
         worker' \in [pc : Steps, run : 0..MaxRuns, phase : Phase, read : 0..MaxRuns,
                      failed : BOOLEAN, expired : BOOLEAN, result : Result],
         worker'.run = worker.run, worker'.phase = worker.phase, LoadedInv',
         worker.pc \notin {"clear", "deliver"}, worker'.pc \notin {"clear", "deliver"},
         pulser' \in [Phase -> [state : {"on", "off"}, stop : BOOLEAN, percent : 0..Full]],
         \A p \in Phase : pulser'[p].state = pulser[p].state /\ pulser'[p].percent = pulser[p].percent,
         \A p \in Phase : pulser'[p].state = "on" => worker'.pc \in {"child", "stop", "join"},
         UNCHANGED <<disk, ui, queue>>
  PROVE  Inv'
<1>1. Typed'
  BY DEF Inv, Typed
<1>2. RunInv'
  BY DEF Inv, RunInv, Working, Waiting
<1>3. ProgressInv'
  BY DEF Inv, ProgressInv, Working
<1>4. Reached' = Reached
  BY DEF Reached, Inv, Typed
<1>5. PulseInv'
  BY <1>4 DEF Inv, PulseInv
<1>6. FileInv'
  BY DEF Inv, FileInv, OneReport, Fresh, Working
<1> QED
  BY <1>1, <1>2, <1>3, <1>5, <1>6 DEF Inv

(* A phase begins: nothing of it was shown yet.                             *)
LEMMA LaunchStep ==
  ASSUME Inv, NEW p \in Phase, Launch(p), Working,
         worker.pc \in {"clear", "judge"}, p = "agent" <=> worker.pc = "judge",
         p = "agent" => worker.phase = "collector",
         worker' \in [pc : Steps, run : 0..MaxRuns, phase : Phase, read : 0..MaxRuns,
                      failed : BOOLEAN, expired : BOOLEAN, result : Result],
         worker'.pc = "child", worker'.phase = p, worker'.run = worker.run, LoadedInv',
         disk' \in [Artifact -> File], \A f \in Artifact : disk'[f].valid => disk'[f].born = ui.runs,
         UNCHANGED ui
  PROVE  Inv'
<1>1. worker.run \in 0..MaxRuns /\ worker.run = ui.runs /\ ~queue.terminalSet /\ From[p] \in 0..Full
      /\ From[p] - 1 \in 0..Full
  BY Bounds DEF Inv, Typed, RunInv
<1>2. /\ queue' \in [progress : Progress, terminal : Result, terminalSet : BOOLEAN]
      /\ queue'.terminal = queue.terminal /\ queue'.terminalSet = queue.terminalSet
      /\ queue'.progress = [run |-> ui.runs, percent |-> From[p]]
  BY <1>1, Pushed DEF Launch, Inv
<1>3. /\ pulser' = [pulser EXCEPT ![p] = [state |-> "on", stop |-> FALSE, percent |-> From[p] - 1]]
      /\ \A o \in Phase : pulser[o].state = "off"
  BY DEF Launch, Inv, PulseInv, Typed
<1>4. /\ pulser' \in [Phase -> [state : {"on", "off"}, stop : BOOLEAN, percent : 0..Full]]
      /\ pulser'[p].state = "on" /\ pulser'[p].percent = From[p] - 1
      /\ \A o \in Phase : o # p => pulser'[o].state = "off"
  BY <1>1, <1>3 DEF Inv, Typed
<1>5. Typed'
  BY <1>2, <1>4 DEF Inv, Typed
<1>6. RunInv'
  BY <1>2 DEF Inv, RunInv, Working, Waiting
<1>7. Reached <= From[p] /\ ui.progress.percent \in Int /\ Reached \in Int
  <2>1. CASE p = "collector"
    BY <2>1, Bounds DEF Reached, Inv, Typed, Progress
  <2>2. CASE p = "agent"
    BY <1>3, <2>2, Bounds DEF Reached, Inv, Typed, Progress
  <2> QED
    BY <2>1, <2>2, Bounds
<1>8. ui.progress.run = ui.runs => ui.progress.percent <= From[p]
  BY <1>1, <1>7 DEF Inv, PulseInv
<1>9. ProgressInv'
  BY <1>2, <1>8 DEF Inv, ProgressInv, Working
<1>10. Reached' = From[p]
  BY <1>1, <1>4 DEF Reached
<1>11. PulseInv'
  BY <1>1, <1>2, <1>4, <1>8, <1>10, Bounds DEF PulseInv
<1>12. FileInv'
  BY <1>2 DEF Inv, FileInv, OneReport, Fresh
<1> QED
  BY <1>5, <1>6, <1>9, <1>11, <1>12 DEF Inv

(* Somebody writes a file.                                                  *)
LEMMA WriteStep ==
  ASSUME Inv, NEW f \in Artifact, NEW valid \in BOOLEAN, NEW id \in 0..MaxRuns, Written(f, valid, id),
         UNCHANGED <<ui, queue, worker, pulser>>
  PROVE  Inv'
<1> DEFINE file == IF valid THEN [valid |-> TRUE, id |-> id, born |-> ui.runs] ELSE NoFile
<1>1. file \in File /\ (file.valid => file.born = ui.runs)
  BY Nothing DEF Inv, Typed, File
<1>2. disk' = [disk EXCEPT ![f] = file]
  BY DEF Written
<1> HIDE DEF file
<1>3. Typed'
  BY <1>1, <1>2 DEF Inv, Typed
<1>4. FileInv'
  <2>1. ASSUME worker.pc \notin {"idle", "clear", "deliver"}, NEW g \in Artifact, disk'[g].valid
        PROVE  disk'[g].born = ui.runs
    BY <1>1, <1>2, <2>1 DEF Inv, Typed, FileInv
  <2>2. (Working => LoadedInv)'
    BY DEF Inv, FileInv, LoadedInv, Working, OneReport, Fresh
  <2> QED
    BY <2>1, <2>2 DEF Inv, FileInv, OneReport, Fresh
<1>5. RunInv' /\ ProgressInv'
  BY DEF Inv, RunInv, ProgressInv, Working, Waiting
<1>6. PulseInv'
  BY DEF Inv, PulseInv, Working, Reached
<1> QED
  BY <1>3, <1>4, <1>5, <1>6 DEF Inv

(* The technician starts a run.                                             *)
LEMMA StartStep ==
  ASSUME Inv, StartDiagnostics
  PROVE  Inv'
<1>1. /\ ~ui.running /\ ui.runs + 1 \in 0..MaxRuns /\ ui.runs \in Nat /\ ~Working /\ ~Waiting
      /\ ui.ended = ui.runs /\ ui.progress.run = ui.runs
  BY Bounds DEF StartDiagnostics, Inv, Typed, RunInv, ProgressInv
<1>2. /\ New \in [progress : Progress, terminal : Result, terminalSet : BOOLEAN]
      /\ New.terminal = NoResult /\ New.terminalSet = FALSE
  BY Nothing DEF New
<1>3. queue' = [New EXCEPT !.progress = [run |-> ui.runs + 1, percent |-> 1]]
  BY <1>2 DEF StartDiagnostics, QueueProgress, PushProgress, Reset
<1>4. /\ queue' \in [progress : Progress, terminal : Result, terminalSet : BOOLEAN]
      /\ queue'.terminal = NoResult /\ queue'.terminalSet = FALSE
      /\ queue'.progress = [run |-> ui.runs + 1, percent |-> 1]
  BY <1>1, <1>2, <1>3, Bounds DEF Progress
<1>5. ui' = [ui EXCEPT !.running = TRUE, !.runs = ui.runs + 1, !.state = "running"]
  BY DEF StartDiagnostics
<1>6. /\ ui'.running = TRUE /\ ui'.runs = ui.runs + 1 /\ ui'.state = "running" /\ ui'.ended = ui.ended
      /\ ui'.progress = ui.progress /\ ui'.shown = ui.shown
      /\ ui' \in [running : BOOLEAN, runs : 0..MaxRuns, ended : Int,
                  state : {"idle", "running", "ok", "failed"}, progress : Progress,
                  shown : [Artifact -> File]]
  BY <1>1, <1>5 DEF Inv, Typed
<1>7. worker' = [Idle EXCEPT !.pc = "clear", !.run = ui.runs + 1] /\ UNCHANGED <<disk, pulser>>
  BY DEF StartDiagnostics
<1>8. /\ worker'.pc = "clear" /\ worker'.run = ui.runs + 1 /\ worker'.phase = "collector"
      /\ worker'.result = NoResult
      /\ worker' \in [pc : Steps, run : 0..MaxRuns, phase : Phase, read : 0..MaxRuns,
                      failed : BOOLEAN, expired : BOOLEAN, result : Result]
  <2>1. /\ Idle \in [pc : Steps, run : 0..MaxRuns, phase : Phase, read : 0..MaxRuns,
                     failed : BOOLEAN, expired : BOOLEAN, result : Result]
        /\ Idle.phase = "collector" /\ Idle.result = NoResult
    BY Nothing, Bounds DEF Idle, Steps
  <2>2. "clear" \in Steps
    BY DEF Steps
  <2> QED
    BY <1>1, <1>7, <2>1, <2>2
<1>9. Typed'
  BY <1>4, <1>6, <1>7, <1>8 DEF Inv, Typed
<1>10. RunInv'
  BY <1>1, <1>4, <1>6, <1>8 DEF RunInv, Working, Waiting
<1>11. ProgressInv'
  BY <1>1, <1>4, <1>6, <1>8 DEF ProgressInv, Working
<1>12. PulseInv'
  <2>1. Reached' = 1
    BY <1>8 DEF Reached
  <2>2. \A p \in Phase : pulser'[p].state # "on"
    BY <1>1, <1>7 DEF Inv, PulseInv, Working
  <2>3. ui'.progress.run # ui'.runs
    BY <1>1, <1>6
  <2> QED
    BY <1>4, <2>1, <2>2, <2>3 DEF PulseInv
<1>13. FileInv'
  <2>1. LoadedInv'
    BY <1>8, Nothing DEF LoadedInv, OneReport
  <2>2. OneReport(queue'.terminal.files) /\ queue'.terminal.state = "none"
    BY <1>4, Nothing DEF OneReport
  <2>3. OneReport(ui'.shown)
    BY <1>6 DEF Inv, FileInv
  <2> QED
    BY <1>6, <1>8, <2>1, <2>2, <2>3 DEF FileInv, OneReport
<1> QED
  BY <1>9, <1>10, <1>11, <1>12, <1>13 DEF Inv

(* The UI thread shows what is in the queue.                                *)
LEMMA DrainStep ==
  ASSUME Inv, DrainUIEvents
  PROVE  Inv'
<1> DEFINE progress == IF queue.progress = NoProgress THEN ui.progress ELSE queue.progress
           r == queue.terminal
<1>1. /\ queue' = [queue EXCEPT !.progress = NoProgress, !.terminal = NoResult]
      /\ UNCHANGED <<disk, worker, pulser>>
  BY DEF DrainUIEvents, Drained
<1>2. /\ queue' \in [progress : Progress, terminal : Result, terminalSet : BOOLEAN]
      /\ queue'.progress = NoProgress /\ queue'.terminal = NoResult
      /\ queue'.terminalSet = queue.terminalSet
  BY <1>1, Nothing DEF Inv, Typed
<1>3. OneReport(NoResult.files) /\ NoResult.state = "none"
  BY Nothing DEF OneReport
<1>4. CASE ~Waiting
  <2>1. ui' = [ui EXCEPT !.progress = progress]
    BY <1>4 DEF DrainUIEvents, Waiting
  <2>2. progress \in Progress
    BY DEF Inv, Typed
  <2> HIDE DEF progress
  <2>3. /\ ui'.running = ui.running /\ ui'.runs = ui.runs /\ ui'.state = ui.state /\ ui'.ended = ui.ended
        /\ ui'.progress = progress /\ ui'.shown = ui.shown
        /\ ui' \in [running : BOOLEAN, runs : 0..MaxRuns, ended : Int,
                    state : {"idle", "running", "ok", "failed"}, progress : Progress,
                    shown : [Artifact -> File]]
    BY <2>1, <2>2 DEF Inv, Typed
  <2>4. Typed'
    BY <1>1, <1>2, <2>3 DEF Inv, Typed
  <2>5. RunInv'
    BY <1>1, <1>2, <1>4, <2>3 DEF Inv, RunInv, Working, Waiting
  <2>6. ProgressInv'
    BY <1>1, <1>2, <2>3 DEF Inv, RunInv, ProgressInv, Working, progress
  <2>7. PulseInv'
    <3>1. Reached' = Reached
      BY <1>1 DEF Reached
    <3>2. /\ worker' = worker /\ pulser' = pulser /\ queue'.progress = NoProgress
          /\ ui'.progress = progress /\ ui'.runs = ui.runs
      BY <1>1, <1>2, <2>3
    <3>3. ASSUME Working, progress.run = ui.runs PROVE progress.percent <= Reached
      BY <3>3 DEF Inv, PulseInv, progress
    <3>4. \A p \in Phase : pulser[p].state = "on" =>
            /\ worker.pc \in {"child", "stop", "join"} /\ worker.phase = p
            /\ pulser[p].percent \in From[p] - 1..To[p]
      BY DEF Inv, PulseInv
    <3> HIDE DEF progress
    <3> QED
      BY <3>1, <3>2, <3>3, <3>4 DEF PulseInv, Working
  <2>8. FileInv'
    <3>1. /\ ui'.runs = ui.runs /\ ui'.shown = ui.shown /\ ui'.state = ui.state
          /\ worker' = worker /\ disk' = disk /\ queue'.terminal = NoResult
      BY <1>1, <1>2, <2>3
    <3>2. (Working => LoadedInv)'
      BY <3>1 DEF Inv, FileInv, LoadedInv, Working, OneReport, Fresh
    <3> QED
      BY <1>3, <3>1, <3>2 DEF Inv, FileInv, OneReport, Fresh
  <2> QED
    BY <2>4, <2>5, <2>6, <2>7, <2>8 DEF Inv
<1>5. CASE Waiting
  <2> DEFINE last == [run |-> r.run, percent |-> Full]
             shown == Show(ui.shown, r)
  <2>1. ui' = [ui EXCEPT !.running = FALSE, !.ended = ui.ended + 1, !.state = r.state,
                         !.progress = last, !.shown = shown]
    BY <1>5 DEF DrainUIEvents, Waiting
  <2>2. /\ r \in Result /\ r.run = ui.runs /\ r.state \in {"ok", "failed"} /\ ~Working
        /\ ui.running /\ ui.ended = ui.runs - 1 /\ ui.runs \in Nat
    BY <1>5, Bounds DEF Inv, Typed, RunInv
  <2>3. last \in Progress /\ last.run = r.run /\ shown \in [Artifact -> File]
    BY <2>2, Bounds DEF Show, Inv, Typed, Result, Progress
  <2> DEFINE state == r.state
             ended == ui.ended + 1
  <2>3a. state \in {"ok", "failed"} /\ ended \in Int /\ state = r.state /\ ended = ui.ended + 1
    BY <2>2
  <2> HIDE DEF r, last, shown, state, ended
  <2>3b. ui' = [ui EXCEPT !.running = FALSE, !.ended = ended, !.state = state, !.progress = last,
                          !.shown = shown]
    BY <2>1 DEF state, ended
  <2>4. /\ ui'.running = FALSE /\ ui'.runs = ui.runs /\ ui'.state = r.state /\ ui'.ended = ui.ended + 1
        /\ ui'.progress.run = ui.runs /\ ui'.shown = shown
        /\ ui' \in [running : BOOLEAN, runs : 0..MaxRuns, ended : Int,
                    state : {"idle", "running", "ok", "failed"}, progress : Progress,
                    shown : [Artifact -> File]]
    <3>1. /\ ui'.running = FALSE /\ ui'.runs = ui.runs /\ ui'.state = state /\ ui'.ended = ended
          /\ ui'.progress = last /\ ui'.shown = shown
      BY <2>3b DEF Inv, Typed
    <3>2. ui' \in [running : BOOLEAN, runs : 0..MaxRuns, ended : Int,
                   state : {"idle", "running", "ok", "failed"}, progress : Progress,
                   shown : [Artifact -> File]]
      BY <2>3, <2>3a, <2>3b DEF Inv, Typed
    <3> QED
      BY <2>2, <2>3, <2>3a, <3>1, <3>2
  <2>5. Typed'
    BY <1>1, <1>2, <2>4 DEF Inv, Typed
  <2>6. RunInv'
    BY <1>1, <1>2, <2>2, <2>4 DEF Inv, RunInv, Working, Waiting
  <2>7. ProgressInv'
    BY <1>2, <2>2, <2>4 DEF ProgressInv
  <2>8. PulseInv'
    BY <1>1, <1>2, <2>2 DEF Inv, PulseInv, Working
  <2>9. OneReport(ui'.shown)
    BY <2>4 DEF Show, Inv, FileInv, r, shown
  <2>10. (ui.state = "ok" => \A f \in Artifact : Fresh(ui.shown[f]))'
    <3> SUFFICES ASSUME r.state = "ok", NEW f \in Artifact
                 PROVE  ui'.shown[f].valid /\ ui'.shown[f].born = ui'.runs
      BY <2>4 DEF Fresh
    <3>1. Fresh(r.files[f]) /\ Fresh(r.files["report"])
      BY Bounds DEF Inv, FileInv, r
    <3>2. r.files.report # NoFile
      BY <3>1, Nothing DEF Fresh
    <3> QED
      BY <2>4, <3>1, <3>2 DEF Show, Fresh, shown
  <2>11. FileInv'
    BY <1>1, <1>2, <1>3, <2>2, <2>9, <2>10 DEF FileInv, Working
  <2> QED
    BY <2>5, <2>6, <2>7, <2>8, <2>11 DEF Inv
<1> QED
  BY <1>4, <1>5

(* The worker delivers its result.                                          *)
LEMMA DoneStep ==
  ASSUME Inv, QueueDone
  PROVE  Inv'
<1>1. /\ Working /\ ~Waiting /\ ~queue.terminalSet /\ worker.pc = "deliver" /\ worker.run = ui.runs
      /\ ui.running
  BY DEF QueueDone, At, Inv, RunInv, Working
<1>2. queue' = [progress |-> NoProgress, terminal |-> worker.result, terminalSet |-> TRUE]
      /\ worker' = Idle /\ UNCHANGED <<disk, ui, pulser>>
  BY <1>1 DEF QueueDone, PushTerminal
<1>3. /\ worker.result \in Result /\ worker.result.state \in {"ok", "failed"}
      /\ worker.result.run = ui.runs /\ OneReport(worker.result.files)
      /\ worker.result.state = "ok" => \A f \in Artifact : Fresh(worker.result.files[f])
  BY <1>1 DEF Inv, Typed, FileInv, LoadedInv
<1>4. Idle.pc = "idle" /\ Idle \in [pc : Steps, run : 0..MaxRuns, phase : Phase, read : 0..MaxRuns,
                      failed : BOOLEAN, expired : BOOLEAN, result : Result]
  BY Nothing, Bounds DEF Idle, Steps
<1>5. Typed'
  BY <1>2, <1>3, <1>4, Nothing DEF Inv, Typed
<1>6. Waiting'
  BY <1>2, <1>3, Nothing DEF Waiting
<1>7. RunInv'
  BY <1>1, <1>2, <1>3, <1>4, <1>6 DEF Inv, RunInv, Working
<1>8. ProgressInv'
  BY <1>1, <1>2 DEF Inv, ProgressInv
<1>9. PulseInv'
  BY <1>1, <1>2, <1>4 DEF Inv, PulseInv, Working
<1>10. FileInv'
  BY <1>1, <1>2, <1>3, <1>4 DEF Inv, FileInv, OneReport, Fresh, Working
<1> QED
  BY <1>5, <1>7, <1>8, <1>9, <1>10 DEF Inv

(* The progress goroutine goes on.                                          *)
LEMMA PulseStep ==
  ASSUME Inv, NEW p \in Phase, Pulse(p)
  PROVE  Inv'
<1>1. /\ pulser[p].state = "on" /\ worker.phase = p /\ worker.pc \in {"child", "stop", "join"}
      /\ pulser[p].percent \in From[p] - 1..To[p] /\ pulser[p].percent < To[p]
      /\ Working /\ ~queue.terminalSet
  BY DEF Pulse, Inv, PulseInv, RunInv, Working
<1>2. /\ pulser' = [pulser EXCEPT ![p].percent = pulser[p].percent + 1]
      /\ QueueProgress(queue, pulser[p].percent + 1, ui.runs) /\ UNCHANGED <<disk, ui, worker>>
  BY DEF Pulse
<1>3. /\ pulser[p].percent + 1 \in 0..Full /\ pulser[p].percent + 1 \in From[p]..To[p]
      /\ pulser[p].percent \in Int /\ From[p] \in Int /\ To[p] \in Int /\ ui.runs \in 0..MaxRuns
  <2>1. From[p] \in Nat /\ To[p] \in Nat /\ From[p] > 0 /\ To[p] <= Full /\ Full = 6
    BY Bounds
  <2>2. ui.runs \in 0..MaxRuns
    BY DEF Inv, Typed
  <2> QED
    BY <1>1, <2>1, <2>2
<1>4. /\ queue' \in [progress : Progress, terminal : Result, terminalSet : BOOLEAN]
      /\ queue'.terminal = queue.terminal /\ queue'.terminalSet = queue.terminalSet
      /\ queue'.progress = [run |-> ui.runs, percent |-> pulser[p].percent + 1]
  BY <1>1, <1>2, <1>3, Pushed DEF Inv
<1>5. /\ pulser' \in [Phase -> [state : {"on", "off"}, stop : BOOLEAN, percent : 0..Full]]
      /\ pulser'[p].state = "on" /\ pulser'[p].percent = pulser[p].percent + 1
      /\ \A o \in Phase : o # p => pulser'[o] = pulser[o]
  BY <1>1, <1>2, <1>3 DEF Inv, Typed
<1>6. Typed'
  BY <1>2, <1>4, <1>5 DEF Inv, Typed
<1>7. RunInv'
  BY <1>2, <1>4 DEF Inv, RunInv, Working, Waiting
<1>8. Reached <= pulser[p].percent + 1 /\ Reached' = pulser[p].percent + 1 /\ Reached \in Int
  BY <1>1, <1>2, <1>3, <1>5 DEF Reached
<1>9. ui.progress.run = ui.runs => ui.progress.percent <= pulser[p].percent + 1
  <2>1. ui.progress.percent \in Int
    BY DEF Inv, Typed, Progress
  <2> QED
    BY <1>1, <1>3, <1>8, <2>1 DEF Inv, PulseInv
<1>10. ProgressInv'
  BY <1>1, <1>2, <1>4, <1>9 DEF Inv, ProgressInv, Working
<1>11. PulseInv'
  <2>1. \A o \in Phase : o # p => pulser'[o].state # "on"
    BY <1>1, <1>5 DEF Inv, PulseInv
  <2>2. pulser'[p].percent \in From[p] - 1..To[p]
    BY <1>3, <1>5
  <2> QED
    BY <1>1, <1>2, <1>4, <1>8, <1>9, <2>1, <2>2, <1>3 DEF PulseInv
<1>12. FileInv'
  BY <1>2, <1>4 DEF Inv, FileInv, LoadedInv, Working, OneReport, Fresh
<1> QED
  BY <1>6, <1>7, <1>10, <1>11, <1>12 DEF Inv

(* The progress goroutine ends.                                             *)
LEMMA PulseEndStep ==
  ASSUME Inv, NEW p \in Phase, PulseEnds(p)
  PROVE  Inv'
<1>1. /\ pulser[p].state = "on" /\ worker.phase = p /\ worker.pc \in {"child", "stop", "join"}
      /\ pulser[p].percent \in From[p] - 1..To[p] /\ Working
  BY DEF PulseEnds, Inv, PulseInv, Working
<1>2. pulser' = [pulser EXCEPT ![p] = Off] /\ UNCHANGED <<disk, ui, queue, worker>>
  BY DEF PulseEnds
<1>3. Off \in [state : {"on", "off"}, stop : BOOLEAN, percent : 0..Full] /\ Off.state = "off"
  BY Bounds DEF Off
<1>4. /\ pulser' \in [Phase -> [state : {"on", "off"}, stop : BOOLEAN, percent : 0..Full]]
      /\ pulser'[p].state = "off" /\ \A o \in Phase : o # p => pulser'[o] = pulser[o]
  BY <1>2, <1>3 DEF Inv, Typed
<1>5. Reached <= To[p] /\ Reached' = To[p] /\ Reached \in Int /\ To[p] \in Int
  <2>1. Reached' = To[p]
    BY <1>1, <1>2, <1>4 DEF Reached
  <2>2. Reached = IF pulser[p].percent < From[p] THEN From[p] ELSE pulser[p].percent
    BY <1>1 DEF Reached
  <2>3. From[p] \in Int /\ To[p] \in Int /\ From[p] <= To[p]
    BY Bounds
  <2> QED
    BY <1>1, <2>1, <2>2, <2>3
<1>6. Typed' /\ RunInv' /\ ProgressInv'
  BY <1>2, <1>4 DEF Inv, Typed, RunInv, ProgressInv, Working, Waiting
<1>7. ui.progress.percent \in Int /\ queue.progress.percent \in Int
  BY DEF Inv, Typed, Progress
<1>8. PulseInv'
  BY <1>1, <1>2, <1>4, <1>5, <1>7 DEF Inv, PulseInv
<1>9. FileInv'
  BY <1>2 DEF Inv, FileInv, LoadedInv, Working, OneReport, Fresh
<1> QED
  BY <1>6, <1>8, <1>9 DEF Inv

(* Every step keeps the invariant.                                          *)
LEMMA InvStep ==
  ASSUME Inv, [SNext]_svars
  PROVE  Inv'
<1>1. OneReport(NoFiles) /\ NoFiles \in [Artifact -> File]
  BY Nothing DEF OneReport
<1>3. CASE StartDiagnostics
  BY <1>3, StartStep
<1>4. CASE DrainUIEvents
  BY <1>4, DrainStep
<1>5. CASE Clear
  <2>1. /\ worker.pc = "clear" /\ disk' = NoFiles /\ Launch("collector") /\ ui' = ui
        /\ worker' = [worker EXCEPT !.pc = "child", !.phase = "collector"]
    BY <1>5 DEF Clear, At, ClearRunArtifacts
  <2>2. /\ worker'.pc = "child" /\ worker'.phase = "collector" /\ worker'.run = worker.run
        /\ worker'.result = worker.result
        /\ worker' \in [pc : Steps, run : 0..MaxRuns, phase : Phase, read : 0..MaxRuns,
                        failed : BOOLEAN, expired : BOOLEAN, result : Result]
    BY <2>1, Bounds DEF Inv, Typed, Steps
  <2>3. LoadedInv'
    BY <2>1, <2>2 DEF Inv, FileInv, LoadedInv, OneReport, Working
  <2>4. \A f \in Artifact : disk'[f].valid => disk'[f].born = ui.runs
    BY <2>1, Nothing
  <2> QED
    BY <1>1, <2>1, <2>2, <2>3, <2>4, LaunchStep, Bounds DEF Working
<1>6. ASSUME NEW rest \in SUBSET Artifact, ClearFails(rest) PROVE Inv'
  <2>1. /\ worker.pc = "clear" /\ Ending("failed", NoFiles, FALSE) /\ UNCHANGED <<ui, pulser>>
        /\ disk' = [f \in Artifact |-> IF f \in rest THEN disk[f] ELSE NoFile]
    BY <1>6 DEF ClearFails, At, Fail
  <2>2. disk' \in [Artifact -> File]
    BY <2>1, Nothing DEF Inv, Typed
  <2>3. worker.phase = "collector"
    BY <2>1 DEF Inv, FileInv, LoadedInv, Working
  <2> QED
    BY <1>1, <2>1, <2>2, <2>3, EndStep DEF Working
<1>7. ASSUME NEW failed \in BOOLEAN, ChildExits(failed) PROVE Inv'
  <2>1. /\ worker.pc = "child" /\ worker' = [worker EXCEPT !.pc = "stop", !.failed = failed]
        /\ UNCHANGED <<disk, ui, queue, pulser>>
    BY <1>7 DEF ChildExits, At
  <2>2. /\ worker'.pc = "stop" /\ worker'.phase = worker.phase /\ worker'.run = worker.run
        /\ worker'.result = worker.result
        /\ worker' \in [pc : Steps, run : 0..MaxRuns, phase : Phase, read : 0..MaxRuns,
                        failed : BOOLEAN, expired : BOOLEAN, result : Result]
    BY <2>1 DEF Inv, Typed, Steps
  <2>3. LoadedInv'
    BY <2>1, <2>2 DEF Inv, FileInv, LoadedInv, OneReport, Fresh, Working
  <2> QED
    BY <2>1, <2>2, <2>3, WorkStep DEF Inv, Typed, Working
<1>8. CASE Expire
  <2>1. /\ worker.pc \in {"child", "stop", "join", "judge"} /\ worker' = [worker EXCEPT !.expired = TRUE]
        /\ UNCHANGED <<disk, ui, queue, pulser>>
    BY <1>8 DEF Expire
  <2>2. /\ worker'.pc = worker.pc /\ worker'.phase = worker.phase /\ worker'.run = worker.run
        /\ worker'.result = worker.result
        /\ worker' \in [pc : Steps, run : 0..MaxRuns, phase : Phase, read : 0..MaxRuns,
                        failed : BOOLEAN, expired : BOOLEAN, result : Result]
    BY <2>1 DEF Inv, Typed
  <2>3. LoadedInv'
    BY <2>1, <2>2 DEF Inv, FileInv, LoadedInv, OneReport, Fresh, Working
  <2> QED
    BY <2>1, <2>2, <2>3, WorkStep DEF Inv, Typed, PulseInv, Working
<1>9. CASE AgentReads
  <2>1. /\ worker.pc = "child" /\ worker' = [worker EXCEPT !.read = disk.report.id]
        /\ UNCHANGED <<disk, ui, queue, pulser>>
    BY <1>9 DEF AgentReads, At
  <2>2. disk["report"].id \in 0..MaxRuns
    BY Bounds DEF Inv, Typed, File
  <2>3. /\ worker'.pc = worker.pc /\ worker'.phase = worker.phase /\ worker'.run = worker.run
        /\ worker'.result = worker.result
        /\ worker' \in [pc : Steps, run : 0..MaxRuns, phase : Phase, read : 0..MaxRuns,
                        failed : BOOLEAN, expired : BOOLEAN, result : Result]
    BY <2>1, <2>2 DEF Inv, Typed
  <2>4. LoadedInv'
    BY <2>1, <2>3 DEF Inv, FileInv, LoadedInv, OneReport, Fresh, Working
  <2> QED
    BY <2>1, <2>3, <2>4, WorkStep DEF Inv, Typed, Working
<1>10. CASE StopPulse
  <2> DEFINE p == worker.phase
  <2>1. /\ worker.pc = "stop" /\ worker' = [worker EXCEPT !.pc = "join"]
        /\ pulser' = [pulser EXCEPT ![p].stop = TRUE] /\ UNCHANGED <<disk, ui, queue>>
    BY <1>10 DEF StopPulse, At
  <2>2. /\ worker'.pc = "join" /\ worker'.phase = worker.phase /\ worker'.run = worker.run
        /\ worker'.result = worker.result /\ p \in Phase
        /\ worker' \in [pc : Steps, run : 0..MaxRuns, phase : Phase, read : 0..MaxRuns,
                        failed : BOOLEAN, expired : BOOLEAN, result : Result]
    BY <2>1 DEF Inv, Typed, Steps
  <2>5. LoadedInv /\ ui' = ui
    BY <2>1 DEF Inv, FileInv, Working
  <2> HIDE DEF p
  <2>3. LoadedInv'
    BY <2>1, <2>2, <2>5 DEF LoadedInv, OneReport, Fresh
  <2>4. /\ pulser' \in [Phase -> [state : {"on", "off"}, stop : BOOLEAN, percent : 0..Full]]
        /\ \A o \in Phase : pulser'[o].state = pulser[o].state /\ pulser'[o].percent = pulser[o].percent
    <3>1. pulser \in [Phase -> [state : {"on", "off"}, stop : BOOLEAN, percent : 0..Full]]
      BY DEF Inv, Typed
    <3>2. pulser' = [pulser EXCEPT ![p].stop = TRUE] /\ p \in Phase
      BY <2>1, <2>2
    <3> QED
      BY <3>1, <3>2
  <2> QED
    BY <2>1, <2>2, <2>3, <2>4, WorkStep DEF Working
<1>11. CASE JoinPulse
  <2>1. /\ worker.pc = "join" /\ worker' = [worker EXCEPT !.pc = "judge"]
        /\ pulser[worker.phase].state = "off" /\ UNCHANGED <<disk, ui, queue, pulser>>
    BY <1>11 DEF JoinPulse, At, Joined
  <2>2. /\ worker'.pc = "judge" /\ worker'.phase = worker.phase /\ worker'.run = worker.run
        /\ worker'.result = worker.result
        /\ worker' \in [pc : Steps, run : 0..MaxRuns, phase : Phase, read : 0..MaxRuns,
                        failed : BOOLEAN, expired : BOOLEAN, result : Result]
    BY <2>1 DEF Inv, Typed, Steps
  <2>3. LoadedInv'
    BY <2>1, <2>2 DEF Inv, FileInv, LoadedInv, OneReport, Fresh, Working
  <2>4. \A p \in Phase : pulser[p].state # "on"
    BY <2>1 DEF Inv, PulseInv
  <2> QED
    BY <2>1, <2>2, <2>3, <2>4, WorkStep DEF Inv, Typed, Working
<1>12. CASE JudgeCollector
  <2>1. worker.pc = "judge" /\ worker.phase = "collector" /\ UNCHANGED <<disk, ui>>
    BY <1>12 DEF JudgeCollector, At
  <2>2. PICK usable \in Usable("report") :
           IF worker.expired \/ worker.failed \/ ~usable
           THEN Fail(NoFiles, FALSE) /\ UNCHANGED pulser
           ELSE /\ worker' = [worker EXCEPT !.pc = "child", !.phase = "agent", !.expired = FALSE,
                                            !.read = disk.report.id,
                                            !.result.files.report = disk.report]
                /\ Launch("agent")
    BY <1>12 DEF JudgeCollector
  <2>3. CASE worker.expired \/ worker.failed \/ ~usable
    BY <1>1, <2>1, <2>2, <2>3, EndStep DEF Fail, Working, Inv, Typed
  <2>4. CASE ~(worker.expired \/ worker.failed \/ ~usable)
    <3>1. disk.report.valid /\ disk.report \in File /\ disk.report.born = ui.runs
      BY <2>1, <2>2, <2>4, Bounds DEF Usable, Inv, Typed, FileInv
    <3> DEFINE files == [NoFiles EXCEPT !["report"] = disk.report]
               result == [worker.result EXCEPT !.files = files]
    <3>2. /\ files \in [Artifact -> File] /\ files["report"] = disk.report
          /\ \A f \in Artifact : f # "report" => files[f] = NoFile
      BY <3>1, Nothing, Bounds
    <3>3. worker.result.files = NoFiles /\ worker.result \in Result
      BY <2>1 DEF Inv, Typed, FileInv, LoadedInv, Working
    <3>4. worker' = [worker EXCEPT !.pc = "child", !.phase = "agent", !.expired = FALSE,
                                   !.read = disk.report.id, !.result = result]
      BY <2>2, <2>4, <3>3 DEF Result
    <3> HIDE DEF files
    <3>5. result \in Result /\ result.files = files
      BY <3>2, <3>3 DEF Result
    <3> HIDE DEF result
    <3>6. /\ worker'.pc = "child" /\ worker'.phase = "agent" /\ worker'.run = worker.run
          /\ worker'.result = result
          /\ worker' \in [pc : Steps, run : 0..MaxRuns, phase : Phase, read : 0..MaxRuns,
                          failed : BOOLEAN, expired : BOOLEAN, result : Result]
      <4>1. disk.report.id \in 0..MaxRuns /\ "child" \in Steps
        BY <3>1 DEF File, Steps
      <4> QED
        BY <3>4, <3>5, <4>1, Bounds DEF Inv, Typed
    <3>7. LoadedInv'
      BY <2>1, <3>1, <3>2, <3>5, <3>6, Bounds DEF LoadedInv, OneReport, Fresh
    <3>8. /\ \A f \in Artifact : disk'[f].valid => disk'[f].born = ui.runs
          /\ disk' \in [Artifact -> File]
      BY <2>1 DEF Inv, Typed, FileInv
    <3> QED
      BY <2>1, <2>2, <2>4, <3>6, <3>7, <3>8, LaunchStep, Bounds DEF Working
  <2> QED
    BY <2>3, <2>4
<1>13. ASSUME worker.pc \in {"judge", "diagnosis", "session"}, worker.phase = "agent",
              NEW notice \in BOOLEAN, Fail(Loaded, notice), UNCHANGED <<disk, ui, pulser>>
       PROVE  Inv'
  <2>1. Loaded \in [Artifact -> File] /\ OneReport(Loaded) /\ Loaded = worker.result.files
    BY <1>13 DEF Loaded, Inv, Typed, Result, FileInv, LoadedInv, Working
  <2> QED
    BY <1>13, <2>1, EndStep DEF Fail, Working, Inv, Typed
<1>14. CASE JudgeAgent
  <2>1. worker.pc = "judge" /\ worker.phase = "agent" /\ UNCHANGED <<disk, ui, pulser>>
    BY <1>14 DEF JudgeAgent, At
  <2>2. CASE worker.expired \/ worker.failed
    BY <1>13, <1>14, <2>1, <2>2 DEF JudgeAgent
  <2>3. CASE ~(worker.expired \/ worker.failed)
    <3>1. worker' = [worker EXCEPT !.pc = "diagnosis"] /\ queue' = queue
      BY <1>14, <2>3 DEF JudgeAgent
    <3>2. /\ worker'.pc = "diagnosis" /\ worker'.phase = worker.phase /\ worker'.run = worker.run
          /\ worker'.result = worker.result
          /\ worker' \in [pc : Steps, run : 0..MaxRuns, phase : Phase, read : 0..MaxRuns,
                          failed : BOOLEAN, expired : BOOLEAN, result : Result]
      BY <3>1 DEF Inv, Typed, Steps
    <3>3. LoadedInv'
      BY <2>1, <3>2 DEF Inv, FileInv, LoadedInv, OneReport, Fresh, Working
    <3>4. \A p \in Phase : pulser[p].state # "on"
      BY <2>1 DEF Inv, PulseInv
    <3> QED
      BY <2>1, <3>1, <3>2, <3>3, <3>4, WorkStep DEF Inv, Typed, Working
  <2> QED
    BY <2>2, <2>3
<1>15. CASE LoadDiagnosis
  <2>1. worker.pc = "diagnosis" /\ worker.phase = "agent" /\ UNCHANGED <<disk, ui, pulser>>
    BY <1>15 DEF LoadDiagnosis, At, Inv, FileInv, LoadedInv, Working
  <2>2. CASE Fail(Loaded, TRUE)
    BY <1>13, <2>1, <2>2
  <2>3. CASE ~Fail(Loaded, TRUE)
    <3> DEFINE files == [worker.result.files EXCEPT !["diagnosis"] = disk.diagnosis]
               result == [worker.result EXCEPT !.files = files]
    <3>1. /\ disk.diagnosis.valid /\ disk.diagnosis.id = worker.result.files.report.id /\ queue' = queue
          /\ worker' = [worker EXCEPT !.pc = "session", !.result.files.diagnosis = disk.diagnosis]
      BY <1>15, <2>3 DEF LoadDiagnosis, Usable, Matches
    <3>2. /\ worker.result \in Result /\ worker.result.files \in [Artifact -> File]
          /\ disk.diagnosis \in File /\ disk.diagnosis.born = ui.runs
          /\ OneReport(worker.result.files) /\ Fresh(worker.result.files.report)
      BY <2>1, <3>1, Bounds DEF Inv, Typed, Result, FileInv, LoadedInv, Working
    <3>3. /\ files \in [Artifact -> File] /\ files["diagnosis"] = disk.diagnosis
          /\ \A f \in Artifact : f # "diagnosis" => files[f] = worker.result.files[f]
          /\ files["report"] = worker.result.files["report"]
      BY <3>2, Bounds
    <3>4. worker' = [worker EXCEPT !.pc = "session", !.result = result]
      BY <3>1, <3>2 DEF Result
    <3> HIDE DEF files
    <3>5. result \in Result /\ result.files = files
      BY <3>2, <3>3 DEF Result
    <3> HIDE DEF result
    <3>6. /\ worker'.pc = "session" /\ worker'.phase = worker.phase /\ worker'.run = worker.run
          /\ worker'.result = result
          /\ worker' \in [pc : Steps, run : 0..MaxRuns, phase : Phase, read : 0..MaxRuns,
                          failed : BOOLEAN, expired : BOOLEAN, result : Result]
      <4>1. "session" \in Steps
        BY DEF Steps
      <4> QED
        BY <3>4, <3>5, <4>1 DEF Inv, Typed
    <3>7. OneReport(files)
      BY <3>1, <3>2, <3>3, Bounds DEF OneReport
    <3>8. LoadedInv'
      <4>1. /\ worker'.pc = "session" /\ worker'.phase = "agent" /\ worker'.result.files = files
            /\ ui' = ui
        BY <2>1, <3>5, <3>6
      <4>2. Fresh(files["report"]) /\ Fresh(files["diagnosis"])
        BY <3>1, <3>2, <3>3 DEF Fresh
      <4> QED
        BY <3>7, <4>1, <4>2 DEF LoadedInv, OneReport, Fresh
    <3>9. \A p \in Phase : pulser[p].state # "on"
      BY <2>1 DEF Inv, PulseInv
    <3> QED
      BY <2>1, <3>1, <3>6, <3>8, <3>9, WorkStep DEF Inv, Typed, Working
  <2> QED
    BY <2>2, <2>3
<1>16. CASE LoadSession
  <2>1. worker.pc = "session" /\ worker.phase = "agent" /\ UNCHANGED <<disk, ui, pulser>>
    BY <1>16 DEF LoadSession, At, Inv, FileInv, LoadedInv, Working
  <2>2. CASE Fail(Loaded, TRUE)
    BY <1>13, <2>1, <2>2
  <2>3. CASE ~Fail(Loaded, TRUE)
    <3> DEFINE files == [worker.result.files EXCEPT !["session"] = disk.session]
    <3>1. /\ disk.session.valid /\ disk.session.id = worker.result.files.report.id
          /\ Ending("ok", files, TRUE)
      BY <1>16, <2>3 DEF LoadSession, Usable, Matches, Loaded
    <3>2. /\ worker.result.files \in [Artifact -> File]
          /\ disk.session \in File /\ disk.session.born = ui.runs
          /\ OneReport(worker.result.files) /\ Fresh(worker.result.files.report)
          /\ Fresh(worker.result.files.diagnosis)
      BY <2>1, <3>1, Bounds DEF Inv, Typed, Result, FileInv, LoadedInv, Working
    <3>3. /\ files \in [Artifact -> File] /\ files["session"] = disk.session
          /\ \A f \in Artifact : f # "session" => files[f] = worker.result.files[f]
          /\ files["report"] = worker.result.files["report"]
      BY <3>2, Bounds
    <3> HIDE DEF files
    <3>4. OneReport(files)
      BY <3>1, <3>2, <3>3, Bounds DEF OneReport
    <3>5. \A f \in Artifact : Fresh(files[f])
      BY <3>1, <3>2, <3>3, Bounds DEF Fresh
    <3> QED
      BY <2>1, <3>1, <3>3, <3>4, <3>5, EndStep DEF Working, Inv, Typed
  <2> QED
    BY <2>2, <2>3
<1>17. CASE QueueDone
  BY <1>17, DoneStep
<1>18. ASSUME NEW p \in Phase, Pulse(p) \/ PulseEnds(p) PROVE Inv'
  BY <1>18, PulseStep, PulseEndStep
<1>19. ASSUME NEW f \in Artifact, NEW valid \in BOOLEAN, Console(f) \/ ChildWrites(f, valid) PROVE Inv'
  <2>1. worker.run \in 0..MaxRuns /\ worker.read \in 0..MaxRuns /\ 0 \in 0..MaxRuns
    BY Bounds DEF Inv, Typed
  <2>2. CASE Console(f)
    <3>1. Written(f, TRUE, 0) /\ UNCHANGED <<ui, queue, worker, pulser>>
      BY <2>2 DEF Console
    <3> QED
      BY <2>1, <3>1, WriteStep
  <2>3. CASE ChildWrites(f, valid)
    <3> DEFINE id == IF worker.phase = "collector" THEN worker.run ELSE worker.read
    <3>1. Written(f, valid, id) /\ UNCHANGED <<ui, queue, worker, pulser>> /\ id \in 0..MaxRuns
      BY <2>1, <2>3 DEF ChildWrites
    <3> HIDE DEF id
    <3> QED
      BY <3>1, WriteStep
  <2> QED
    BY <1>19, <2>2, <2>3
<1>20. CASE UNCHANGED svars
  <2>1. Typed' /\ RunInv' /\ ProgressInv'
    BY <1>20 DEF svars, Inv, Typed, RunInv, ProgressInv, Working, Waiting
  <2>2. PulseInv'
    BY <1>20 DEF svars, Inv, PulseInv, Working, Reached
  <2>3. FileInv'
    BY <1>20 DEF svars, Inv, FileInv, LoadedInv, Working, OneReport, Fresh
  <2> QED
    BY <2>1, <2>2, <2>3 DEF Inv
<1> QED
  BY <1>3, <1>4, <1>5, <1>6, <1>7, <1>8, <1>9, <1>10, <1>11, <1>12, <1>14, <1>15, <1>16, <1>17, <1>18,
     <1>19, <1>20 DEF SNext, Work, Outside

(* At first nothing runs, and at most a report is shown.                    *)
LEMMA InvInit == SInit => Inv
<1> SUFFICES ASSUME SInit PROVE Inv
  OBVIOUS
<1>1. /\ disk \in [Artifact -> File] /\ disk["report"] \in File /\ "report" \in Artifact
  <2>1. [NoFile EXCEPT !.valid = TRUE] \in File
    BY Nothing DEF File
  <2>2. [f \in Artifact |-> [NoFile EXCEPT !.valid = TRUE]] \in [Artifact -> File]
    BY <2>1
  <2>3. disk \in [Artifact -> File]
    BY <2>2, Nothing DEF SInit
  <2> QED
    BY <2>3, Bounds
<1>2. /\ ui.running = FALSE /\ ui.runs = 0 /\ ui.ended = 0 /\ ui.state = "idle"
      /\ ui.progress = NoProgress /\ ui.shown = [NoFiles EXCEPT !["report"] = disk["report"]]
      /\ queue.progress = NoProgress /\ queue.terminal = NoResult /\ queue.terminalSet = FALSE
      /\ worker = Idle /\ pulser = [p \in Phase |-> Off]
  BY DEF SInit
<1>3. Idle.pc = "idle" /\ Idle \in [pc : Steps, run : 0..MaxRuns, phase : Phase, read : 0..MaxRuns,
                      failed : BOOLEAN, expired : BOOLEAN, result : Result]
  BY Nothing, Bounds DEF Idle, Steps
<1>4. Off \in [state : {"on", "off"}, stop : BOOLEAN, percent : 0..Full] /\ Off.state = "off"
  BY Bounds DEF Off
<1>5. /\ ui.shown \in [Artifact -> File] /\ ui.shown["report"] = disk["report"]
      /\ \A f \in Artifact : f # "report" => ui.shown[f] = NoFile
  BY <1>1, <1>2, Nothing
<1>6. Typed
  <2>1. ui \in [running : BOOLEAN, runs : 0..MaxRuns, ended : Int,
                state : {"idle", "running", "ok", "failed"}, progress : Progress,
                shown : [Artifact -> File]]
    <3> DEFINE shown == [NoFiles EXCEPT !.report = disk.report]
    <3>1. shown \in [Artifact -> File] /\ NoProgress \in Progress /\ 0 \in 0..MaxRuns
      BY <1>1, Nothing, Bounds
    <3>2. ui = [running |-> FALSE, runs |-> 0, ended |-> 0, state |-> "idle", progress |-> NoProgress,
                shown |-> shown]
      BY DEF SInit
    <3> HIDE DEF shown
    <3> QED
      BY <3>1, <3>2
  <2>2. queue \in [progress : Progress, terminal : Result, terminalSet : BOOLEAN]
    BY Nothing DEF SInit
  <2> QED
    BY <1>1, <1>2, <1>3, <1>4, <2>1, <2>2 DEF Typed
<1>7. RunInv /\ ProgressInv /\ PulseInv
  <2>1. RunInv
    <3>1. ~Working /\ ~Waiting /\ ~ui.running
      BY <1>2, <1>3 DEF Working, Waiting
    <3>2. ui.ended = ui.runs - (IF ui.running THEN 1 ELSE 0)
      <4> DEFINE open == IF ui.running THEN 1 ELSE 0
      <4>1. ui.ended = 0 /\ ui.runs = 0
        BY <1>2
      <4>2. open = 0
        BY <3>1
      <4> HIDE DEF open
      <4>3. ui.ended = ui.runs - open
        BY <4>1, <4>2
      <4> QED
        BY <4>3 DEF open
    <3>3. ~Working => worker = Idle
      BY <1>2
    <3> QED
      BY <3>1, <3>2, <3>3 DEF RunInv
  <2>2. NoProgress.run = 0
    BY DEF NoProgress
  <2>3. ProgressInv
    BY <1>2, <2>2 DEF ProgressInv
  <2>4. PulseInv
    BY <1>2, <1>3, <1>4 DEF PulseInv, Working
  <2> QED
    BY <2>1, <2>3, <2>4
<1>8. FileInv
  <2>1. OneReport(queue.terminal.files) /\ queue.terminal.state = "none"
    BY <1>2, Nothing DEF OneReport
  <2>2. OneReport(ui.shown)
    BY <1>5 DEF OneReport
  <2> QED
    BY <1>2, <1>3, <2>1, <2>2 DEF FileInv, Working
<1> QED
  BY <1>6, <1>7, <1>8 DEF Inv

-----------------------------------------------------------------------------
(* Theorems.                                                                *)

(* A run has exactly one terminal event and it is its own: what the worker  *)
(* delivers is in the queue until the UI thread takes it, once, and nothing *)
(* of another run is ever there (queue.go, QueueDone, drainUIEvents).       *)
THEOREM OneEnd == SSpec => []OneTerminal
<1>1. Inv => OneTerminal
  BY DEF Inv, RunInv, ProgressInv, Working, Waiting, OneTerminal
<1>2. Inv /\ [SNext]_svars => Inv'
  BY InvStep
<1> QED
  BY <1>1, <1>2, InvInit, PTL DEF SSpec

(* The screens never mix reports, and after a success they show only what   *)
(* was written in that run: the artifacts of earlier runs are cleared and   *)
(* each of the new ones is matched with the report (RunCollection).         *)
THEOREM Together == SSpec => []ShownTogether
<1>1. Inv => ShownTogether
  <2> SUFFICES ASSUME Inv PROVE ShownTogether
    OBVIOUS
  <2>1. ui.state = "ok" => ui.ended = ui.runs
    BY DEF Inv, Typed, RunInv
  <2> QED
    BY <2>1 DEF Inv, FileInv, OneReport, Fresh, ShownTogether
<1>2. Inv /\ [SNext]_svars => Inv'
  BY InvStep
<1> QED
  BY <1>1, <1>2, InvInit, PTL DEF SSpec

(* What ProgressInOrder says of a step.                                     *)
Forward == /\ Rank(ui'.progress) >= Rank(ui.progress)
           /\ ~ui.running => ui'.progress = ui.progress

(* Only the UI thread shows progress, and what it finds is not behind.      *)
LEMMA ForwardStep ==
  ASSUME Inv, [SNext]_svars
  PROVE  Forward
<1>1. /\ ui.progress.run \in Nat /\ ui.progress.percent \in 0..Full /\ ui.runs \in Nat
      /\ ui.progress.run <= ui.runs /\ Full = 6
  BY Bounds DEF Inv, Typed, Progress, ProgressInv
<1>2. ASSUME ui'.progress = ui.progress PROVE Forward
  BY <1>1, <1>2 DEF Forward, Rank
<1>3. ASSUME NEW run \in Nat, NEW percent \in 0..Full, ui'.progress = [run |-> run, percent |-> percent],
             run = ui.runs, ui.running, ui.progress.run = run => ui.progress.percent <= percent
      PROVE  Forward
  <2>1. ui'.progress.run = run /\ ui'.progress.percent = percent
    BY <1>3
  <2>2. ui.progress.run = run \/ ui.progress.run + 1 <= run
    BY <1>1, <1>3
  <2> QED
    BY <1>1, <1>3, <2>1, <2>2 DEF Forward, Rank
<1>4. CASE DrainUIEvents
  <2>1. CASE Waiting
    <3>1. /\ queue.terminal.run = ui.runs /\ ui.running
          /\ ui' = [ui EXCEPT !.running = FALSE, !.ended = @ + 1, !.state = queue.terminal.state,
                              !.progress = [run |-> queue.terminal.run, percent |-> Full],
                              !.shown = Show(@, queue.terminal)]
      BY <1>4, <2>1 DEF DrainUIEvents, Waiting, Inv, RunInv
    <3>2. ui'.progress = [run |-> ui.runs, percent |-> Full]
      BY <3>1 DEF Inv, Typed
    <3>3. Full \in 0..Full /\ ui.progress.percent <= Full
      BY <1>1
    <3> QED
      BY <1>1, <1>3, <3>1, <3>2, <3>3
  <2>2. CASE ~Waiting /\ queue.progress = NoProgress
    <3>1. ui' = [ui EXCEPT !.progress = ui.progress]
      BY <1>4, <2>2 DEF DrainUIEvents, Waiting
    <3> QED
      BY <1>2, <3>1 DEF Inv, Typed
  <2>3. CASE ~Waiting /\ queue.progress # NoProgress
    <3>1. ui' = [ui EXCEPT !.progress = queue.progress]
      BY <1>4, <2>3 DEF DrainUIEvents, Waiting
    <3>2. ui'.progress = queue.progress
      BY <3>1 DEF Inv, Typed
    <3>3. /\ queue.progress = [run |-> ui.runs, percent |-> queue.progress.percent]
          /\ queue.progress.percent \in 0..Full /\ ui.running
          /\ ui.progress.run = ui.runs => ui.progress.percent <= queue.progress.percent
      BY <2>3 DEF Inv, Typed, Progress, ProgressInv, RunInv
    <3> QED
      BY <1>1, <1>3, <3>2, <3>3
  <2> QED
    BY <2>1, <2>2, <2>3
<1>5. CASE StartDiagnostics
  <2>1. ui'.progress = ui.progress
    BY <1>5 DEF StartDiagnostics, Inv, Typed
  <2> QED
    BY <1>2, <2>1
<1>6. CASE Work
  BY <1>2, <1>6 DEF Work, Clear, ClearFails, ChildExits, StopPulse, JoinPulse, JudgeCollector, JudgeAgent,
                    LoadDiagnosis, LoadSession, QueueDone
<1>7. CASE Outside
  BY <1>2, <1>7 DEF Outside, Console, ChildWrites, AgentReads, Expire
<1>8. ASSUME NEW p \in Phase, Pulse(p) \/ PulseEnds(p) PROVE Forward
  BY <1>2, <1>8 DEF Pulse, PulseEnds
<1>9. CASE UNCHANGED svars
  BY <1>2, <1>9 DEF svars
<1> QED
  BY <1>4, <1>5, <1>6, <1>7, <1>8, <1>9 DEF SNext

(* The progress shown never goes back, within a run or to an earlier one,   *)
(* and stands still when no run is under way: the goroutine of a phase is   *)
(* waited for before the next phase begins or the run ends (stopPulse).     *)
THEOREM InOrder == SSpec => ProgressInOrder
<1>1. Inv /\ [SNext]_svars => Inv'
  BY InvStep
<1>2. Inv /\ [SNext]_svars => [Forward]_svars
  BY ForwardStep
<1>3. ProgressInOrder <=> [][Forward]_svars
  BY PTL DEF ProgressInOrder, Forward
<1> QED
  BY <1>1, <1>2, <1>3, InvInit, PTL DEF SSpec
=============================================================================
