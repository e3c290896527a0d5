# Effexor WinDoctor in TLA+

Effexor WinDoctor is a Windows rescue environment: a collector inspects the
broken machine, an agent proposes what to look at next, and a recovery platform
keeps a *case* – evidence, findings, plans and an audit trail – on the disk of
a machine that may crash or lose power at any moment. This directory specifies
its parts in TLA+, checks small instances with TLC, and proves the results that
matter most with TLAPS for every value of the constants. `PROJECT.json` maps
every definition to the lines it stands for.

Paths below are relative to `src/`; `casestore/`, `coordinator/`, `domain/` and
`agentruntime/` abbreviate `internal/recovery/...`.

## 1. Inventory

| component | state it keeps | operations | what is hard about it |
|---|---|---|---|
| case store (`casestore/`) | one directory per case: snapshot directories, blobs, commit records, a lock file, staging directories | `Commit`, `LoadLatest`, `CleanupStaging`, `InspectRecovery`, `Verify` | several processes, death and power loss between any two file operations, failing directory syncs, retries after an unknown outcome |
| coordinator (`coordinator/`) | none of its own: the head of the case | `CreateCase`, `AdoptLegacyCase`, `CommitAnalysis`, `CommitPlan`, `FailCase`, `CancelCase`, `ExecuteReadOperation`, `ResolveWindowsBootTopology`, `CommitAgentConsultation`, `CommitBootDoctorAnalysis` | optimistic: read the head, decide, build, commit on the head that was read; replays by request id; Boot Doctor reads the head twice |
| domain (`domain/`) | – | validation of workflow state, events, acquisitions, consultations | rules that a long legal history must keep satisfying |
| agent runtime (`agentruntime/`) | one consultation: rounds, keys read, current commit | `Runtime.Run` | chained commits inside a round, budgets, partial failure, deadline, a case that moves meanwhile |
| legacy importer (`importer/legacyreport`) | – | `ImportJSON`: a report becomes the first snapshot | which relations and locators survive the conversion |
| target resolver (`targetresolver/`) | – | `Resolve`: a snapshot and maybe a technician's selection become a boot topology | several passes over one body of evidence must not make an unproven topology eligible |
| Boot Doctor (`bootdoctor/`) | – | `Analyze`: a topology becomes findings | findings that drop each other |
| evidence view, read registry | – | decode a bundle, dispatch a read | pure |
| agent loop (`internal/agentloop`) | rounds, evidence and keys so far, audit | `Loop.Run` | the last round, repeated requests, privacy of what later rounds are shown |
| gateway (`internal/gateway`) | job table, semaphore | create and look up a diagnosis job (`/rescue/v1/diagnoses`), run it, prune; a polling client | jobs pruned while queued or running, limits per device, lost messages, restart |
| shell (`internal/shell`) | event queue, `running` flag, result files | start a run, progress, terminal result, drain on the UI thread | worker, pulse goroutine and UI thread; results of an earlier run |
| collector, diagnostics, triage, session | – | one pass over the operating system | pure or I/O |
| programs, contracts, scripts, drivers | – | – | wiring and data |

How they interact: the agent runtime and the command line call the coordinator;
the coordinator loads and commits through the case store, which is the only
place that writes; several processes may have the same case open. The shell
starts collector and agent as child processes and reads the files they leave;
the agent loop talks to the gateway through its client.

What makes each of them correct:

- **case store** – the commit records of a case are one gapless chain of
  complete snapshots; a record is only appended to the head its caller
  expected; an error means nothing was committed, an acknowledgement means it
  stays committed; a retry never appends twice; a cleanup never disturbs a
  commit; the lock always comes back.
- **coordinator** – no caller's documents are overwritten; the audit trail
  names the commits as they happened; a terminal case stays as it is; what is
  built is always valid; a replay is answered from its own record.
- **agent runtime** – advice names the commit it was derived from and changes
  nothing else; a run that has not failed never trips over its own commits; what
  it reports is on the case; nothing is started after its deadline.
- **importer, resolver, Boot Doctor** – a topology is eligible for a repair plan
  only if the report proves it; the analysis gives one verdict; the resolver
  answers whatever machine it is shown.
- **agent loop** – it ends; no target is read twice under another spelling; what may not be uploaded is
  neither shown nor cited; the audit tells what happened.
- **gateway** – limits hold, a client gets its own job's result or an error,
  every call ends, report context does not outlive its analysis.
- **shell** – one terminal result per run, after its progress and never that of
  an earlier run; what is shown belongs together; a run can be started again.

The hazards behind these properties are listed one by one, with their lines, in
`PROJECT.json`.

## 2. What is modelled

    CaseLog            what the store promises: an append-only log
      ^  implemented by (ImplementsCaseLog: checked and proved)
    CaseStore          the commit protocol on the file system
    CaseLog
      ^  used by INSTANCE
    Coordinator        concurrent callers of one case
      ^  extended by
    AgentRuntime       consultations as one of those callers

    LegacyImport <- TargetResolver <- BootDoctor <- Analysis
                       a report, its case, its topology, its findings

    OnlineAssessment   what may be sent to the online analysis and accepted from it
      ^  extended by
    Gateway, AgentLoop

    Shell              a diagnostic run and the UI thread

### CaseLog

Two variables: `log`, the committed snapshots, and `safe`, how many of them some
caller was told about. A snapshot is appended (never the one that already is
the head), an entry is acknowledged, and a power loss may take entries nobody
was told about. The store implements it; the coordinator is modelled on top of
it.

### CaseStore

Several processes (`Proc`) run calls on one case directory; one action per file
operation that another process, or a power loss, can see. A call is

    dirs, dirsync -> lock -> load -> stage -> docs -> blobs (blobtemp, blobsync)*
      -> publish -> snapsync -> record -> rename -> commitsync

for `Commit` (`commit.go:17-291`), and `dirs -> lock -> clean` for
`CleanupStaging`. `pc[p]` is the step, `req[p]` the call with its parent
expectation (`parent_expectation.go`), `txn[p]` what `commitLocked` holds in
memory, `outcome[p]` what it returned.

*Files.* Every directory is modelled twice: what a process sees (`snapshots`,
`blobs`, `commits`) and what is sure to survive a power loss (`dSnapshots`,
`dBlobs`, `dCommits`). The code syncs every file before it renames it, so only
directory entries differ. A power loss leaves the durable entries and any
subset of the others. Blob directories are one per hash prefix, so syncing one
makes one blob durable; `snapshots/` and `commits/` are synced as a whole.

*Faults* are constants of an instance: `"crash"` (a process dies; the kernel
releases `flock`), `"sync"` (a directory sync fails; after the commit point the
outcome is unknown), `"rot"` (a published snapshot directory is damaged),
`"power"`. A cancelled context or failing write (`Abort`) is always possible.

*Abstracted:* bytes, hashes and paths. A snapshot id is the hash of its content,
so a snapshot is a value of `Snap`; a commit id hashes content and time, so it
is a fresh number. `LoadLatest` is one step: nothing it reads is ever removed.

### Coordinator

Several callers (`Client`) use one case. A call that needs no write is one
step. One that writes is: read the head, decide and build the next snapshot
(one step, as it is all in memory), then `commit` -> `published` -> `returning`:
the store's commit point, its return, and the reply made from the caller's own
snapshot. `CommitBootDoctorAnalysis` has one more: it reads the head, analyses
(`analyse`), and calls `CommitAnalysis`, which reads the head again.

A snapshot is a record of workflow state, revision and the *sets* of events,
evidence, findings, acquisitions and consultations. `Valid` is
`Snapshot.Validate` as far as it relates documents to each other; `Provenance`
is the acquisition check of the commit. Evidence is named by kind and the
commit it was acquired on, an event carries the caller that made it (its id is
random). Field formats are left out. A commit that finds the case lock taken
(`CommitLocked`) may do so because another call is anywhere in its commit, as
the lock is taken well before the commit point. One that finds its snapshot
committed already (`CommittedBefore`) tells its caller so without a sync: whether
the entry is safe from then on is left open, as the store keeps that promise
unless a sync failed before (`store_retry`).

Actors, request ids and the commit a caller expects (the head or the one
before) are chosen freely, so all the replays and refusals of the code occur.

### AgentRuntime

One agent is a client of `Coordinator`; every call it makes is the
coordinator's own action, so the races of `coordinator_pair` are part of it.
`run[a]` is what `Runtime.Run` holds between its calls (`runtime.go:52-180`):

    propose -> (read)* -> reload -> propose ... -> persist -> idle

`commit` is what the consultation would name as its source, `current` the
commit of the last read, `view` the commit whose snapshot the provider was
shown. A provider proposes anything: a terminal status, reads within or beyond
the budget, repeated keys, unknown targets, texts that
`AgentConsultation.Validate` refuses. The deadline may pass at every point; the
process may die, the machine lose power. `Others` is a second process on the
case, which may run the same request.

### LegacyImport, TargetResolver, BootDoctor, Analysis

Pure functions, one operator per function of the code. A report is its firmware
modes, disks, partitions, installations, boot stores, BitLocker volumes and
health classes, reduced to the fields a decision reads. `Imported` is the case,
`Resolve` the topology for an automatic or a technician's selection, `Analyze`
the set of finding codes. `Analysis` strings them together as the coordinator
does: import, resolve (any number of times, with any pins), analyse. Its
properties do not restate the rules: they compare the outcome with the report,
read by a definition of its own (`OneChain`, `NothingElse`, `SafeToJudge`).

### OnlineAssessment, Gateway, AgentLoop

`OnlineAssessment` has the policy the two share: `Sanitize`, the catalogue of
paths a finding may cite (`EvidenceReferences`), what an assessment must satisfy
(`Accepted`), and every answer a model may give after the provider has assembled
it (`Answers`).

`Gateway` has the clients (`client.go`), the messages, the handlers and the
goroutine of each job (`server.go`). A handler reads the clock before it takes
the lock: `Arrive`, then `CreateJob` or `LookupJob`, each of which prunes first.
Messages and answers may be lost and are handled after their client has gone;
the server may restart with an empty table.

`AgentLoop` is `Loop.Run` against any provider and any collector. Proposals are
completed assessments, stops, or requests in any spelling of their arguments.

### Shell

The UI thread (`winui`), the worker with its two children (`orchestrator`), a
progress goroutine per child, and the queue between them (`uiqueue`). Files may
be written by the children, well or badly, and from the console the shell
offers; each file carries the run it was written in and the report it is about.
The clock may be set at any time, so whether a file looks fresh is not decided
by its age.

## 3. What is checked

| run | instance | shows |
|---|---|---|
| `store_faults` | 2 processes, 2 snapshots sharing a blob, 2 records, fresh case; crash, sync failure, damage | chain, parent expectation, no duplicate, no scratch file taken by a cleanup, errors commit nothing |
| `store_power` | the same on an existing case, 3 records; power loss at any step | what is committed is complete, nothing acknowledged is lost, the store implements `CaseLog`, a call that goes on gives the lock back |
| `coordinator_pair` | 2 callers, 4 commits, every operation; unknown outcomes, crashes, power loss | nothing overwritten, audit trail exact, terminal is final, replies exact |
| `coordinator_history` | 1 caller, 5 commits, a clock that runs backwards, lost commits | whatever is built passes the validation of the store, but an adoption by an actor that may not adopt |
| `agent_runtime` | 1 agent and another client of the case, 4 commits, 2 rounds, 2 keys; unknown outcomes, crashes, power loss, deadline | advice is grounded and only advice, a run that has not failed does not conflict with itself, what is reported is recorded, a run advances and respects its deadline |
| `gateway` | 2 clients with a device each, 2 calls, limits of 1, a clock of 2 and a lifetime of 1 | own result or an error, context discarded, limits, jobs go forward, every call ends |
| `agent_loop` | 3 rounds of up to 2 requests, 2 operations (one not uploadable), 2 targets in 3 spellings and one unknown | nothing private shown or cited, nothing read twice, audit complete, the loop ends |
| `shell` | 2 runs, 1 file from the console, files left from before | one terminal per run, artifacts of one report, progress in order, the run ends |
| `analysis` | machines of up to 2 disks, 3 partitions, 2 installations, 2 boot stores: all layouts in plain surroundings, all surroundings of a plain layout; every technician's selection | eligible means proven, the analysis gives one verdict, the resolver fails on shared partitions and disks only |
| `store_retry`, `coordinator_topology`, `analysis_dual` | the smallest that show it | three disagreements of section 5 |

The runs `store_faults`, `agent_runtime`, `gateway` and `agent_loop` also check
that every variable keeps its type; those of the coordinator are part of
`agent_runtime`, which extends it.

*Bounds.* `MaxId` bounds the commit records ever written, `MaxCommits` the log,
`MaxTime` the clock. Two processes are enough for every race of the store,
because the lock serialises all but `dirs`, `dirsync`, `lock` and `LoadLatest`;
two snapshots sharing a blob are the least at which reuse of a snapshot, reuse
of a blob, and A-B-A on the head occur; three records are the least at which a
stale retry differs from an idempotent one. Two callers with four commits fit
create, acquire, analyse and a terminal move, each racing another call; a fifth
commit in the single-caller run also fits a plan. The coordinator's two runs
split what two callers can do from what a long history can do because their
product is out of reach. `Symmetry` is used for safety only, over values that
the specification never compares other than by equality. The view of the
coordinator's runs leaves out `reply`: it has no influence on later steps, and
the properties that speak of it are action properties, evaluated on every step.

`agent_runtime` needs two rounds for a read that follows a reload and for the
budget over rounds, two keys for a round that fails half way, and four commits
for create, analyse, one read and the record. `gateway`: with limits of one
every limit is reached by two calls, a job of one client is pruned while it is
queued behind the other's, and an expired job makes room for the next;
`TTL` = 1 and a clock up to 2 allow both sides of the comparison. `agent_loop`:
three rounds are the least at which a middle round has a before and an after.
`shell`: the second run finds what the first left in queue, messages, files and
goroutines. `analysis`: two of each thing are the least at which something is
ambiguous; the third partition separates "no EFI partition on this disk" from
"two of them".

*Deadlock* checking is off where an instance really stops when its bounds are
used up and nobody has anything under way; it is on for `agent_loop`,
`analysis` and `analysis_dual`.

*Fairness* of the store is `WF_vars(Step(p))` per process, in `FairSpec`: a call that has
started keeps running, and none of its steps waits for another process – the
lock is tried once and refused when taken (`lock_unix.go:49`). Nobody is obliged
to start a call, and no fault is obliged to happen or to stop. That the lock
of a dead process is free again is the kernel's doing, and part of `Crash`.

The gateway assumes that a client, a handler and a goroutine go on
(`GFairness`): the analysis runs under a timeout (`server.go:255-262`), the
semaphore is a channel, which serves its senders in order, and the context of
the client's command has a deadline (`cmd/effexorwinpe-agent/main.go:117`), so a lost message shows as an error. No message is assumed to
arrive and no clock to run. The agent loop assumes only that provider and
collector return, at their deadline if not before. The shell assumes that a
child ends, being killed at its deadline (`orchestrator.go:74-81`), that the
worker and the progress goroutines run, and that the UI thread dispatches its
messages. `RunAdvances` of the agent runtime needs no fairness: it says that
every step uses up something finite.

*Safety under faults.* `AckedDurable` and the refinement are checked with power
loss alone. Together with a failing directory sync, or with a process that dies
between rename and sync, they do not hold: that is `store_retry` and the first
note of section 5. Without these two combinations the promise of `CaseLog` is
what the coordinator may rely on.

## 4. What is proved

Eight modules, each named after the module it is about, hold for every set of
processes, callers, clients, snapshots, requests, faults and bounds. The only
assumptions are those of the constants: the "none" values are not values,
functions are functions, bounds are numbers; what `Analysis` assumes of a
report is said below. Every theorem `Spec => []P` is the
three facts about its inductive invariant; those about steps combine the
invariant before the step with the step.

**Case store.** `TypeCorrect` needs nothing else. For the rest `IInv` is
inductive while no power is lost:

- `LockHeld`: whoever is past the lock holds it, so at most one process is;
- `ChainInv`: the chain, with ids below `nextId` and determining the record;
- `BaseInv`: while a call writes, the head it read under the lock still is the
  head, still meets the expectation and still is not the same snapshot – this
  is what carries the check at `commit.go:120` to the rename at `commit.go:253`;
- `FilesInv`: the blobs and the snapshot a record will name are in place, step
  by step, before the record is;
- `MineInv`: a call has published nothing until its commit point.

From it: `ChainStaysIntact`, `CommittedStaysComplete`, `NeverDuplicated`,
`ScratchStaysSafe`, `ExpectationStillHolds`, `ErrorsCommitNothing`. The last two
are about steps. `"power" \notin Faults` is a real hypothesis: after a power loss
the visible entries shrink, and a snapshot that a dead process renamed and never
synced may go with them (section 5).

**Case store under power loss** (the second part of `CaseStoreProofs`). The
hypothesis is `Dependable`: power may fail at any step and files may rot, but the case
directory is there, no directory sync fails and no process dies by itself –
each excluded case is a counterexample of section 5. `DInv` adds to `IInv`:

- `FilesSynced`, `RecordsSynced`: what is seen is durable, but for the one entry
  whose directory the holder of the lock is about to sync; a record in that
  position is the head and nobody was told of it. This is where reuse without
  a sync is harmless: whoever made the entry synced it before it let go of the
  lock;
- `KeptFiles`: what a record refers to is durable before the record is seen;
- `AckedKept`: acknowledged records are durable, and the last of them is among
  those that were acknowledged;
- `Numbered`: the records carry the numbers 1 to their cardinality, so that the
  log of the refinement is a sequence at all.

A power loss then takes at most the head (`PowerKeeps`). From it:
`AckedStaysDurable`, `ChainSurvivesPowerLoss` and `StoreImplementsLog`, the
refinement of `CaseLog`: a published record appends a snapshot that is not the
head already, an acknowledgement covers the whole log, a power loss is `Lose` of
one entry, and every other step stutters.

**Coordinator.** `TypeCorrect`, then `IInv`:

- `ChainBuilt`: commit *i* is a *legal successor* (`BuiltOn`) of commit *i - 1*:
  it keeps every document, its predecessor was not terminal, its new events and
  acquisitions name *i - 1*, and while it is only analysed it has no plan that
  the next one could overwrite;
- `JobBuilt`: a call that is about to commit holds a legal successor of its
  parent, however far the case has moved on since; one that has committed
  holds what it committed.

The properties alone are not inductive: they say nothing of the calls under
way, and a stale call is harmless only because the store publishes it on its
parent or not at all. Every operation is shown to end in `Prepared` – log
untouched, only its own call changed, and a legal successor in hand – and the
three things that move the log (publish, power loss, nothing else) preserve
`ChainBuilt`. From it: `DocumentsKept`, `AuditTrailExact`, `TerminalStays`,
`RepliesExact`, here with unknown outcomes, crashes and power loss included.

What the coordinator asks of the store is proved too. `OneWriter`, inductive
beside `IInv`: a call between its commit point and its answer is the only one
there, its commit is the head, and nobody was told of it yet – so the guard of
`Acknowledge` never keeps an answer back (`WritersTakeTurns`). Every step is then a
step of `CaseLog` or leaves the store alone (`AsksOnlyThePromised`); together with
`StoreImplementsLog`, whose hypotheses are those of the store, the two models
meet in the same abstract log.

**Coordinator: validity** (`CoordinatorValidityProofs`). The validator of a
snapshot (`snapshot.go`) is written separately from the operations and demands
more of a history than any of them looks at. `Valid` is not inductive; `VInv`
adds to it:

- `Sound`: a revision names one event, a committed plan has a name, and an event
  that ends a case leaves a terminal state – otherwise a later analysis could
  meet an event whose plan differs from that of the case;
- `Good`: a case without a workflow is exactly what the importer produced, so
  that an adoption starts from revision 0;
- `Follows`: evidence comes from commits up to the one a snapshot was built on,
  and every acquisition used evidence of its source and added what was not there
  (`Traced`). Evidence acquired on the head is new because all there is has an
  earlier source;
- `JobValid`: the same of the snapshot in every call's hands, and the topologies
  of a Boot Doctor call still belong to the commit it names.

The lemmas are about histories, not calls: a move (`MoveGood`), a first event
(`FirstSound`, `FirstGood`) or an enrichment (`EnrichGood`) of a good snapshot is
good, with the count of the events (`HistoryGrows`) from the finite-set theorems.
Every operation then ends in `Checked`. From it: `ValidityInductive`, `NeverRefused`.
`Determined` says what a valid case is determined by; the agent runtime needs it.

**Agent runtime** (`AgentRuntimeProofs`, which stands on `CoordinatorValidityProofs`).
`RInv` adds to the coordinator's invariant that a run names commits that are on
the case (`RunsFit`), has loaded the case after its last read unless it reports
a failure, and is in a call only while it reads or records (`CallsFit`). Every
step is a step of the coordinator – `RunsAreCalls`, a refinement – so all of its
theorems hold with consultations under way. Termination by a measure is
`RunsAdvance`, the deadline `DeadlinesHold`. For what is recorded `AInv` adds:

- `LogAdvised`, `JobsAdvised`: a commit, or a call about to commit, either leaves
  the consultations alone or changes nothing else and adds only advice made
  from its parent;
- `Monotone`: `Extends` between any two commits, not only neighbours;
- `Introduced`: each consultation appears exactly on the commit after its source;
- `RecordsFit`, `NothingYet`: a run that records is in a call that would add what
  it is going to report, and reports nothing earlier.

`AdvisoryOnly` and `Grounded` alone are not inductive, as they speak of the log
and the danger is in a call built on a head that has moved. From it:
`AdviceOnly`, `AdviceGrounded`, `Reported`.

That a run is never refused because of its own reads relates a refusal to the
history of everybody's commits. `OwnInv`, inductive beside `AInv`, says:

- `RunsOwn`: every acquisition of an agent on the head is on the commit its run
  knows (`Base`: the last read while reading, the run's commit otherwise), or is
  the one being committed; a record expects the run's own commit. A run that is
  going to report a failure is exempt, as it stays on the commit from before its
  round;
- `JobsOwn`: a call about to commit adds acquisitions of its own caller only;
- `NewHead`: a commit differs from the one before, as a repeated one is found to
  be the head already.

If the run's commit is not the head, the next one differs from it (`NewHead`); as
both are valid, they differ in an event, an acquisition or a consultation
(`Determined`: these determine the rest of a valid case); the difference is still
there on the head (`Monotone`), and it is not an own acquisition (`RunsOwn`). So
somebody else moved the case: `OwnReadsNeverConflict`.

**Gateway.** `TypeInv`, `WithinLimits`, `JobInv` (a known job has its request while
and only while a goroutine is going to end it; an id is issued once) and
`ClientInv` (what a client holds, or is on the way to it, belongs to its own
call). Cardinalities are handled by the finite-set theorems of the library.
From it `TypeCorrect`, `LimitsHold`, `Discarded`, `GoesForward`, `OwnResults`.

**Agent loop.** `RoundInv` (where in its round the loop is), `ReadInv` (all reads
done so far differ and are among the keys a proposal is compared with, and those
still queued are not) and `PrivacyInv` (the evidence shown is the filtered
evidence): `TypedLoop`, `NothingPrivate`, `OnlyOnce`. The audit needs an invariant
about a sequence that grows in all phases. `AuditInv`: every "collected" is
preceded by its "requested" (`Told`), there are as many as there are collected
results, no outcome is there before the end (`Open`), and the entries so far
leave room for what the phase may still add (`AuditFits`: `Room(n)` for `n` whole
rounds, three entries for each read still queued). From it `TimelineTells`, and
with the limits of the code – three rounds of eight reads – at most 55 entries
where `agentloop/validate.go:22` allows 64 (`TimelineFits`): no run is refused
for its own audit.

**Shell.** `RunInv` (which run worker, queue and UI thread are in), `ProgressInv`
(percentages of phases against what is shown), `PulseInv` (a progress goroutine
belongs to the phase under way) and `FileInv` (once the artifacts of earlier runs
are cleared, whatever can be decoded was written in this run): `OneEnd`,
`Together`, `InOrder`.

**Analysis.** TLC enumerates small machines; the proofs are about any number of
disks, partitions, installations and boot stores, and any selection. Assumed of
a report (`IsReport`) is that it lists finitely many things, that a partition is
no installation and no boot store (a target's id hashes the place it has in the
report, `legacyreport/ids.go:17`, `targets.go:133`), and that health, volumes and
partition kinds are what the importer tells apart. The invariant `AInv` only says
that case, topology and findings are what the code computes from the report; the
work is in what that computation implies:

- `CaseIs`, `LinkedIs`, `OnDiskIs`, `ChainIs`: what the case relates is what the
  report's letters and numbers relate, so a connected selection is `OneChain`;
- `EligibleIs`, `BlockersInclude`, `SafeIs`: no pass over the evidence is missed
  on the way to eligible – `RepairIsProven`;
- `DraftsAre`, `VerdictDrafts`, `KeptIs`: which rule drafts which finding, and that
  what takes the consistent verdict back is never itself taken back; with
  `OnlyChoice`, `NothingElseIs` and `CrossIs` this gives `OneVerdict`;
- `DuplicatesShare`, `SharedDuplicates`, `SharedIs`: two candidates or relations
  have one id exactly where two installations share a partition or disk –
  `RefusesSharedOnly`, so the failure of `analysis_dual` is the only one;
- `ConsistentIsDoubted`: see the note on `boot_store_for_windows` in section 5.

*Model-checked only:* liveness (`LockReleased`, `CallEnds`, `LoopEnds`, `RunEnds`),
which is out of reach of the prover. Every other property of a passing run is
stated by a theorem.

## 5. Where the code and its documentation disagree

Three are runs that TLC must find violated.

- `store_retry` – a retry that finds its snapshot committed returns success
  without syncing `commits/`, although the attempt that wrote the record failed
  exactly there (`casestore/commit.go:101-118`). A power loss takes an
  acknowledged commit.
- `coordinator_topology` – "latest" topology means the last in the order of
  hashes (`coordinator/bootdoctor.go:226`).
- `analysis_dual` – two Windows installations on one disk make the disk a
  candidate twice, the topology fails its own validation
  (`domain/windows_boot_topology.go:198`) and the resolver returns an error
  where `docs/architecture/windows-target-resolver.md:27` promises a topology
  without a selection. A technician's selection does not help. Nothing else
  makes an automatic resolution fail (`RefusesSharedOnly`).

Found by TLC on earlier versions of these models and kept as notes:

- An orphan snapshot, or an existing blob, is verified and reused without a
  sync of its directory (`casestore/commit.go:194`, `:342`). The record that
  names it may survive a power loss that it does not: `CommittedComplete` fails
  with `"crash"` and `"power"` together.
- Only the process that makes a managed directory syncs its parent, before the
  lock (`casestore/store.go:133`): the other may already commit inside it.
- The workflow state is checked before the replay (`coordinator/acquire.go:81`),
  so a recorded acquisition cannot be replayed once a plan is proposed.
- A Boot Doctor replay computes the hash of the request and does not compare it
  (`coordinator/bootdoctor.go:146`): a request id used again for another
  topology, whose findings are there, is answered as a replay.

Seen while reading, not run:

- *coordinator* – a Boot Doctor call with an explicit command id is recorded
  under that id and never found again by its request id (`bootdoctor.go:103`);
  `docs/architecture/recovery-coordinator.md:67` allows acquisitions only in
  `evidence_collected`, the code also in `analyzed` (`acquire.go:335`);
  `consultation.go:70` fills in an omitted source commit with the head before it
  looks for a replay, so the same call repeated after another commit is a
  divergent reuse.
- *agent runtime* – when a round fails after some of its reads were committed, the
  terminal consultation still expects the commit from before the round
  (`runtime.go:150`), is refused as stale, and the failure goes unrecorded, which
  no document excludes: this is the failed run that `NoSelfConflict` exempts.
  `ReportedIsRecorded` is what remains true of it. If only the reload fails
  (`:155`) the record names the view from before the round. After the
  deadline nothing can be recorded at all (`runtime.go:113`), as the model shows
  with `DeadlineHolds`; `runtime.go:233` may add one limitation too many to an
  answer that had as many as it may.
- *agent loop* – `null` for an optional argument and its absence have different
  keys (`operations.go:171`, `:195`); the sources an assessment may cite come from the
  proposal itself (`loop.go:93-103`); a proposal's own round number is not
  compared with the round.
- *gateway* – the limitation `openai.go:307` adds may be one too many; goroutines
  of pruned jobs stay in the queue of the semaphore.
- *target resolver* – that the BitLocker inventory was unavailable is looked for
  in the limitations of the firmware target (`resolver.go:594`), where the
  importer does not put it, and would be no blocker: a topology may be eligible
  with volumes nobody saw. No importer sets `partition_style` on a disk or
  `drive_letter` on an installation, so `legacy_with_gpt_layout` and
  `relation_runtime_only` never occur on imported cases. No rule emits
  `boot_store_for_windows`, so a consistent topology always also carries
  `bcd_store_missing` or `bcd_windows_entry_missing` (this much is proved, for any
  report: `ConsistentIsDoubted`).
- *shell* – a clock set back by more than two seconds makes fresh artifacts look
  stale; an export started during a run copies what is on disk at that moment.

## 6. What is not modelled

Windows: its lock excludes the same way, but directory sync is best effort
there, so the durability results are about the Unix build. Path validation, JSON
formats and schema checks, the evidence view, text and layout, operating system
queries, PowerShell image building: pure functions or I/O with no state of
their own. `InspectRecovery` and `Verify` change nothing. The read registry
dispatches by name and version; what a read observes is any evidence. The
shell's mock mode replays fixed files, its export copies files: neither meets
the worker. Authentication of the gateway is a table lookup; the schema the
model is asked to follow is abstracted to `wellFormed`. Sizes of single lists
and texts are abstracted except where an answer may exceed a limit because the
program itself adds to it. A loop without a collector ends failed and is not
modelled. Boot topologies from sources other than an imported report do not
exist yet: the evidence of read operations has a facts schema the resolver
skips (`resolver.go:275`).

## 7. Plan

What remains worth doing:

1. `InspectRecovery` as an operator on directories, checked on every state that
   a crash of `CaseStore` can leave.
2. Durability beyond `Dependable`: a call whose sync failed or whose process died
   loses nothing as long as no later call reuses what it left.

## 8. Running

    tlc -workers 2 -config MCCaseStore_faults.cfg MCCaseStore.tla
    tlc -workers 2 -config MCGateway.cfg MCGateway.tla
    tlapm CoordinatorProofs.tla

and the same for the other configurations and proof modules. Every run takes
about a minute or less on two cores, as does each proof module. "Mutant"
operators beside a definition are plausible mistakes in it; each property is
known to fail when one of them takes the definition's place.
