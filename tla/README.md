# AO Forge in TLA+

TLA+ models of AO Forge, the TLC instances that check them, and the theorems
TLAPS proves about them. Line numbers are those of the sources the models were
written from; `PROJECT.json` maps every definition to its lines.

## The system

AO Forge (`forge`, Go) takes an operator's brief to a plan of *workcells*, has
a Covenant policy gate decide on the plan, runs the workcells through AO2 (or
another executor), and leaves a *factory packet* that says what happened. Beside
it live a governed *issue-repair* execution shared by several workers, a
*GoalRun* file that keeps the phase of a longer goal, and audits of releases.

| Component | State it keeps | Operations | Correct when |
| --- | --- | --- | --- |
| Issue-repair execution (`internal/issuerepair`) | one checkpoint file, its lock file, the memory of each `Execution` | `Open`, `Resume`, `RecordPage`, `RecordClone`, `RecordReproduction`, `RecordPatch`, `RecordPush`, `RecordPR` | one worker at a time writes; nothing acknowledged is lost; steps come in order, once, within the budgets; the checkpoint always validates |
| Workcell scheduler (`scheduler.go`) | status of each workcell, first error, context, prompt lock | scan, launch, report, ask, skip, abort, retry | dependencies first; every failure is the run's failure; nothing is left behind; it ends |
| Workcell execution (`executeSingleWorkcell`) | attempts, repairs attempted, peers, output | run, grade peers, promote, check the rubric, repair | peers have settled before they are graded; the best one is promoted; what passes has earned it; no attempt without a call or a repair it is for |
| Run lifecycle (`executePlanRun`, `runRun`, `runResume`, run archive) | `.forge/runs/<plan>`, evidence and packet files beside `--out` | run, resume | nothing runs or is released without its clearances; packets tell the truth; a resume starts from what really passed |
| Release mutation (`performReleaseMutation`) | tag here and at origin, drafts at GitHub | check audit, tag, push, draft | the audited commit is released; tags stay; no draft without its tag |
| Plan compiler (`forge plan`, `forge plan --dynamic`) | the plan file, the planner swarm's output in the workspace | compile a brief, have a swarm decompose it, `validatePlan` | `validatePlan` decides right and ends; plans that are kept can be scheduled; a plan holds its own swarm's workcells |
| Covenant gate (`forge gate`) | the gate result | decide by fixture, by the built-in rules | a run is cleared by a decision on its own plan |
| GoalRun commands (`goal_*.go`) | the GoalRun file and retained evidence | update, evidence attach, verify, cleanup, readiness | phases follow the table, terminal phases stay, evidence is what was attached |
| Control plane | remote store | upload, read back | observer only; required receipts are there |
| Audits, live-docs guard, contracts, checksums | none | validate | pure functions of documents |
| Dashboard, registry, flags, foundation, scripts | none that decides anything | display, dispatch | - |

How they interact. `forge plan` leaves a plan file, `forge gate` reads it and
leaves a gate result, `forge run` reads both, and `forge once` does all three in
one process; nothing but these files ties the three together. `executePlanRun`
calls the scheduler once, synchronously, and reads the states it returns; the
scheduler's loop and its goroutines share `statusMap`, `firstErr` and a context
under `mu`, and standard input under `promptMu`. A resume reads the archive an
earlier command wrote. The release is the last thing a command does before it
writes `--out`; it works on the git repository the workcells have just edited.
Workers of an issue repair meet only in the checkpoint file and its non-blocking
lock.

A workcell's goroutine calls `executeSingleWorkcell`, which starts a goroutine
per peer and waits for them all, while a dashboard reads peers without a lock.

What is hard about it: scans, reports and cancellations that interleave; state
read before a lock or a workcell and used after it; leases that expire inside a
call; writes that fail half way, and fail after they took effect; kills between
the files of an archive; retries of what was done already; budgets at their
limit; files that one command left for another, of another plan or half
written. `PROJECT.json` lists each hazard at its line with the properties that
would catch it.

## Modules

| Module | Models | Kind |
| --- | --- | --- |
| `PlanGraph` | `validatePlan`: map of dependencies, check that they exist, depth-first search for a cycle | detailed |
| `PlanPipeline` | `forge plan`, `plan --dynamic`, `gate`, `once` and the start of `run`, over the files they share; extends `PlanGraph` | detailed, composed |
| `PlanGraphProofs` | the theorems of both | proofs |
| `RepairRun` | what an issue-repair run promises its workers: one log, one holder, nothing safe is lost | abstract |
| `IssueRepair` | `internal/issuerepair`: lock, lease, budget, ledger, rename and directory sync, crash and power loss | detailed |
| `IssueRepairProofs` | its theorems on locks, leases and lost writes | proofs |
| `IssueRepairLedgerProofs` | its theorems on the ledger, and the refinement | proofs |
| `PlanRun` | what running a plan promises: order, verdict, reasons for skipping | abstract |
| `Scheduler` | `runWorkcellsConcurrent`; an execution is a few steps | detailed |
| `SchedulerProofs` | its theorems | proofs |
| `Workcell` | one `executeSingleWorkcell`: AO2, swarms, peers, rubric, repair swarm | detailed |
| `WorkcellProofs` | its theorems | proofs |
| `RunLifecycle` | `executePlanRun`, `forge run`, `forge resume`, the archive, the control plane's upload and readback; its workcells take the steps of `PlanRun` | detailed, composed |
| `RunLifecycleProofs` | its theorems | proofs |
| `ReleaseMutation` | the audit check and the steps of the release | detailed |
| `ReleaseMutationProofs` | its theorems | proofs |
| `GoalRun` | `forge goal update` and `forge goal readiness`, file access by file access | detailed |
| `GoalRunProofs` | its theorems | proofs |
| `MC...` | the constants of the instances TLC checks | instances |

How they rest on each other, from a brief to a release: `PlanPipeline` shows
that a plan which is kept or started can be scheduled (`PlansGrounded`) and that
a decision on this plan clears it; that is what `RunLifecycle` takes for its
gate results. `RunLifecycle` uses `PlanRun` for the steps of its workcells;
`Scheduler` implements `PlanRun` (`ImplementsPlanRun`, proved); and what
`Scheduler` takes for the execution of a workcell is implemented by `Workcell`
(`ImplementsExecute`, proved). What `Scheduler` assumes is proved where it comes
from: of the plan in `PlanPipeline` (`PipelineSchedulable`: finite, no unknown
dependency, no cycle), of a resumed start in `RunLifecycle`
(`LifecycleHandsOver`: passed workcells are closed under dependencies).
`IssueRepair` implements `RepairRun` (`ImplementsRun`, proved).

`Scheduler` takes a plan's workcells by their IDs, as the Go code's maps do.
`validatePlan` does not make IDs unique, and `PlanGraph` does not assume it: the
map keeps the last workcell of an ID, and `Grounded` says that the plan of those
can be scheduled. `PlanAssumption` of `Scheduler` is this property of the map.

### PlanGraph and PlanPipeline

`at` is where `validatePlan` stands: `map`, `check`, `search`, then a verdict.
One action is one turn of one of its loops: `MapCell`, `CheckCell`, and for the
search `NextRoot`, `Descend`, `Leave`, `CycleFound` and `Accept`. `stack` is the
stack of calls of `dfs` with the dependency each comes to next; its nodes are
`recStack`. The checks of the other fields, before the graph (in `Begin`) and
after it (in `Accept`), are not looked into: each may refuse any plan as
`malformed`, and a command goes on from that as from any refusal.

`cmd` and `phase` are the command that runs and its place; `plan` and `gate` its
memory, which is gone when it returns or is killed. `planFile` and `gateFile`
are the files the commands share, `output` is the file the planner swarm leaves
in the workspace. Writes of these files may fail, or tear. A gate result is a
status, the plan it names, the decision and whether its decision ID is the one a
release confirmation looks for. `made` (what the swarm of this command wrote)
and `left` (a planning command was stopped with its output in place) are
history, for `OwnWorkcells`. An output that a stopped or failed planning left
behind is taken by the next one whose swarm writes nothing: this is what the
code does, no document speaks of it, and `OwnWorkcells` says that nothing else
leads to foreign workcells. A brief stands for its canonical text and thus for
the plan's ID, a hash of it.

### Workcell

`cell` is chosen at the start and stays. `phase` is where the call stands:
`Enter` refuses peers of an executor that has none, `Reset` begins an attempt,
`CannotLaunch`, `LaunchOne`, `OneEnds` are a single command, `MakePeers`,
`FillPeers`, `PeerStep(i)`, `BeginGrading`, `Grade`, `Promote` a swarm of peers,
`CheckRubric`, `Assess`, `Repair` what follows, `Again` the operator's retry and
`Cancel` the failure of another workcell. What a command prints is abstracted to
what rubric and acceptance ask of it. `RenderNil` is the dashboard's goroutine,
which shares no lock with the one that fills the slice of peers.

### IssueRepair

`file` is the checkpoint that processes read, `stable` the one a power loss
would leave: `Rename` changes the first, `SyncDirectory` (or `Writeback`, at any
time) makes them agree, `PowerLoss` goes back to the second. `exec[p]` is the
state an `Execution` holds in memory, `cand[p]` the candidate of the call in
progress, `lock` the file lock. A call is cut at each point where another
process, the clock or a crash can come between: `ResumeRead` (unlocked read),
`ResumeLocked` (locked read and check of the lease), `Mutate` (locked read and
first clock check), `Recheck` (second clock check), `Rename`, `SyncDirectory`;
`WriteFails`, `SyncFails` and `Oversize` are its error paths. A lease token is
the number of its drawing. Digests, paths and the text of commands are constant
over a run and left out; the budgets, the ledger's order, the stage and every
check of `validateState` on them are in. The mutex of an `Execution` makes its
calls sequential, which is why a process has one call in progress.

`RecordPage` takes any number for a page. One below the next page is answered
`ErrDuplicateEvent`, 0 and negative ones too, although no such page was ever
recorded: `CallerPages` has them, and `RepliesTruthful` speaks of the pages that
are steps of a repair (`IsStep`), those from 1 on. `LiveLeaseKept` has the two
sides of an expiry: a rival takes over at it or later, and the holder's last
look at the clock, before the rename, lets nothing through from then on. A rename
that comes late all the same is under the file lock, which `OnlyHolderWrites`
and `NoLostUpdate` rest on.

### Scheduler

`status`, `firstErr`, `cancelled` are the shared variables; `main` is where the
loop stands and `pc[t]` where the goroutine of workcell t stands. `Scan` is one
pass over the map under `mu`; because Go ranges over maps in any order, a
workcell skipped early in a pass may doom a later one in the same pass or not.
`Idle` looks at the context after `mu` was given back. `Launch`, `Ends`,
`Assess`, `Repair` (together `Execute`) are `executeSingleWorkcell` as the
scheduler sees it, which `Workcell` implements; `Ask`, `Answer`, `Retry`,
`Skip`, `Abort` are the prompt; `interactive` says whether there is an operator,
and is chosen at the start. Executors succeed or fail as they like.

### RunLifecycle

`pc` walks through `executePlanRun`: `admit` (confirmation, audit, gate,
override, AO2 binary), `run`, `collect` (summary and evidence), `readback` and
`fetch` (the control plane), then the four files of the archive (`plan`, `gate`, `evidence`, `packet`), `release`,
`write`. Every early return hands a packet to the archive (`Deliver`), as
`failClosedWithPacket` does. A write of a file may fail and leave the file as it
was or torn; the archive looks at no such error. `Kill` ends a command anywhere;
a kill in the middle of a write is a write that tears and then the kill. What a
command held in memory is gone when it ends. `passedIn` is a history variable:
the modes in which AO2 really passed a workcell. Commands come one after
another.

`Upload` is the POST of the operator packet, `Fetch` the GET of the packet its
receipt names and the comparison of the two. `stored` is what the control plane
holds, and outlives every command: a POST may be lost or refused, or stored with
its answer lost, and the receipt may name any packet that is held, one of an
earlier command included. A packet stands for the digests of its evidence; the
second in which it was made, which also tells two packets apart in the code, is
left out, so the model accepts more than the code does.

### ReleaseMutation

Commits are numbered in the order they are made and HEAD only moves forward.
`Validate` reads the audit and HEAD, `RunPlan` is the whole run in between,
`ReadHead`, `CheckTag`, `CreateTag` (which names HEAD as it is then), `Push`,
`GhCreate`, `ApiCreate` are the steps of the release. A push, gh and the API may
each fail after they took effect. Each command is one attempt, so two commands
are a race or a failure and its retry. `moved` is a history variable.

### GoalRun

The commands keep no state but files: a GoalRun at each path of `Files`, an
artifact at each path of `Evidence`, both standing for their hashes. A command
is cut at each of its file accesses: `HashGoal`, `ValidateGoal` and `ReadGoal`
read the GoalRun (the audit three times, the update twice), `VerifyEvidence` and
`AttachEvidence` read one artifact each, `OpenOut` and `WriteOut` are the two
halves of `os.WriteFile`, which leaves an empty or torn document when a command
is killed or another writes there. What is decided in memory (`ApplyUpdate`,
`Audit`) is a step of its own only for being read easily. `Edit` is anybody
changing or deleting an artifact. `came` is history: the phases a document and
those it was made from have had; `touched` and `loose` are history, too: who
wrote what since a command started, for properties that must say when a snapshot
can still be relied on.

## Runs

| Run | Instance | Shows |
| --- | --- | --- |
| `repair_chain` | two workers, one page, three writes, a checkpoint of six events, both authorised | the checkpoint stays valid, nothing acknowledged or recorded is lost, the steps come in order, a spent run spends nothing more, replies are truthful, and the run is a `RepairRun` |
| `repair_lease` | a worker restarted under its name beside its old process and a rival, callers' clocks one ahead | one holder, fencing by token, a live lease is kept, and both sides of its expiry agree |
| `scheduler_run` | four workcells (chain, sibling, join), one that its executor cannot run, a repair each, two retries each, with and without an operator, every resumed start | verdict, skipping, cancellation, refinement and termination |
| `plan_pipeline` | four commands on plans with a chain, a diamond, a single workcell, a duplicate ID that hides a cycle, and two bad ones | `validatePlan` decides right, plans kept or started can be scheduled, a run is cleared by a decision on its own plan, workcells are the own swarm's, commands end |
| `pipeline_fails_closed` | the same | **violation**: a decision that is invalid for the plan lets a confirmed release run |
| `workcell` | seven kinds of workcell, two of them with two peers and one with three, six outputs, two calls | peers settle before grading, the best is promoted, what passes has earned it, attempts are paid for, the call implements the scheduler's execution, and it ends |
| `lifecycle_release` | a release plan of two workcells, two commands, two failed writes, all gate results, a control plane that loses requests and answers | clearances, truthful packets and receipts, progress |
| `lifecycle_evidence` | a plain plan of two workcells, `--out` here or elsewhere | **violation**: a resumed run passes without the evidence of what it takes over |
| `release_mutation` | two commands, three commits, previews at any time | tags stay, drafts follow tags, a reported release is whole |
| `release_audited` | the same | **violation**: the commit released is not the one audited |
| `goal_run` | two commands on two paths and two artifacts, one that lint rejects, an edit | lawful phases, fresh evidence, audits that hold |
| `goal_provenance` | the same | **violation**: an audit's hash is of another document than the one it judged |

Type invariants are checked by TLC where the run lists `TypeOK` (`workcell`);
those of the other modules are proved for every value of
the constants, and no run repeats them.

### Bounds, and why they are enough

- Processes and workers: two workers are the smallest race for a lease; the
  third process is the old incarnation of a worker restarted under its name, the
  one case two processes cannot show. Processes are interchangeable where they
  are declared so.
- `MaxClock = 1`, `TTL = 1`: a lease drawn at 0 expires at 1, so both sides of
  the boundary and the instant itself occur. `MaxTokens = 2`: a lease and the one
  that replaces it. The proofs below have no such bounds.
- `MaxPages = 1`, `MaxWrites = 3`, `MaxEvents = 6`: the page budget is met and
  overrun before the repair chain, the write budget is met by its last step, and
  a run that took a page outgrows the checkpoint at its last event. Callers ask
  for the pages -1 to `MaxPages + 2`: no page, one that is done, the next one,
  one that is not its turn yet.
- Plans of four workcells have a chain, siblings and a join at once. `MaxRetries`
  of two lets a repair be shared by retries; it bounds the operator only.
- `PlanPipeline`, `MaxCommands = 4`: a plan, another plan or a gate, a gate, a
  run, so that the run can meet a gate result of another plan, or one that was
  made for the plan before it was overwritten. Each kind of refusal and answer
  of the gate has a brief or a fixture; two swarm outputs let one be mistaken
  for the other. Four workcells are the smallest diamond.
- `Workcell`, `MaxCalls = 2`: a call and its repetition. Two peers make a race,
  three a winner that is neither first nor last. The six outputs are told apart
  by coverage (none, 1, 2), exit status, acceptance, a required pattern that is
  missing and a forbidden one that is there.
- `RunLifecycle`, `MaxCommands = 2`: the command that leaves an archive and the
  one that finds it. Three commands were checked on smaller options with the same
  outcome. `MaxFaults = 2`: enough for two files of one archive to disagree.
- `GoalRun`: two commands are a race, or a candidate and the command that reads
  it. The MC module asks for the phases `verification` and `complete` only,
  attaches one artifact at a time, and starts from a document in
  `implementation` or `verification`: enough for each row of the table to be
  obeyed or broken. Two edits were checked as well (3,986,436 states of a
  smaller set of commands) with the same outcome.
- `MaxCommits = 3`: HEAD can move before and after the tag is made.

Deadlock is not checked in any run: all these systems stop, the run and the call
when they are over, the others at their bounds.

### Fairness

Three properties need it.

`Terminates`: `FairSpec` of `Scheduler` is weak fairness of the loop and of each
goroutine: the Go scheduler runs both, the loop polls with a sleep, `mu` is held
only for bounded work. It also says that an executor that was started ends, that
an operator who is asked answers, and, by `MaxRetries`, that he does not answer
retry for ever; the code bounds none of the three. A waiter for `promptMu` needs
no strong fairness there, because each prompt ends and no goroutine takes the
lock twice without a retry.

`CallEnds`: weak fairness of the workcell's own goroutine and of its peers
together (an attempt has finitely many steps for peers to take), and, again,
that commands end. Neither `Cancel` nor `Again` is fair: a call ends without
them. The code kills a command only when the context is cancelled.

`CommandsEnd`: weak fairness of the steps of the one command that runs, the
planner swarm among them. What it shows is that `validatePlan` ends on every
graph, cycles and duplicates included.

## Where code and documents disagree

Each is a run that TLC finds violated by the model of the code:

1. `FailsClosed`: AO Forge "must fail closed when the Covenant decision is
   missing, malformed, or denying"; a fixture made for another plan is marked
   invalid but keeps its decision ID, and a confirmed release is let through by
   this ID alone. The code asks neither whether the plan is about a release nor
   where its decision came from; TLC's shortest trace has a local plan.
2. `PassedHasEvidence`: AO Forge "must fail closed when AO2 evidence is
   missing"; a resume takes over a workcell whose archived evidence is missing
   or torn, and passes. The run shows it without any fault: a failed run with
   `--out` in another directory archives no evidence.
3. `ReleasedIsAudited`: the audit is "bound to the HEAD commit before release
   mutation can proceed", but HEAD is read again after the workcells ran.
4. `ProvenanceMatches`: readiness audits "must include provenance hashes for the
   GoalRun and evidence bytes they summarize", but the GoalRun is hashed in one
   reading and judged in another.

## Proofs

`tlapm` checks every proof; no assumption is made but the named `ASSUME`s on the
constants (`PlanAssumption`: a finite, acyclic plan, which `PipelineSchedulable`
proves of every plan that is started; policies and bounds are numbers of the
right kind; what an executor does is one of `Outputs`, of which there are some).

**PlanGraphProofs**, for any list of workcells of any length. `GraphInv` has a
part for each stage: `MapInv` (the map holds the last workcell so far of each
ID), `CheckInv` (the dependencies of those checked exist), and for the search
`VisitedInv` (what is visited depends on nothing else and is no cycle),
`StackInv` (a call has visited the dependencies before the one it is at, but for
the one the call above it is for; so a dependency on the stack is a cycle) and
`SearchInv`. `GraphCorrect` is `VerdictCorrect` for `PlanGraph` alone, against
the definition of a grounded plan by sets of workcells, without any recursion or
path. For the commands `PhaseInv` says what each phase has in memory, `ClearInv`
where a gate result came from, `OutputInv` whose output is in the workspace;
they give `ClearedByDecision`, `PlansGrounded` and `OwnWorkcells`.
`PipelineSchedulable` joins this module to `Scheduler`: for the plan of each run
that is started, `WaitsFor` (its map of dependencies, the last workcell of an ID
counting) has all that `PlanAssumption` asks for. What is given there is proved
here, so what is proved of `Scheduler` holds for the plans that reach it.

**SchedulerProofs**, for every plan and every option. The safety properties are
not inductive. The invariant `IndInv` adds `RunningIsLive` (a workcell has the
status running exactly while its goroutine is on its way) and
`LoopLeavesNothing` (once the loop has stopped scanning nothing is pending). From
it follow `OrderKept`, `VerdictRight`, `SkipsRight`, `ReturnsRight`,
`RepairsBounded`, the action properties `SettledForGood` and
`LatePassesRetried`, and `Implements`: initial states of `Scheduler` are initial
states of `PlanRun` and every step is a `PlanNext` step or a stutter. None of
them uses that the plan is acyclic: only the end of a run rests on that, for a
loop over workcells that wait for each other would poll for ever.

**WorkcellProofs**, for any number of peers, calls and repairs. `PeerInv` says
which peers are at which places in which phase, `GradeInv` that the winner is
the best of those graded so far (`BestOfGraded`), `OutputInv` what is known of
the output in each phase, `AttemptInv` counts attempts against calls and
repairs. `WorkcellImplementsExecute` shows for each action where it takes the
call in the scheduler's eyes (`Stand`) and that the scheduler allows it.

**IssueRepairProofs**, for any number of processes, workers, pages, clocks and
tokens. `IndInv` has four parts: types; `LockInv` (who is in the locked part of
a call, and that a renamed candidate is the file); `LeaseInv` (tokens in use
were drawn, no two candidates and executions share one, a candidate carries the
lease it was admitted under); `LedgerInv` (memory is behind the stable
checkpoint, which is behind the file, which is behind the candidate). They give
`LockSafe`, `HolderUnique`, `AcknowledgedSurvives`, `WritesCarryOn` and the
action properties `LedgerGrows`, `Fenced` and `LeaseRespected`.

**IssueRepairLedgerProofs** has the theorems that rest on what a ledger looks
like. `Reached(s, n, m)` is its closed form: a creation, n pages, the first m
phases, and the counters, flags and stage that go with them. From it every check
of `validateState` follows without induction over the ledger (`ShapeValid`,
`ShapeOrder`), since the events of a kind are an interval of positions
(`KindsAt`, `CountAt`). `Follows(t, s)` is what one write may do to a checkpoint:
a renewed lease, a spent budget, or the next page or phase. `ShapeInv`, inductive
together with `IndInv`, says that each checkpoint in the file, on the disk and
in the lock has the form, and that the candidate of a write follows the
checkpoint it will replace. It gives `AlwaysValid`, `OrderKept`, the action
properties `AnswersTrue` and `SpentForGood`, and `ImplementsRepairRun`: a rename
is a `Create`, `Step`, `Spend` or `TakeOver` of `RepairRun`, a directory sync a
`Settle`, a power loss `PowerFails`. `NoRunAssumption` (no checkpoint is no run)
is what it asks of the constants beyond the rest.

**RunLifecycleProofs**, for any plan and any number of commands and faults.
`IndInv` adds to the types `IdleInv` (what is left of a command that ended),
`ClearInv` (which clearances a place has behind it), `JudgedInv` (a packet that
says passed was judged from the workcells' statuses), `WholeInv` (what such a
packet contains, in memory, in the archive and at `--out`), `RanInv` (what
passed was run, after all it depends on) and `KeptInv` (a resume has all that
the archived packet calls passed). They give `OnlyClearedRuns`, `PassedWasRun`,
`PassedPacketsComplete`, `ReleaseEarned` (an invariant of the place before the
release, so that it speaks of each release and of those that fail half way) and
the action property `ResumeKeepsProgress`. `ReceiptInv`, inductive with `IndInv`, is
`ReceiptsReadBack`: `StoreGrows` says that the control plane forgets nothing and
`PacketsFrom` that a packet with a receipt is an old one, or comes from `Fetch`.
`LifecycleHandsOver` is the other side of `Implements`: with `FreshInv` (a command
comes to its workcells with none under way) the workcells start in a state of
`PlanInit`, closed under dependencies whatever was archived, and until they are
settled nothing else touches their statuses.

**ReleaseMutationProofs**, for any number of commands and commits. `IndInv` adds
to the types `OneTag` (origin has no other tag than the workspace),
`PlaceReached` (what a command has behind it at each place: the tag, the push,
how many drafts) and `AuditKept` (the audited commit against the HEAD it read
and the tag, from the audit to the release). `TagStep` shows first that no step
moves a tag, so the commands that do not step keep theirs (`OthersKept`). From it
follow `DraftsPushed`, `ReleaseWhole` and the action property `TagsForGood`.

**GoalRunProofs**, for any number of processes, documents, artifacts and
commands. `IndInv` says of documents in memory what the properties say of those
in files: `LineageInv` (each has been in its phase, has left no terminal one, and
is complete only after verification), `FreshFiles` and `FreshMemory` (evidence
that is no longer to be verified or attached, and that nobody has edited since,
is what the artifact contains); `PlaceReached` adds what a process has checked at
each place, and `AuditCurrent` that an audit holds the document that is there
while nobody writes it. A process's step leaves the others' memory alone and
tells them of its writes (`OthersKept`), and changes a document only to an
unreadable one or to what it was writing (`FilesChange`); the rest is one step
per action. They give `LineageLawful`, `FreshEvidence` and `ReadinessHolds`. The
rows of the phase table enter as `TableTerminal` and `TableComplete`.

### Why runs, calls and commands end

Liveness under fairness is out of the prover's reach, but what makes a system
end is mostly safety: it is never stuck, and no step leads away from the end.
`RunApproachesEnd`, `WorkcellApproachesEnd` and `CommandsApproachEnd` prove these
two facts and that the measure of the second cannot fall for ever.

- *Never stuck.* Until the end some step that the fairness is about has its
  guard: `NeverStuck` for the scheduler (the loop has work, or a goroutine is not
  waiting for `promptMu`), `GoesOn` for calls and commands. `NeverStuck` needs
  `PromptInv` (who asks holds `promptMu`, and nobody else does) and, when nothing
  runs, that the plan is acyclic: of the pending workcells one waits for none of
  the others (`PendingGoesOn`), so the next scan starts or skips it.
- *Every step descends.* In `Scheduler` each workcell has a number, by the
  attempts that its repairs and retries leave it and the place of its goroutine,
  and the loop has one; no step raises any of them, and a step that lowers none
  is a look at the statuses of which nothing has come (`Polls`). A call and a
  command have a tuple that falls lexicographically. For a call: repairs left,
  place in the attempt, turns of its peers or of the grading, whether the context
  still stands. For a command: place in the command and in `validatePlan`,
  workcells not yet come to, workcells not yet visited, dependencies left of the
  workcell at the top of the stack.
- *The measure is well-founded.* For the tuples by `WFLexProductOrdering`. For the
  scheduler's functions from workcells to numbers by `LeastExists`: if some sets
  of workcells had no function that is least on them, one of the smallest of
  these sets would have one after all. Least elements (`LeastOf`, `MinWF`) stand
  in for induction here, which the provers cannot instantiate.

`MaxRetries` is the operator's patience in this argument, too: the theorem holds
for every value of it, and the code has none.

Model-checked only: `Terminates`, `CallEnds` and `CommandsEnd` themselves, that
is, that the guards of the steps are what makes them enabled (`ENABLED`) and that
fair steps which stay possible happen.

## Not modelled

The text of packets, summaries, notes, prompts and reports, and the parsing of
briefs and of command output; run specs and argument lists of executors; flag
parsing; HTTP; the Windows variants of lock and rename beyond what they share
with Unix; two commands on one run directory or one plan file at the same time;
the `forge goal` commands that only read and print (validate, inspect,
transitions, context, verification, evidence lint, verify, retention and
cleanup, which lists what is expired and deletes nothing), and the texts of a
GoalRun other than phase, iteration and evidence; the components listed as
`not_modelled` in `PROJECT.json`.

## Plan

1. `RunLifecycle`: two commands at a time on one directory; `ReleaseMutation` as
   the refinement of its `Release` step.
2. The live-docs guard and checksum manifests as operators checked against
   reference definitions over bounded inputs.
3. `GoalRun`: context and verification documents, retention classes and cleanup
   dates as operators.
