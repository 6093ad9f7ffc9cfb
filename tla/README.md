# Verification of the Alchemy development agent

TLA+ models of the runtime that executes a task graph with coding workers, of the
server that starts, pauses, resumes and stops such runs, of the worker processes
themselves, of the executor that drives a whole roadmap of phases, and of the graphs
it plans when its final verification does not get through; TLC configurations that
check them on small instances; and TLAPS proofs of the central safety properties for
every instance. Paths below are relative to `src/`.

## 1. The system

A project (objective, documents, a repository) goes through intake and context
extraction, a planner turns the result into a task graph, and the runtime loop
executes the graph: it dispatches one ready task at a time to a coding worker (an
external process), inserts debug nodes for failures, runs a review and a release,
and stops when the final gate accepts the state or when nothing more can be done.
State is saved to `state.json`; a recovery turns what an earlier run left behind
into the start of a new one. The server runs the pipeline in background threads
and stores a job file per run. A full roadmap is a sequence of such runs, one phase
after the other, with a final verification of the whole.

| Component | State it keeps | Operations | What makes it correct | Here |
|---|---|---|---|---|
| Task graph engine, run state (`runtime/task_graph_engine.py`, `models.py`, `state_manager.py`) | nodes with status, retry count, evidence; failed list; blockers; delivery evidence; `done`; `state.json` | ready list, status changes, debug node creation, save/load | a task starts only on finished dependencies; retries bounded | `TaskGraph` |
| Runtime loop (`runtime/orchestrator.py`) | position in a pass, the ready list computed at its start | passes, task execution, failure handling, debug repair, promotion, release, repair convergence, stop/pause | dependencies, bounded repair, one active node, termination | `DebugRepair`, `Orchestrator` |
| Final gate (`runtime/evaluator.py`) | none | `evaluate` | done means everything finished, approved, delivered, no blocker | `FinalGate` |
| Recovery (`runtime/recovery.py`) | none; reads reports, `state.json`, worker files | `load_source`, `prepare`, clearing of blockers | finished work is kept, interrupted work is done again, what a retry can resolve is cleared | `Recovery` |
| Run jobs (`server/jobs.py`) | `job.json` per run, `events.jsonl` | create, transition, control, result, event stream, controller | one worker per run, requests are not lost, a run is handed over once | `RunJobs` (no events) |
| Project service (`server/project_service.py`) | `project.json` | create, files, intake, plan, run, start, pause, resume, stop, reopen, delete | a run starts only when none is active; status matches the last run | `RunJobs`, in part |
| Document run pipeline (`autodev/document_run.py`) | report files | first run, resumed run, gates after the loop | status agrees with the gate | resumed path, in `Orchestrator` |
| Worker processes (`runtime/worker_lifecycle.py`, `control.py`) | lifecycle file per task, process group | start, wait, extend, time out, cancel, terminate | a process recorded as ended is gone; every execution ends | `WorkerTask`; files, in `Recovery` |
| Worker adapter (`runtime/codex_worker.py`) | worktree snapshot | run, parse, audit boundaries, roll back | nothing outside the allowed files survives | `WorkerTask` |
| GitHub flow (`runtime/github_flow.py`, `autodev/github_pr_lifecycle.py`) | branch, commit, PR, CI | record delivery, poll CI, merge | no merge of an unhealthy delivery | `GitHubFlow` |
| Auto iteration (`autodev/auto_iteration.py`, `central_review.py`) | lineage of runs | preview, start | bounded number of iterations | `Verdicts`, `AutoIteration` |
| Full roadmap (`autodev/full_roadmap_executor.py`) | plan, phase records, attempts, reports | run phases, repair, resume, final verification, hand-over | phases are accepted in order and stay accepted; what is handed over was verified whole | `Roadmap`, `FinalRepair` |
| Goal-locked convergence (`autodev/goal_locked_run.py`, `runtime/convergence_controller.py`) | objective contract, proofs | bootstrap, record a proof, diagnose, finalize | the objective stays; an edit without evidence is not accepted | as it steers `Roadmap` |
| Planner (`planner/`) | none | build a graph | a repair graph forgets no split and takes no task for another | `RepairTree`, `RepairPlan`, `RepairTopics`, for the final verification |
| Worktrees (`runtime/worktree.py`) | git worktrees | create, clean up | only owned worktrees are removed | no |
| Convergence records (`runtime/accepted_checkpoint.py`, `delivery_ledger.py`, ...) | append-only records | write, validate | | no |
| Intake and context (`intake/`, `context/`) | none | extract briefs and indexes | pure text and I/O | no |
| Artifact, coverage, acceptance checks (`runtime/artifact_verifier.py`, ...) | none | inspect files | their verdict is an input of the gate | no |
| Command-line reports and evidence tools (`autodev/unified_*.py`, `real_*.py`, `evidence_*.py`, ...) | none | read finished runs | reports only | no |
| HTTP API and UI (`server/api.py`, `server/static/`) | none | route requests, one thread each | | its threads, in `RunJobs` |
| Demo pipeline (`autodev/pipeline.py`, `game_generator.py`) | none | straight-line generator | | no |

Interaction: the UI calls the API; the service starts a worker thread; the thread
runs the pipeline, which prepares a state (fresh or recovered) and calls the
runtime loop; the loop asks a controller before each task, the controller reads
`job.json`; the worker adapter runs a process and writes a lifecycle file; the
result is written to `run.json`, `job.json`, `project.json`, each by itself. The
roadmap executor calls the pipeline once per attempt and reads the reports, states
and lifecycle files the attempts leave in its output directory.

What is hard: the ready list of a pass is computed once and goes stale; the loop
mutates one object and saves it at some points only; recovery combines three
sources that were written at different times; job files are replaced as a whole
by several threads without a lock; workers outlive the process that watches them,
and share one worktree with what earlier tasks left uncommitted; the executor's
plan, records and reports are separate files between which it can die; and the
planner does not store what it split but guesses it again from titles and task
numbers. `PROJECT.json` lists every hazard at its line with the properties that
watch it.

## 2. The modules

| Module | Content |
|---|---|
| `TaskGraph` | constants of a graph, `RunState`, queries, status changes |
| `DebugRepair` (extends it) | failed tasks, debug nodes, promotion, pruning, repair convergence |
| `FinalGate` | hard failures of the evaluator, the deterministic review |
| `Recovery` | worker files, what `prepare` resets, completes, clears |
| `Orchestrator` (extends the three) | the loop as a state machine, crash, recovery run, restart |
| `RunProperties`, `MCOrchestrator` | properties of the loop and the inductive invariant; two small graphs and sets of outcomes for TLC |
| `OrchestratorProofs`, `RunProofs` | theorems about `Orchestrator` |
| `JobProofs`, `RoadmapProofs`, `GitHubFlowProofs`, `WorkerTaskProofs`, `AutoIterationProofs`, `FinalRepairProofs` | theorems about the model each is named after (`JobProofs`: `RunJobs`) |
| `RunJobs`, `JobProperties` | job files, project status, request threads, worker threads, server crash |
| `WorkerTask`, `WorkerTaskProperties`, `MCWorkerTask` | worker processes in one worktree, the adapter that watches, audits and rolls back |
| `PhaseDelivery` | abstract: phases are accepted in order, stay accepted, are delivered whole |
| `Roadmap`, `RoadmapProperties` | the full-roadmap executor over its files; implements `PhaseDelivery` |
| `RepairTree`, `RepairPlan` | the repair tasks of the final verification, into what each is split, and which of them a brief splits |
| `RepairTopics` (extends it) | the repairs that the topics and target files of a finding bring, the graph a brief leads to, what of the old one stays completed |
| `FinalRepair` (extends it), `FinalRepairProperties`, `MCFinalRepair` | the attempts of the final verification over these graphs; findings of the repository's tests |
| `GitHubFlow`, `GitHubFlowProperties`, `MCGitHubFlow` | one release after another on a branch: commit, push, pull request, checks, merge |
| `Verdicts` | from the gaps of a run to its status, delivery report, cycle report, central review and repair items |
| `AutoIteration` (extends it), `AutoIterationProperties`, `MCAutoIteration` | requests that start repair runs of finished runs, over repeated requests and crashes; the first and later evidence for TLC |

**State of `Orchestrator`.** `run` is the `RuntimeState` in memory, `disk` is
`state.json`, `files` are the lifecycle files in `workers/`; `pc`, `queue`, `cur`,
`result` are the position of the loop, the rest of its ready list, the task in
`execute_task` and the answer of its worker. One step is what the thread does
between two points where something else can happen: a save that a crash may
follow, a control check, a worker process.

| Code | Action |
|---|---|
| head of a pass (`run`, 182-217) | `ConvergeChains`, `PassDone`, `PassPromotes`, `PassBlocked`, `PassRetries` + `RetryFailure`, `PassIdle`, `PassSelects` |
| the list of a pass (219-253) | `ObeyControl`, `Dispatch`, then `AfterTask` in each of the actions that end a task |
| `execute_task` (266-327) | `Dispatch`, `LaunchWorker`, `WorkerExits`, `RecordResult` |
| review, inventory, release | `Review`, `Inspect`, `Release` |
| a task pruned during its pass (222-223) | none: a debug node comes before its root in the list and a pass ends at the first open one; TLC found no such list |
| end of a pass, budget (255-264) | `PassEnds`, `IterationLimit` |
| death of the process | `Crash`: memory is lost, `disk` and `files` stay |
| `_run_resumed` + `prepare` | `Resume`: selection, refusal (B-RECOVERY), preflight (B-PREFLIGHT), new run directory |
| `run_loop.py` without `--reset` | `Rerun` |

A node is a task or a debug node, the pair `<<T, k>>` for `T-DEBUG-k`. A blocker
is the pair of its node and its retry count, as in its id. What the evidence of a
node says is its latest class (`Evidence`): the code classifies worker answers by
their texts, the model takes the class as given. Finished, skipped and active
lists that repeat the status are left out; `failed_tasks` is kept, because
recovery reads it and it differs from the statuses.

**State of `RunJobs`.** `job[r]` is `job.json` of run `r`, `paused` the runs whose
stored history has a `run_paused` entry, `project` the status in `project.json`,
`thread[t]` what a thread holds in memory. Every file access is a step: a load, the
read in `_preserve_resumed_status`, the replacing write. A run itself is reduced
to its control checks: it works, pauses, is cancelled, raises, returns done or
blocked (a document run returns nothing else, because `document_run_status` finds
an evaluation in every state that `apply_requirement_coverage_gate` went through).

**State of `WorkerTask`.** `pc`, `snapshot`, `changed`, `result`, `watch`, `late`, `grace` are
the adapter's (`_execute_codex`) and its runner's (`ManagedSubprocessRunner`) memory,
`file` the lifecycle file, `procs` the worker of each execution and at most one
descendant: a helper in its process group, which shares its pipes, or a daemon that
left the group, with the pipe or without. `work` and `index` say of every path whether
it is absent, as in HEAD, written by execution *k*, left by somebody before the first
execution, or written by a process nobody watches any more. `watch` says whether the
execution has a time-out and whether it can be cancelled: the time-out is optional
(`codex_worker.py:210` and `worker_lifecycle.py:287` take 0 for none, and 0 is the default of
`max_worker_seconds` at `project_service.py:1465` and `full_roadmap_executor.py:682`), and with
neither the runner waits without polling (289). `base`, `blind` and `edits` are history.

Git may fail at each of the adapter's calls. `git status` fails or takes too long: the
answer is no file (`GitAnswers`). In the rollback, `git ls-files` fails: a file that the index
has is taken for untracked and removed. `git checkout` fails: nobody looks at its result, the
files stay as they are. Either one does not end in time or does not start: the exception
leaves the adapter with part of the files restored (`Restore`, `RestoreRaises`). `blind`
records whether git failed before the worker or after it. The kill of the group may fail,
and the adapter may die anywhere. The worker's commands are edits, deletions and `git add` of one path; `mv`
and `rm` are sequences of these.

| Code | Action |
|---|---|
| snapshot, `recorder.start`, the process | `Begin`, `Launch`, `LaunchFails` (launch and recording of the pid are one step) |
| the poll loop | `Deadline`, `Extend`, `WorkerEnded`, `TimeOut`, `Cancel` |
| the branches of `__call__` for a time-out and a cancellation | `Terminate`, `Kill`, `Drained` |
| `_rollback_task_changes`, `_audit_file_boundaries` | `Rollback`, `Audit`; `_rollback_files`: `Restore`, `RestoreRaises` |
| reading the answer | `Report` (order of the classes in `Classified`) |

**State of `Roadmap`.** Memory: the plan, the records kept, the phase and run at work,
the verdict, the tree, counters. Files: `stored` (`roadmap_execution_plan.json`),
`record` (`phase_record.json` of each phase), `proof`, `report`
(`full_roadmap_report.json`), `contract` (`objective_contract.json`) and, for each phase
and the final verification, the run directories of its attempts with what a restarted
executor reads in them. `work` says which phases' edits each worktree holds. `strays` are the
worktrees in which a worker is at work that no file shows as running. The lifecycle file says
`timed_out` or `cancelled` before the process is ended (`worker_lifecycle.py:256`, 265), and
has no pid until `attach_pid` (252); an executor that dies in between leaves a worker that
`interrupted_phase_resume_source` does not find, because it looks at records that are running
and at their pid (`full_roadmap_executor.py:3347-3351`). In `Crash` any attempt whose file
ends so may have such a worker. An attempt
is a document run (module `Orchestrator`), reduced here to its outcome.

| Code | Action |
|---|---|
| `run` up to the loop: resume state, `bootstrap`, gates | `Start` |
| the loop over the phases, revalidation | `SelectPhase`, `LeaveLoop` |
| `run_phase` and its attempts | `BeginAttempt`, `RefuseAttempt`, `TooManyAttempts`, `JudgeAttempt` |
| `record_phase`, its record, the plan and the report | `ProvePhase`, `WriteRecord`, `SavePlan` |
| `_run_final_verification_worker` | `BeginFinal`, `RefuseFinal`, `JudgeFinal` |
| `FinalSystemAudit`, `finalize` | `HandOver` |
| outside | `Crash`, `WorkerEnds`, `MarkStopped` |

**Repair graphs.** `RepairTree` is the tree of task splits
(`Parts[t]` are the tasks that replace `t` after a time-out), `RepairPlan` the some
forty predicates that decide, from the brief of a failed attempt, which of them are
split in the next graph. `RepairTopics` has the rest of the planner: which topics a brief
names (`Topics`) and the tasks of each (`Topical`), the narrow topics that let no other
task in (`Narrowings`), what the target files of a finding leave of a graph
(`ForTargets`). `Listed` is what `phase_focused_repair_lines` writes about the failed
attempt, its completed tasks without those that target files reopen; `Graph(b)` what the planner
builds from a brief, `Preserved(b, g)` which tasks of `g` start completed. A brief is
reduced to the number and title of the failed task, the titles of the completed ones with
their numbers and those of the brief before, the topics its text names, the tasks whose
files the finding asks to change, and whether it tells of a time-out, of gates to rerun and
of the deep tail. Titles are strings, because the code's decisions are about titles.

| Code | Action of `FinalRepair` |
|---|---|
| a task of the attempt is done | `Complete` |
| a worker runs out of time, a gate reports a finding; the next launch writes the brief (`final_verification_resume_repair_documents`) and plans from it | `TimeOut`, `Fail` |
| `phase_promotion_decision`, `final_verification_preserved_gate_tasks` | `Promote`, `Refuse` |

The model was compared with the Python code it models, the planner and the executor's
functions that write and read briefs, on about 2500 steps of random walks over time-outs,
failed gates with 14 findings of the tests, and refusals: the graphs and the tasks that
start completed were the same in all. Three findings whose text itself names tasks of the
page and route areas are not among the 14 (the model takes topics from titles, and there
the code finds them in the wording too).

**State of `GitHubFlow`.** The release task: its position `pc`, its policy (collect checks,
wait for them, merge), the revision it releases, what it read (`ci`), what it claims
(`merge`) and its `outcome`. Files are revisions: `work` is the worktree's, `head` the last
commit's, `workflow` the first one with a CI workflow. On GitHub: the tip of the branch
(`remote`), of the base, and `pull`, the pull request that `gh pr view <branch>` finds, open
or not, with the checks of its tip. `uploaded` and `green` are history.

| Code | Action |
|---|---|
| `_execute_release_task` up to `record_execution`, CI generation | `Begin` |
| `checkout -B`, `add`, `commit`, `push` | `Checkout`, `Commit`, `Push`, `PushAnswerLost`, `CommandFails` |
| `_ensure_pull_request` | `View`, `Create`, `CreateFails` |
| `wait_for_ci_status`, `collect_ci_status` | `Poll`, `Deadline`, `Waive`; `CiStatus` |
| `merge_pull_request` | `EnableAutoMerge`, `ViewMerge`, `DirectMerge` |
| the verdict on the release | `Finish`, `Unhealthy` |
| outside | `Edit`, `CheckReports`, `AutoMerges`, `OperatorCloses`, `Crash` |

**Verdicts and repair runs.** `Verdicts` has no state: the evidence of a run is its
mode, its artifact profile, whether a browser looked at it, and its gaps; the gate, the
delivery report, the cycle report and the central review are each computed from it by an
operator of their own (`RunStatus`, `ReadinessIssues`, `CycleMissing`, `Decision`,
`RepairItems`), because the code computes each of them from the report files by itself.
`AutoIteration` has, of every run, its phase and evidence, its `plan` and `report` files,
the project's status, and the place of each client's request.

| Code | Action |
|---|---|
| `preview_auto_iteration`, the guardrails | `Preview` |
| `_persist_auto_iteration_artifacts` | `RefusePlan`, `RefuseReport`; `WritePlan`, `WriteReport`, each twice |
| `reopen_with_feedback` | `AddFeedback`, `BuildPlan` |
| `start_run` / `run_project` | `StartRun`, `StartIsRefused` / `RunProject`, `Returned` |
| runs and the server | `StartOwnRun`, `RunEnds`, `RunRaises`, `Crash` |

## 3. What is checked

| Run | Instance | Properties |
|---|---|---|
| `loop` | graph *Fork*, 2 attempts, stop and pause, a crash, two recoveries of all tasks | `TypeOK`, `OneInFlight`, `StopIsExplained`, `AttemptsBounded`, `FinishedIsFinal`, `RecoveryClearsWhatItCan`, `DispatchIsCurrent` |
| `retries` | graph *Short*, 3 attempts, a stop, weak and handed-over results, fairness | `RepairsAreBounded`, `Ends` |
| `selected` | *Fork*, a crash, a restart, a recovery of all or of any one node, convergence on T001 | `DependenciesHold`, `RunInvariant`, `BlockersAreLive`, `DoneIsWhole`, `ReviewCoversWork` |
| `jobs` | one client, up to three runs, one control, one server crash, fairness | `TypeOK`, `WorkersDoNotOverlap`, `ResumedIsHandedOver`, `StopEnds` |
| `worker` | two files, one tracked and perhaps edited before, two executions with and without time-out and controller: the first may edit one file, the second the other | `TypeOK`, `WorktreeIsRestored`, `EndedIsGone`, `ExecutionEnds` |
| `roadmap` | three phases, locked or not, two invocations, a crash anywhere | `TypeOK`, `LegacyBuildsOnAccepted`, `DeliveredWhole`, `OneWorkerPerTree`, `ImplementsDelivery`, `InvocationEnds` |
| `repair_ladder` | all graphs of the final verification, any number of time-outs, a gate that reports one of five findings | `TypeOK`, `GatesRanLast`, `PreservedWasRun`, `SplitsStay`, `QuietRunDelivers` |
| `github` | two checks, three revisions, two releases, every policy | `TypeOK`, `CompletedIsTrue`, `MergesAreSound`, `ReleaseEnds` |
| `iteration` | a first run with any end that has up to two gaps of its own, up to three runs and two repairs, a crash | `TypeOK`, `OneRepairPerSource`, `VerdictsAgree` |

*Short* is the default graph of the engine without its first task; *Fork* has two
independent tasks and an inspection before review and release.

**Bounds of the loop.** Two attempts are the default of `TaskNode`; with two, a task can
fail, be repaired by a debug node, and run out. With three, a task has more than one
debug node. Two recoveries are enough for a recovery of a recovery, one crash for every
point at which a save is missing. The graphs have every kind of task, a stale ready list
needs two tasks that are ready at once (*Fork*), a debug node that overtakes them needs
priorities below and above 90. The iteration budget of 20 is never used up in `retries`
(`RepairsAreBounded`) and `loop`; `selected` takes 6, so that a run also ends by its budget,
in the middle of a repair, and is recovered or started again from there.

**Bounds of the jobs.** Three runs are a run, its recovery and a recovery of that; the one
control is a pause, a stop or a plan request.

**Bounds of the worker.** Two executions are what it takes for one task's edits to be the
other's baseline; the file allowed to one is the forbidden file of the other, and one of
them is new to git, so that restoring and removing both happen. Two edits, with one that may
be there from before, let a worker write over what an earlier task left, write and stage, or
two processes meet in one file; longer histories are left to the proofs, which have no
bound. One grace extension is one more than none. A time-out without a controller is not
among the `WatchKinds` of the run: it allows nothing that a time-out with one does not.

**Bounds of the roadmap.** Three phases are needed for a phase in the middle to be
forgotten; 1 and 3 edit the repository, 2 does not. Two invocations make one restart
after every crash point, one repair makes two attempts of a phase, three run directories
leave room for an attempt after the restart and let it run out (`TooManyAttempts`), two
final attempts let the first be repeated. The objective is the same for both invocations
in `roadmap`; `find_goal` gives two.

**Bounds of the releases.** Two releases make every pair of an earlier one (failed half-way,
merged, closed by the operator) and the retry or successor that meets what it left behind;
three revisions are one per release and one that CI generation adds; two checks let one
pass while the other is pending or fails.

**Bounds of the repair runs.** The first run ends in every way that has at most two gaps
which no other gap brings with it: the verdicts are disjunctions of single gaps and of
pairs. Three runs are a source, its repair and the repair of that (or a run of the client's
own in between); the maximum of iterations is 2, so that it is reached (the code's is 3).

**Bounds of the repair graphs.** Time-outs and refusals are not bounded: the graphs they
lead to are finitely many. One gate may fail, with any of five findings of
`tests/test_document_to_plan.py` (`MCFindings`) that differ in kind: a narrow topic, one of
the backend quarantine, one with target files that reopen completed tasks, one with many
target files, one that answers to several topics. More findings only multiply the
graphs (63,274 states). `Signals` has the topic that a line about the earlier brief may add. The assumptions: a
time-out or a failed gate ends an attempt, tasks are done in the order of the graph, no
repair task is reported blocked, and no operator stops the verification.

A bound of the model (`MaxCrashes`, `MaxResumes`, `MaxReruns`, `MaxRuns` of the jobs,
`MaxControls`, `MaxStarts`, `MaxEdits`, `MaxReleases`, `MaxRevision`, `MaxOwnRuns` and `MaxRuns` of the
repair runs, `MaxFailures`) only limits how often the environment acts; all
others are limits of the code.

`CHECK_DEADLOCK FALSE`: a run, an execution and an invocation end, and so does a project
nobody uses. `repair_ladder` checks deadlock.

**Fairness.** `WF_vars(LoopStep)`: the loop is one running thread, and a worker
process ends by itself or is killed at its time-out: `Ends` is about runs in which every
worker has one or ends (`ExecutionEnds` says what becomes of the others). Control requests, crashes and
restarts get none. In `RunJobs` every started thread runs on (`WF` for each
client's and each worker's own steps, that is, its file accesses and returns), and no
request has to arrive; after a crash no thread steps. In `WorkerTask` the adapter is a
running thread (`WF_vars(Adapter)`) and time passes (`WF_vars(Deadline)`, where a time-out is
set); a worker need not end, a descendant need not either, and the operator who may cancel
owes nothing. So an execution may wait for ever, and `ExecutionEnds` says for what:
a worker that hangs and has no time-out (the default of the two callers named above), descendants that keep the pipes of
a worker open that nobody polls for, or a daemon that keeps them open after a kill
(`WaitsUnlimited`). Every other execution ends. In `Roadmap` the executor is a running thread and a document run ends,
which is what `Ends` says of `Orchestrator`. In `FinalRepair` a verification that was
stopped is launched again and a worker that does not time out completes its task.
`QuietRunDelivers` is about behaviours in which time-outs cease; nothing bounds them.
In `GitHubFlow` a command returns, with or without an answer (`WF_vars(Command)`; the code
sets no time-out for `git` and `gh` and has nothing else to rely on), and the waiting time
passes (`WF_vars(Deadline)`); the checks, a pending auto-merge and the operator owe nothing.
Auto-merge goes through only when the checks of the tip passed: the model takes the checks
to be required by the repository, without which `--auto` merges at once.
No property of `AutoIteration` needs fairness.

**Some properties hold under a condition.** `OneActive` (in `OneInFlight`) and `DispatchIsCurrent` are
checked for recoveries of all tasks: a recovery of selected tasks leaves an interrupted
debug node active for good. `AttemptsBounded` gives `MaxAttempts` for a run that was not
recovered and one more for one that was. `IdleIsExplained` (in `StopIsExplained`)
and `RecoveryClearsWhatItCan` are checked without `Rerun`, which neither clears blockers
nor resets an active node; `BlockedHasBlocker` is proved with it. `WorkersDoNotOverlap` is checked for one client: two concurrent
start requests can take the same number. `WorktreeIsRestored`
excepts files whose staged content the worker changed (the restore compares with the
index) and what a process writes after the adapter read the worktree. What it says depends on
git. Where git did all it was asked, everything outside the boundary comes back
(`BoundaryHolds`, `StoppedLeavesNothing`). Where it failed after the worker, in the audit or
in the rollback, only the edits of earlier tasks do, because their snapshot needs no git
(`EarlierEditsSurvive`); a file that was as in HEAD may then stay changed or be gone
(section 5). Where it failed before, there is no snapshot to hold on to.
`OneWorkerPerTree` is about the workers that the files show: of two workers in one worktree,
one is a stray, which no selection of a worktree can see. Without that exception TLC
refutes it in seven steps (start, attempt, crash between `timed_out` and the kill, start, attempt).
`LegacyBuildsOnAccepted` is for runs that are not goal-locked (`find_resume` is the
other case).

**Refinement.** `ImplementsDelivery` is `PhaseDelivery!Spec` with the done records on disk
for `accepted` and a report of `done` for `delivered`: whatever crashes in between, phases
are accepted in order, no accepted phase is lost, and nothing is handed over before all
are.

## 4. What is proved

`OrchestratorProofs` proves, for every graph that satisfies `GraphAssumption`,
every retry limit and every bound (`LoopAssumption`):

- `TypeCorrect`: `Spec => []TypeOK`
- `InvariantHolds`: `Spec => []RunInvariant`
- `DependenciesAreKept`: `Spec => []DependenciesHold`
- `FinishedStays`: `Spec => FinishedIsFinal`

`DependenciesHold` is not inductive. A crash puts `disk` into memory, so the saved
state must satisfy it too; a recovery reopens tasks, so a finished task must not be
among them; a pass dispatches from a list computed before other tasks ran, so that
list must still be sound. `RunInvariant` states this: every node the runtime has
touched (a debug node through its root) has finished dependencies, in both states
(`Safe`); what is finished on disk is finished the same way in memory (`Kept`); and
while a pass runs there is no blocker and each listed node is still waiting or
skipped, with finished dependencies (`PassIsSound`). The proof goes operator by
operator (each lemma says what one operation of the engine keeps), then action by
action. `FinishedIsFinal` follows because every save writes a state that `Kept`
relates to the one on disk. Acyclicity of the graph is not needed: on a cyclic
graph the tasks of the cycle never start.

The assumptions are only what the types say, and that no planned task has the id
of a debug node.

`RunProofs` goes on from there, for every graph, retry limit and bound. Without further
hypotheses, over crashes, recoveries of any selection and restarts:

- `AttemptsAreBounded`: `Spec => []AttemptsBounded`
- `BlockersStayLive`: `Spec => []BlockersAreLive`
- `BlockedIsNamed`: `Spec => []BlockedHasBlocker`
- `DoneMeansWhole`: `Spec => []DoneIsWhole`

The first three share one invariant, `Plain`, of the state in memory and the saved one: the
bound on attempts is inductive only together with the fact that a task that waits or is
active has one attempt left (`Counted`), since a debug node and a recovery put a task back
without counting. `DoneIsWhole` needs that a pass never works on a state that says it is
done (`WholeRun`). Only the gate and a recovery write the flag, so a restarted run may begin
with it; then the state is whole, and the loop finds nothing to converge, promote, retry or
select (`WholeIdle`).

Under the hypotheses `Selections = {{}}` and `MaxReruns = 0`, a run that is only ever
continued by recoveries of all its tasks, as in the run `loop`:

- `OnlyOneInFlight`: `Spec => []OneInFlight`
- `OneDebugAtATime`: `Spec => []OneOpenDebug`
- `DispatchesAreCurrent`: `Spec => DispatchIsCurrent`
- `RecoveryClearsIt`: `Spec => RecoveryClearsWhatItCan`
- `StopsAreExplained`: `Spec => []StopIsExplained`, on a graph without cycles (`Ordered`)

The code needs the hypotheses: a recovery of selected tasks leaves an interrupted debug
node active (section 5), and a restart without recovery leaves active what a crash
interrupted, so after either a second node may be in flight. `InFlight` says that memory and file are
equal while a worker runs, that only the node dispatched last may be active, and that its
result alone may be unsaved. `OneRepair` says that the list of a pass has every open debug node
in it, and that none is open for the root at work: a debug node sorts before its root
(`DebugComesFirst`), so the root is never dispatched next to it. `ClearInvariant` says
that a blocker with an attempt left is one of a blocked or failed node, and that the head of
a pass sees no such blocker of a node under repair; without the second part convergence
would reset a root and leave its blocker. `StopsAreExplained` is the one place that needs an
order: in a set of unfinished tasks one has its dependencies outside (`FirstTask`), hence
is ready (`NothingReady`). On a cyclic graph the loop stops with neither reason.

How long a run can go on, for a finite task set and any selection and restarts:

- `PassesAreBounded`: `Spec => [](iteration <= PassBound + 1)`, where `PassBound` is
  `3 * MaxAttempts * Cardinality(Task)`
- `BudgetIsEnough`: with `MaxIterations > PassBound`, `Spec => []BudgetSuffices`
- `RepairsStayBounded`: with that budget and the two hypotheses above,
  `Spec => []RepairsAreBounded`

Every pass that another pass follows leaves a mark that nothing takes back (`MarksGrow`): a
task's k-th attempt counted, its k-th debug node opened or closed, the task finished. `Paced`
says that the passes so far are no more than these marks, and one for the pass under way. It
needs `Numbered`: the debug node of the last failure of a failed task does not exist yet, so
a retry opens a new one (`NewDebug`) and cannot spend a pass on an old one that is closed
already. A recovery keeps the marks and counts its passes from zero. The bound of attempts
(`Counted`) makes the marks finite. `PassBound` is not tight. With the default of two
attempts (`runtime/models.py:33`), the default budget of 20
(`runtime/orchestrator.py:175`) is above it for graphs of up to three tasks and the 50
iterations of a document run for up to eight; for a larger graph the theorem does not tell
that the default is enough.

`ReviewsCoverTheWork` (`Spec => []ReviewCoversWork`, any selection and restarts) follows from
`RunInvariant` for graphs in which reviews come after all work but the release
(`ReviewsComeLast`). The graphs the planner builds are such
(`planner/task_graph_builder.py:135-171`,
`planner/convergence_graph_builder.py:118-131`), and so is that of
the runs; the loop itself does not ask for it.

`JobProofs`, for any number of runs, control requests and crashes:

- `JobsAreTyped`: `Spec => []TypeOK`, for any number of clients
- `WorkersKeepOff`: `Spec => []WorkersDoNotOverlap`, with `OneClient`
- `HandOversAreReal`: `Spec => []ResumedIsHandedOver`, with `OneClient`

`job.json` is read, changed and replaced in separate steps, by the request and by every
worker, so the invariant speaks of the copies under way as well as of the files. `Slots`:
worker threads start in order, and a request that may start one has one left. `Owned`:
every worker has a run of its own that exists, a request about to create a run has a number
that is in no use, and no thread writes the file of a run that was not created.
`QuietInvariant`: a job whose status is past `running`, on disk or in a copy about to be
stored, is one that no worker executes; this is what makes it safe to recover. It needs no
lock because the worker of the run writes such a status after its last task, and a request
writes `resumed` only over a `paused` that it read. `HandedInvariant`: a job that is `resumed`, on disk or
in a copy, has its recovery run or the request that is creating it; and so has one that is
`paused` without a pause request while its worker has not answered, since `set_result` would
mark that one `resumed`. The code needs one request at a time (`OneClient`): with two clients TLC refutes
both, since two requests may take the same run number and two workers then serve one run. A crash between hand-over and creation leaves a run `resumed`
with nothing behind it, which is why `ResumedIsHandedOver` is about servers that did not crash.

`RoadmapProofs` proves, for any number of phases, attempts, repair documents and
invocations (`RoadmapAssumption`: the bounds are naturals, and there is at least one phase,
attempt, final verification and phase per invocation):

- `DeliveryIsImplemented`: `Spec => ImplementsDelivery`, the refinement of `PhaseDelivery`
- `DeliveredIsWhole`: `Spec => []DeliveredWhole`
- `LegacyAttemptsBuildOn`: `Spec => []LegacyBuildsOnAccepted`
- `WorkersKeepApart`: `Spec => []OneWorkerPerTree`
- `RoadmapIsTyped`: `Spec => []TypeOK`

The refinement rests on `Order`: a record that says done has a promoted attempt behind it
and all earlier phases before it, and both plans, in memory and on disk, are in order and
complete no phase that has no record, except the one that is about to get it.
`DeliveredWhole` is not inductive from there, and the obvious strengthening is false: one
would say that every attempt of phase p is in a tree with the work of the phases before it
(`TreesAreWhole`), and that what the executor remembers is that of the newest accepted
phase (`MemoryIsWhole`). A restarted goal-locked run forgets its records (`find_resume`),
so it starts a later phase from the checkout, without the work of the first. The invariant is therefore `Whole \/ Torn`: in a run
that is torn, phase 1 is completed in the plan but not remembered, and no invocation ever
remembers it again; such a run is never reported done, because the final check counts the
phases that are remembered (`AllRecorded`). `Handed` carries the facts of a hand-over to
later invocations. `OneWorkerPerTree` needs `OneLive` (a live worker belongs to the newest
attempt that could be resumed, of a phase that is next), `Stuck` (a phase that a goal-locked
plan blocks ends it), and `Apart` (the final verification has trees of its own until all
phases are accepted). The invariant says nothing of strays, and the theorem excepts them.

`GitHubFlowProofs`, for any set of checks and policies and any number of revisions
(one at least) and releases: `CompletedReleases`, `SoundMerges`, `FlowIsTyped`.
The invariant says what is known of the released revision at every command
(`RevisionIsReleased`), that the checks of a pull request read as passed only if all of
them were seen to (`ChecksAreGreen`), and that what the release remembers is still true
when it acts on it (`SeenIsTrue`).

`WorkerTaskProofs`, for any set of files, boundaries, number of executions and edits:
`WorktreesAreRestored`, `EndedWorkersAreGone`, `WorkerIsTyped`. A snapshot that git answered
for tells every file as it was (`SnapshotIsBase`); between audit and rollback a file
that differs is about to be restored, allowed or staged, or was written by a descendant
after the audit (`ScopeIsKept`). Of files that were dirty before, this holds whatever git does
after the worker, since they are compared and restored without it (`EarlierIsKept`).

`AutoIterationProofs`: `VerdictsAlwaysAgree` for every run that may end (`Ending`), with all
gaps at once, where the run of TLC stops at two; it is a fact about `Verdicts` and an
invariant that only such runs end. `IterationIsTyped` holds for any finite set of clients; its
invariant has the count of runs that are still to be started, so that no client starts one
beyond the bound. `RepairedOnce` (`Spec => []OneRepairPerSource`) has the hypothesis
`OneClient`: two requests that overlap do start two repairs (section 5); with one at a time,
a repair run always has a feedback file and a plan that names its source before it starts.

`FinalRepairProofs`: `DeliveredWithGates` (`Spec => []GatesRanLast`),
`PreservedRepairsRan` (`Spec => PreservedWasRun`) and `RepairsAreTyped`
(`Spec => []TypeOK`), for any findings and number of attempts. The first two have the hypothesis `PlansAreSequences`, that the repairs of a graph are a sequence
whatever the brief. They are cut out of a recursive forest, and that a function
defined by recursion has values of some type takes an induction over data. `RepairsAreTyped`
has it with titles for elements (`PlansAreTitles`), and states beside it that the literals of the
model are strings (`LiteralsAreStrings`), which no installed prover knows. What TLC checks
in `TypeOK` covers both on every graph of the run. The proofs need nothing else of the planner: the order of an attempt and the
comparison of titles give the two properties for every graph it may come up with.

Only model-checked:

- liveness (`Ends`, `StopEnds`, `InvocationEnds`, `QuietRunDelivers`, `ExecutionEnds`,
  `ReleaseEnds`): fairness and ENABLED are out of the prover's reach;
- `SplitsStay`, and that the planner's repairs are a sequence of titles, which are about what
  recursive functions compute;
- that 20 iterations are enough for the graph of the run `retries` (`RepairsAreBounded` there):
  `BudgetIsEnough` wants more than 36 for four tasks of three attempts;
- that the jobs of one request at a time keep their properties with more clients: they do not;
- the three properties that are refuted (section 5).

## 5. Disagreements between the code and its documentation

Each is a run TLC refutes; `PROJECT.json` quotes the texts.

| Run | What the code does |
|---|---|
| `find_answer` | after a crash, a worker that ended with a failure counts as completed |
| `find_resume` | a restarted goal-locked roadmap forgets its records and starts its next phase from the checkout, without the accepted work |
| `find_goal` | a refused resume with another objective stores it, and the next one is admitted |

Seen while modelling, without a run:

*Loop and recovery.* A run paused before anything failed cannot be recovered
(`recovery.py:110`). A recovery run that its preflight stopped cannot be resumed either,
because its saved state has nothing left to reset. A release that failed for good leaves
no blocker, unlike every other task. A selected recovery leaves an interrupted debug node
active. `Rerun` never clears B-RUN-STOPPED.

*Server.* A stop request can be overwritten by a run that saves its own status at the same
time (docs/18:106-109). A recovery run that was paused is recorded as blocked, and a finished run that
was started from a once-paused one as paused: the verdict is derived from a history that a
recovery run inherits (`project_service.py:789`). A paused run can be handed over twice by
two requests. After a crash of the server its active run blocks the project: `active_run`
counts it and `resume_run` leaves it alone (docs/26:12). Two threads of one run can give
the same event id.

*Worker.* An out-of-scope file that the worker staged survives the rollback, which restores
it from the index (docs/24:66). A `git commit` of the worker is not noticed by the audit, which looks at
`git status`. A worker that timed out but left a daemon holding its pipe blocks the adapter
until the daemon exits (docs/30:297). A helper that is left after a completed worker writes
on after the audit. When `git status` fails at the snapshot, earlier uncommitted work counts
as the task's and is rolled back with it. When `git ls-files` fails in the rollback, a tracked
file that the worker changed is deleted, and when `git checkout` fails it stays changed
(`codex_worker.py:777-802`): the answer says all the same that "Task-local repository changes
were rolled back". The default progress probe answers on Windows
only. `active_tasks_have_terminal_lifecycle` does not look at `cleanup_required`. A worker without a
time-out (the default of `max_worker_seconds`) that hangs keeps its run for ever. What a
worker wrote before a crash of the adapter is never audited: it is in the next baseline.

*Releases.* A closed pull request whose checks failed blocks every later release on its
branch, because it is found first. Checks that register late are not waited for: the first
ones that passed make the verdict, and checks that were all skipped pass too. A merge that
failed does not keep the release from completing. A later release takes over the merged or
closed pull request of an earlier one, with its checks: it completes although no check ran
on what it released (`github_flow.py:395`; `CompletedIsTrue` speaks of the pull request it reports).

*Roadmap.* A worker that outlived its executor behind a file that says timed out or cancelled,
or that has no pid yet, is not seen, and the next attempt may start in its worktree. Without goal lock, every repair attempt of the first phase starts in a new
worktree (docs/78, Required Behavior 5). The snapshots that prove an edit are of the path
before the attempt, also when the worker edits a new worktree. A phase that is revalidated
is accepted without a proof (docs/196, Completion Rules). `_failure_kind` looks for the word
"preflight" in a report that always has a key of that name, so a goal-locked failure is always one of the
environment (docs/196:26). A changed reference document is not noticed if it changed while
the executor was down. A run into the same output directory accepts the reports of the
earlier one. A phase attempt that uses its directory again overwrites `attempt_NNN.json`.
A later phase may edit the files an earlier proof rests on.

*Repair graphs.* After a time-out of the domain leaf the wider tasks it was split from are
back. "view page contracts" at T013 is replayed as wide as it timed out, because its split
is asked for at fixed numbers; so is a completed repair that a later time-out widens again.
A time-out of a gate at T010 splits "routes views and tests" after it was completed. The
graph of 64 tasks has one more than the line that keeps its shape expects and later falls
back to 60. The narrowed locale repair has the title of the broad one and later counts as it.
A graph that shrinks may give a gate the number of a completed repair, which completes it
unrun; the promotion refuses such an attempt (`GatesRanLast`). docs/104:46-47 "leaves the
failed or remaining task IDs pending". But a repair that ran out of time may start the attempt after
the next completed although no worker finished it: the brief before names it with its
number like the completed ones, and if another repair completes that number in between, the
code takes the title for a completed one. The planner itself does so when the workers of tasks
2, 6, 10, 12 and 13 run out of time one after the other: "analytics contracts", timed out at
T012, starts completed. `PreservedWasRun` has this as its one exception (`earlier.ended`); the
gates run after it nevertheless. A repair whose finding is reported again may be
completed on the title it had two attempts before. The topic of forbidden admin surfaces lets no other repair in,
and a line about the earlier brief, or a completed task of a title that mentions it, is
enough to raise it: a finding may then get no repair of its own. A deep graph leaves out the
repairs of admin operations and of forbidden surfaces that a finding asks for.
The model leaves out a stop by the operator; the code was read for it. The brief of such a
stop tells the planner not to regenerate a broad graph (`full_roadmap_executor.py:3039`,
docs/186:17-22), but it carries neither the finding nor the titles that ask for a split: the
next graph lacks the repairs of the finding and has the wide tasks again. It lists the gates
among the tasks to preserve, so that a stop after the audit of the first graph completes
repairs that have those numbers. A second stop without new progress falls back to the brief
of the failure before.

*Verdicts and repair runs.* A document run ends done or blocked and never needs an
iteration: a blocked one is blocked for the central review too (docs/05:219 and
docs/71:67-70 expect one to be started; the test at `tests/test_api_server.py:693` edits
`run.json` to get there). A done run with an unmet "should" requirement is still handed off
(docs/68:125). A done roadmap run is always iterated, because it has no artifact
(docs/68:123), and its repair is a document run unless the caller asks for a roadmap. A game
that no browser looked at is ready (docs/41 requires the probe). Probe results other than
the browser's, dimension scores, failed cycle steps and target files are looked for where no
pipeline puts them, so no repair item is made of them. The condition of progress in docs/69
does not exist. The signature of a plan contains the id of its run, so two plans are never
the same. A request that dies after it wrote its files makes every later one a duplicate. A
request for a run that is already repaired overwrites its report `started` with `blocked`:
the count of iterations drops and one more than the maximum can start (docs/69, maximum 3;
`project_service.py:952`). Two concurrent requests start two repair runs. `run_project` does
not ask for an active run. `keep_worktree=False` removes the worktree before the artifact
checks read it (`document_run.py:334`).

## 6. Not modelled, and why

Texts: how a worker answer is classified, the score of the gate, the graphs the planner
makes of a phase, how the topics of an audit report are read from its words, extraction
from documents. Pure I/O: HTTP routing, uploads, pages, reports, file inspection. Both
appear as inputs where the modelled code depends on them (`WorkerOutcomes`, `Scores`,
`RepairTargets`, `Outputs`, preflight, gates). Task graph migrations of a resumed run
change texts and scopes of tasks. The saves of the pipeline after the loop (it stores the
same state with the verdict of the coverage gate) are part of the last save. The Windows
branch of the worker runner is left out, and so are generated files, which the adapter
ignores. Convergence records are written once and read by reports. Worktree creation and
clean-up are single git commands around the modelled ones.

## 7. Plan

1. `RunJobs` with two clients, the synchronous run, delete and reopen; the project
   status against the active runs; `EventLog`: ids, appends and streams.
2. `Worktree`; `AutoIteration` with two clients.
3. `DocumentRun`: coverage gate and status; the graphs the planner makes of a phase.
