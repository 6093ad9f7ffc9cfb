---------------------------- MODULE Orchestrator ----------------------------
(***************************************************************************)
(* The runtime loop of runtime/orchestrator.py over one run directory: the *)
(* passes of Orchestrator.run, worker, review and release tasks, operator  *)
(* control between tasks, a crash of the process at any point, and the two *)
(* ways to go on: a recovery run, or the same command started again.       *)
(*                                                                         *)
(* The loop is one thread.  A step of the model is what it does between    *)
(* two points where something else can happen: a state file write that a   *)
(* crash may follow, a control check, a worker process.                    *)
(***************************************************************************)
EXTENDS DebugRepair, FinalGate, Recovery

CONSTANTS
  MaxIterations,   \* the max_iterations argument of run
  WorkerOutcomes,  \* the worker results considered
  ReleaseOutcomes, \* the GitHub flow results considered
  Scores,          \* whether the score and the reports pass the gate
  Controls,        \* what the operator may request: "stop", "pause"
  RepairTargets,   \* tasks whose success lets a repair run converge
  Selections,      \* the resume_tasks arguments considered ({} selects all)
  MaxCrashes,      \* bound: crashes of the process
  MaxResumes,      \* bound: recovery runs
  MaxReruns        \* bound: restarts without recovery

ASSUME LoopAssumption ==
  /\ MaxIterations \in Nat
  /\ WorkerOutcomes \subseteq WorkerResult
  /\ ReleaseOutcomes \subseteq {"recorded", "unhealthy", "failed"}
  /\ Scores \subseteq BOOLEAN
  /\ Controls \subseteq {"stop", "pause"}
  /\ RepairTargets \subseteq Task
  /\ Selections \subseteq SUBSET Node
  /\ MaxCrashes \in Nat /\ MaxResumes \in Nat /\ MaxReruns \in Nat

VARIABLES
  run,        \* the RuntimeState in memory
  disk,       \* state.json
  files,      \* the worker lifecycle files of the run directory
  pc,         \* where the loop is
  queue,      \* the rest of the ready (or retryable) tasks of this pass
  cur,        \* the task dispatched last
  result,     \* what its worker answered, "none" before it answered
  iteration,  \* passes started
  outcome,    \* why the loop returned
  crashes, resumes, reruns

vars == <<run, disk, files, pc, queue, cur, result, iteration, outcome,
          crashes, resumes, reruns>>
bounds == <<crashes, resumes, reruns>>

Places == {"top", "retrying", "tasks", "dispatched", "running", "exited",
           "stopped", "crashed"}
Outcomes == {"none", "done", "run_blocked", "no_ready_tasks", "run_stopped",
             "run_paused", "repair_convergence", "iteration_limit",
             "recovery_blocked"}

Init ==
  /\ run = InitialRunState
  /\ disk = InitialRunState
  /\ files = [n \in Node |-> "none"]
  /\ pc = "top"
  /\ queue = {}
  /\ cur \in Task
  /\ result = "none"
  /\ iteration = 0
  /\ outcome = "none"
  /\ crashes = 0 /\ resumes = 0 /\ reruns = 0

Stop(why) == pc' = "stopped" /\ outcome' = why /\ queue' = {}
Save(s)   == run' = s /\ disk' = s

-----------------------------------------------------------------------------
(* The head of a pass. *)

(* _converge_unproductive_debug_chains, one debug node at a time; the state *)
(* is saved when the last one is done.                                      *)
ConvergeChains ==
  /\ pc = "top" /\ iteration < MaxIterations
  /\ \E d \in UnproductiveDebug(run) :
       /\ run' = Converge(run, d)
       /\ disk' = IF UnproductiveDebug(run') = {} THEN run' ELSE disk
  /\ UNCHANGED <<files, pc, queue, cur, result, iteration, outcome, bounds>>

PassStarts(s) ==
  /\ pc = "top" /\ iteration < MaxIterations
  /\ UnproductiveDebug(run) = {}
  /\ s = Prune(run)
  /\ iteration' = iteration + 1
  /\ UNCHANGED <<files, cur, result, bounds>>

PassDone ==
  LET s == Prune(run) IN
  /\ PassStarts(s)
  /\ \E score \in Scores : Evaluate(s, score)
  /\ Save([s EXCEPT !.done = TRUE])
  /\ Stop("done")

NotDone(s) == \E score \in Scores : ~Evaluate(s, score)

PassPromotes ==
  LET s == Prune(run) IN
  /\ PassStarts(s)
  /\ NotDone(s)
  /\ HasHardBlocker(s) \/ ReadyTasks(s) = {}
  /\ Promotable(s) # {}
  /\ Save(Promote(s))
  /\ UNCHANGED <<pc, queue, outcome>>

PassBlocked ==
  LET s == Prune(run) IN
  /\ PassStarts(s)
  /\ NotDone(s)
  /\ HasHardBlocker(s)
  /\ Promotable(s) = {}
  /\ Save(s)
  /\ Stop("run_blocked")

PassRetries ==
  LET s == Prune(run) IN
  /\ PassStarts(s)
  /\ NotDone(s)
  /\ ~HasHardBlocker(s) /\ ReadyTasks(s) = {} /\ Promotable(s) = {}
  /\ RetryableFailures(s) # {}
  /\ run' = s
  /\ disk' = IF s = run THEN disk ELSE s
  /\ queue' = RetryableFailures(s)
  /\ pc' = "retrying"
  /\ UNCHANGED outcome

\* One task of _handle_retryable_failures.
RetryFailure(n) ==
  /\ pc = "retrying" /\ n \in queue
  /\ run' = HandleFailed(run, n, "failed")
  /\ queue' = queue \ {n}
  /\ IF queue' = {} THEN pc' = "top" /\ disk' = run' ELSE UNCHANGED <<pc, disk>>
  /\ UNCHANGED <<files, cur, result, iteration, outcome, bounds>>

PassIdle ==
  LET s == Prune(run) IN
  /\ PassStarts(s)
  /\ NotDone(s)
  /\ ~HasHardBlocker(s) /\ ReadyTasks(s) = {} /\ Promotable(s) = {}
  /\ RetryableFailures(s) = {}
  /\ Save(s)
  /\ Stop("no_ready_tasks")

PassSelects ==
  LET s == Prune(run) IN
  /\ PassStarts(s)
  /\ NotDone(s)
  /\ ~HasHardBlocker(s) /\ ReadyTasks(s) # {}
  /\ run' = MarkReady(s)
  /\ disk' = IF s = run THEN disk ELSE s
  /\ queue' = ReadyTasks(s)
  /\ pc' = "tasks"
  /\ UNCHANGED outcome

IterationLimit ==
  /\ pc = "top" /\ iteration = MaxIterations
  /\ Save(run)
  /\ Stop("iteration_limit")
  /\ UNCHANGED <<files, cur, result, iteration, bounds>>

-----------------------------------------------------------------------------
(* The tasks of a pass.  The list was computed when the pass began: what    *)
(* earlier tasks of the pass did to the later ones shows only in `run`.     *)

IsNext(n) == n \in queue /\ \A m \in queue \ {n} : Before(n, m)

AtTask(n, s) == pc = "tasks" /\ IsNext(n) /\ s = Prune(run)

\* The loop's `continue` over a task pruned during the pass is no action: the
\* list holds no skipped node, because a debug node comes before its root in the
\* list and a pass ends at the first open one.

\* controller.before_task answered stop or pause.
ObeyControl(n, c) ==
  LET s == Prune(run) IN
  /\ AtTask(n, s)
  /\ s.status[n] # "skipped"
  /\ IF c = "stop" THEN Save([s EXCEPT !.notices = @ \cup {"stop"}]) ELSE Save(s)
  /\ Stop(IF c = "stop" THEN "run_stopped" ELSE "run_paused")
  /\ UNCHANGED <<files, cur, result, iteration, bounds>>

\* Mutation: the state is not saved before the worker starts.
DispatchUnsaved(n) ==
  LET s == Prune(run) IN
  /\ AtTask(n, s)
  /\ s.status[n] # "skipped"
  /\ run' = MarkActive(s, n) /\ UNCHANGED disk
  /\ pc' = "dispatched" /\ cur' = n /\ result' = "none"
  /\ UNCHANGED <<files, queue, iteration, outcome, bounds>>

Dispatch(n) ==
  LET s == Prune(run) IN
  /\ AtTask(n, s)
  /\ s.status[n] # "skipped"
  /\ Save(MarkActive(s, n))
  /\ pc' = "dispatched" /\ cur' = n /\ result' = "none"
  /\ UNCHANGED <<files, queue, iteration, outcome, bounds>>

(* What run() does after execute_task left state s0: prune, stop on a new   *)
(* blocker, converge a repair run, break on open debug work, or go on.      *)
(* Whether the result also has passing checks and no known issue, which     *)
(* convergence asks for, is left open.                                      *)
MayConverge(r) ==
  r \in {"passed", "weak", "handoff"} /\ Root(cur) \in RepairTargets

AfterTask(s0, r) ==
  LET s == Prune(s0) IN
  /\ UNCHANGED <<files, cur, iteration, bounds>>
  /\ result' = "none"
  /\ \/ /\ ~(s.blockers \subseteq run.blockers)
        /\ Save(s)
        /\ Stop("run_blocked")
     \/ /\ s.blockers \subseteq run.blockers
        /\ MayConverge(r)
        /\ \E score \in Scores :
             LET c == CompleteRest(s)
             IN  Save([c EXCEPT !.done = Evaluate(c, score)])
        /\ Stop("repair_convergence")
     \/ /\ s.blockers \subseteq run.blockers
        /\ run' = s
        /\ IF OpenDebug(s) # {}
             THEN queue' = {} /\ disk' = s
             ELSE queue' = queue \ {cur} /\ disk' = (IF s = s0 THEN disk ELSE s)
        /\ pc' = "tasks"
        /\ UNCHANGED outcome

\* The end of a pass, reached through the list or through the break.
PassEnds ==
  /\ pc = "tasks" /\ queue = {}
  /\ \E score \in Scores :
       LET d == Evaluate(run, score) IN
       /\ Save([run EXCEPT !.done = d])
       /\ IF d THEN pc' = "stopped" /\ outcome' = "done"
               ELSE pc' = "top" /\ UNCHANGED outcome
  /\ UNCHANGED <<files, queue, cur, result, iteration, bounds>>

-----------------------------------------------------------------------------
(* execute_task *)

IsWorker(n) == n \in Debug \/ (n \in Task /\ Kind[n] \in {"work", "test"})

\* The lifecycle recorder writes the file before the process starts.
LaunchWorker ==
  /\ pc = "dispatched" /\ IsWorker(cur)
  /\ files' = [files EXCEPT ![cur] = "running"]
  /\ pc' = "running"
  /\ UNCHANGED <<run, disk, queue, cur, result, iteration, outcome, bounds>>

HasWaitingDependent(s, n) ==
  \E t \in Task : n \in Deps[t] /\ s.status[t] \in Waiting

\* Only a task with a waiting dependent can hand work over.
PossibleResult(n, r) == r = "handoff" => n \in Task /\ HasWaitingDependent(run, n)

\* The file of a process that was killed on timeout or cancelled, or never
\* started, says so; the file of any other says "completed".
FinalFile(r) ==
  CASE r = "timed_out" -> {"ended"}
    [] r \in {"blocked", "blocked_env"} -> {"ended", "completed"}
    [] OTHER -> {"completed"}

WorkerExits(r) ==
  /\ pc = "running" /\ r \in WorkerOutcomes /\ PossibleResult(cur, r)
  /\ \E f \in FinalFile(r) : files' = [files EXCEPT ![cur] = f]
  /\ result' = r
  /\ pc' = "exited"
  /\ UNCHANGED <<run, disk, queue, cur, iteration, outcome, bounds>>

ApplyResult(s, n, r) ==
  CASE r \in {"passed", "weak", "dirty", "handoff"} -> MarkCompleted(s, n, r)
    [] r \in {"blocked", "blocked_env"} -> RecordBlocker(MarkBlocked(s, n, r), n)
    [] OTHER -> HandleFailed(MarkFailed(s, n, r), n, r)

\* _record_worker_lifecycle replaces the record an earlier recovery marked.
RecordResult ==
  /\ pc = "exited"
  /\ AfterTask(ApplyResult([run EXCEPT !.proven = @ \ {cur}], cur, result), result)

Review ==
  LET ok == ReviewPasses(run, cur) IN
  /\ pc = "dispatched" /\ cur \in Task /\ Kind[cur] = "review"
  /\ AfterTask(ApplyResult(run, cur, IF ok THEN "passed" ELSE "failed"),
               IF ok THEN "passed" ELSE "failed")

Inspect(r) ==
  /\ pc = "dispatched" /\ cur \in Task /\ Kind[cur] = "inspection"
  /\ AfterTask(IF r = "skipped" THEN MarkSkipped(run, cur)
                                ELSE ApplyResult(run, cur, r), r)

(* _execute_release_task: a failed delivery leaves a failed node without a  *)
(* blocker, and a recorded one keeps the node in failed_tasks.              *)
Release(g) ==
  LET s == [run EXCEPT !.github = (g # "failed")] IN
  /\ pc = "dispatched" /\ cur \in Task /\ Kind[cur] = "release"
  /\ AfterTask(CASE g = "recorded"  -> [s EXCEPT !.status[cur] = "completed",
                                                 !.last[cur] = "weak"]
                 [] g = "unhealthy" -> RecordBlocker(MarkBlocked(s, cur, "weak"), cur)
                 [] g = "failed"    -> MarkFailed(s, cur, "failed"),
               "release")

-----------------------------------------------------------------------------
(* Crashes, recovery runs, restarts. *)

Crash ==
  /\ pc \notin {"stopped", "crashed"}
  /\ crashes < MaxCrashes
  /\ crashes' = crashes + 1
  /\ pc' = "crashed" /\ run' = disk /\ queue' = {}
  /\ UNCHANGED <<disk, files, cur, result, iteration, outcome, resumes, reruns>>

\* A crashed run and a run of run_loop.py are read from state.json and the
\* worker files, a finished document run from its report.
RecoverySource ==
  IF pc = "crashed" \/ reruns > 0 THEN MergeWorkerFiles(disk, files) ELSE disk

(* A recovery run starts in a new directory: no worker files, its own state *)
(* file.  It may end before the loop, with a blocker without tasks.         *)
Resume(sel, preflight) ==
  LET s       == Prepare(RecoverySource, sel)
      refused == NothingToResume(RecoverySource, sel)
  IN
  /\ pc \in {"stopped", "crashed"} /\ outcome # "done"
  /\ resumes < MaxResumes
  /\ resumes' = resumes + 1
  /\ files' = [n \in Node |-> "none"]
  /\ queue' = {} /\ result' = "none" /\ iteration' = 0
  /\ IF refused \/ ~preflight
       THEN /\ Save([s EXCEPT !.notices = @ \cup
                                {IF refused THEN "recovery" ELSE "preflight"}])
            /\ pc' = "stopped" /\ outcome' = "recovery_blocked"
       ELSE Save(s) /\ pc' = "top" /\ outcome' = "none"
  /\ UNCHANGED <<cur, crashes, reruns>>

\* run_loop.py without --reset: the loop starts over on the saved state.  Only
\* a state file of its own, no recovery run, is started this way.
Rerun ==
  /\ pc \in {"stopped", "crashed"} /\ outcome # "done" /\ resumes = 0
  /\ reruns < MaxReruns
  /\ reruns' = reruns + 1
  /\ Save(disk)
  /\ pc' = "top" /\ iteration' = 0 /\ outcome' = "none"
  /\ result' = "none"
  /\ UNCHANGED <<files, queue, cur, crashes, resumes>>

-----------------------------------------------------------------------------
LoopStep ==
  \/ ConvergeChains \/ PassDone \/ PassPromotes \/ PassBlocked
  \/ PassRetries \/ PassIdle \/ PassSelects \/ IterationLimit \/ PassEnds
  \/ \E n \in Node : RetryFailure(n) \/ Dispatch(n)
  \/ LaunchWorker
  \/ \E r \in WorkerResult : WorkerExits(r)
  \/ RecordResult \/ Review
  \/ \E r \in {"passed", "failed", "skipped"} : Inspect(r)
  \/ \E g \in ReleaseOutcomes : Release(g)

Control == \E n \in Node, c \in Controls : ObeyControl(n, c)

Restart ==
  \/ \E sel \in Selections, preflight \in BOOLEAN : Resume(sel, preflight)
  \/ Rerun

Next == LoopStep \/ Control \/ Crash \/ Restart

Spec == Init /\ [][Next]_vars

\* The loop is a running thread and a worker process ends or times out.
FairSpec == Spec /\ WF_vars(LoopStep)
=============================================================================
