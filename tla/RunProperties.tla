---------------------------- MODULE RunProperties ----------------------------
(***************************************************************************)
(* What the runtime loop must keep true over a run, its crashes and its    *)
(* resumptions.                                                            *)
(***************************************************************************)
EXTENDS Orchestrator

\* The state in memory and the saved one are well-formed run states, and the
\* loop is at one of its places (runtime/models.py, RuntimeState.from_dict).
TypeOK ==
  /\ run \in RunState /\ disk \in RunState
  /\ files \in [Node -> WorkerFile]
  /\ pc \in Places
  /\ queue \subseteq Node
  /\ cur \in Node
  /\ result \in WorkerResult \cup {"none"}
  /\ iteration \in 0 .. MaxIterations
  /\ outcome \in Outcomes
  /\ crashes \in 0 .. MaxCrashes
  /\ resumes \in 0 .. MaxResumes
  /\ reruns \in 0 .. MaxReruns

Started(s, n) == s.status[n] \in Terminal \cup Broken \cup {"active"}

\* A task that was ever dispatched, in memory or on disk, has every task it
\* depends on completed or skipped: the ready list of a pass goes stale while
\* the pass runs, and recovery puts tasks back to pending, but neither makes a
\* task start on unfinished work (get_ready_tasks, prepare).
DependenciesHold ==
  \A t \in Task : \A s \in {run, disk} :
    Started(s, t) \/ s.last[t] # "none" => DepsFinished(s, t)

\* No state file ever takes back a finished task: neither a pass, nor a crash,
\* nor a recovery of any selection of tasks reopens a task the saved state says
\* is completed or skipped (RuntimeRecovery.prepare, run).
FinishedIsFinal ==
  [][\A n \in Node :
       disk.status[n] \in Terminal => disk'.status[n] = disk.status[n]]_vars

\* A task goes to a worker only from the ready list as it stands then: still
\* waiting, its dependencies finished, and no open debug node of its own that
\* would repair it first (run, _has_pending_debug_work).
DispatchIsCurrent ==
  [][pc = "tasks" /\ pc' = "dispatched" =>
       /\ run.status[cur'] \in Waiting
       /\ DepsFinished(run, cur')
       /\ cur' \in Task => \A d \in OpenDebug(run) : Root(d) # cur']_vars

\* A crash forgets the result of at most one task: what memory has finished
\* and the state file has not is the task dispatched last (the save that
\* execute_task makes before each worker).
AtMostOneResultUnsaved ==
  pc # "crashed" =>
    \A t \in Task :
      run.status[t] \in Terminal /\ disk.status[t] \notin Terminal => t = cur

\* Only one node is ever active, so a recovery knows which work a crash
\* interrupted (mark_active, prepare).
OneActive ==
  \A s \in {run, disk} : \A n, m \in Node :
    s.status[n] = "active" /\ s.status[m] = "active" => n = m

\* So a crash interrupts one task and loses one result, and never of two tasks
\* (execute_task, prepare).
OneInFlight == OneActive /\ AtMostOneResultUnsaved

\* A blocked node always has a recorded blocker that names it, so that an
\* operator can see why the run stopped: promotion, recovery and the chains of
\* debug nodes never remove the one without the other (_record_blocker,
\* _clear_recoverable_blockers).
BlockedHasBlocker ==
  \A s \in {run, disk} : \A n \in Node :
    s.status[n] = "blocked" => \E b \in s.blockers : b[1] = n

\* A blocker of a planned task always names a task that still needs work:
\* nothing finishes a task and leaves its blocker behind, which no recovery could
\* clear (_promote_completed_debug_repairs, prepare).
BlockersAreLive ==
  \A s \in {run, disk} : \A b \in s.blockers :
    b[1] \in Task => s.status[b[1]] \notin Terminal

\* At most one debug node of a task is open at a time
\* (create_debug_task, _converge_unproductive_debug_chains).
OneOpenDebug ==
  \A d, e \in OpenDebug(run) : Root(d) = Root(e) => d = e

\* A run that says it is done delivered everything: every node is finished, no
\* blocker is left, and the delivery evidence is there; so does the saved state,
\* which the flag is read from later (evaluate, prepare).
DoneIsWhole ==
  \A s \in {run, disk} : s.done =>
    /\ Exists(s) \subseteq Finished(s)
    /\ s.blockers = {} /\ s.notices = {}
    /\ s.github

\* An approved review stands for all the work before the release: no other task
\* is unfinished when it completes, or later (_review_result).
ReviewCoversWork ==
  \A v \in Reviews : run.status[v] = "completed" =>
    \A t \in Task : Kind[t] # "release" => run.status[t] \in Terminal

\* No task fails more often than the retry policy allows: debug nodes, parents
\* reset by them and retried releases all share the one count.  However often the
\* run is recovered, that adds one attempt at most: a recovery spends the last one
\* when it resets a blocked task (can_retry, mark_failed, prepare).
AttemptsBounded ==
  \A t \in Task : run.retries[t] <= IF resumes = 0 THEN MaxAttempts ELSE MaxAttempts + 1

\* A recovery of all tasks clears every blocker that a retry could resolve: the
\* ones left belong to tasks with no attempt left (prepare,
\* _clear_recoverable_blockers).
RecoveryClearsWhatItCan ==
  [][resumes' # resumes =>
       \A b \in run'.blockers : ~CanRetry(disk, b[1])]_vars

\* When the loop gives up because nothing is ready, there is a reason in the
\* graph: the gate refused finished work, or a failed task has no attempt left
\* (no_ready_tasks in run).
IdleIsExplained ==
  outcome = "no_ready_tasks" =>
    \/ Exists(run) \subseteq Finished(run)
    \/ \E t \in Task : run.status[t] = "failed" /\ ~CanRetry(run, t)

\* A run that cannot go on shows its reason, in its blockers or in its graph (run,
\* _clear_recoverable_blockers).
StopIsExplained == BlockedHasBlocker /\ IdleIsExplained

\* The default iteration budget is never what ends a run: every sequence of
\* failures and repairs of the graph is over before it (max_iterations = 20).
BudgetSuffices == outcome # "iteration_limit"

\* Repair work stays bounded: one open debug node per task, and every chain of them is
\* over before the budget (_converge_unproductive_debug_chains, run).
RepairsAreBounded == OneOpenDebug /\ BudgetSuffices

\* A started run comes to an end: the loop stops, or its process dies.
Ends == pc \notin {"stopped", "crashed"} ~> pc \in {"stopped", "crashed"}

-----------------------------------------------------------------------------
(* Why dependencies hold and finished tasks stay finished: the inductive    *)
(* invariant the proofs of module OrchestratorProofs rest on.               *)

\* The runtime has worked on n: a task was dispatched, a debug node created.
Touched(s, n) ==
  IF n \in Task THEN Started(s, n) \/ s.last[n] # "none"
                ELSE s.status[n] # "absent"

Safe(s) ==
  /\ \A t \in Task : s.status[t] # "absent"
  /\ \A n \in Node : Touched(s, n) => DepsFinished(s, Root(n))

\* What is finished in a is finished the same way in b.
Kept(a, b) ==
  \A n \in Node : a.status[n] \in Terminal => b.status[n] = a.status[n]

\* The rest of the ready list, which was computed when the pass began.
Listed(n) ==
  /\ run.status[n] \in Waiting \cup {"skipped"}
  /\ DepsFinished(run, n)

PassIsSound ==
  CASE pc = "tasks" -> run.blockers = {} /\ \A n \in queue : Listed(n)
    [] pc \in {"dispatched", "running", "exited"} ->
         /\ run.blockers = {}
         /\ run.status[cur] = "active"
         /\ \A n \in queue \ {cur} : Listed(n)
    [] pc = "retrying" ->
         \A n \in queue :
           n \in Task /\ run.status[n] \notin Terminal /\ DepsFinished(run, n)
    [] OTHER -> TRUE

\* Both states are sound, the one on disk is a past of the one in memory, and
\* the rest of the pass is still to be done: no other order of saves, crashes
\* and recoveries keeps dependencies (run, execute_task, prepare).
RunInvariant ==
  TypeOK /\ Safe(run) /\ Safe(disk) /\ Kept(disk, run) /\ PassIsSound

-----------------------------------------------------------------------------
(* Claims of the documentation the code does not keep. *)

\* docs/03_task_graph.md: a task moves to completed only when its worker output
\* satisfies the completion criteria.
CompletedByAnAnswer ==
  \A t \in Task : Kind[t] \in {"work", "test"} /\ disk.status[t] = "completed" =>
    disk.last[t] \notin {"none", "failed", "blocked", "timed_out"}
=============================================================================
