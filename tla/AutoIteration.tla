---------------------------- MODULE AutoIteration ----------------------------
(***************************************************************************)
(* ProjectService.start_auto_iteration: a request previews a repair of a   *)
(* finished run, writes plan and report beside it, reopens the project     *)
(* with them as feedback, starts the repair run and writes the report      *)
(* again.  The guardrails read what earlier requests wrote.                *)
(*                                                                         *)
(* Every file is written by a step of its own; the server may die between  *)
(* any two.  Runs are reduced to how they end; their control is the matter *)
(* of RunJobs.                                                             *)
(***************************************************************************)
EXTENDS Verdicts

CONSTANTS
  Clients,        \* threads that handle requests
  MaxIterations,  \* MAX_AUTO_ITERATIONS_PER_PROJECT
  FirstEvidence,  \* how the first run may have ended
  LaterEvidence,  \* how a repair run may end
  MaxRuns,        \* bound on the runs ...
  MaxOwnRuns,     \* ... and on those that are no repair runs
  MaxCrashes      \* bound on the crashes of the server

ASSUME IterationAssumption ==
  /\ \A e \in FirstEvidence \cup LaterEvidence : Ending(e)
  /\ IsFiniteSet(Clients)
  /\ MaxIterations \in Nat /\ MaxRuns \in Nat \ {0} /\ MaxOwnRuns \in Nat /\ MaxCrashes \in Nat

Runs == 1 .. MaxRuns
NoEvidence == [mode |-> "none", profile |-> "other", looked |-> FALSE, gaps |-> {}]
NoRun == [phase |-> "none", job |-> FALSE, source |-> 0, evidence |-> NoEvidence]

VARIABLES
  run,      \* of each run: its phase, whether it has a job file, the run it repairs
            \* (0: none), its evidence (run.json)
  plan,     \* repair_plan.json of each run
  report,   \* auto_iteration_report.json of each run
  project,  \* status in project.json
  pc, source, repair,   \* of each client
  crashes

files == <<plan, report>>
vars == <<run, plan, report, project, pc, source, repair, crashes>>

Init ==
  /\ \E e \in FirstEvidence :
       run = [r \in Runs |-> IF r = 1
                             THEN [NoRun EXCEPT !.phase = "ended", !.evidence = e] ELSE NoRun]
  /\ plan = [r \in Runs |-> "none"] /\ report = [r \in Runs |-> "none"]
  /\ project = RunStatus(run[1].evidence)
  /\ pc = [c \in Clients |-> "idle"]
  /\ source = [c \in Clients |-> 0] /\ repair = [c \in Clients |-> 0]
  /\ crashes = 0

Started == {r \in Runs : run[r].phase # "none"}

\* active_run: a job that is queued, running or paused, dead or not.
ActiveRun == \E r \in Runs : run[r].job /\ run[r].phase \in {"active", "stuck"}

-----------------------------------------------------------------------------
(* The guardrails. *)

\* count_started_iterations
StartedIterations == Cardinality({r \in Runs : report[r] = "started"})

\* Mutation: only a plan whose repair is known to have started was tried.
TriedIfStarted(r) == report[r] = "started"

\* duplicate_signature_count: the signature holds the run's id, so only its own plan
\* can be the same, and it is read beside a report only.
Tried(r) == report[r] # "none" /\ plan[r] # "none"

\* guardrail_blockers has nothing to say.
Allowed(r) ==
  /\ Decision(run[r].evidence) = "iterate" /\ RepairItems(run[r].evidence) # {}
  /\ StartedIterations < MaxIterations /\ ~Tried(r)

\* Mutation: the report takes over the status of the plan.
FirstReportOfPlan(r, allowed) == IF allowed THEN "ready" ELSE "blocked"

\* build_auto_iteration_report before a repair run exists
FirstReport(r, allowed) ==
  IF Decision(run[r].evidence) = "handoff" THEN "handoff"
  ELSE IF allowed THEN "skipped" ELSE "blocked"

-----------------------------------------------------------------------------
(* start_auto_iteration *)

GoTo(c, place) == pc' = [pc EXCEPT ![c] = place]

\* Bound: a request that may start a run is made only if one is left for it.
Room ==
  Cardinality(Started)
    + Cardinality({c \in Clients : pc[c] \in {"plan", "report", "feedback", "build", "launch"}})
  < MaxRuns

\* preview_auto_iteration; the run has a run.json.
Preview(c, r) ==
  /\ pc[c] = "idle" /\ run[r].phase = "ended" /\ (Allowed(r) => Room)
  /\ source' = [source EXCEPT ![c] = r] /\ repair' = [repair EXCEPT ![c] = 0]
  /\ GoTo(c, IF Allowed(r) THEN "plan" ELSE "refuse")
  /\ UNCHANGED <<run, files, project, crashes>>

\* _persist_auto_iteration_artifacts of a start that is refused: two files.
RefusePlan(c) ==
  /\ pc[c] = "refuse" /\ plan' = [plan EXCEPT ![source[c]] = "blocked"]
  /\ GoTo(c, "refused")
  /\ UNCHANGED <<run, report, project, source, repair, crashes>>

RefuseReport(c) ==
  /\ pc[c] = "refused"
  /\ report' = [report EXCEPT ![source[c]] = FirstReport(source[c], FALSE)]
  /\ GoTo(c, "idle")
  /\ UNCHANGED <<run, plan, project, source, repair, crashes>>

\* The same of a start that is allowed, before and after the repair run is started.
WritePlan(c) ==
  /\ \/ pc[c] = "plan" /\ plan' = [plan EXCEPT ![source[c]] = "ready"] /\ GoTo(c, "report")
     \/ pc[c] = "planAgain" /\ plan' = [plan EXCEPT ![source[c]] = "started"]
        /\ GoTo(c, "reportAgain")
  /\ UNCHANGED <<run, report, project, source, repair, crashes>>

WriteReport(c) ==
  /\ \/ /\ pc[c] = "report"
        /\ report' = [report EXCEPT ![source[c]] = FirstReport(source[c], TRUE)]
        /\ GoTo(c, "feedback")
     \/ /\ pc[c] = "reportAgain"
        /\ report' = [report EXCEPT ![source[c]] = "started"]
        /\ GoTo(c, "idle")
  /\ UNCHANGED <<run, plan, project, source, repair, crashes>>

\* reopen_with_feedback: add_files, which takes intake again.
AddFeedback(c) ==
  /\ pc[c] = "feedback" /\ project' \in {"intake_ready", "intake_blocked"}
  /\ GoTo(c, "build")
  /\ UNCHANGED <<run, files, source, repair, crashes>>

\* build_plan
BuildPlan(c) ==
  /\ pc[c] = "build"
  /\ IF project = "intake_blocked"
     THEN GoTo(c, "idle") /\ UNCHANGED project
     ELSE GoTo(c, "launch") /\ project' = "planned"
  /\ UNCHANGED <<run, files, source, repair, crashes>>

MayStart == project \in {"intake_ready", "planned", "done", "blocked"}

\* full_roadmap is a choice of the caller, one_line one of the project.
Modes == {"roadmap", IF run[1].evidence.mode = "one_line" THEN "one_line" ELSE "document"}

NewRun(job, of) ==
  \E mode \in Modes :
    run' = [run EXCEPT ![Cardinality(Started) + 1] =
              [phase |-> "active", job |-> job, source |-> of,
               evidence |-> [NoEvidence EXCEPT !.mode = mode]]]

\* The next run id, and what becomes of it.
Launch(c, job) ==
  NewRun(job, source[c]) /\ repair' = [repair EXCEPT ![c] = Cardinality(Started) + 1]

\* start_run, for an asynchronous start
StartRun(c) ==
  /\ pc[c] = "launch" /\ MayStart /\ ~ActiveRun
  /\ Launch(c, TRUE) /\ project' = "running"
  /\ GoTo(c, "planAgain")
  /\ UNCHANGED <<files, source, crashes>>

\* Its errors: project_not_ready, run_already_active.
StartIsRefused(c) ==
  /\ pc[c] = "launch" /\ (~MayStart \/ ActiveRun)
  /\ GoTo(c, "idle")
  /\ UNCHANGED <<run, files, project, source, repair, crashes>>

\* run_project, for a synchronous one: it does not ask for an active run.
RunProject(c) ==
  /\ pc[c] = "launch" /\ MayStart
  /\ Launch(c, FALSE) /\ GoTo(c, "wait")
  /\ UNCHANGED <<files, project, source, crashes>>

Returned(c) ==
  /\ pc[c] = "wait" /\ run[repair[c]].phase \in {"ended", "dead"}
  /\ GoTo(c, IF run[repair[c]].phase = "ended" THEN "planAgain" ELSE "idle")
  /\ UNCHANGED <<run, files, project, source, repair, crashes>>

-----------------------------------------------------------------------------
(* Runs and the server. *)

\* A run that a client starts without asking for a repair.
StartOwnRun ==
  /\ Cardinality({r \in Started : run[r].source = 0}) < MaxOwnRuns
  /\ Room /\ MayStart /\ ~ActiveRun
  /\ NewRun(TRUE, 0) /\ project' = "running"
  /\ UNCHANGED <<files, pc, source, repair, crashes>>

RunEnds(r) ==
  /\ run[r].phase = "active"
  /\ \E e \in LaterEvidence :
       /\ e.mode = run[r].evidence.mode
       /\ run' = [run EXCEPT ![r].phase = "ended", ![r].evidence = e]
       /\ project' = RunStatus(e)
  /\ UNCHANGED <<files, pc, source, repair, crashes>>

\* An exception: the project fails with an asynchronous run only.
RunRaises(r) ==
  /\ run[r].phase = "active" /\ run' = [run EXCEPT ![r].phase = "dead"]
  /\ project' = IF run[r].job THEN "failed" ELSE project
  /\ UNCHANGED <<files, pc, source, repair, crashes>>

Crash ==
  /\ crashes < MaxCrashes /\ crashes' = crashes + 1
  /\ pc' = [c \in Clients |-> "idle"]
  /\ run' = [r \in Runs |->
              IF run[r].phase = "active"
              THEN [run[r] EXCEPT !.phase = IF run[r].job THEN "stuck" ELSE "dead"]
              ELSE run[r]]
  /\ UNCHANGED <<files, project, source, repair>>

-----------------------------------------------------------------------------
Step(c) ==
  \/ RefusePlan(c) \/ RefuseReport(c) \/ WritePlan(c) \/ WriteReport(c) \/ AddFeedback(c)
  \/ BuildPlan(c) \/ StartRun(c) \/ StartIsRefused(c) \/ RunProject(c) \/ Returned(c)

End(r) == RunEnds(r) \/ RunRaises(r)

Next ==
  \/ \E c \in Clients : Step(c) \/ \E r \in Runs : Preview(c, r)
  \/ \E r \in Runs : End(r)
  \/ StartOwnRun \/ Crash

Spec == Init /\ [][Next]_vars
=============================================================================
