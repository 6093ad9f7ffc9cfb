------------------------------- MODULE Roadmap -------------------------------
(***************************************************************************)
(* FullRoadmapExecutor (autodev/full_roadmap_executor.py): the phases of a *)
(* roadmap run one after the other, each in attempts that are document     *)
(* runs, until all are promoted and the final verification passes.         *)
(*                                                                         *)
(* Everything it knows is in files of its output directory, written one by *)
(* one; a crash forgets the rest, and the next invocation starts from the  *)
(* files.  The workers of a crashed attempt may live on.                   *)
(*                                                                         *)
(* locked: goal-locked convergence, the default.  Runs are real runs in    *)
(* isolated worktrees, the default too.                                    *)
(***************************************************************************)
EXTENDS Integers, Sequences

CONSTANTS
  Phases,      \* the number of phases of the roadmap
  Modes,       \* goal-locked or not
  Revisions,   \* the objectives an operator may give
  EditPhases,  \* the phases whose transformation edits the repository
  MaxRepairs,  \* max_phase_repair_attempts
  MaxPhases,   \* max_phases
  MaxFinal,    \* max_final_verification_attempts
  MaxRuns,     \* attempts an output directory has room for
  MaxStarts    \* bound: invocations

ASSUME RoadmapAssumption ==
  /\ {Phases, MaxFinal, MaxRuns, MaxPhases} \subseteq Nat \ {0}
  /\ {MaxRepairs, MaxStarts} \subseteq Nat
  /\ Modes \subseteq BOOLEAN /\ Modes # {} /\ EditPhases \subseteq 1 .. Phases
  /\ Revisions \subseteq Nat \ {0}

Phase == 1 .. Phases
Final == 0                        \* the final verification has attempts, too
Checkout == 0                     \* the repository the operator named
Trees == Nat                      \* its worktrees, numbered as they are made

VARIABLES
  \* memory of the executor
  pc, locked, plan, kept, phase, run, verdict, tree, seen, written, count,
  blocked,
  \* files
  stored, record, proof, runs, report, contract,
  \* worktrees, those in which a worker is at work that its lifecycle file hides, and the
  \* goal the stored plan was built for
  work, strays, built, starts

memory  == <<plan, kept, phase, run, verdict, tree, seen, written, count, blocked>>
phaseFiles == <<stored, record, proof, contract>>
outside == <<locked, strays, built, starts>>
vars == <<pc, locked, plan, kept, phase, run, verdict, tree, seen, written, count,
          blocked, stored, record, proof, runs, report, contract, work, strays,
          built, starts>>

PlanStatus == {"pending", "running", "completed", "blocked"}
Outcomes   == {"promotable", "repairable", "timeout", "refused"}
Record     == [phase : Phase, status : {"done", "blocked"}, tree : Trees, at : Int]

(***************************************************************************)
(* A run directory.                                                        *)
(* state   state.json: absent, with active tasks, or without               *)
(* worker  what the lifecycle files and the process table say of the       *)
(*         worker of the active task, which need not be so: "terminal" is  *)
(*         written before the worker is killed, and there is no pid in the *)
(*         file from before the launch until attach_pid                    *)
(* marked  a supervisor_stop or operator_stop file                         *)
(* result  what a re-evaluation of document_run_report.json says           *)
(***************************************************************************)
RunDirWorkers == {"none", "live", "completed", "terminal", "lost", "lostDebug"}
RunDir ==
  [tree : Trees, state : {"absent", "active", "idle"}, worker : RunDirWorkers,
   marked : BOOLEAN, result : Outcomes \cup {"none"}]

Unplanned == [p \in Phase |-> "pending"]
NoRecord  == [status |-> "none", tree |-> Checkout]

Init ==
  /\ pc = "down" /\ locked \in Modes
  /\ plan = Unplanned /\ kept = {} /\ phase = Final /\ run = 0 /\ verdict = "blocked"
  /\ tree = Checkout /\ seen = FALSE /\ written = 0 /\ count = 0 /\ blocked = FALSE
  /\ stored = <<>> /\ record = [p \in Phase |-> NoRecord]
  /\ proof = [p \in Phase |-> "none"]
  /\ runs = [s \in Phase \cup {Final} |-> <<>>]
  /\ report = "none" /\ contract = 0
  /\ work = <<>> /\ strays = {} /\ built = 0 /\ starts = 0

Accepted == {p \in Phase : record[p].status = "done"}
WorkIn(t) == IF t = Checkout THEN {} ELSE work[t]

-----------------------------------------------------------------------------
(* Reading the directory. *)

\* load_phase_records reads phases/phase_*/phase_record.json: the phases of
\* a goal-locked plan are named goal_phase_NNN.  Records in memory are
\* numbered in their order; those of an invocation follow the loaded ones.
LoadedRecords ==
  IF locked THEN {}
  ELSE {[phase |-> p, status |-> record[p].status, tree |-> record[p].tree, at |-> p - Phases] :
          p \in {q \in Phase : record[q].status # "none"}}

Remembers(status) ==
  kept' = kept \cup {[phase |-> phase, status |-> status, tree |-> tree, at |-> count]}

\* load_resume_state
Resumable ==
  /\ stored # <<>> /\ report # "done"
  /\ (LoadedRecords # {} \/ \E p \in Phase : stored[p] = "completed")

\* sync_plan_status_from_records
SyncedPlan ==
  [p \in Phase |->
    LET status == {r.status : r \in {s \in LoadedRecords : s.phase = p}} IN
    CASE "done" \in status -> "completed"
      [] "blocked" \in status -> "pending"
      [] OTHER -> stored[p]]

\* Mutation: a blocked phase is passed over.
ReadyAnyOrder(p) == plan[p] = "pending"

\* next_ready_phase: the phases of a goal-locked plan have the one before as
\* their prerequisite, those of an extracted roadmap have none.
Ready(p) ==
  /\ plan[p] = "pending"
  /\ locked /\ p > 1 => plan[p - 1] = "completed"
NextPhase == {p \in Phase : Ready(p) /\ \A q \in Phase : Ready(q) => p <= q}

\* revalidated_promotable_phase_record: the newest promotable attempt.
Promotable(p) == {i \in DOMAIN runs[p] : runs[p][i].result = "promotable"}
Newest(indices) == CHOOSE i \in indices : \A j \in indices : i >= j

\* Mutation: the worktree of the newest attempt, accepted or not.
LastAttemptPath ==
  IF phase = Final \/ runs[phase] = <<>> THEN Checkout ELSE runs[phase][Len(runs[phase])].tree

\* phase_repository_path: the worktree of the last accepted phase.
RepositoryPath ==
  LET done == {r \in kept : r.status = "done"} IN
  IF done = {} THEN Checkout ELSE (CHOOSE r \in done : \A s \in done : r.at >= s.at).tree

\* Mutation: an attempt with a live worker is abandoned like any other.
InterruptedOrLive(s) ==
  LET active == {i \in DOMAIN runs[s] : ~runs[s][i].marked /\ runs[s][i].state = "active"} IN
  IF active = {} THEN [mode |-> "new", run |-> 0]
                 ELSE [mode |-> "resume", run |-> Newest(active)]

(***************************************************************************)
(* interrupted_phase_resume_source: the newest attempt with a state and    *)
(* without a stop marker.  Mode "live" refuses a new attempt, "resume"     *)
(* continues that one.                                                     *)
(***************************************************************************)
Interrupted(s) ==
  LET candidates == {i \in DOMAIN runs[s] : /\ ~runs[s][i].marked
                                            /\ runs[s][i].state # "absent"}
      last == runs[s][Newest(candidates)]
  IN
  IF candidates = {} \/ last.state = "idle" THEN [mode |-> "new", run |-> 0]
  ELSE CASE last.worker = "live" -> [mode |-> "live", run |-> Newest(candidates)]
         [] last.worker \in {"completed", "lost"} ->
              [mode |-> "resume", run |-> Newest(candidates)]
         [] OTHER -> [mode |-> "new", run |-> 0]

-----------------------------------------------------------------------------
(* One invocation. *)

Down == pc' = "down" /\ UNCHANGED memory

\* bootstrap: a resumed goal-locked run keeps its objective.  The contract it
\* compiled is stored even when it refuses to go on with it.
Admitted(goal) == locked /\ Resumable => contract = goal

\* run: load or make the plan, pass the gates.
Start(goal) ==
  /\ pc = "down" /\ starts < MaxStarts
  /\ starts' = starts + 1
  /\ \E gates \in BOOLEAN :
       /\ pc' = IF gates /\ Admitted(goal) THEN "select" ELSE "down"
       /\ report' = IF ~(gates /\ Admitted(goal)) THEN "blocked"
                    ELSE IF Resumable THEN "running" ELSE report
  /\ plan' = IF Resumable THEN SyncedPlan ELSE Unplanned
  /\ kept' = IF Resumable THEN LoadedRecords ELSE {}
  /\ stored' = plan'
  /\ built' = IF Resumable THEN built ELSE goal
  /\ contract' = IF locked THEN goal ELSE contract
  /\ blocked' = FALSE /\ count' = 0 /\ phase' = Final /\ run' = 0 /\ written' = 0
  /\ verdict' = "blocked" /\ tree' = Checkout /\ seen' = FALSE
  /\ UNCHANGED <<locked, record, proof, runs, work, strays>>

\* The loop over the phases.
SelectPhase ==
  /\ pc = "select" /\ count < MaxPhases
  /\ \E p \in NextPhase :
       /\ phase' = p /\ count' = count + 1 /\ written' = 0
       /\ IF Promotable(p) # {}
            THEN LET t == runs[p][Newest(Promotable(p))].tree IN
                 /\ pc' = "record" /\ verdict' = "done" /\ tree' = t
                 /\ plan' = [plan EXCEPT ![p] = "completed"]
                 /\ kept' = {r \in kept : r.phase # p} \cup
                              {[phase |-> p, status |-> "done", tree |-> t, at |-> count + 1]}
                 /\ UNCHANGED report
            ELSE /\ pc' = "attempt" /\ report' = "running"
                 /\ plan' = [plan EXCEPT ![p] = "running"]
                 /\ kept' = {r \in kept : r.phase # p}
                 /\ UNCHANGED <<verdict, tree>>
  /\ UNCHANGED <<phaseFiles, outside, runs, work, run, seen, blocked>>

\* No phase is ready, or max_phases were run.
LeaveLoop ==
  /\ pc = "select" /\ (count >= MaxPhases \/ NextPhase = {})
  /\ pc' = "verify" /\ phase' = Final /\ count' = 0
  /\ blocked' = (NextPhase # {})
  /\ UNCHANGED <<plan, kept, run, verdict, tree, seen, written, phaseFiles, outside,
                 runs, report, work>>

\* An attempt runs in the tree of the attempt it resumes, in the tree of the
\* last accepted phase, or in a new worktree of the checkout.
AttemptTree(resumed) ==
  IF resumed # 0 THEN runs[phase][resumed].tree
  ELSE IF RepositoryPath # Checkout THEN RepositoryPath ELSE Len(work) + 1

Begun(t) == [tree |-> t, state |-> "active", worker |-> "live",
             marked |-> FALSE, result |-> "none"]

\* next_phase_run_dir: a phase with a done record uses its directory again.
BeginAttempt ==
  LET before == Interrupted(phase)
      t      == AttemptTree(before.run)
      reused == phase # Final /\ record[phase].status = "done" /\ runs[phase] # <<>>
  IN
  /\ pc = "attempt" /\ before.mode # "live" /\ Len(runs[phase]) < MaxRuns
  /\ run' = IF reused THEN 1 ELSE Len(runs[phase]) + 1
  /\ runs' = [runs EXCEPT ![phase] = IF reused THEN [@ EXCEPT ![1] = Begun(t)]
                                               ELSE Append(@, Begun(t))]
  /\ work' = IF t > Len(work) THEN Append(work, {}) ELSE work
  /\ tree' = t /\ seen' = (t = RepositoryPath)
  /\ pc' = "working"
  /\ UNCHANGED <<plan, kept, phase, verdict, written, count, blocked, phaseFiles,
                 outside, report>>

\* Mutation: the plan still says running.
RefuseRunning ==
  /\ pc = "attempt" /\ Interrupted(phase).mode = "live"
  /\ pc' = "prove" /\ verdict' = "blocked" /\ blocked' = TRUE
  /\ UNCHANGED <<plan, kept, phase, run, tree, seen, written, count, phaseFiles,
                 outside, runs, report, work>>

\* An earlier attempt still has a worker: the phase is blocked.
RefuseAttempt ==
  /\ pc = "attempt" /\ Interrupted(phase).mode = "live"
  /\ pc' = "prove" /\ verdict' = "blocked" /\ blocked' = TRUE
  /\ plan' = [plan EXCEPT ![phase] = "blocked"]
  /\ UNCHANGED <<kept, phase, run, tree, seen, written, count, phaseFiles, outside,
                 runs, report, work>>

\* No room for another attempt: the invocation ends with an exception.
TooManyAttempts ==
  /\ pc = "attempt" /\ Interrupted(phase).mode # "live"
  /\ Len(runs[phase]) = MaxRuns
  /\ Down
  /\ UNCHANGED <<phaseFiles, outside, runs, report, work>>

\* The document run ends and leaves its report; a worker's edits stay in the
\* tree.  A supervisor may have stopped it.
Answered(outcome) ==
  /\ \E marker \in BOOLEAN :
       /\ marker => outcome = "refused"
       /\ runs' = [runs EXCEPT ![phase][run] =
                    [@ EXCEPT !.state = "idle", !.worker = "none",
                              !.marked = marker, !.result = outcome]]
  /\ work' = IF outcome = "promotable" /\ phase # Final
               THEN [work EXCEPT ![tree] = @ \cup {phase}] ELSE work

\* _failure_kind looks for the word "preflight" in the whole report of the
\* document run, which has a key of that name.
FailureKind(outcome) == "environment"

\* diagnose_convergence
Decision(kind, repeats) ==
  CASE kind = "environment" -> "environment_repair"
    [] kind # "environment" /\ repeats >= 2 -> "strategy_backtrack"
    [] OTHER -> "continue"

Stops(outcome) ==
  /\ locked
  /\ \E repeats \in {0, 2} : Decision(FailureKind(outcome), repeats) # "continue"

\* The attempt is promoted, repeated with a repair document, or the phase is
\* blocked.
JudgeAttempt(outcome) ==
  LET repaired == outcome = "repairable" /\ ~Stops(outcome) /\ written < MaxRepairs IN
  /\ pc = "working" /\ phase # Final
  /\ Answered(outcome)
  /\ pc' = IF repaired THEN "attempt" ELSE "prove"
  /\ verdict' = IF outcome = "promotable" THEN "done" ELSE "blocked"
  /\ blocked' = (outcome # "promotable" /\ ~repaired)
  /\ written' = IF repaired THEN written + 1 ELSE written
  /\ plan' = [plan EXCEPT ![phase] = IF outcome = "promotable" THEN "completed"
                                     ELSE IF repaired THEN @ ELSE "blocked"]
  /\ UNCHANGED <<kept, phase, run, tree, seen, count, phaseFiles, outside, report>>

\* Mutation: the plan is saved before the record is written.
ProveAndSave ==
  /\ pc = "prove" /\ pc' = "record"
  /\ Remembers(verdict)
  /\ stored' = plan
  /\ UNCHANGED <<plan, phase, run, verdict, tree, seen, written, count, blocked,
                 record, proof, contract, outside, runs, report, work>>

(***************************************************************************)
(* record_phase: the proof of a promoted phase is what the executor saw    *)
(* change between two snapshots of RepositoryPath, and checks that it ran  *)
(* there itself.  An edit without a change it saw is accepted only as an   *)
(* existing capability, with checks that pass.                             *)
(***************************************************************************)
ProvePhase ==
  /\ pc = "prove"
  /\ \E gap \in BOOLEAN, existing \in BOOLEAN :
       LET refused == gap \/ (phase \in EditPhases /\ ~seen /\ ~existing)
           entry   == IF locked /\ verdict = "done" /\ refused THEN "blocked" ELSE verdict
       IN
       /\ verdict' = entry
       /\ blocked' = (blocked \/ entry # verdict)
       /\ plan' = IF entry # verdict THEN [plan EXCEPT ![phase] = "blocked"] ELSE plan
       /\ Remembers(entry)
       /\ proof' = IF locked /\ verdict = "done"
                     THEN [proof EXCEPT ![phase] =
                            IF seen \/ existing THEN "evidence" ELSE "empty"]
                     ELSE proof
  /\ pc' = "record"
  /\ UNCHANGED <<phase, run, tree, seen, written, count, stored, record, contract,
                 outside, runs, report, work>>

WriteRecord ==
  /\ pc = "record" /\ pc' = "save"
  /\ record' = [record EXCEPT ![phase] = [status |-> verdict, tree |-> tree]]
  /\ UNCHANGED <<memory, stored, proof, contract, outside, runs, report, work>>

\* The plan and the running report follow; a blocked phase ends the loop.
SavePlan ==
  /\ pc = "save" /\ stored' = plan /\ report' = "running"
  /\ IF verdict = "done"
       THEN pc' = "select" /\ UNCHANGED <<phase, count, blocked>>
       ELSE pc' = "verify" /\ phase' = Final /\ count' = 0 /\ blocked' = TRUE
  /\ UNCHANGED <<plan, kept, run, verdict, tree, seen, written, record, proof,
                 contract, outside, runs, work>>

-----------------------------------------------------------------------------
(* The final verification, and the hand-over. *)

\* _run_final_verification_worker; an interrupted attempt is continued in its
\* own directory.
BeginFinal ==
  LET before == Interrupted(Final)
      t      == AttemptTree(before.run)
  IN
  /\ pc = "verify" /\ ~blocked /\ before.mode # "live"
  /\ run' = IF before.run # 0 THEN before.run ELSE Len(runs[Final]) + 1
  /\ runs' = [runs EXCEPT ![Final] = IF before.run # 0 THEN [@ EXCEPT ![before.run] = Begun(t)]
                                                       ELSE Append(@, Begun(t))]
  /\ work' = IF t > Len(work) THEN Append(work, {}) ELSE work
  /\ tree' = t /\ count' = count + 1 /\ pc' = "working"
  /\ UNCHANGED <<plan, kept, phase, verdict, seen, written, blocked, phaseFiles,
                 outside, report>>

\* Mutation: it waits for the worker of the interrupted attempt.
AwaitFinal ==
  /\ pc = "verify" /\ blocked
  /\ pc' = "handover" /\ verdict' = "blocked"
  /\ UNCHANGED <<plan, kept, phase, run, tree, seen, written, count, blocked,
                 phaseFiles, outside, runs, report, work>>

RefuseFinal ==
  /\ pc = "verify" /\ (blocked \/ Interrupted(Final).mode = "live")
  /\ pc' = "handover" /\ verdict' = "blocked"
  /\ UNCHANGED <<plan, kept, phase, run, tree, seen, written, count, blocked,
                 phaseFiles, outside, runs, report, work>>

JudgeFinal(outcome) ==
  /\ pc = "working" /\ phase = Final
  /\ Answered(outcome)
  /\ pc' = IF outcome = "repairable" /\ count < MaxFinal THEN "verify" ELSE "handover"
  /\ verdict' = IF outcome = "promotable" THEN "done" ELSE "blocked"
  /\ UNCHANGED <<plan, kept, phase, run, tree, seen, written, count, blocked,
                 phaseFiles, outside, report>>

\* Mutation: only the phases of this invocation are audited.
RecordedSoFar == \A r \in kept : r.status = "done"

\* FinalSystemAudit and, if goal-locked, finalize: every phase is completed,
\* has a done record in memory, and its evidence is in the one tree that is
\* handed over.  The contract may have other gaps.
AllRecorded ==
  /\ \A p \in Phase : plan[p] = "completed"
  /\ \A p \in Phase : \E r \in kept : r.phase = p /\ r.status = "done"
ProofsHold == \A p \in EditPhases : proof[p] = "evidence"

HandOver ==
  /\ pc = "handover" /\ pc' = "down"
  /\ \E matrix \in BOOLEAN :
       report' = IF /\ ~blocked /\ verdict = "done" /\ AllRecorded
                    /\ locked => ProofsHold /\ matrix
                 THEN "done" ELSE "blocked"
  /\ UNCHANGED <<memory, phaseFiles, outside, runs, work>>

-----------------------------------------------------------------------------
(* What happens to it. *)

\* What the files say of a worker that may still be at work: a terminal status that is
\* written first, or a running one without the pid.
Hiding == {"terminal", "lost", "lostDebug"}

\* The executor dies, in the middle of an attempt or not; its worker goes on.
Crash ==
  /\ pc # "down"
  /\ IF pc = "working"
       THEN \E state \in {"absent", "active", "idle"}, worker \in RunDirWorkers,
               hidden \in BOOLEAN :
              /\ (state = "active") = (worker # "none")
              /\ hidden => worker \in Hiding
              /\ runs' = [runs EXCEPT ![phase][run] =
                           [@ EXCEPT !.state = state, !.worker = worker]]
              /\ strays' = IF hidden THEN strays \cup {tree} ELSE strays
       ELSE UNCHANGED <<runs, strays>>
  /\ Down
  /\ UNCHANGED <<phaseFiles, locked, built, starts, report, work>>

\* A worker that outlived its executor ends; nobody writes that it did.
WorkerEnds ==
  /\ \/ /\ \E s \in Phase \cup {Final}, worker \in {"lost", "lostDebug"} :
             \E i \in DOMAIN runs[s] :
               /\ runs[s][i].worker = "live"
               /\ ~(pc = "working" /\ s = phase /\ i = run)
               /\ runs' = [runs EXCEPT ![s][i].worker = worker]
        /\ UNCHANGED strays
     \/ /\ \E t \in strays : strays' = strays \ {t}
        /\ UNCHANGED runs
  /\ UNCHANGED <<pc, memory, phaseFiles, locked, built, starts, report, work>>

\* A supervisor puts a stop marker beside an attempt that was interrupted.
MarkStopped ==
  /\ \E s \in Phase \cup {Final} : \E i \in DOMAIN runs[s] :
       /\ runs[s][i].state = "active" /\ runs[s][i].worker # "live"
       /\ ~runs[s][i].marked
       /\ runs' = [runs EXCEPT ![s][i].marked = TRUE]
  /\ UNCHANGED <<pc, memory, phaseFiles, outside, report, work>>

Invocation ==
  \/ SelectPhase \/ LeaveLoop \/ BeginAttempt \/ RefuseAttempt \/ TooManyAttempts
  \/ \E outcome \in Outcomes : JudgeAttempt(outcome) \/ JudgeFinal(outcome)
  \/ ProvePhase \/ WriteRecord \/ SavePlan \/ BeginFinal \/ RefuseFinal \/ HandOver

Next ==
  \/ \E goal \in Revisions : Start(goal)
  \/ Invocation \/ Crash \/ WorkerEnds \/ MarkStopped

\* A document run ends (module Orchestrator), and the executor goes on.
Spec == Init /\ [][Next]_vars /\ WF_vars(Invocation)
=============================================================================
