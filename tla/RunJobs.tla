------------------------------- MODULE RunJobs -------------------------------
(***************************************************************************)
(* The asynchronous runs of one project: server/jobs.py and the requests   *)
(* of server/project_service.py that start, pause, resume and stop a run.  *)
(*                                                                         *)
(* The HTTP server handles every request in a thread of its own and every  *)
(* run has a worker thread.  They share files only: one job.json per run   *)
(* and project.json, each read and replaced as a whole, without a lock.  A *)
(* step of the model is one file access.                                   *)
(*                                                                         *)
(* What a run does between its control checks is left open: module         *)
(* Orchestrator models it.                                                 *)
(***************************************************************************)
EXTENDS Integers, FiniteSets

CONSTANTS
  Client,       \* request threads, each serving one request after the other
  MaxRuns,      \* bound: requests that may create a run
  MaxControls,  \* bound: pause, stop and plan requests
  MaxCrashes    \* bound: crashes of the server

ASSUME JobAssumption ==
  /\ MaxRuns \in Nat \ {0} /\ MaxControls \in Nat /\ MaxCrashes \in Nat
  /\ Client \cap (1 .. MaxRuns) = {}

Run    == 1 .. MaxRuns    \* run_001, run_002, ...
Worker == 1 .. MaxRuns    \* worker threads, in the order they were started
Thread == Client \cup Worker

VARIABLES
  job,      \* job[r]: the job.json of run r
  paused,   \* the runs whose stored history has a run_paused entry
  project,  \* the status in project.json
  thread,   \* thread[t]: what thread t does, and what it holds in memory
  runs, controls, crashes

vars == <<job, paused, project, thread, runs, controls, crashes>>

Verdicts  == {"done", "blocked"}
Active    == {"queued", "running", "paused"}
JobStatus == Active \cup Verdicts \cup {"resumed", "failed", "absent"}
JobFile   == [status : JobStatus, pause : BOOLEAN, stop : BOOLEAN,
              result : BOOLEAN]
Startable == {"intake_ready", "planned", "done", "blocked"}
ProjectStatus == Startable \cup {"running", "paused", "failed"}

Absent == [status |-> "absent", pause |-> FALSE, stop |-> FALSE, result |-> FALSE]
Queued == [Absent EXCEPT !.status = "queued"]

(***************************************************************************)
(* at      the next file access of the thread                              *)
(* then    where it goes on after the save it is in                        *)
(* run     the run it serves, 0 if it has no number yet                    *)
(* source  resume_from_run_id, 0 if there is none                          *)
(* kind    the handler: "start" or "resume"                                *)
(* seen    the project status it read                                      *)
(* copy    the job it read, with its own changes                           *)
(* result  what the pipeline returned                                      *)
(***************************************************************************)
Places == {"new", "idle", "scan", "number", "announce", "resume", "handoff",
           "check", "write", "begin", "prepare", "boundary", "working",
           "pausing", "finish", "result", "settle", "raised", "failing", "ended"}
ThreadState ==
  [at : Places, then : Places, run : Run \cup {0}, source : Run \cup {0},
   kind : {"start", "resume"}, seen : ProjectStatus, copy : JobFile,
   result : Verdicts]

Fresh(place) ==
  [at |-> place, then |-> place, run |-> 0, source |-> 0, kind |-> "start",
   seen |-> "planned", copy |-> Absent, result |-> "blocked"]

Init ==
  /\ job = [r \in Run |-> Absent]
  /\ paused = {}
  /\ project \in {"intake_ready", "planned"}
  /\ thread = [t \in Thread |-> Fresh(IF t \in Client THEN "idle" ELSE "new")]
  /\ runs = 0 /\ controls = 0 /\ crashes = 0

Created == {r \in Run : job[r].status # "absent"}
Goes(t, place) == thread' = [thread EXCEPT ![t].at = place]
\* Thread t saves job j and goes on at `place`.
Saves(t, j, place) ==
  thread' = [thread EXCEPT ![t].at = "check", ![t].copy = j, ![t].then = place]

-----------------------------------------------------------------------------
(* JobStore.save *)

\* _preserve_resumed_status: a run that was handed over stays "resumed".
Preserve(t) ==
  LET now  == job[thread[t].run]
      copy == thread[t].copy
      keep == now.status = "resumed" /\ copy.status # "failed"
      kept == [copy EXCEPT !.status = "resumed", !.result = copy.result \/ now.result]
  IN
  /\ thread[t].at = "check"
  /\ thread' = [thread EXCEPT ![t].at = "write", ![t].copy = IF keep THEN kept ELSE copy]
  /\ UNCHANGED <<job, paused, project, runs, controls, crashes>>

\* The temporary file replaces job.json.
Replace(t) ==
  /\ thread[t].at = "write"
  /\ job' = [job EXCEPT ![thread[t].run] = thread[t].copy]
  /\ Goes(t, thread[t].then)
  /\ UNCHANGED <<paused, project, runs, controls, crashes>>

-----------------------------------------------------------------------------
(* Requests. *)

\* start_run reads the project; a project that is not startable is refused.
Start(c, source) ==
  /\ thread[c].at = "idle" /\ runs < MaxRuns
  /\ project \in Startable
  /\ source \in Created \cup {0}
  /\ runs' = runs + 1
  /\ thread' = [thread EXCEPT ![c] = [Fresh("scan") EXCEPT !.source = source,
                                                           !.seen = project]]
  /\ UNCHANGED <<job, paused, project, controls, crashes>>

\* active_run refuses the request, or build_plan makes the project planned.
Scan(c) ==
  /\ thread[c].at = "scan"
  /\ IF \E r \in Run : job[r].status \in Active
       THEN Goes(c, "idle") /\ UNCHANGED project
       ELSE /\ Goes(c, "number")
            /\ project' = IF thread[c].seen = "planned" THEN project ELSE "planned"
  /\ UNCHANGED <<job, paused, runs, controls, crashes>>

LastRun == IF Created = {} THEN 0
           ELSE CHOOSE r \in Created : \A s \in Created : r >= s

\* Mutation: a number is given again when its run was handed over.
NextFree == Cardinality({r \in Run : job[r].status \notin {"absent", "resumed"}}) + 1

NextRun == LastRun + 1

\* next_run_id; create saves the new job as queued.
Number(c) ==
  /\ thread[c].at = "number" /\ NextRun \in Run
  /\ thread' = [thread EXCEPT ![c].at = "check", ![c].then = "announce",
                              ![c].run = NextRun, ![c].copy = Queued]
  /\ UNCHANGED <<job, paused, project, runs, controls, crashes>>

\* The project is running and the worker thread starts.
Announce(c) ==
  LET t == thread[c]
      w == CHOOSE v \in Worker : /\ thread[v].at = "new"
                                 /\ \A u \in Worker : u < v => thread[u].at # "new"
  IN
  /\ t.at = "announce"
  /\ project' = "running"
  /\ thread' = [thread EXCEPT
       ![c] = Fresh("idle"),
       ![w] = [Fresh("begin") EXCEPT !.run = t.run, !.source = t.source,
                                     !.kind = t.kind]]
  /\ UNCHANGED <<job, paused, runs, controls, crashes>>

\* pause_run, stop_run: update_control reads the job.
RequestPause(c, r) ==
  /\ thread[c].at = "idle" /\ controls < MaxControls
  /\ r \in Created
  /\ controls' = controls + 1
  /\ thread' = [thread EXCEPT
       ![c] = [Fresh("check") EXCEPT !.then = "idle", !.run = r,
                                     !.copy = [job[r] EXCEPT !.pause = TRUE]]]
  /\ UNCHANGED <<job, paused, project, runs, crashes>>

RequestStop(c, r) ==
  /\ thread[c].at = "idle" /\ controls < MaxControls
  /\ r \in Created
  /\ controls' = controls + 1
  /\ thread' = [thread EXCEPT
       ![c] = [Fresh("check") EXCEPT !.then = "idle", !.run = r,
                                     !.copy = [job[r] EXCEPT !.stop = TRUE]]]
  /\ UNCHANGED <<job, paused, project, runs, crashes>>

RequestPlan(c) ==
  /\ thread[c].at = "idle" /\ controls < MaxControls
  /\ controls' = controls + 1
  /\ project' = "planned"
  /\ UNCHANGED <<job, paused, thread, runs, crashes>>

RequestResume(c, r) ==
  /\ thread[c].at = "idle" /\ runs < MaxRuns
  /\ r \in Created
  /\ runs' = runs + 1
  /\ thread' = [thread EXCEPT
       ![c] = [Fresh("check") EXCEPT !.then = "resume", !.run = r,
                                     !.copy = [job[r] EXCEPT !.pause = FALSE]]]
  /\ UNCHANGED <<job, paused, project, controls, crashes>>

\* Mutation: a run is handed over whatever its status.
ResumeAny(c) ==
  /\ thread[c].at = "resume"
  /\ Saves(c, [thread[c].copy EXCEPT !.status = "resumed"], "handoff")
  /\ UNCHANGED <<job, paused, project, runs, controls, crashes>>

\* resume_run hands a paused run over, and leaves any other alone.
Resume(c) ==
  /\ thread[c].at = "resume"
  /\ IF thread[c].copy.status = "paused"
       THEN Saves(c, [thread[c].copy EXCEPT !.status = "resumed"], "handoff")
       ELSE Goes(c, "idle")
  /\ UNCHANGED <<job, paused, project, runs, controls, crashes>>

HandOff(c) ==
  /\ thread[c].at = "handoff"
  /\ project' = "planned"
  /\ thread' = [thread EXCEPT ![c].at = "number", ![c].kind = "resume",
                              ![c].source = thread[c].run]
  /\ UNCHANGED <<job, paused, runs, controls, crashes>>

-----------------------------------------------------------------------------
(* The worker thread of a run. *)

Begin(w) ==
  /\ thread[w].at = "begin"
  /\ Saves(w, [job[thread[w].run] EXCEPT !.status = "running"], "prepare")
  /\ UNCHANGED <<job, paused, project, runs, controls, crashes>>

\* A recovery run takes over the history of its source.
PrepareRun(w) ==
  /\ thread[w].at = "prepare"
  /\ paused' = IF thread[w].source \in paused THEN paused \cup {thread[w].run}
                                              ELSE paused
  /\ Goes(w, "boundary")
  /\ UNCHANGED <<job, project, runs, controls, crashes>>

Returns(w, verdict) ==
  thread' = [thread EXCEPT ![w].at = "finish", ![w].result = verdict]

\* Mutation: the check before a task looks at the pause request only.
BoundaryWithoutStop(w) ==
  LET j == job[thread[w].run] IN
  /\ thread[w].at = "boundary"
  /\ IF j.pause THEN Saves(w, [j EXCEPT !.status = "paused"], "pausing")
                ELSE Goes(w, "working")
  /\ UNCHANGED <<job, paused, project, runs, controls, crashes>>

\* JobExecutionController.before_task
Boundary(w) ==
  LET j == job[thread[w].run] IN
  /\ thread[w].at = "boundary"
  /\ \/ /\ j.stop \/ (j.pause /\ j.status = "resumed")
        /\ Returns(w, "blocked")
     \/ /\ ~j.stop /\ j.pause /\ j.status # "resumed"
        /\ Saves(w, [j EXCEPT !.status = "paused"], "pausing")
     \/ /\ ~j.stop /\ ~j.pause
        /\ Goes(w, "working")
  /\ UNCHANGED <<job, paused, project, runs, controls, crashes>>

\* The orchestrator stores the pause in its history and the gate refuses the run.
Paused(w) ==
  /\ thread[w].at = "pausing"
  /\ paused' = paused \cup {thread[w].run}
  /\ Returns(w, "blocked")
  /\ UNCHANGED <<job, project, runs, controls, crashes>>

TaskEnds(w) ==
  /\ thread[w].at = "working"
  /\ Goes(w, "boundary")
  /\ UNCHANGED <<job, paused, project, runs, controls, crashes>>

\* should_stop_worker: the task in progress is cancelled.
Cancel(w) ==
  /\ thread[w].at = "working" /\ job[thread[w].run].stop
  /\ Returns(w, "blocked")
  /\ UNCHANGED <<job, paused, project, runs, controls, crashes>>

RunReturns(w, verdict) ==
  /\ thread[w].at = "boundary"
  /\ Returns(w, verdict)
  /\ UNCHANGED <<job, paused, project, runs, controls, crashes>>

RunRaises(w) ==
  /\ thread[w].at \in {"prepare", "boundary"}
  /\ Goes(w, "raised")
  /\ UNCHANGED <<job, paused, project, runs, controls, crashes>>

\* has_history_type: only start_run asks whether the run paused.
Verdict(w) ==
  IF thread[w].kind = "start" /\ thread[w].run \in paused THEN "paused"
                                                          ELSE thread[w].result

\* start_run looks whether the run was handed over while it ended.
Finish(w) ==
  LET j == job[thread[w].run] IN
  /\ thread[w].at = "finish"
  /\ IF thread[w].kind = "start" /\ j.status = "resumed"
       THEN Saves(w, [j EXCEPT !.result = TRUE], "settle")
       ELSE Goes(w, "result")
  /\ UNCHANGED <<job, paused, project, runs, controls, crashes>>

\* Mutation: the pause request need not have been taken back.
SetResultHanded(w) ==
  LET j == job[thread[w].run]
      handed == Verdict(w) = "paused" /\ j.status \in {"paused", "resumed"}
  IN
  /\ thread[w].at = "result"
  /\ Saves(w, [j EXCEPT !.result = TRUE,
                        !.status = IF handed THEN "resumed" ELSE Verdict(w)],
           "settle")
  /\ UNCHANGED <<job, paused, project, runs, controls, crashes>>

SetResult(w) ==
  LET j == job[thread[w].run]
      handed == Verdict(w) = "paused" /\ ~j.pause /\ j.status \in {"paused", "resumed"}
  IN
  /\ thread[w].at = "result"
  /\ Saves(w, [j EXCEPT !.result = TRUE,
                        !.status = IF handed THEN "resumed" ELSE Verdict(w)],
           "settle")
  /\ UNCHANGED <<job, paused, project, runs, controls, crashes>>

Ended(t) == [Fresh("ended") EXCEPT !.run = t.run, !.source = t.source,
                                    !.kind = t.kind]

\* Mutation: the project gets the status of the job.
SettleJobStatus(w) ==
  /\ thread[w].at = "settle"
  /\ project' = job[thread[w].run].status
  /\ thread' = [thread EXCEPT ![w] = Ended(@)]
  /\ UNCHANGED <<job, paused, runs, controls, crashes>>

Settle(w) ==
  /\ thread[w].at = "settle"
  /\ project' = Verdict(w)
  /\ thread' = [thread EXCEPT ![w] = Ended(@)]
  /\ UNCHANGED <<job, paused, runs, controls, crashes>>

Raised(w) ==
  /\ thread[w].at = "raised"
  /\ Saves(w, [job[thread[w].run] EXCEPT !.status = "failed"], "failing")
  /\ UNCHANGED <<job, paused, project, runs, controls, crashes>>

Failing(w) ==
  /\ thread[w].at = "failing"
  /\ project' = "failed"
  /\ thread' = [thread EXCEPT ![w] = Ended(@)]
  /\ UNCHANGED <<job, paused, runs, controls, crashes>>

-----------------------------------------------------------------------------
\* All threads are daemon threads of the server.
ServerCrash ==
  /\ crashes < MaxCrashes
  /\ crashes' = crashes + 1
  /\ thread' = [t \in Thread |->
       IF t \in Client THEN Fresh("idle")
       ELSE IF thread[t].at = "new" THEN thread[t]
       ELSE Ended(thread[t])]
  /\ UNCHANGED <<job, paused, project, runs, controls>>

Serve(c) == Scan(c) \/ Number(c) \/ Announce(c) \/ Resume(c) \/ HandOff(c)
Work(w) ==
  \/ Begin(w) \/ PrepareRun(w) \/ Boundary(w) \/ Paused(w) \/ TaskEnds(w)
  \/ Cancel(w) \/ Finish(w) \/ SetResult(w) \/ Settle(w) \/ Raised(w)
  \/ Failing(w)
  \/ RunRaises(w) \/ \E v \in Verdicts : RunReturns(w, v)
Saving(t) == Preserve(t) \/ Replace(t)
Request(c) ==
  \/ RequestPlan(c)
  \/ \E r \in Run \cup {0} : Start(c, r)
  \/ \E r \in Run : RequestPause(c, r) \/ RequestStop(c, r) \/ RequestResume(c, r)

Next ==
  \/ \E c \in Client : Request(c) \/ Serve(c)
  \/ \E w \in Worker : Work(w)
  \/ \E t \in Thread : Saving(t)
  \/ ServerCrash

Spec == Init /\ [][Next]_vars

\* Every thread that was started runs on until it ends.
FairSpec ==
  /\ Spec
  /\ \A c \in Client : WF_vars(Serve(c) \/ Saving(c))
  /\ \A w \in Worker : WF_vars(Work(w) \/ Saving(w))
=============================================================================
