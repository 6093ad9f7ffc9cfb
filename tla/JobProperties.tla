---------------------------- MODULE JobProperties ----------------------------
(* What the job files of a project promise to its users. *)
EXTENDS RunJobs

\* Job files, the project file and the threads are well-formed
\* (server/jobs.py, RunJob).
TypeOK ==
  /\ job \in [Run -> JobFile]
  /\ paused \subseteq Run
  /\ project \in ProjectStatus
  /\ thread \in [Thread -> ThreadState]
  /\ runs \in 0 .. MaxRuns
  /\ controls \in 0 .. MaxControls
  /\ crashes \in 0 .. MaxCrashes

Executing == {"begin", "prepare", "boundary", "working"}
Executes(w) == thread[w].at \in Executing
Serves(w, r) == thread[w].at # "new" /\ thread[w].run = r

\* With one request at a time, no run directory is ever given to two workers,
\* however runs are started, paused, handed over and crash (next_run_id).
OneWorkerPerRun ==
  \A u, w \in Worker : \A r \in Run : Serves(u, r) /\ Serves(w, r) => u = w

\* A recovery run never works beside the run it recovers: by the time it exists,
\* the source run dispatches nothing any more (resume_run, active_run).
SourceIsQuiet ==
  \A u, w \in Worker :
    thread[w].source # 0 /\ Serves(u, thread[w].source) => ~Executes(u)

\* Two workers never edit for the same work at once: neither in one run directory, nor
\* as a run and its recovery (next_run_id, resume_run).
WorkersDoNotOverlap == OneWorkerPerRun /\ SourceIsQuiet

Storing(t, then) == t.at \in {"check", "write"} /\ t.then = then

\* Request t is about to hand run r over, has stored the hand-over, or creates the recovery
\* run of it.
Hands(t, r) ==
  \/ t.run = r /\ t.at = "resume" /\ t.copy.status = "paused"
  \/ t.run = r /\ (t.at = "handoff" \/ Storing(t, "handoff"))
  \/ t.source = r /\ (t.at \in {"number", "announce"} \/ Storing(t, "announce"))

\* A run is marked as handed over only when a recovery run of it exists or the
\* request is about to create it, unless the server crashed in between: the
\* result of the source run never invents a hand-over (set_result, resume_run).
ResumedIsHandedOver ==
  crashes = 0 =>
    \A r \in Run : job[r].status = "resumed" =>
      \/ \E w \in Worker : thread[w].source = r
      \/ \E c \in Client : Hands(thread[c], r)

\* A run whose stop request is stored ends: at the next boundary, or in the task
\* it is in; unless a stale write takes the request back (before_task,
\* should_stop_worker).
StopEnds ==
  \A w \in Worker, r \in Run :
    Serves(w, r) /\ job[r].stop ~> thread[w].at = "ended" \/ ~job[r].stop
=============================================================================
