----------------------------- MODULE WorkerTask -----------------------------
(***************************************************************************)
(* One worker process after another in the same worktree: the adapter that *)
(* audits and rolls back what a worker changed (runtime/codex_worker.py)   *)
(* and the runner that starts, watches and kills it                        *)
(* (runtime/worker_lifecycle.py, POSIX branch).                            *)
(*                                                                         *)
(* The worker, its descendants, git and the operator act between any two   *)
(* steps of the adapter.  Generated files, which the adapter ignores, are  *)
(* left out.                                                               *)
(***************************************************************************)
EXTENDS Integers, Sequences, FiniteSets

CONSTANTS
  Files,     \* paths of the repository
  Tracked,   \* those in its HEAD
  Allowed,   \* the allowed files of each execution
  Watches,   \* how workers may be watched: with a time-out or not, with a way to cancel or not
  MaxGrace,  \* max_timeout_grace_extensions
  MaxEdits   \* bound on the edits

ASSUME WorkerAssumption ==
  /\ Tracked \subseteq Files /\ IsFiniteSet(Files)
  /\ Allowed \in Seq(SUBSET Files)
  /\ Watches \subseteq [limited : BOOLEAN, cancellable : BOOLEAN]
  /\ MaxGrace \in Nat /\ MaxEdits \in Nat

Executions == 1 .. Len(Allowed)

(***************************************************************************)
(* The content of a file: Absent, 0 as in HEAD, k as written by execution  *)
(* k, Late as written by a process that the adapter no longer watches,     *)
(* Before as somebody left it before the first execution.                  *)
(***************************************************************************)
Absent == -1
Late == Len(Allowed) + 1
Before == Late + 1
Contents == Absent .. Before

VARIABLES
  \* the adapter and its runner
  pc, n, snapshot, changed, result, watch, late, grace,
  \* the lifecycle file of the execution
  file,
  \* processes: helpers are in the group of the worker, daemons left it
  procs,
  \* the worktree and the index
  work, index,
  \* history: the worktree when n began, where git failed it (before or after the worker),
  \* and the edits so far
  base, blind, edits

memory   == <<snapshot, changed, watch, late, grace>>
worktree == <<work, index>>
history  == <<base, blind, edits>>
vars == <<pc, n, snapshot, changed, result, watch, late, grace, file, procs, work, index,
          base, blind, edits>>

Results ==
  {"none", "notLaunched", "timedOut", "cancelled", "boundary", "completed", "partial",
   "failed", "blocked", "crashed", "raised"}
Process == [of : Executions, kind : {"worker", "helper", "daemon"}, pipe : BOOLEAN]

Worker(k) == [of |-> k, kind |-> "worker", pipe |-> TRUE]
Group(k) == {p \in procs : p.of = k /\ p.kind # "daemon"}
Piped(k) == {p \in procs : p.of = k /\ p.pipe}

Checkout == [f \in Files |-> IF f \in Tracked THEN 0 ELSE Absent]
Unwatched == [limited |-> FALSE, cancellable |-> FALSE]
NoFile == [status |-> "none", cleanup |-> FALSE]

Init ==
  /\ pc = "idle" /\ n = 0 /\ snapshot = <<>> /\ changed = {} /\ result = "none"
  /\ watch = Unwatched /\ late = FALSE /\ grace = 0 /\ file = NoFile
  /\ procs = {}
  /\ work \in {Checkout} \cup {[Checkout EXCEPT ![f] = Before] : f \in Tracked}
  /\ index = Checkout
  /\ base = work /\ blind = {} /\ edits = 0

-----------------------------------------------------------------------------
(* Reading the worktree. *)

\* git status --porcelain; nothing when git fails or takes too long.
Status == {f \in Files : work[f] # index[f] \/ index[f] # Checkout[f]}
GitAnswers == {Status, {}}

\* git failed the adapter at this point, if it did.
Failing(failed, point) == IF failed THEN {point} ELSE {}

\* Mutation: a file that was dirty before is not looked at again.
NewlyChanged(status) == status \ DOMAIN snapshot

\* _task_changed_files
Changed(status) ==
  {f \in status \cup DOMAIN snapshot : f \in DOMAIN snapshot => work[f] # snapshot[f]}

\* _is_allowed_changed_path
OutOfScope(files) == files \ Allowed[n]

\* Mutation: everything is restored by git.
CheckedOut(f) == index[f]

\* What _rollback_files means to bring back: the snapshot, what the index has, or no file.
Restored(f) == IF f \in DOMAIN snapshot THEN snapshot[f] ELSE index[f]

\* The snapshot is in memory; git has to bring back the other files that the index has.
FromSnapshot == changed \cap DOMAIN snapshot
FromGit == {f \in changed \ DOMAIN snapshot : index[f] # Absent}

-----------------------------------------------------------------------------
(* The adapter: _execute_codex and ManagedSubprocessRunner.__call__. *)

\* The snapshot is taken, and the lifecycle file written.
Begin ==
  /\ pc = "idle" /\ n < Len(Allowed)
  /\ n' = n + 1 /\ pc' = "launch" /\ result' = "none"
  /\ \E status \in GitAnswers :
       /\ snapshot' = [f \in status |-> work[f]]
       /\ blind' = Failing(status # Status, "before")
  /\ base' = work
  /\ file' = [NoFile EXCEPT !.status = "running"]
  /\ UNCHANGED <<changed, watch, late, grace, procs, worktree, edits>>

\* The executable or its fallback is started.  A time-out of 0 or less is none, and only
\* a run with a controller can be cancelled.
Launch ==
  /\ pc = "launch" /\ pc' = "wait"
  /\ procs' = procs \cup {Worker(n)} /\ watch' \in Watches
  /\ UNCHANGED <<n, snapshot, changed, late, grace, result, file, worktree, history>>

Finish(outcome) ==
  /\ pc' = "idle" /\ result' = outcome
  /\ snapshot' = <<>> /\ changed' = {}
  /\ watch' = Unwatched /\ late' = FALSE /\ grace' = 0

\* Neither of them can be.
LaunchFails ==
  /\ pc = "launch" /\ Finish("notLaunched")
  /\ file' = [file EXCEPT !.status = "failed"]
  /\ UNCHANGED <<n, procs, worktree, history>>

\* The poll loop sees that the time is over.
Deadline ==
  /\ pc = "wait" /\ watch.limited /\ ~late /\ late' = TRUE
  /\ UNCHANGED <<pc, n, snapshot, changed, watch, grace, result, file, procs, worktree,
                 history>>

\* The progress probe (the default one answers on Windows only) may see a
\* descendant at work.
Progress == \E p \in procs : p.of = n /\ p.kind # "worker"

\* Mutation: one extension too many.
ExtendOnceMore ==
  /\ pc = "wait" /\ late /\ Worker(n) \in procs /\ grace <= MaxGrace
  /\ Progress
  /\ late' = FALSE /\ grace' = grace + 1
  /\ UNCHANGED <<pc, n, snapshot, changed, watch, result, file, procs, worktree, history>>

\* Mutation: progress extends the time for ever.
ExtendAlways ==
  /\ pc = "wait" /\ late /\ Worker(n) \in procs
  /\ Progress
  /\ late' = FALSE
  /\ UNCHANGED <<pc, n, snapshot, changed, watch, grace, result, file, procs, worktree,
                 history>>

\* The time is extended.
Extend ==
  /\ pc = "wait" /\ late /\ Worker(n) \in procs /\ grace < MaxGrace
  /\ Progress
  /\ late' = FALSE /\ grace' = grace + 1
  /\ UNCHANGED <<pc, n, snapshot, changed, watch, result, file, procs, worktree, history>>

\* The worker exits.  Pipes that descendants keep open are drained for a moment and closed,
\* but where there is nothing to poll for (no time-out, no controller) the runner waits
\* until they are closed.
WorkerEnded ==
  /\ pc = "wait" /\ ~late /\ Worker(n) \notin procs
  /\ watch # Unwatched \/ Piped(n) = {}
  /\ pc' = "audit" /\ file' = [file EXCEPT !.status = "completed"]
  /\ UNCHANGED <<n, memory, result, procs, worktree, history>>

\* Mutation: a time-out leaves nothing to clean up.
StoppedClean(status) ==
  /\ pc' = "terminate" /\ result' = status
  /\ file' = [file EXCEPT !.status = status]

\* mark_timed_out, cancel
Stopped(status) ==
  /\ pc' = "terminate" /\ result' = status
  /\ file' = [file EXCEPT !.status = status, !.cleanup = TRUE]

TimeOut ==
  /\ pc = "wait" /\ late /\ Stopped("timedOut")
  /\ UNCHANGED <<n, memory, procs, worktree, history>>

\* The operator asked for it, and the poll loop sees it.
Cancel ==
  /\ pc = "wait" /\ watch.cancellable /\ Stopped("cancelled")
  /\ UNCHANGED <<n, memory, procs, worktree, history>>

\* Mutation: only the worker is killed.
TerminateWorker ==
  /\ pc = "terminate" /\ pc' = "kill"
  /\ procs' = procs \ {Worker(n)} /\ file' = [file EXCEPT !.cleanup = FALSE]
  /\ UNCHANGED <<n, memory, result, worktree, history>>

\* terminate_process_tree: the process group is killed, if the system lets it.
Terminate ==
  /\ pc = "terminate" /\ pc' = "kill"
  /\ \E terminated \in BOOLEAN :
       /\ procs' = IF terminated THEN procs \ Group(n) ELSE procs
       /\ file' = [file EXCEPT !.cleanup = ~terminated]
  /\ UNCHANGED <<n, memory, result, worktree, history>>

\* The worker did not go, or its pipes stay open: it is killed alone.
Kill ==
  /\ pc = "kill" /\ (Worker(n) \in procs \/ Piped(n) # {})
  /\ pc' = "drain" /\ procs' = procs \ {Worker(n)}
  /\ UNCHANGED <<n, memory, result, file, worktree, history>>

\* communicate returns when the last pipe is closed.
Drained ==
  /\ pc \in {"kill", "drain"} /\ Worker(n) \notin procs /\ Piped(n) = {}
  /\ pc' = "rollback"
  /\ UNCHANGED <<n, memory, result, file, procs, worktree, history>>

\* _rollback_task_changes
Rollback ==
  /\ pc = "rollback" /\ pc' = "restore"
  /\ \E status \in GitAnswers :
       /\ changed' = Changed(status)
       /\ blind' = blind \cup Failing(status # Status, "after")
  /\ UNCHANGED <<n, snapshot, result, watch, late, grace, file, procs, worktree, base, edits>>

\* _audit_file_boundaries
Audit ==
  /\ pc = "audit"
  /\ \E status \in GitAnswers :
       LET violation == OutOfScope(Changed(status)) IN
       /\ blind' = blind \cup Failing(status # Status, "after")
       /\ changed' = violation
       /\ pc' = IF violation = {} THEN "report" ELSE "restore"
       /\ result' = IF violation = {} THEN result ELSE "boundary"
  /\ UNCHANGED <<n, snapshot, watch, late, grace, file, procs, worktree, base, edits>>

\* _rollback_files.  A file that git ls-files fails for is taken for untracked and removed;
\* whether git checkout succeeded is not looked at.
Restore ==
  /\ pc = "restore" /\ Finish(result)
  /\ \E unlisted \in SUBSET FromGit, checkedOut \in BOOLEAN :
       LET stale == IF checkedOut THEN {} ELSE FromGit \ unlisted IN
       /\ work' = [f \in Files |-> CASE f \in unlisted -> Absent
                                      [] f \in changed \ (unlisted \cup stale) -> Restored(f)
                                      [] OTHER -> work[f]]
       /\ blind' = blind \cup Failing(unlisted \cup stale # {}, "after")
  /\ UNCHANGED <<n, file, procs, index, base, edits>>

\* Mutation: git is asked before the snapshot is put back.
RaisesFirst ==
  /\ pc = "restore" /\ changed # FromSnapshot /\ Finish("raised")
  /\ \E reached \in SUBSET FromGit :
       work' = [f \in Files |-> IF f \in reached THEN Restored(f) ELSE work[f]]
  /\ blind' = blind \cup {"after"}
  /\ UNCHANGED <<n, file, procs, index, base, edits>>

\* git does not end in time or cannot be started: the exception leaves the adapter, with
\* some of the files checked out.
RestoreRaises ==
  /\ pc = "restore" /\ changed # FromSnapshot /\ Finish("raised")
  /\ \E reached \in SUBSET FromGit :
       work' = [f \in Files |-> IF f \in FromSnapshot \cup reached THEN Restored(f) ELSE work[f]]
  /\ blind' = blind \cup {"after"}
  /\ UNCHANGED <<n, file, procs, index, base, edits>>

(***************************************************************************)
(* What the output of the worker is taken for.  Markers of a usage limit   *)
(* come first, then the last JSON object with a status, then other         *)
(* failures of the CLI.                                                    *)
(***************************************************************************)
CliFailures == {"usage limit", "config failure", "connectivity failure"}
Outputs == CliFailures \cup {"text", "completed", "partial", "failed", "blocked"}
Classified(output, exited) ==
  CASE output \in CliFailures -> "blocked"
    [] output = "text" -> IF exited = 0 THEN "partial" ELSE "failed"
    [] output = "completed" -> IF exited = 0 THEN "completed" ELSE "partial"
    [] OTHER -> output

Report ==
  /\ pc = "report"
  /\ \E output \in Outputs, exited \in {0, 1} : Finish(Classified(output, exited))
  /\ UNCHANGED <<n, file, procs, worktree, history>>

\* The process of the adapter dies; the worker has a session of its own.
Crash ==
  /\ pc # "idle" /\ Finish("crashed")
  /\ UNCHANGED <<n, file, procs, worktree, history>>

-----------------------------------------------------------------------------
(* What is around it. *)

\* A worker starts a descendant (one is enough); a helper shares its pipes.
Spawn ==
  /\ \E w \in {p \in procs : p.kind = "worker"}, kind \in {"helper", "daemon"},
        pipe \in BOOLEAN :
       /\ {p \in procs : p.of = w.of} = {w} /\ (kind = "helper" => pipe)
       /\ procs' = procs \cup {[of |-> w.of, kind |-> kind, pipe |-> pipe]}
  /\ UNCHANGED <<pc, n, memory, result, file, worktree, history>>

Exit ==
  /\ \E p \in procs : procs' = procs \ {p}
  /\ UNCHANGED <<pc, n, memory, result, file, worktree, history>>

\* The adapter has not yet read what the process wrote.
Watched(p) == p.of = n /\ pc \notin {"idle", "restore", "report"}

Edit(p, f) == edits < MaxEdits /\ edits' = edits + 1 /\ p \in procs /\ f \in Files

Write ==
  /\ \E p \in procs, f \in Files :
       Edit(p, f) /\ work' = [work EXCEPT ![f] = IF Watched(p) THEN p.of ELSE Late]
  /\ UNCHANGED <<pc, n, memory, result, file, procs, index, base, blind>>

\* The worker deletes a file.
Delete ==
  /\ \E f \in Files :
       /\ Watched(Worker(n)) /\ Edit(Worker(n), f)
       /\ work' = [work EXCEPT ![f] = Absent]
  /\ UNCHANGED <<pc, n, memory, result, file, procs, index, base, blind>>

\* The worker runs git add.
Stage ==
  /\ \E f \in Files : Edit(Worker(n), f) /\ index' = [index EXCEPT ![f] = work[f]]
  /\ UNCHANGED <<pc, n, memory, result, file, procs, work, base, blind>>

-----------------------------------------------------------------------------
Adapter ==
  \/ Launch \/ LaunchFails \/ Extend \/ WorkerEnded \/ TimeOut \/ Terminate \/ Kill
  \/ Drained \/ Rollback \/ Audit \/ Restore \/ RestoreRaises \/ Report

Environment == Spawn \/ Exit \/ Write \/ Delete \/ Stage

Next == Begin \/ Adapter \/ Deadline \/ Cancel \/ Crash \/ Environment

\* The adapter is a running thread, and the time of a worker that has a time-out passes; a
\* worker need not end, and the operator need not cancel it.
Spec == Init /\ [][Next]_vars /\ WF_vars(Adapter) /\ WF_vars(Deadline)
=============================================================================
