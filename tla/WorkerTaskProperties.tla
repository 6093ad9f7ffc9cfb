------------------------ MODULE WorkerTaskProperties ------------------------
EXTENDS WorkerTask

\* Typing of the adapter's memory, the lifecycle file, processes and worktree.
TypeOK ==
  /\ pc \in {"idle", "launch", "wait", "terminate", "kill", "drain", "rollback",
             "audit", "restore", "report"}
  /\ n \in {0} \cup Executions /\ result \in Results
  /\ DOMAIN snapshot \subseteq Files /\ \A f \in DOMAIN snapshot : snapshot[f] \in Contents
  /\ changed \subseteq Files /\ watch \in Watches \cup {Unwatched}
  /\ late \in BOOLEAN /\ grace \in 0 .. MaxGrace
  /\ file \in [status : {"none", "running", "failed", "completed", "timedOut", "cancelled"},
               cleanup : BOOLEAN]
  /\ procs \subseteq Process
  /\ \A image \in {work, index, base} : image \in [Files -> Contents]
  /\ blind \subseteq {"before", "after"}

\* The index of a file is as the executions before left it.
Untouched(f) == index[f] \in {Checkout[f], base[f]}

\* As when the execution began, or written by a process that nobody watches any more.
Kept(f) == work[f] = base[f] \/ work[f] = Late

Returned == pc = "idle" /\ n > 0 /\ result # "crashed"
WasStopped == result \in {"timedOut", "cancelled"}

\* Whatever the worker did, with edits of earlier tasks in the same worktree:
\* once the adapter returned and git had done all it was asked, a file outside
\* allowed_files is kept, unless the worker staged it (_audit_file_boundaries,
\* _rollback_files).
BoundaryHolds ==
  Returned /\ blind = {} => \A f \in Files \ Allowed[n] : Untouched(f) => Kept(f)

\* A worker that was timed out or cancelled leaves nothing in the worktree, and
\* edits made before it are kept, also where it was still writing while it was
\* being killed (_rollback_task_changes).
StoppedLeavesNothing ==
  Returned /\ WasStopped /\ blind = {} => \A f \in Files : Untouched(f) => Kept(f)

\* Whatever git fails at after the worker (the status, the listing, the checkout, a time-out
\* in the rollback): an edit that an earlier task had left in the worktree, of which the
\* adapter has the snapshot, is not lost where this worker had to leave it alone.  Only
\* files that were as in HEAD may then stay changed, or be gone (_capture_worktree_snapshot,
\* _rollback_files).
EarlierEditsSurvive ==
  Returned /\ "before" \notin blind =>
    \A f \in Files :
      base[f] # Checkout[f] /\ (f \notin Allowed[n] \/ WasStopped) => Kept(f)

\* The worktree after a worker is the one before it, and what the worker may change
\* (_audit_file_boundaries, _rollback_task_changes).
WorktreeIsRestored == BoundaryHolds /\ StoppedLeavesNothing /\ EarlierEditsSurvive

\* A lifecycle file that says the worker has ended, and asks for no cleanup, is
\* right, wherever the adapter died: the worker is gone, and when it was stopped
\* its process group, too (WorkerLifecycleRecorder).
EndedIsGone ==
  file.status \notin {"none", "running"} /\ ~file.cleanup =>
    /\ Worker(n) \notin procs
    /\ file.status \in {"timedOut", "cancelled"} => Group(n) = {}

\* The adapter waits with no end in sight: for a worker that has no time-out, for the
\* pipes of its descendants where it does not poll, or for those of one that was not killed.
WaitsUnlimited ==
  \/ pc = "wait" /\ ~watch.limited /\ Worker(n) \in procs
  \/ pc = "wait" /\ watch = Unwatched /\ Piped(n) # {}
  \/ pc = "drain" /\ Piped(n) # {}

\* Every execution ends, whatever the worker does, or from some time on the adapter waits
\* for ever for a process it has set no time for (_communicate_with_control, __call__): the
\* time-out is the one that max_worker_seconds gives, and 0, a default of it, is none.
ExecutionEnds == pc # "idle" ~> (pc = "idle" \/ []WaitsUnlimited)
============================================================================
