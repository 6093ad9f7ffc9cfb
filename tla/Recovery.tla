------------------------------ MODULE Recovery ------------------------------
(***************************************************************************)
(* runtime/recovery.py: RuntimeRecovery turns the state an earlier run     *)
(* left behind into the state a resumed run starts from.                   *)
(***************************************************************************)
EXTENDS TaskGraph

\* What a worker lifecycle file says: the process runs, ended on its own
\* (whatever its exit code and its answer), or was killed or never started.
WorkerFile == {"none", "running", "completed", "ended"}

(* _merge_worker_lifecycle_directory: a file replaces the record of its     *)
(* task; a record without a file keeps the flag an earlier recovery set.    *)
MergeWorkerFiles(s, files) ==
  [s EXCEPT !.proven = {n \in Node : \/ files[n] = "completed"
                                     \/ files[n] = "none" /\ n \in s.proven}]

Chosen(sel) == IF sel = {} THEN Node ELSE sel

Reconciled(s, sel) ==
  {n \in Chosen(sel) : s.status[n] = "active" /\ n \in s.proven}

\* Mutation: recovery resets a blocked task whatever its retry budget.
AnyBlocked(s, sel) == {n \in Chosen(sel) : s.status[n] = "blocked"}

BlockedReset(s, sel) ==
  {n \in Chosen(sel) : s.status[n] = "blocked" /\ CanRetry(s, n)}

\* Mutations: a listed failure is reset whatever its status; an interrupted
\* task is not reset.
ResetListed(s, sel) ==
  BlockedReset(s, sel) \cup
  {n \in Chosen(sel) :
     \/ s.status[n] = "active" /\ n \notin s.proven
     \/ s.status[n] = "failed" /\ CanRetry(s, n)
     \/ n \in s.failed /\ CanRetry(s, n)}
ResetInactive(s, sel) ==
  BlockedReset(s, sel) \cup
  {n \in Chosen(sel) :
     \/ s.status[n] = "failed" /\ CanRetry(s, n)
     \/ n \in s.failed /\ s.status[n] \in Waiting /\ CanRetry(s, n)}

\* Interrupted, failed, and pending tasks still listed as failed.
ResetTasks(s, sel) ==
  BlockedReset(s, sel) \cup
  {n \in Chosen(sel) :
     \/ s.status[n] = "active" /\ n \notin s.proven
     \/ s.status[n] = "failed" /\ CanRetry(s, n)
     \/ n \in s.failed /\ s.status[n] \in Waiting /\ CanRetry(s, n)}

\* prepare() reports a blocker of its own when a selected task is unknown or
\* when it found nothing to resume.
NothingToResume(s, sel) ==
  \/ ~(sel \subseteq Exists(s))
  \/ /\ ResetTasks(s, sel) = {}
     /\ Reconciled(s, sel) = {}
     /\ "stop" \notin s.notices

\* Mutations: every blocker is cleared; only those of debug nodes are.
NoBlockers(s, resumed) == {}
TaskBlockers(s, resumed) == {b \in s.blockers : b[1] \notin resumed \cap Debug}

\* The blockers a recovery leaves in place.
KeptBlockers(s, resumed) == {b \in s.blockers : b[1] \notin resumed}

Prepare(s, sel) ==
  LET reset == ResetTasks(s, sel)
      recon == Reconciled(s, sel)
  IN  [s EXCEPT
         !.status   = [n \in Node |-> IF n \in recon THEN "completed"
                                      ELSE IF n \in reset THEN "pending"
                                      ELSE s.status[n]],
         !.retries  = [n \in Node |-> IF n \in BlockedReset(s, sel)
                                      THEN s.retries[n] + 1 ELSE s.retries[n]],
         !.failed   = @ \ (reset \cup recon),
         !.blockers = KeptBlockers(s, reset \cup recon),
         !.notices  = @ \ {"stop"},
         !.done     = FALSE]
=============================================================================
