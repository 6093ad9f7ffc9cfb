----------------------------- MODULE DebugRepair -----------------------------
(***************************************************************************)
(* Failure handling of runtime/orchestrator.py: what happens to a node     *)
(* that failed, to a debug node that did not repair its parent, and to a   *)
(* parent its debug node did repair.                                       *)
(***************************************************************************)
EXTENDS TaskGraph

Environment == {"failed_env", "blocked_env"}
Unproductive ==
  {"handoff", "partial", "failed", "blocked", "failed_env", "blocked_env",
   "timed_out", "boundary", "final_gate"}

OpenDebug(s) == {d \in Debug : s.status[d] \notin Terminal \cup {"absent"}}

(***************************************************************************)
(* _converge_debug_task_to_parent_retry: an open debug node is given up.   *)
(* Its parent is retried, or blocked when the debug node met a timeout or  *)
(* a broken environment, or gets a blocker when no attempt is left.        *)
(***************************************************************************)
\* Mutation: the debug node stays open when its parent is reset.
KeepDebug(s, d) == [s EXCEPT !.failed = @ \ {d}]

GiveUpDebug(s, d) == MarkSkipped(s, d)

Converge(s, d) ==
  LET root == Root(d)
      s1   == GiveUpDebug(s, d)
  IN  CASE s.status[root] \in Terminal -> s1
        [] /\ s.status[root] \notin Terminal
           /\ s.last[d] \in Environment \cup {"timed_out"}
             -> RecordBlocker(MarkBlocked(s1, root, "note"), root)
        [] /\ s.status[root] \notin Terminal
           /\ s.last[d] \notin Environment \cup {"timed_out"}
           /\ CanRetry(s, root)
             -> [s1 EXCEPT !.status[root] = "pending", !.failed = @ \ {root}]
        [] OTHER -> RecordBlocker(s1, root)

\* The debug nodes _converge_unproductive_debug_chains gives up.
UnproductiveDebug(s) ==
  {d \in OpenDebug(s) : \/ s.status[d] \in Broken
                        \/ d \in s.failed
                        \/ s.retries[d] > 0
                        \/ s.last[d] \in Unproductive}

\* _handle_failed_task, in the order of its early returns.
HandleFailed(s, n, r) ==
  CASE n \in Debug -> IF n \in OpenDebug(s) THEN Converge(s, n) ELSE s
    [] n \in Task /\ r \in Environment
         -> RecordBlocker([s EXCEPT !.status[n] = "blocked"], n)
    [] n \in Task /\ r \in {"timed_out", "boundary", "final_gate"}
         -> RecordBlocker(s, n)
    [] /\ n \in Task
       /\ r \notin Environment \cup {"timed_out", "boundary", "final_gate"}
       /\ CanRetry(s, n)
         -> CreateDebugAndReset(s, n)
    [] OTHER -> RecordBlocker(s, n)

\* The tasks _handle_retryable_failures hands to HandleFailed.
RetryableFailures(s) == {n \in Node : s.status[n] = "failed" /\ CanRetry(s, n)}

-----------------------------------------------------------------------------
(* _promote_completed_debug_repairs *)

Promotable(s) ==
  {t \in Task : /\ s.status[t] \in Broken
                /\ \E d \in Debug : /\ Root(d) = t
                                    /\ s.status[d] = "completed"
                                    /\ s.last[d] = "passed"}

\* Mutations: the blockers of a promoted task stay; its status stays.
PromoteKeepingBlockers(s) ==
  [s EXCEPT
     !.status = [n \in Node |-> IF n \in Promotable(s) THEN "completed"
                                                       ELSE s.status[n]],
     !.failed = @ \ Promotable(s)]
PromoteKeepingStatus(s) ==
  [s EXCEPT !.failed = @ \ Promotable(s),
            !.blockers = {b \in @ : b[1] \notin Promotable(s)}]

Promote(s) ==
  [s EXCEPT
     !.status   = [n \in Node |-> IF n \in Promotable(s) THEN "completed"
                                                         ELSE s.status[n]],
     !.last     = [n \in Node |-> IF n \in Promotable(s) THEN "accepted"
                                                         ELSE s.last[n]],
     !.failed   = @ \ Promotable(s),
     !.blockers = {b \in @ : b[1] \notin Promotable(s)}]

(* _prune_obsolete_debug_tasks: only a completed root makes its debug nodes *)
(* obsolete, a skipped one does not.                                        *)
Obsolete(s) == {d \in OpenDebug(s) : s.status[Root(d)] = "completed"}

Prune(s) ==
  [s EXCEPT
     !.status = [n \in Node |-> IF n \in Obsolete(s) THEN "skipped"
                                                     ELSE s.status[n]],
     !.last   = [n \in Node |-> IF n \in Obsolete(s) THEN "note"
                                                     ELSE s.last[n]],
     !.failed = @ \ Obsolete(s)]

(* _maybe_apply_repair_convergence: every open node is completed at once.   *)
\* Mutation: only the review and the release are completed early.
CompleteGates(s) ==
  [s EXCEPT !.status = [n \in Node |->
                          IF n \in Task /\ Kind[n] \in {"review", "release"}
                          THEN "completed" ELSE s.status[n]],
            !.github = TRUE]

CompleteRest(s) ==
  LET open == Exists(s) \ Finished(s)
  IN  [s EXCEPT
         !.status = [n \in Node |-> IF n \in open THEN "completed"
                                                  ELSE s.status[n]],
         !.last   = [n \in Node |-> IF n \in open THEN "accepted"
                                                  ELSE s.last[n]],
         !.failed = @ \ open,
         !.github = TRUE]
=============================================================================
