------------------------------ MODULE TaskGraph ------------------------------
(***************************************************************************)
(* The persisted state of one run (runtime/models.py, RuntimeState) and    *)
(* the operations of runtime/task_graph_engine.py on its task graph.       *)
(*                                                                         *)
(* A RuntimeState is one record, because the code mutates one object and   *)
(* saves it as a whole: every operation of this module maps a state record *)
(* to the record the code leaves behind.  What only describes (titles,     *)
(* summaries, time stamps, history texts) is left out.                     *)
(*                                                                         *)
(* A node is a planned task or a debug node.  The id "<T>-DEBUG-<k>" of a  *)
(* debug node is the pair <<T, k>>, k being the retry count of T when T    *)
(* failed.  A debug node that was never created is "absent".               *)
(***************************************************************************)
EXTENDS Integers, FiniteSets

CONSTANTS
  Task,         \* the planned tasks of the graph
  Deps,         \* Deps[t]: the tasks t depends on
  Kind,         \* Kind[t]: what the runtime does with t
  Priority,     \* Priority[t]: the scheduling priority of t
  IdRank,       \* IdRank[t]: the position of the id of t in string order
  MaxAttempts   \* TaskNode.max_attempts

Kinds == {"work", "test", "inspection", "review", "release"}

ASSUME GraphAssumption ==
  /\ Deps \in [Task -> SUBSET Task]
  /\ Kind \in [Task -> Kinds]
  /\ Priority \in [Task -> Nat]
  /\ IdRank \in [Task -> Nat]
  /\ MaxAttempts \in Nat \ {0}
  /\ Task \cap (Task \X Nat) = {}   \* no planned task has the id of a debug node

Debug == Task \X (0 .. MaxAttempts - 1)
Node  == Task \cup Debug

\* "<T>-DEBUG-<k>".split("-DEBUG-", 1)[0]
Root(n) == IF n \in Task THEN n ELSE n[1]

Terminal == {"completed", "skipped"}
Waiting  == {"pending", "ready"}
Broken   == {"failed", "blocked"}
Status   == Terminal \cup Waiting \cup Broken \cup {"active", "absent"}

(***************************************************************************)
(* What the latest evidence item of a node says: nothing yet, a note with  *)
(* no worker result, an accepted repair, or the class of a worker result.  *)
(*   passed   completed, checks pass, confident enough to stand for a      *)
(*            failed parent                                                *)
(*   weak     completed, but with follow-ups, open wording or low          *)
(*            confidence                                                   *)
(*   dirty    completed with failing tests or a failing final-gate marker  *)
(*   handoff  partial, the rest handed to a later task of the graph        *)
(***************************************************************************)
WorkerResult ==
  {"passed", "weak", "dirty", "handoff", "partial", "failed", "blocked",
   "failed_env", "blocked_env", "timed_out", "boundary", "final_gate"}
Evidence == WorkerResult \cup {"none", "note", "accepted"}

\* Blockers without a task: operator stop, refused recovery, failed preflight.
Notice == {"stop", "recovery", "preflight"}

RunState ==
  [status   : [Node -> Status],
   retries  : [Node -> Nat],
   last     : [Node -> Evidence],
   failed   : SUBSET Node,            \* failed_tasks
   blockers : SUBSET (Node \X Nat),   \* "B-<task>-<retry_count>"
   notices  : SUBSET Notice,          \* blockers with no task_ids
   proven   : SUBSET Node,            \* lifecycle records recovered as completed
   github   : BOOLEAN,                \* a commit or a pull request is recorded
   done     : BOOLEAN]

InitialRunState ==
  [status   |-> [n \in Node |-> IF n \in Task THEN "pending" ELSE "absent"],
   retries  |-> [n \in Node |-> 0],
   last     |-> [n \in Node |-> "none"],
   failed   |-> {},
   blockers |-> {},
   notices  |-> {},
   proven   |-> {},
   github   |-> FALSE,
   done     |-> FALSE]

-----------------------------------------------------------------------------
(* Queries of the engine. *)

Exists(s)   == {n \in Node : s.status[n] # "absent"}
Finished(s) == {n \in Node : s.status[n] \in Terminal}
DepsOf(n)   == IF n \in Task THEN Deps[n] ELSE {}

\* Mutation: only a broken dependency holds a task back.
DepsUnbroken(s, n) == \A d \in DepsOf(n) : s.status[d] \notin Broken

DepsFinished(s, n) == DepsOf(n) \subseteq Finished(s)

\* Mutation: the last attempt is counted once too often.
CanRetryOnceMore(s, n) == s.retries[n] <= MaxAttempts

CanRetry(s, n) == s.retries[n] < MaxAttempts

\* Mutation: a task an earlier pass marked ready is not looked at again.
PendingOnly(s) == {n \in Node : s.status[n] = "pending" /\ DepsFinished(s, n)}

ReadyTasks(s) ==
  {n \in Node : s.status[n] \in Waiting /\ DepsFinished(s, n)}

\* get_ready_tasks also stores the new status in the nodes it returns.
MarkReady(s) ==
  [s EXCEPT !.status = [n \in Node |-> IF n \in ReadyTasks(s) THEN "ready"
                                                              ELSE s.status[n]]]

\* Mutation: a debug node inherits the priority of its parent.
ParentPriority(n) == Priority[Root(n)]

\* create_debug_task gives a debug node max(100, parent + 10).
NodePriority(n) ==
  IF n \in Task THEN Priority[n]
  ELSE IF Priority[Root(n)] > 90 THEN Priority[Root(n)] + 10 ELSE 100

IdBefore(n, m) ==
  \/ IdRank[Root(n)] < IdRank[Root(m)]
  \/ /\ Root(n) = Root(m)
     /\ m \in Debug
     /\ n \in Debug => n[2] < m[2]

\* sorted(ready, key=lambda task: (-task.priority, task.id))
Before(n, m) ==
  \/ NodePriority(n) > NodePriority(m)
  \/ NodePriority(n) = NodePriority(m) /\ IdBefore(n, m)

-----------------------------------------------------------------------------
(* Status changes of the engine, with the list updates the orchestrator     *)
(* makes beside each of them.                                               *)

MarkActive(s, n) == [s EXCEPT !.status[n] = "active"]

MarkCompleted(s, n, r) ==
  [s EXCEPT !.status[n] = "completed", !.last[n] = r, !.failed = @ \ {n}]

MarkSkipped(s, n) ==
  [s EXCEPT !.status[n] = "skipped", !.last[n] = "note", !.failed = @ \ {n}]

MarkBlocked(s, n, r) ==
  [s EXCEPT !.status[n] = "blocked", !.last[n] = r, !.failed = @ \cup {n}]

MarkFailed(s, n, r) ==
  [s EXCEPT !.status[n] = "failed", !.retries[n] = @ + 1, !.last[n] = r,
            !.failed = @ \cup {n}]

CreateDebugAndReset(s, n) ==
  LET d == <<n, s.retries[n]>>
  IN  [s EXCEPT !.status[n] = "pending",
                !.status[d] = IF @ = "absent" THEN "pending" ELSE @]

\* Mutation: the blocker is recorded under the bare task.
RecordBareBlocker(s, n) == [s EXCEPT !.blockers = @ \cup {n}]

\* _record_blocker: the id carries the retry count, and an id is recorded once.
RecordBlocker(s, n) == [s EXCEPT !.blockers = @ \cup {<<n, s.retries[n]>>}]

\* _non_partial_blocker_ids: only the operator stop lets the run continue.
HasHardBlocker(s) == s.blockers # {} \/ s.notices \ {"stop"} # {}
=============================================================================
