------------------------------ MODULE FinalGate ------------------------------
(***************************************************************************)
(* The hard failures of runtime/evaluator.py that depend on the task graph *)
(* and the blockers.  The weighted score and the reports other components  *)
(* put beside the state are an input of the gate.                          *)
(***************************************************************************)
EXTENDS TaskGraph

FailingResult ==
  {"dirty", "failed", "blocked", "failed_env", "blocked_env", "timed_out",
   "boundary", "final_gate"}

\* _node_has_failed_worker_result: completed debug and release nodes are exempt.
HasFailedResult(s, n) ==
  /\ ~ /\ s.status[n] = "completed"
       /\ n \in Debug \/ (n \in Task /\ Kind[n] = "release")
  /\ s.last[n] \in FailingResult

Reviews == {t \in Task : Kind[t] = "review"}

ReviewApproved(s) ==
  Reviews # {} /\ \A t \in Reviews : s.status[t] = "completed"

\* Mutation: an unresolved blocker does not count.
NoHardFailureButBlockers(s) ==
  /\ Exists(s) \subseteq Finished(s)
  /\ \A n \in Exists(s) : ~HasFailedResult(s, n)
  /\ ReviewApproved(s)
  /\ s.github

NoHardFailure(s) ==
  /\ Exists(s) \subseteq Finished(s)
  /\ \A n \in Exists(s) : ~HasFailedResult(s, n)
  /\ ReviewApproved(s)
  /\ s.github
  /\ s.blockers = {}
  /\ s.notices = {}

\* score: whether the weighted score and the attached reports pass.
Evaluate(s, score) == score /\ NoHardFailure(s)

\* _review_result: the deterministic reviewer looks at every other node.
ReviewPasses(s, r) ==
  \A n \in Exists(s) \ {r} :
    /\ s.status[n] \notin Broken
    /\ n \in Finished(s) \/ (n \in Task /\ Kind[n] = "release")
=============================================================================
