------------------------ MODULE GitHubFlowProperties ------------------------
(***************************************************************************)
(* What a release may claim about the branch, the checks and the merge.    *)
(***************************************************************************)
EXTENDS GitHubFlow

Pull ==
  [state : {"none", "open", "closed", "merged"}, tip : Revisions,
   checks : [Checks -> Buckets], auto : BOOLEAN]

\* Every variable has its type.
TypeOK ==
  /\ pc \in {"idle", "checkout", "commit", "push", "view", "create", "poll", "merge",
             "viewMerge", "direct", "finish"}
  /\ policy \in Policies /\ late \in BOOLEAN
  /\ ci \in {"unknown", "pending", "passed", "failed", "waived"}
  /\ merge \in {"none", "merged", "auto_merge_enabled", "failed"}
  /\ outcome \in {"none", "active", "completed", "blocked", "failed"}
  /\ releases \in 0 .. MaxReleases
  /\ {released, work, head, workflow, remote, base} \subseteq Revisions
  /\ pull \in Pull
  /\ uploaded \subseteq Revisions /\ green \subseteq Revisions

\* A completed release has its revision on GitHub, also when an earlier attempt
\* committed it and lost the push (record_execution pushes without new changes too).
ReleasedIsPushed == outcome = "completed" => released \in uploaded

\* When checks are collected, a release completes only if those of the pull request it
\* reports had all passed (_execute_release_task).
ReportedIsGreen == outcome = "completed" /\ policy.collect => pull.tip \in green

\* What a completed release stands for, over lost answers, late checks and retries
\* (record_execution, wait_for_ci_status).
CompletedIsTrue == ReleasedIsPushed /\ ReportedIsGreen

\* Nothing reaches the base branch whose checks never passed (merge_pull_request).
BaseIsGreen == base \in green \cup {0}

\* A merge is reported only of a pull request that is merged and whose checks the
\* release saw pass, although the merge commands and the look at the result may fail
\* (merge_pull_request, _view_pull_request_merge_state).
MergeClaimsHold ==
  /\ merge = "merged" => pull.state = "merged"
  /\ merge # "none" => ci = "passed"

\* What is merged was seen to pass, and what is called merged is (merge_pull_request).
MergesAreSound == BaseIsGreen /\ MergeClaimsHold

\* A release ends, whatever the checks do (wait_for_ci_status).
ReleaseEnds == pc # "idle" ~> pc = "idle"
=============================================================================
