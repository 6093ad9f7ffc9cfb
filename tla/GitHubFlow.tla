----------------------------- MODULE GitHubFlow -----------------------------
(***************************************************************************)
(* The release task of one run after another on the same branch: the       *)
(* commands of runtime/github_flow.py between the worktree, the branch on  *)
(* GitHub and its pull request, what the orchestrator concludes from them, *)
(* and the operator who closes pull requests.                              *)
(*                                                                         *)
(* A revision is a state of the files.  Commands may fail, with or without *)
(* effect; the process may die between any two of them; checks report at   *)
(* any time.  Drafts, titles and the commit identity are left out.         *)
(***************************************************************************)
EXTENDS Integers, FiniteSets

CONSTANTS
  Checks,       \* the checks a workflow reports
  Policies,     \* of a release: [collect, wait, merge : BOOLEAN]
  MaxRevision,  \* bound on the revisions
  MaxReleases   \* bound on the releases

ASSUME FlowAssumption ==
  /\ Policies \subseteq [collect : BOOLEAN, wait : BOOLEAN, merge : BOOLEAN]
  /\ MaxRevision \in Nat \ {0} /\ MaxReleases \in Nat

VARIABLES
  \* the release task, its policy, what it saw and what it said
  pc, policy, released, late, ci, merge, outcome, releases,
  \* revisions: of the worktree, of its HEAD, the first with a workflow (0: none)
  work, head, workflow,
  \* GitHub: the revision of the branch (0: no branch) and of the base, and the
  \* pull request that "gh pr view" finds for the branch
  remote, base, pull,
  \* history: the revisions that reached GitHub, those whose checks passed
  uploaded, green

seen     == <<late, ci, merge>>
request  == <<policy, released, releases>>
local    == <<work, head, workflow>>
server   == <<remote, base, pull>>
history  == <<uploaded, green>>
vars == <<pc, policy, released, late, ci, merge, outcome, releases, work, head, workflow,
          remote, base, pull, uploaded, green>>

Revisions == 0 .. MaxRevision
Buckets == {"absent", "pending", "pass", "skipping", "fail", "cancel"}
NoChecks == [c \in Checks |-> "absent"]
NoPull == [state |-> "none", tip |-> 0, checks |-> NoChecks, auto |-> FALSE]
OpenPull(tip) == [state |-> "open", tip |-> tip, checks |-> NoChecks, auto |-> FALSE]

Init ==
  /\ pc = "idle" /\ policy \in Policies /\ released = 0
  /\ late = FALSE /\ ci = "unknown" /\ merge = "none" /\ outcome = "none" /\ releases = 0
  /\ work = 1 /\ head = 0 /\ workflow \in {0, 1}
  /\ remote = 0 /\ base = 0 /\ pull = NoPull
  /\ uploaded = {} /\ green = {}

-----------------------------------------------------------------------------
(* The verdicts. *)

Reported(checks) == {checks[c] : c \in Checks} \ {"absent"}

\* Mutation: pending checks are looked at last, with a test that ignores them.
CiStatusPendingLast(buckets) ==
  IF buckets = {} THEN "unknown"
  ELSE IF buckets \cap {"fail", "cancel"} # {} THEN "failed"
  ELSE IF buckets \cap {"pass", "skipping"} # {} THEN "passed"
  ELSE "pending"

\* collect_ci_status: the buckets of the checks that were listed.
CiStatus(buckets) ==
  IF buckets = {} THEN "unknown"
  ELSE IF buckets \cap {"fail", "cancel"} # {} THEN "failed"
  ELSE IF "pending" \in buckets THEN "pending"
  ELSE "passed"

\* Mutation: no answer is no objection.
UnhealthyIfReported(status) == status \in {"failed", "pending"}

\* unhealthy_ci_status of _execute_release_task
Unhealthy(status) ==
  status \in {"failed", "pending"} \/ (policy.collect /\ status = "unknown")

\* Mutation: the merge does not ask for the checks.
MergeWheneverAsked(status) == policy.merge

\* The guards of merge_pull_request.
MergeWanted(status) == policy.merge /\ status = "passed"

-----------------------------------------------------------------------------
(* The commands of record_execution, one per action. *)

End(result) ==
  /\ pc' = "idle" /\ outcome' = result
  /\ UNCHANGED seen

\* A command that fails without a fallback: the task fails.
CommandFails ==
  /\ pc \in {"checkout", "commit", "push"} /\ End("failed")
  /\ UNCHANGED <<request, local, server, history>>

\* _execute_release_task up to its first command.  CI is generated for a static
\* site that has none, which changes the worktree.
Begin ==
  /\ pc = "idle" /\ releases < MaxReleases
  /\ policy' \in Policies
  /\ \/ work' = work /\ workflow' = workflow
     \/ /\ policy'.collect /\ workflow = 0 /\ work < MaxRevision
        /\ work' = work + 1 /\ workflow' = work + 1
  /\ released' = work' /\ releases' = releases + 1
  /\ pc' = "checkout" /\ outcome' = "active"
  /\ late' = FALSE /\ ci' = "unknown" /\ merge' = "none"
  /\ UNCHANGED <<head, server, history>>

\* git checkout -B, git add -A
Checkout ==
  /\ pc = "checkout" /\ pc' = "commit"
  /\ UNCHANGED <<request, seen, outcome, local, server, history>>

\* Mutation: a release without new changes has nothing to push.
CommitOrSkipPush ==
  /\ pc = "commit" /\ head' = work
  /\ pc' = IF head = work THEN "view" ELSE "push"
  /\ UNCHANGED <<request, seen, outcome, work, workflow, server, history>>

\* git status, and git commit if there is something to commit.
Commit ==
  /\ pc = "commit" /\ head' = work /\ pc' = "push"
  /\ UNCHANGED <<request, seen, outcome, work, workflow, server, history>>

\* What a push does on GitHub: only an open pull request follows its branch.
Pushed ==
  /\ remote' = head /\ uploaded' = uploaded \cup {head}
  /\ pull' = IF pull.state = "open" /\ pull.tip # head
             THEN [pull EXCEPT !.tip = head, !.checks = NoChecks] ELSE pull
  /\ UNCHANGED <<base, green>>

Push ==
  /\ pc = "push" /\ pc' = "view" /\ Pushed
  /\ UNCHANGED <<request, seen, outcome, local>>

\* The branch is pushed, the command fails all the same.
PushAnswerLost ==
  /\ pc = "push" /\ Pushed /\ End("failed")
  /\ UNCHANGED <<request, local>>

\* _ensure_pull_request: the pull request of the branch, whatever its state, is
\* taken; if none is found, or the query fails, one is created.
View ==
  /\ pc = "view"
  /\ \/ pull.state # "none" /\ pc' = "poll"
     \/ pc' = "create"
  /\ UNCHANGED <<request, seen, outcome, local, server, history>>

Create ==
  /\ pc = "create" /\ pull.state # "open"
  /\ pull' = OpenPull(remote)
  /\ pc' = "poll"
  /\ UNCHANGED <<request, seen, outcome, local, remote, base, history>>

\* The creation fails, or its answer is lost: a second look decides.
CreateFails ==
  /\ pc = "create"
  /\ \/ pull' = pull
     \/ pull.state # "open" /\ pull' = OpenPull(remote)
  /\ \/ pull'.state # "none" /\ pc' = "poll" /\ UNCHANGED <<seen, outcome>>
     \/ End("failed")
  /\ UNCHANGED <<request, local, remote, base, history>>

Concluded(status) ==
  /\ ci' = status
  /\ pc' = IF MergeWanted(status) THEN "merge" ELSE "finish"

\* Mutation: the wait ends with a verdict only.
PollUntilVerdict(status) ==
  IF status \in {"passed", "failed"} THEN Concluded(status) ELSE UNCHANGED <<pc, ci>>

\* wait_for_ci_status: one round; without a wait the first answer counts.
Polled(status) ==
  IF status \in {"passed", "failed"} \/ late \/ ~policy.wait
  THEN Concluded(status)
  ELSE UNCHANGED <<pc, ci>>

Poll ==
  /\ pc = "poll" /\ policy.collect
  /\ \E buckets \in {Reported(pull.checks), {}} : Polled(CiStatus(buckets))
  /\ UNCHANGED <<request, late, merge, outcome, local, server, history>>

\* Mutation: the state of a waived check, where its bucket is asked for.
WaiveAsSkipped ==
  /\ pc = "poll" /\ ~policy.collect /\ Concluded("skipped")
  /\ UNCHANGED <<request, late, merge, outcome, local, server, history>>

Waive ==
  /\ pc = "poll" /\ ~policy.collect /\ Concluded("waived")
  /\ UNCHANGED <<request, late, merge, outcome, local, server, history>>

\* ci_wait_seconds are over.
Deadline ==
  /\ pc = "poll" /\ policy.wait /\ ~late /\ late' = TRUE
  /\ UNCHANGED <<pc, request, ci, merge, outcome, local, server, history>>

-----------------------------------------------------------------------------
(* merge_pull_request. *)

Merged ==
  /\ pull' = [pull EXCEPT !.state = "merged", !.auto = FALSE]
  /\ base' = pull.tip /\ remote' = 0

Claim(result) ==
  /\ merge' = result /\ pc' = "finish"
  /\ UNCHANGED <<late, ci>>

\* gh pr merge --auto: merges what nothing holds back, is a success without
\* effect for a merged pull request, and fails for a closed one.
EnableAutoMerge ==
  /\ pc = "merge"
  /\ \/ /\ pull.state = "open" /\ pc' = "viewMerge"
        /\ Merged \/ (pull' = [pull EXCEPT !.auto = TRUE] /\ UNCHANGED <<remote, base>>)
     \/ pull.state = "merged" /\ pc' = "viewMerge" /\ UNCHANGED server
     \/ pc' = "direct" /\ UNCHANGED server
  /\ UNCHANGED <<request, seen, outcome, local, history>>

\* The state is asked for; no answer reads as not merged.
ViewMerge ==
  /\ pc = "viewMerge"
  /\ \/ pull.state = "merged" /\ Claim("merged")
     \/ Claim("auto_merge_enabled")
  /\ UNCHANGED <<request, outcome, local, server, history>>

\* Mutation: a merge command that failed is not looked into.
DirectMergeTrusted ==
  /\ pc = "direct"
  /\ \/ pull.state = "open" /\ Merged
     \/ UNCHANGED server
  /\ Claim("merged")
  /\ UNCHANGED <<request, outcome, local, history>>

\* gh pr merge, and a look at the state when it fails.
DirectMerge ==
  /\ pc = "direct"
  /\ \/ pull.state = "open" /\ Merged
     \/ UNCHANGED server
  /\ \/ pull'.state = "merged" /\ Claim("merged")
     \/ Claim("failed")
  /\ UNCHANGED <<request, outcome, local, history>>

\* The rest of _execute_release_task: a merge that failed is not held against it.
Finish ==
  /\ pc = "finish" /\ End(IF Unhealthy(ci) THEN "blocked" ELSE "completed")
  /\ UNCHANGED <<request, local, server, history>>

-----------------------------------------------------------------------------
(* The others. *)

\* Workers edit between two releases.
Edit ==
  /\ pc = "idle" /\ work < MaxRevision /\ work' = work + 1
  /\ outcome' = "none"
  /\ UNCHANGED <<pc, request, seen, head, workflow, server, history>>

Crash ==
  /\ pc # "idle" /\ End("none")
  /\ UNCHANGED <<request, local, server, history>>

\* GitHub runs the workflow of the tip.
CheckReports ==
  /\ pull.state # "none" /\ workflow # 0 /\ pull.tip >= workflow
  /\ \E c \in Checks :
       \E bucket \in CASE pull.checks[c] = "absent"  -> {"pending", "skipping"}
                       [] pull.checks[c] = "pending" -> {"pass", "fail", "cancel"}
                       [] OTHER -> {} :
         pull' = [pull EXCEPT !.checks[c] = bucket]
  /\ green' = IF Reported(pull'.checks) \subseteq {"pass", "skipping"}
              THEN green \cup {pull.tip} ELSE green
  /\ UNCHANGED <<pc, request, seen, outcome, local, remote, base, uploaded>>

\* Auto-merge goes through.  The checks are required by the repository.
AutoMerges ==
  /\ pull.state = "open" /\ pull.auto /\ pull.tip \in green /\ Merged
  /\ UNCHANGED <<pc, request, seen, outcome, local, history>>

\* GitHubPRLifecycle.run with action "close" and confirm.
OperatorCloses ==
  /\ pull.state = "open"
  /\ pull' = [pull EXCEPT !.state = "closed", !.auto = FALSE]
  /\ remote' \in {remote, 0}
  /\ UNCHANGED <<pc, request, seen, outcome, local, base, history>>

-----------------------------------------------------------------------------
Command ==
  \/ CommandFails \/ Checkout \/ Commit \/ Push \/ PushAnswerLost \/ View \/ Create
  \/ CreateFails \/ Poll \/ Waive \/ EnableAutoMerge \/ ViewMerge \/ DirectMerge \/ Finish

Next ==
  \/ Begin \/ Command \/ Deadline
  \/ Edit \/ Crash \/ CheckReports \/ AutoMerges \/ OperatorCloses

\* Commands return, one way or the other, and time passes; nothing is assumed of the
\* checks, of a pending auto-merge or of the operator.
Fairness == WF_vars(Command) /\ WF_vars(Deadline)

Spec == Init /\ [][Next]_vars /\ Fairness
=============================================================================
