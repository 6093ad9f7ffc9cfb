--------------------------- MODULE GitHubFlowProofs ---------------------------
(***************************************************************************)
(* Proofs about releases, for every set of checks and policies and any     *)
(* number of revisions and releases: what a completed release stands for   *)
(* and what is merged.                                                     *)
(***************************************************************************)
EXTENDS GitHubFlowProperties, TLAPS

Afterwards == {"merge", "viewMerge", "direct", "finish"}

\* The revision a release is about, at each of its commands.
RevisionIsReleased ==
  /\ pc \in {"checkout", "commit"} => work = released
  /\ pc = "push" => head = released
  /\ pc \in {"view", "create", "poll"} \cup Afterwards => released \in uploaded
  /\ outcome = "completed" => pc = "idle" /\ released \in uploaded

\* The checks of a pull request count as passed only if all of them were seen to pass.
ChecksAreGreen ==
  Reported(pull.checks) # {} /\ Reported(pull.checks) \subseteq {"pass", "skipping"}
    => pull.tip \in green

\* What a release has seen of the checks and of the merge.
SeenIsTrue ==
  /\ pc \in Afterwards /\ ci = "passed" => pull.tip \in green
  /\ pc \in {"merge", "viewMerge", "direct"} => ci = "passed"
  /\ pc \notin {"finish", "idle"} => merge = "none"
  /\ ci = "waived" => ~policy.collect

FlowInvariant ==
  /\ TypeOK /\ RevisionIsReleased
  /\ ChecksAreGreen /\ SeenIsTrue /\ ReportedIsGreen /\ MergesAreSound

-----------------------------------------------------------------------------
LEMMA InitialFlow == Init => FlowInvariant
<1> SUFFICES ASSUME Init PROVE FlowInvariant
  OBVIOUS
<1>1. TypeOK
  <2>1. {0, 1} \subseteq Revisions /\ 0 \in 0 .. MaxReleases
    BY FlowAssumption DEF Revisions
  <2>2. pull \in Pull
    BY <2>1 DEF Init, Pull, NoPull, NoChecks, Buckets
  <2> QED BY <2>1, <2>2 DEF Init, TypeOK
<1>2. Reported(pull.checks) = {}
  BY DEF Init, NoPull, NoChecks, Reported
<1> QED BY <1>1, <1>2
        DEF Init, FlowInvariant, RevisionIsReleased, ChecksAreGreen, SeenIsTrue, ReportedIsGreen,
            MergesAreSound, BaseIsGreen, MergeClaimsHold, Afterwards, NoPull

LEMMA PassedMeansGreen ==
  ASSUME NEW buckets, CiStatus(buckets) = "passed", buckets \subseteq Buckets \ {"absent"}
  PROVE  buckets # {} /\ buckets \subseteq {"pass", "skipping"}
BY DEF CiStatus, Buckets

LEMMA PullType ==
  ASSUME NEW p \in Pull
  PROVE  /\ p.tip \in Revisions
         /\ [p EXCEPT !.auto = TRUE] \in Pull
         /\ [p EXCEPT !.state = "merged", !.auto = FALSE] \in Pull
         /\ [p EXCEPT !.state = "closed", !.auto = FALSE] \in Pull
         /\ \A c \in Checks, b \in Buckets : [p EXCEPT !.checks[c] = b] \in Pull
BY DEF Pull, Buckets

LEMMA TipType ==
  ASSUME NEW p \in Pull, NEW r \in Revisions
  PROVE  /\ OpenPull(r) \in Pull
         /\ [p EXCEPT !.tip = r, !.checks = NoChecks] \in Pull
BY DEF Pull, OpenPull, NoChecks, Buckets

LEMMA TypeStep == TypeOK /\ [Next]_vars => TypeOK'
<1> SUFFICES ASSUME TypeOK, [Next]_vars PROVE TypeOK'
  OBVIOUS
<1> USE DEF TypeOK, vars, request, seen, local, server, history
<1>1. CASE Begin
  <2>1. work' \in Revisions /\ workflow' \in Revisions
    BY <1>1, FlowAssumption DEF Begin, Revisions
  <2>2. releases' \in 0 .. MaxReleases
    BY <1>1, FlowAssumption DEF Begin
  <2> QED BY <1>1, <2>1, <2>2 DEF Begin
<1>2. CASE CommandFails
  BY <1>2, FlowAssumption DEF CommandFails, End, Revisions
<1>3. CASE Checkout
  BY <1>3, FlowAssumption DEF Checkout, Revisions
<1>4. CASE Commit
  BY <1>4, FlowAssumption DEF Commit, Revisions
<1>5. CASE Push
  BY <1>5, FlowAssumption, TipType DEF Push, Pushed
<1>6. CASE PushAnswerLost
  BY <1>6, FlowAssumption, TipType DEF PushAnswerLost, Pushed, End
<1>7. CASE View
  BY <1>7, FlowAssumption DEF View, Revisions
<1>8. CASE Create
  BY <1>8, FlowAssumption, TipType DEF Create
<1>9. CASE CreateFails
  BY <1>9, FlowAssumption, TipType DEF CreateFails, End
<1>10. CASE Poll
  BY <1>10, FlowAssumption DEF Poll, Polled, Concluded, CiStatus, Revisions
<1>11. CASE Waive
  BY <1>11, FlowAssumption DEF Waive, Concluded, Revisions
<1>12. CASE EnableAutoMerge
  <2>1. pull' \in Pull /\ pull.tip \in Revisions
    BY <1>12, PullType DEF EnableAutoMerge, Merged
  <2> QED BY <1>12, <2>1, FlowAssumption DEF EnableAutoMerge, Merged, Revisions
<1>13. CASE ViewMerge
  BY <1>13, FlowAssumption DEF ViewMerge, Claim, Revisions
<1>14. CASE DirectMerge
  <2>1. pull' \in Pull /\ pull.tip \in Revisions
    BY <1>14, PullType DEF DirectMerge, Merged
  <2> QED BY <1>14, <2>1, FlowAssumption DEF DirectMerge, Merged, Claim, Revisions
<1>15. CASE Finish
  BY <1>15, FlowAssumption DEF Finish, End, Revisions
<1>16. CASE Deadline
  BY <1>16, FlowAssumption DEF Deadline, Revisions
<1>17. CASE Edit
  BY <1>17, FlowAssumption DEF Edit, Revisions
<1>18. CASE Crash
  BY <1>18, FlowAssumption DEF Crash, End, Revisions
<1>19. CASE CheckReports
  <2>1. pull' \in Pull /\ pull.tip \in Revisions
    <3>1. PICK c \in Checks, b \in Buckets : pull' = [pull EXCEPT !.checks[c] = b]
      BY <1>19 DEF CheckReports, Buckets
    <3> QED BY <3>1, PullType
  <2> QED BY <1>19, <2>1, FlowAssumption DEF CheckReports, Buckets, Revisions
<1>20. CASE AutoMerges
  <2>1. pull' \in Pull /\ pull.tip \in Revisions
    BY <1>20, PullType DEF AutoMerges, Merged
  <2> QED BY <1>20, <2>1, FlowAssumption DEF AutoMerges, Merged, Revisions
<1>21. CASE OperatorCloses
  <2>1. pull' \in Pull /\ pull.tip \in Revisions
    BY <1>21, PullType DEF OperatorCloses
  <2> QED BY <1>21, <2>1, FlowAssumption DEF OperatorCloses, Revisions
<1>22. CASE UNCHANGED vars
  BY <1>22
<1> QED
  BY <1>1, <1>2, <1>3, <1>4, <1>5, <1>6, <1>7, <1>8, <1>9, <1>10, <1>11, <1>12, <1>13, <1>14,
     <1>15, <1>16, <1>17, <1>18, <1>19, <1>20, <1>21, <1>22 DEF Next, Command

LEMMA RevisionStep == FlowInvariant /\ [Next]_vars => RevisionIsReleased'
<1> SUFFICES ASSUME FlowInvariant, [Next]_vars PROVE RevisionIsReleased'
  OBVIOUS
<1> USE DEF FlowInvariant, vars, request, seen, local, server, history, RevisionIsReleased,
            Afterwards
<1>1. CASE Begin
  BY <1>1 DEF Begin
<1>2. CASE CommandFails
  BY <1>2 DEF CommandFails, End
<1>3. CASE Checkout
  BY <1>3 DEF Checkout
<1>4. CASE Commit
  BY <1>4 DEF Commit
<1>5. CASE Push
  BY <1>5 DEF Push, Pushed
<1>6. CASE PushAnswerLost
  BY <1>6 DEF PushAnswerLost, Pushed, End
<1>7. CASE View
  BY <1>7 DEF View
<1>8. CASE Create
  BY <1>8 DEF Create
<1>9. CASE CreateFails
  BY <1>9 DEF CreateFails, End
<1>10. CASE Poll
  BY <1>10 DEF Poll, Polled, Concluded, MergeWanted
<1>11. CASE Waive
  BY <1>11 DEF Waive, Concluded, MergeWanted
<1>12. CASE EnableAutoMerge
  BY <1>12 DEF EnableAutoMerge, Merged
<1>13. CASE ViewMerge
  BY <1>13 DEF ViewMerge, Claim
<1>14. CASE DirectMerge
  BY <1>14 DEF DirectMerge, Merged, Claim
<1>15. CASE Finish
  BY <1>15 DEF Finish, End
<1>16. CASE Deadline
  BY <1>16 DEF Deadline
<1>17. CASE Edit
  BY <1>17 DEF Edit
<1>18. CASE Crash
  BY <1>18 DEF Crash, End
<1>19. CASE CheckReports
  BY <1>19 DEF CheckReports
<1>20. CASE AutoMerges
  BY <1>20 DEF AutoMerges, Merged
<1>21. CASE OperatorCloses
  BY <1>21 DEF OperatorCloses
<1>22. CASE UNCHANGED vars
  BY <1>22
<1> QED
  BY <1>1, <1>2, <1>3, <1>4, <1>5, <1>6, <1>7, <1>8, <1>9, <1>10, <1>11, <1>12, <1>13, <1>14,
     <1>15, <1>16, <1>17, <1>18, <1>19, <1>20, <1>21, <1>22 DEF Next, Command

LEMMA NothingReported == \A r : /\ OpenPull(r).tip = r /\ OpenPull(r).state = "open"
                               /\ Reported(OpenPull(r).checks) = {}
BY DEF OpenPull, NoChecks, Reported

LEMMA MergedPull ==
  ASSUME TypeOK, Merged
  PROVE  /\ pull'.state = "merged" /\ pull'.tip = pull.tip /\ pull'.checks = pull.checks
         /\ base' = pull.tip
BY DEF TypeOK, Pull, Merged

LEMMA PushedPull ==
  ASSUME TypeOK, Pushed
  PROVE  /\ pull'.state = pull.state
         /\ \/ pull'.tip = pull.tip /\ pull'.checks = pull.checks
            \/ Reported(pull'.checks) = {}
         /\ base' = base /\ green' = green
BY DEF TypeOK, Pull, Pushed, NoChecks, Reported

LEMMA GreenStep ==
  FlowInvariant /\ [Next]_vars =>
    (ChecksAreGreen /\ SeenIsTrue /\ ReportedIsGreen /\ MergesAreSound)'
<1> SUFFICES ASSUME FlowInvariant, [Next]_vars
             PROVE  (ChecksAreGreen /\ SeenIsTrue /\ ReportedIsGreen /\ MergesAreSound)'
  OBVIOUS
<1> USE DEF FlowInvariant, vars, request, seen, local, server, history, RevisionIsReleased,
            ChecksAreGreen,
        SeenIsTrue, ReportedIsGreen, MergesAreSound, BaseIsGreen, MergeClaimsHold, Afterwards
<1>1. CASE Begin
  BY <1>1 DEF Begin
<1>2. CASE CommandFails
  BY <1>2 DEF CommandFails, End
<1>3. CASE Checkout
  BY <1>3 DEF Checkout
<1>4. CASE Commit
  BY <1>4 DEF Commit
<1>5. CASE Push
  BY <1>5, PushedPull DEF Push
<1>6. CASE PushAnswerLost
  BY <1>6, PushedPull DEF PushAnswerLost, End
<1>7. CASE View
  BY <1>7 DEF View
<1>8. CASE Create
  BY <1>8, NothingReported DEF Create
<1>9. CASE CreateFails
  BY <1>9, NothingReported DEF CreateFails, End
<1>10. CASE Poll
  <2>1. PICK buckets \in {Reported(pull.checks), {}} : Polled(CiStatus(buckets))
    BY <1>10 DEF Poll
  <2>2. CiStatus(buckets) = "passed" => pull.tip \in green
    <3>1. Reported(pull.checks) \subseteq Buckets \ {"absent"}
      BY DEF Reported, TypeOK, Pull
    <3>2. {} \subseteq Buckets \ {"absent"}
      OBVIOUS
    <3> QED BY <2>1, <3>1, <3>2, PassedMeansGreen
  <2>3. CiStatus(buckets) # "waived"
    BY DEF CiStatus
  <2> QED BY <1>10, <2>1, <2>2, <2>3 DEF Poll, Polled, Concluded, MergeWanted
<1>11. CASE Waive
  BY <1>11 DEF Waive, Concluded, MergeWanted
<1>12. CASE EnableAutoMerge
  BY <1>12, MergedPull DEF EnableAutoMerge, TypeOK, Pull
<1>13. CASE ViewMerge
  BY <1>13 DEF ViewMerge, Claim
<1>14. CASE DirectMerge
  BY <1>14, MergedPull DEF DirectMerge, Claim
<1>15. CASE Finish
  BY <1>15 DEF Finish, End, Unhealthy, TypeOK
<1>16. CASE Deadline
  BY <1>16 DEF Deadline
<1>17. CASE Edit
  BY <1>17 DEF Edit
<1>18. CASE Crash
  BY <1>18 DEF Crash, End
<1>19. CASE CheckReports
  BY <1>19 DEF CheckReports
<1>20. CASE AutoMerges
  BY <1>20, MergedPull DEF AutoMerges
<1>21. CASE OperatorCloses
  BY <1>21 DEF OperatorCloses
<1>22. CASE UNCHANGED vars
  BY <1>22
<1> QED
  BY <1>1, <1>2, <1>3, <1>4, <1>5, <1>6, <1>7, <1>8, <1>9, <1>10, <1>11, <1>12, <1>13, <1>14,
     <1>15, <1>16, <1>17, <1>18, <1>19, <1>20, <1>21, <1>22 DEF Next, Command

LEMMA FlowHolds == Spec => []FlowInvariant
<1>1. FlowInvariant /\ [Next]_vars => FlowInvariant'
  BY TypeStep, RevisionStep, GreenStep DEF FlowInvariant
<1> QED BY <1>1, InitialFlow, PTL DEF Spec

\* Every variable of a release has its type, whatever GitHub answers.
THEOREM FlowIsTyped == Spec => []TypeOK
<1>1. FlowInvariant => TypeOK
  BY DEF FlowInvariant
<1> QED BY <1>1, FlowHolds, PTL

\* However commands fail, answers are lost and the process dies, a completed release has
\* its revision on GitHub and, when checks are collected, passed ones
\* (record_execution, wait_for_ci_status).
THEOREM CompletedReleases == Spec => []CompletedIsTrue
<1>1. FlowInvariant => CompletedIsTrue
  BY DEF FlowInvariant, RevisionIsReleased, CompletedIsTrue, ReleasedIsPushed
<1> QED BY <1>1, FlowHolds, PTL

\* Only what was seen to pass reaches the base branch, and a merge is claimed only of a
\* merged pull request (merge_pull_request, _view_pull_request_merge_state).
THEOREM SoundMerges == Spec => []MergesAreSound
<1>1. FlowInvariant => MergesAreSound
  BY DEF FlowInvariant
<1> QED BY <1>1, FlowHolds, PTL
=============================================================================
