------------------------------- MODULE Verdicts -------------------------------
(***************************************************************************)
(* From what is wrong with a run to what is done about it: the gate, the   *)
(* status, the delivery and cycle reports, the central review and the      *)
(* items of a repair plan, each computed from the ones before by a         *)
(* function of its own.                                                    *)
(*                                                                         *)
(* The evidence of a run: its mode, its artifact profile, whether a        *)
(* browser looked at it, and its gaps.  A one-line run has the gap         *)
(* "failed" or none, a roadmap "stopped" or none.  Of the weighted score   *)
(* only is known whether it is too low.                                    *)
(***************************************************************************)
EXTENDS Integers, FiniteSetsExt

\* Gaps of a document run: the loop was refused (unrun); no test task passed; tasks are
\* unfinished, or failed or blocked (broken), or that without a debug event (unrepaired);
\* a worker reported failing tests; no approval, no commit, a blocker; must requirements
\* without or with part of their coverage, others without (shoulds); a failed gate
\* marker; the score; the artifact's checks; generated CI that did not pass.
Gap == {"unrun", "untested", "unfinished", "broken", "unrepaired", "tests", "review",
        "github", "blocker", "missing", "partial", "shoulds", "marker", "score", "static",
        "browser", "gameplay", "ci"}

\* What a gap brings with it: a refused run has a blocker and open tasks, a failed task is
\* not finished, a release with open checks does not complete, a failed probe fails the
\* browser check.
Entails ==
  {<<"unrun", g>> : g \in {"blocker", "unfinished", "untested", "score", "review", "github"}}
  \cup {<<"untested", "score">>, <<"broken", "unfinished">>, <<"ci", "broken">>,
        <<"ci", "unfinished">>, <<"gameplay", "browser">>}

Closed(gaps) == gaps \cup {p[2] : p \in {q \in Entails : q[1] \in gaps}}

Web == {"canvas_game", "static_web_app"}

\* Only web artifacts are inspected, and only games are played.
Possible(profile, looked, gaps) ==
  /\ "untested" \in gaps => gaps \cap {"unfinished", "tests"} # {}
  /\ "unrepaired" \in gaps => gaps \cap {"broken", "blocker"} # {}
  /\ "static" \in gaps => profile \in Web
  /\ "browser" \in gaps => looked
  /\ "gameplay" \in gaps => profile = "canvas_game"

\* How a document run may end, with any number of gaps.
DocumentEnd(e) ==
  /\ e \in [mode : {"document"}, profile : Web \cup {"other"}, looked : BOOLEAN,
            gaps : SUBSET Gap]
  /\ \A q \in Entails : q[1] \in e.gaps => q[2] \in e.gaps
  /\ Possible(e.profile, e.looked, e.gaps)

\* How runs end, with at most n gaps that no other one brings.
DocumentEvidence(n) ==
  {e \in {[mode |-> "document", profile |-> p, looked |-> l, gaps |-> Closed(g)] :
            p \in Web \cup {"other"}, l \in BOOLEAN,
            g \in UNION {kSubset(k, Gap) : k \in 0 .. n}} :
     Possible(e.profile, e.looked, e.gaps)}

OneLineEvidence ==
  {[mode |-> "one_line", profile |-> "other", looked |-> FALSE, gaps |-> g] :
     g \in {{}, {"failed"}}}

RoadmapEvidence ==
  {[mode |-> "roadmap", profile |-> "other", looked |-> FALSE, gaps |-> g] :
     g \in {{}, {"stopped"}}}

\* How any run may end.
Ending(e) == DocumentEnd(e) \/ e \in OneLineEvidence \cup RoadmapEvidence

Evidence(n) == DocumentEvidence(n) \cup OneLineEvidence \cup RoadmapEvidence

-----------------------------------------------------------------------------
(* The gate and the status. *)

\* The gaps Evaluator.evaluate takes for hard failures.
TaskFailures == {"unfinished", "broken", "tests", "review", "github", "blocker"}
CoverageFailures == {"missing", "partial"}
ArtifactFailures == {"static", "browser", "gameplay"}
MarkerFailures == {"marker"}

Hard == TaskFailures \cup CoverageFailures \cup ArtifactFailures \cup MarkerFailures

HardFailures(e) == e.gaps \cap Hard

GateDone(e) == HardFailures(e) = {} /\ "score" \notin e.gaps

\* Mutation: a gate that was only missed by its score is not a verdict.
StatusByFailures(e) ==
  IF e.mode = "document" THEN IF HardFailures(e) = {} THEN "done" ELSE "blocked"
  ELSE IF e.gaps = {} THEN "done"
  ELSE IF e.mode = "one_line" THEN "failed" ELSE "blocked"

\* document_run_status after apply_requirement_coverage_gate: the gate has always been
\* asked, so nothing else counts.  The others say so themselves.
RunStatus(e) ==
  IF e.mode = "document" THEN IF GateDone(e) THEN "done" ELSE "blocked"
  ELSE IF e.gaps = {} THEN "done"
  ELSE IF e.mode = "one_line" THEN "failed" ELSE "blocked"

-----------------------------------------------------------------------------
(* The reports. *)

CoveragePassed(e) == e.gaps \cap {"missing", "shoulds"} = {}

\* Mutation: the readiness is that of the gate.
IssuesOfGate(e) ==
  (IF RunStatus(e) # "done" THEN {"gate"} ELSE {}) \cup HardFailures(e)

\* delivery_readiness_issues
ReadinessIssues(e) ==
  IF e.mode # "document" THEN IF RunStatus(e) = "done" THEN {} ELSE {"gate"}
  ELSE (IF RunStatus(e) # "done" THEN {"gate"} ELSE {})
       \cup HardFailures(e)
       \cup (IF CoveragePassed(e) THEN {} ELSE {"coverage"})
       \cup (e.gaps \cap {"missing", "partial", "static", "browser", "gameplay", "ci"})

ReadyForReview(e) == ReadinessIssues(e) = {}

\* The steps of build_development_cycle_report that did not pass, up to the tests ...
WorkMissing(e) ==
  (IF "unrun" \in e.gaps THEN {"long_task_state", "execution"} ELSE {})
  \cup (IF "review" \in e.gaps \/ ~CoveragePassed(e) THEN {"audit"} ELSE {})
  \cup (IF \/ e.gaps \cap {"untested", "static", "browser", "ci"} # {}
           \/ e.profile = "canvas_game" /\ (~e.looked \/ "gameplay" \in e.gaps)
        THEN {"testing"} ELSE {})

\* ... and from there.  A pull request is either simulated or real; a finished run waives
\* the other one ("delivery").
DeliveryMissing(e) ==
  (IF "unrepaired" \in e.gaps THEN {"iteration"} ELSE {})
  \cup (IF ReadyForReview(e) /\ GateDone(e) THEN {} ELSE {"full_review"})
  \cup (IF RunStatus(e) = "done" THEN {} ELSE {"delivery"})
  \cup (IF "github" \in e.gaps THEN {"merge"} ELSE {})

\* Without such a report _loop_steps of the central review looks for itself, and finds
\* neither completed tasks nor a static check in a roadmap.
CycleMissing(e) ==
  CASE e.mode = "roadmap"  -> {"execution", "testing"}
    [] e.mode = "one_line" -> {"execution"}
    [] OTHER -> WorkMissing(e) \cup DeliveryMissing(e)

-----------------------------------------------------------------------------
(* The central review. *)

\* artifact_files of a document run is never empty; a roadmap has none.
HasArtifact(e) == e.mode # "roadmap"

\* _blockers
Blockers(e) ==
  CASE e.mode = "document" -> (e.gaps \cap {"blocker"}) \cup HardFailures(e)
    [] e.mode = "roadmap"  -> e.gaps
    [] OTHER -> {}

ScorePasses(e) == IF e.mode = "document" THEN "score" \notin e.gaps ELSE e.gaps = {}

\* build_central_review for a run that has ended: ready_for_review is one of two ways
\* to be ready.
Decision(e) ==
  IF RunStatus(e) \in {"failed", "blocked"} \/ Blockers(e) # {} THEN "blocked"
  ELSE IF /\ ReadyForReview(e) \/ RunStatus(e) = "done"
          /\ HasArtifact(e)
          /\ HardFailures(e) = {}
          /\ ScorePasses(e)
  THEN "handoff"
  ELSE "iterate"

\* missing_loop_steps of an iteration
Gaps(e) ==
  CycleMissing(e)
  \cup (IF HasArtifact(e) THEN {} ELSE {"reviewable_artifact"})
  \cup (IF ScorePasses(e) THEN {} ELSE {"final_gate_score"})

\* repair_items_from_evidence: the sources of the items.  Probes other than the
\* browser's, failed cycle steps and dimension scores are looked for where no run puts
\* them.
GateItems(e) == Blockers(e) \cup HardFailures(e)
ProbeItems(e) == e.gaps \cap {"browser"}
RequirementItems(e) == e.gaps \cap CoverageFailures
ReviewItems(e) == IF Decision(e) = "iterate" THEN Gaps(e) ELSE {}

RepairItems(e) == GateItems(e) \cup ProbeItems(e) \cup RequirementItems(e) \cup ReviewItems(e)
=============================================================================
