------------------------ MODULE AutoIterationProperties ------------------------
(***************************************************************************)
(* What the central review and its repair runs promise.                    *)
(***************************************************************************)
EXTENDS AutoIteration

Evidences ==
  [mode : {"none", "document", "one_line", "roadmap"}, profile : Web \cup {"other"},
   looked : BOOLEAN, gaps : SUBSET (Gap \cup {"failed", "stopped"})]

Run ==
  [phase : {"none", "active", "stuck", "ended", "dead"}, job : BOOLEAN, source : 0 .. MaxRuns,
   evidence : Evidences]

\* Every variable has its type.
TypeOK ==
  /\ run \in [Runs -> Run]
  /\ plan \in [Runs -> {"none", "ready", "blocked", "started"}]
  /\ report \in [Runs -> {"none", "handoff", "skipped", "blocked", "started"}]
  /\ project \in {"intake_ready", "intake_blocked", "planned", "running", "done", "blocked",
                  "failed"}
  /\ pc \in [Clients -> {"idle", "plan", "refuse", "refused", "report", "feedback", "build",
                         "launch", "wait", "planAgain", "reportAgain"}]
  /\ source \in [Clients -> 0 .. MaxRuns] /\ repair \in [Clients -> 0 .. MaxRuns]
  /\ crashes \in 0 .. MaxCrashes

Ended == {r \in Runs : run[r].phase = "ended"}
RepairsOf(s) == {r \in Runs : run[r].source = s}

\* A run is repaired at most once, however often it is asked for, whatever happens to the
\* repair run and to the server in between: the signature beside its report is that of
\* the plan that was tried (project_service.py:969-1014, auto_iteration.py:445-456).
OneRepairPerSource == \A s \in Started : Cardinality(RepairsOf(s)) <= 1

\* What the verdicts on a run with evidence e have to do with each other.
Agree(e) ==
  /\ Decision(e) = "handoff" =>
       /\ RunStatus(e) = "done" /\ HardFailures(e) = {}
       /\ e.gaps \subseteq {"shoulds"}
       /\ CycleMissing(e) \subseteq {"audit", "testing", "full_review", "execution"}
  /\ Decision(e) = "blocked" => ReadinessIssues(e) # {}
  /\ ReadyForReview(e) =>
       e.gaps = {} /\ Decision(e) = IF HasArtifact(e) THEN "handoff" ELSE "iterate"
  /\ Decision(e) = "iterate" => RepairItems(e) # {}

\* The verdicts of gate, reports and review, each computed for itself, agree on every run:
\* what is handed over has passed its gate, without a failed check or must requirement; a
\* blocked one says why in its delivery report; and what is reported ready for review has
\* no gap, and is handed over or, where nothing can be looked at, iterated with a repair
\* to make (final_gate_report, build_document_delivery_report, build_central_review).
VerdictsAgree == \A r \in Ended : Agree(run[r].evidence)
=============================================================================
