-------------------------- MODULE AutoIterationProofs --------------------------
(***************************************************************************)
(* Proofs about verdicts and repair runs: the verdicts on every run that   *)
(* may end, with any number of gaps; the state of any number of clients;   *)
(* and, for one client at a time, that no run is repaired twice.           *)
(***************************************************************************)
EXTENDS AutoIterationProperties, FiniteSetTheorems, TLAPS

-----------------------------------------------------------------------------
(* Verdicts. *)

\* What a gap brings with it, without the table.
LEMMA GapsEntail ==
  ASSUME NEW e, DocumentEnd(e)
  PROVE  /\ "unrun" \in e.gaps => "blocker" \in e.gaps
         /\ "untested" \in e.gaps => "score" \in e.gaps
         /\ "broken" \in e.gaps => "unfinished" \in e.gaps
         /\ "ci" \in e.gaps => "broken" \in e.gaps
         /\ "gameplay" \in e.gaps => "browser" \in e.gaps
         /\ "unrepaired" \in e.gaps => "broken" \in e.gaps \/ "blocker" \in e.gaps
<1>1. \A a, b : <<a, b>> \in Entails /\ a \in e.gaps => b \in e.gaps
  BY DEF DocumentEnd
<1>2. /\ <<"unrun", "blocker">> \in Entails /\ <<"untested", "score">> \in Entails
      /\ <<"broken", "unfinished">> \in Entails /\ <<"ci", "broken">> \in Entails
      /\ <<"gameplay", "browser">> \in Entails
  BY DEF Entails
<1> QED BY <1>1, <1>2 DEF DocumentEnd, Possible

LEMMA DocumentsAgree == ASSUME NEW e, DocumentEnd(e) PROVE Agree(e)
<1> USE GapsEntail DEF RunStatus, GateDone, HardFailures, Hard, TaskFailures, CoverageFailures,
         ArtifactFailures, MarkerFailures, CoveragePassed, HasArtifact, ScorePasses, Blockers
<1>0. e.mode = "document" /\ e.gaps \subseteq Gap
  BY DEF DocumentEnd
<1>1. Decision(e) = "handoff" \/ Decision(e) = "iterate" => RunStatus(e) = "done"
  BY <1>0 DEF Decision
<1>2. RunStatus(e) = "done" => HardFailures(e) = {} /\ e.gaps \subseteq {"shoulds"}
  BY <1>0 DEF Gap
<1>3. RunStatus(e) = "done" => Decision(e) = "handoff"
  BY <1>0, <1>2 DEF Decision
<1>4. RunStatus(e) = "done" =>
        CycleMissing(e) \subseteq {"audit", "testing", "full_review", "execution"}
  BY <1>0, <1>2 DEF CycleMissing, WorkMissing, DeliveryMissing
<1>5. RunStatus(e) # "done" => ReadinessIssues(e) # {}
  BY <1>0 DEF ReadinessIssues
<1>6. ReadyForReview(e) => RunStatus(e) = "done" /\ e.gaps = {}
  <2>1. ReadyForReview(e) => RunStatus(e) = "done" /\ "shoulds" \notin e.gaps
    BY <1>0 DEF ReadyForReview, ReadinessIssues
  <2> QED BY <1>2, <2>1
<1>7. Decision(e) = "blocked" => RunStatus(e) # "done"
  BY <1>3
<1> QED BY <1>0, <1>1, <1>2, <1>3, <1>4, <1>5, <1>6, <1>7 DEF Agree

LEMMA OthersAgree ==
  ASSUME NEW e \in OneLineEvidence \cup RoadmapEvidence
  PROVE  Agree(e)
<1>1. CASE e.mode = "one_line" /\ e.gaps \in {{}, {"failed"}}
  BY <1>1 DEF Agree, Decision, RunStatus, HardFailures, Hard, TaskFailures, CoverageFailures,
              ArtifactFailures, MarkerFailures, CycleMissing, ReadinessIssues, ReadyForReview,
              HasArtifact, ScorePasses, Blockers
<1>2. CASE e.mode = "roadmap" /\ e.gaps \in {{}, {"stopped"}}
  BY <1>2 DEF Agree, Decision, RunStatus, HardFailures, Hard, TaskFailures, CoverageFailures,
              ArtifactFailures, MarkerFailures, CycleMissing, ReadinessIssues, ReadyForReview,
              HasArtifact, ScorePasses, Blockers, RepairItems, ReviewItems, Gaps
<1> QED BY <1>1, <1>2 DEF OneLineEvidence, RoadmapEvidence

LEMMA EndingsAgree == ASSUME NEW e, Ending(e) PROVE Agree(e)
BY DocumentsAgree, OthersAgree DEF Ending

-----------------------------------------------------------------------------
(* The state. *)

\* Clients that may still start a run.
Reserved == {c \in Clients : pc[c] \in {"plan", "report", "feedback", "build", "launch"}}

\* Runs are numbered as they start, and one is left for each of these clients.
Slots ==
  /\ Started = 1 .. Cardinality(Started)
  /\ Cardinality(Started) + Cardinality(Reserved) <= MaxRuns

EndedHaveVerdicts == \A r \in Ended : Ending(run[r].evidence)

StateInvariant == TypeOK /\ Slots /\ EndedHaveVerdicts

LEMMA EvidenceType ==
  /\ \A e : Ending(e) => e \in Evidences
  /\ NoEvidence \in Evidences /\ NoRun \in Run
  /\ \A e : RunStatus(e) \in {"done", "blocked", "failed"}
<1>1. ASSUME NEW e, DocumentEnd(e) PROVE e \in Evidences
  BY <1>1 DEF DocumentEnd, Evidences
<1>2. ASSUME NEW e \in OneLineEvidence \cup RoadmapEvidence PROVE e \in Evidences
  <2>1. PICK m \in {"one_line", "roadmap"}, g \in {{}, {"failed"}, {"stopped"}} :
          e = [mode |-> m, profile |-> "other", looked |-> FALSE, gaps |-> g]
    BY <1>2 DEF OneLineEvidence, RoadmapEvidence
  <2>2. g \subseteq Gap \cup {"failed", "stopped"}
    OBVIOUS
  <2> QED BY <2>1, <2>2 DEF Evidences
<1>3. NoEvidence \in Evidences
  BY DEF NoEvidence, Evidences
<1>4. NoRun \in Run
  BY <1>3, IterationAssumption DEF NoRun, Run
<1>5. \A e : RunStatus(e) \in {"done", "blocked", "failed"}
  BY DEF RunStatus
<1> QED BY <1>1, <1>2, <1>3, <1>4, <1>5 DEF Ending

LEMMA RunType ==
  ASSUME NEW x \in Run
  PROVE  /\ \A e \in Evidences : [x EXCEPT !.phase = "ended", !.evidence = e] \in Run
         /\ \A p \in {"ended", "dead", "stuck"} : [x EXCEPT !.phase = p] \in Run
         /\ x.source \in 0 .. MaxRuns /\ x.job \in BOOLEAN /\ x.evidence \in Evidences
BY DEF Run

LEMMA FiniteFacts ==
  /\ IsFiniteSet(Started) /\ Cardinality(Started) \in Nat
  /\ IsFiniteSet(Reserved) /\ Cardinality(Reserved) \in Nat
<1>1. IsFiniteSet(Runs)
  BY FS_Interval, IterationAssumption DEF Runs
<1>2. IsFiniteSet(Started) /\ IsFiniteSet(Reserved)
  BY <1>1, FS_Subset, IterationAssumption DEF Started, Reserved
<1> QED BY <1>2, FS_CardinalityType

\* A client gives up its reservation, or keeps it.
LEMMA FewerReserved ==
  ASSUME Slots, Started' = Started, Reserved' \subseteq Reserved
  PROVE  Slots'
<1>1. Cardinality(Reserved') <= Cardinality(Reserved) /\ Cardinality(Reserved') \in Nat
  BY FiniteFacts, FS_Subset, FS_CardinalityType
<1> QED BY <1>1, FiniteFacts, IterationAssumption DEF Slots

\* A run is started.
LEMMA RunStarted ==
  ASSUME TypeOK, Slots, NEW job \in BOOLEAN, NEW of \in 0 .. MaxRuns, NewRun(job, of),
         Cardinality(Started) < MaxRuns
  PROVE  /\ run' \in [Runs -> Run]
         /\ Cardinality(Started) + 1 \in Runs
         /\ Started' = Started \cup {Cardinality(Started) + 1}
         /\ Cardinality(Started') = Cardinality(Started) + 1
         /\ Started' = 1 .. Cardinality(Started')
         /\ Ended' = Ended /\ \A r \in Ended : run'[r] = run[r]
<1> DEFINE k == Cardinality(Started)
<1>1. PICK mode \in Modes :
        run' = [run EXCEPT ![k + 1] =
                  [phase |-> "active", job |-> job, source |-> of,
                   evidence |-> [NoEvidence EXCEPT !.mode = mode]]]
  BY DEF NewRun
<1>2. k \in Nat /\ k + 1 \in Runs /\ k + 1 \notin Started
  BY FiniteFacts, IterationAssumption DEF Slots, Runs
<1>3. [NoEvidence EXCEPT !.mode = mode] \in Evidences
  BY DEF Modes, NoEvidence, Evidences
<1>4. [phase |-> "active", job |-> job, source |-> of,
       evidence |-> [NoEvidence EXCEPT !.mode = mode]] \in Run
  BY <1>3 DEF Run
<1>5. run' \in [Runs -> Run] /\ run'[k + 1].phase = "active"
      /\ \A r \in Runs \ {k + 1} : run'[r] = run[r]
  BY <1>1, <1>2, <1>4 DEF TypeOK
<1>6. Started' = Started \cup {k + 1}
  BY <1>2, <1>5 DEF Started
<1>7. Cardinality(Started') = k + 1
  BY <1>2, <1>6, FS_AddElement, FiniteFacts
<1>8. Started' = 1 .. (k + 1)
  BY <1>2, <1>6 DEF Slots
<1>9. Ended' = Ended /\ \A r \in Ended : run'[r] = run[r]
  BY <1>2, <1>5 DEF Ended, Started
<1> QED BY <1>2, <1>5, <1>6, <1>7, <1>8, <1>9

LEMMA StateStep == StateInvariant /\ [Next]_vars => StateInvariant'
<1> SUFFICES ASSUME StateInvariant, [Next]_vars PROVE StateInvariant'
  OBVIOUS
<1> USE DEF StateInvariant
<1> DEFINE SameRuns == run' = run /\ Reserved' \subseteq Reserved
<1>1. ASSUME SameRuns, TypeOK' PROVE StateInvariant'
  <2>1. Started' = Started /\ Ended' = Ended
    BY <1>1 DEF Started, Ended
  <2> QED BY <1>1, <2>1, FewerReserved DEF EndedHaveVerdicts
<1>2. ASSUME NEW c \in Clients, RefusePlan(c) PROVE StateInvariant'
  <2>1. SameRuns
    BY <1>2 DEF RefusePlan, GoTo, TypeOK, Reserved, files
  <2>2. TypeOK'
    BY <1>2 DEF RefusePlan, GoTo, TypeOK, files
  <2> QED BY <1>1, <2>1, <2>2
<1>3. ASSUME NEW c \in Clients, RefuseReport(c) PROVE StateInvariant'
  <2>1. SameRuns
    BY <1>3 DEF RefuseReport, GoTo, TypeOK, Reserved, files
  <2>2. TypeOK'
    BY <1>3 DEF RefuseReport, GoTo, TypeOK, files, FirstReport
  <2> QED BY <1>1, <2>1, <2>2
<1>4. ASSUME NEW c \in Clients, WritePlan(c) PROVE StateInvariant'
  <2>1. SameRuns
    BY <1>4 DEF WritePlan, GoTo, TypeOK, Reserved, files
  <2>2. TypeOK'
    BY <1>4 DEF WritePlan, GoTo, TypeOK, files
  <2> QED BY <1>1, <2>1, <2>2
<1>5. ASSUME NEW c \in Clients, WriteReport(c) PROVE StateInvariant'
  <2>1. SameRuns
    BY <1>5 DEF WriteReport, GoTo, TypeOK, Reserved, files
  <2>2. TypeOK'
    BY <1>5 DEF WriteReport, GoTo, TypeOK, files, FirstReport
  <2> QED BY <1>1, <2>1, <2>2
<1>6. ASSUME NEW c \in Clients, AddFeedback(c) PROVE StateInvariant'
  <2>1. SameRuns
    BY <1>6 DEF AddFeedback, GoTo, TypeOK, Reserved, files
  <2>2. TypeOK'
    BY <1>6 DEF AddFeedback, GoTo, TypeOK, files
  <2> QED BY <1>1, <2>1, <2>2
<1>7. ASSUME NEW c \in Clients, BuildPlan(c) PROVE StateInvariant'
  <2>1. SameRuns
    BY <1>7 DEF BuildPlan, GoTo, TypeOK, Reserved, files
  <2>2. TypeOK'
    BY <1>7 DEF BuildPlan, GoTo, TypeOK, files
  <2> QED BY <1>1, <2>1, <2>2
<1>8. ASSUME NEW c \in Clients, StartIsRefused(c) PROVE StateInvariant'
  <2>1. SameRuns
    BY <1>8 DEF StartIsRefused, GoTo, TypeOK, Reserved, files
  <2>2. TypeOK'
    BY <1>8 DEF StartIsRefused, GoTo, TypeOK, files
  <2> QED BY <1>1, <2>1, <2>2
<1>9. ASSUME NEW c \in Clients, Returned(c) PROVE StateInvariant'
  <2>1. SameRuns
    BY <1>9 DEF Returned, GoTo, TypeOK, Reserved, files
  <2>2. TypeOK'
    BY <1>9 DEF Returned, GoTo, TypeOK, files
  <2> QED BY <1>1, <2>1, <2>2
<1>10. ASSUME NEW c \in Clients, NEW r \in Runs, Preview(c, r) PROVE StateInvariant'
  <2>1. TypeOK'
    BY <1>10, IterationAssumption DEF Preview, GoTo, TypeOK, files, Runs
  <2>2. CASE ~Allowed(r)
    <3>1. SameRuns
      BY <1>10, <2>2 DEF Preview, GoTo, TypeOK, Reserved
    <3> QED BY <1>1, <2>1, <3>1
  <2>3. CASE Allowed(r)
    <3>1. Cardinality(Started) + Cardinality(Reserved) < MaxRuns
      BY <1>10, <2>3 DEF Preview, Room, Reserved
    <3>2. Reserved' = Reserved \cup {c} /\ c \notin Reserved
      BY <1>10, <2>3 DEF Preview, GoTo, TypeOK, Reserved
    <3>3. Cardinality(Reserved') = Cardinality(Reserved) + 1
      BY <3>2, FS_AddElement, FiniteFacts
    <3>4. run' = run /\ Started' = Started /\ Ended' = Ended
      BY <1>10 DEF Preview, Started, Ended
    <3>5. Slots'
      BY <3>1, <3>3, <3>4, FiniteFacts, IterationAssumption DEF Slots
    <3> QED BY <2>1, <3>4, <3>5 DEF EndedHaveVerdicts
  <2> QED BY <2>2, <2>3
<1>11. ASSUME NEW c \in Clients, StartRun(c) PROVE StateInvariant'
  <2>1. c \in Reserved /\ Reserved' = Reserved \ {c}
    BY <1>11 DEF StartRun, GoTo, TypeOK, Reserved
  <2>2. Cardinality(Reserved') = Cardinality(Reserved) - 1 /\ Cardinality(Reserved) >= 1
    BY <2>1, FS_RemoveElement, FS_EmptySet, FiniteFacts
  <2>3. Cardinality(Started) < MaxRuns
    BY <2>2, FiniteFacts, IterationAssumption DEF Slots
  <2>4. source[c] \in 0 .. MaxRuns /\ NewRun(TRUE, source[c])
    BY <1>11 DEF StartRun, Launch, TypeOK
  <2> DEFINE k == Cardinality(Started)
  <2>5. /\ run' \in [Runs -> Run] /\ k + 1 \in Runs
        /\ Cardinality(Started') = k + 1 /\ Started' = 1 .. Cardinality(Started')
        /\ Ended' = Ended /\ \A r \in Ended : run'[r] = run[r]
    BY <2>3, <2>4, RunStarted
  <2>6. TypeOK'
    BY <1>11, <2>5, IterationAssumption DEF StartRun, Launch, GoTo, TypeOK, files, Runs
  <2>7. Slots'
    BY <2>2, <2>5, FiniteFacts, IterationAssumption DEF Slots
  <2>8. EndedHaveVerdicts'
    BY <2>5 DEF EndedHaveVerdicts
  <2> QED BY <2>6, <2>7, <2>8
<1>12. ASSUME NEW c \in Clients, RunProject(c) PROVE StateInvariant'
  <2>1. c \in Reserved /\ Reserved' = Reserved \ {c}
    BY <1>12 DEF RunProject, GoTo, TypeOK, Reserved
  <2>2. Cardinality(Reserved') = Cardinality(Reserved) - 1 /\ Cardinality(Reserved) >= 1
    BY <2>1, FS_RemoveElement, FS_EmptySet, FiniteFacts
  <2>3. Cardinality(Started) < MaxRuns
    BY <2>2, FiniteFacts, IterationAssumption DEF Slots
  <2>4. source[c] \in 0 .. MaxRuns /\ NewRun(FALSE, source[c])
    BY <1>12 DEF RunProject, Launch, TypeOK
  <2> DEFINE k == Cardinality(Started)
  <2>5. /\ run' \in [Runs -> Run] /\ k + 1 \in Runs
        /\ Cardinality(Started') = k + 1 /\ Started' = 1 .. Cardinality(Started')
        /\ Ended' = Ended /\ \A r \in Ended : run'[r] = run[r]
    BY <2>3, <2>4, RunStarted
  <2>6. TypeOK'
    BY <1>12, <2>5, IterationAssumption DEF RunProject, Launch, GoTo, TypeOK, files, Runs
  <2>7. Slots'
    BY <2>2, <2>5, FiniteFacts, IterationAssumption DEF Slots
  <2>8. EndedHaveVerdicts'
    BY <2>5 DEF EndedHaveVerdicts
  <2> QED BY <2>6, <2>7, <2>8
<1>13. CASE StartOwnRun
  <2>1. Cardinality(Started) < MaxRuns /\ NewRun(TRUE, 0) /\ pc' = pc /\ 0 \in 0 .. MaxRuns
    <3>1. Cardinality(Started) + Cardinality(Reserved) < MaxRuns
      BY <1>13 DEF StartOwnRun, Room, Reserved
    <3>2. Cardinality(Started) < MaxRuns /\ 0 \in 0 .. MaxRuns
      BY <3>1, FiniteFacts, IterationAssumption
    <3> QED BY <1>13, <3>2 DEF StartOwnRun
  <2>2. Reserved' = Reserved
    BY <2>1 DEF Reserved
  <2>3. /\ run' \in [Runs -> Run]
        /\ Cardinality(Started') = Cardinality(Started) + 1 /\ Started' = 1 .. Cardinality(Started')
        /\ Ended' = Ended /\ \A r \in Ended : run'[r] = run[r]
    BY <2>1, RunStarted
  <2>4. TypeOK'
    BY <1>13, <2>3 DEF StartOwnRun, TypeOK, files
  <2>5. Slots'
    <3>1. Cardinality(Started) + Cardinality(Reserved) < MaxRuns
      BY <1>13 DEF StartOwnRun, Room, Reserved
    <3> QED BY <2>2, <2>3, <3>1, FiniteFacts, IterationAssumption DEF Slots
  <2>6. EndedHaveVerdicts'
    BY <2>3 DEF EndedHaveVerdicts
  <2> QED BY <2>4, <2>5, <2>6
<1>14. ASSUME NEW r \in Runs, RunEnds(r) PROVE StateInvariant'
  <2>1. PICK e \in LaterEvidence :
          /\ run' = [run EXCEPT ![r].phase = "ended", ![r].evidence = e]
          /\ project' = RunStatus(e)
    BY <1>14 DEF RunEnds
  <2>2. Ending(e) /\ e \in Evidences
    BY EvidenceType, IterationAssumption
  <2>3. run' \in [Runs -> Run]
    BY <2>1, <2>2, RunType DEF TypeOK
  <2>4. TypeOK'
    BY <1>14, <2>1, <2>3, EvidenceType DEF RunEnds, TypeOK, files
  <2>5. run[r].phase = "active" /\ run'[r].phase = "ended" /\ run'[r].evidence = e
    BY <1>14, <2>1 DEF RunEnds, TypeOK, Run
  <2>6. \A s \in Runs \ {r} : run'[s] = run[s]
    BY <2>1 DEF TypeOK
  <2>7. Started' = Started /\ Reserved' = Reserved
    BY <1>14, <2>5, <2>6 DEF RunEnds, Started, Reserved
  <2>8. EndedHaveVerdicts'
    BY <2>2, <2>5, <2>6 DEF EndedHaveVerdicts, Ended
  <2> QED BY <2>4, <2>7, <2>8, FewerReserved
<1>15. ASSUME NEW r \in Runs, RunRaises(r) PROVE StateInvariant'
  <2>1. run' = [run EXCEPT ![r].phase = "dead"]
    BY <1>15 DEF RunRaises
  <2>2. run' \in [Runs -> Run]
    BY <2>1, RunType DEF TypeOK
  <2>3. TypeOK'
    BY <1>15, <2>2 DEF RunRaises, TypeOK, files
  <2>4. run[r].phase = "active" /\ run'[r].phase = "dead"
    BY <1>15, <2>1 DEF RunRaises, TypeOK, Run
  <2>5. \A s \in Runs \ {r} : run'[s] = run[s]
    BY <2>1 DEF TypeOK
  <2>6. Started' = Started /\ Reserved' = Reserved
    BY <1>15, <2>4, <2>5 DEF RunRaises, Started, Reserved
  <2>7. EndedHaveVerdicts'
    BY <2>4, <2>5 DEF EndedHaveVerdicts, Ended
  <2> QED BY <2>3, <2>6, <2>7, FewerReserved
<1>16. CASE Crash
  <2>1. \A r \in Runs :
          /\ run'[r] = IF run[r].phase = "active"
                       THEN [run[r] EXCEPT !.phase = IF run[r].job THEN "stuck" ELSE "dead"]
                       ELSE run[r]
          /\ run[r] \in Run
    BY <1>16 DEF Crash, TypeOK
  <2>2. \A r \in Runs :
          /\ run'[r] \in Run
          /\ run[r].phase # "active" => run'[r] = run[r]
          /\ run[r].phase = "active" => run'[r].phase \in {"stuck", "dead"}
    <3> SUFFICES ASSUME NEW r \in Runs, run[r].phase = "active"
                 PROVE  run'[r] \in Run /\ run'[r].phase \in {"stuck", "dead"}
      BY <2>1
    <3>1. PICK p \in {"stuck", "dead"} : run'[r] = [run[r] EXCEPT !.phase = p]
      BY <2>1
    <3>2. run'[r] \in Run
      BY <2>1, <3>1, RunType
    <3> QED BY <2>1, <3>1, <3>2 DEF Run
  <2>3. run' \in [Runs -> Run]
    BY <1>16, <2>2 DEF Crash
  <2>4. TypeOK'
    BY <1>16, <2>3, IterationAssumption DEF Crash, TypeOK, files
  <2>5. Started' = Started /\ Ended' \subseteq Ended
    BY <2>2 DEF Started, Ended
  <2>6. Reserved' = {}
    BY <1>16 DEF Crash, Reserved
  <2>7. EndedHaveVerdicts'
    BY <2>2, <2>5 DEF EndedHaveVerdicts, Ended
  <2> QED BY <2>4, <2>5, <2>6, <2>7, FewerReserved
<1>17. CASE UNCHANGED vars
  <2>1. TypeOK' /\ SameRuns
    BY <1>17 DEF vars, TypeOK, Reserved, files
  <2> QED BY <1>1, <2>1
<1> QED
  BY <1>2, <1>3, <1>4, <1>5, <1>6, <1>7, <1>8, <1>9, <1>10, <1>11, <1>12, <1>13, <1>14, <1>15,
     <1>16, <1>17 DEF Next, Step, End

LEMMA StateHolds == Spec => []StateInvariant
<1>1. Init => StateInvariant
  <2> SUFFICES ASSUME Init PROVE StateInvariant
    OBVIOUS
  <2>1. PICK e \in FirstEvidence :
          run = [r \in Runs |-> IF r = 1
                                THEN [NoRun EXCEPT !.phase = "ended", !.evidence = e] ELSE NoRun]
    BY DEF Init
  <2>2. Ending(e) /\ e \in Evidences
    BY EvidenceType, IterationAssumption
  <2>3. run \in [Runs -> Run]
    BY <2>1, <2>2, EvidenceType, RunType
  <2>4. /\ 1 \in Runs /\ run[1].phase = "ended" /\ run[1].evidence = e
        /\ \A r \in Runs \ {1} : run[r].phase = "none"
    BY <2>1, IterationAssumption DEF Runs, NoRun
  <2>5. TypeOK
    BY <2>3, EvidenceType, IterationAssumption DEF Init, TypeOK
  <2>6. Started = {1} /\ Ended = {1} /\ Reserved = {}
    BY <2>4 DEF Started, Ended, Reserved, Init
  <2>7. Slots
    <3>1. Cardinality(Started) = 1 /\ Cardinality(Reserved) = 0
      BY <2>6, FS_Singleton, FS_EmptySet
    <3> QED BY <2>6, <3>1, IterationAssumption DEF Slots
  <2> QED BY <2>2, <2>4, <2>5, <2>6, <2>7 DEF StateInvariant, EndedHaveVerdicts
<1> QED BY <1>1, StateStep, PTL DEF Spec

\* Every file and every client has its type, for any number of clients and requests.
THEOREM IterationIsTyped == Spec => []TypeOK
<1>1. StateInvariant => TypeOK
  BY DEF StateInvariant
<1> QED BY <1>1, StateHolds, PTL

\* Gate, reports and review agree on every run, whatever gaps it ended with
\* (final_gate_report, build_document_delivery_report, build_central_review).
THEOREM VerdictsAlwaysAgree == Spec => []VerdictsAgree
<1>1. StateInvariant => VerdictsAgree
  BY EndingsAgree DEF StateInvariant, EndedHaveVerdicts, VerdictsAgree
<1> QED BY <1>1, StateHolds, PTL

-----------------------------------------------------------------------------
(* One client at a time.  Two requests may both be allowed before either has written its *)
(* plan.                                                                                 *)

OneClient == \A c, d \in Clients : c = d

\* A repair run is preceded by the plan and the report that show it was tried.
TriedFirst ==
  /\ \A s \in Runs : RepairsOf(s) # {} => Tried(s)
  /\ \A s \in Runs : \A q, r \in RepairsOf(s) : q = r
  /\ \A c \in Clients :
       /\ pc[c] \in {"report", "feedback", "build", "launch"} => plan[source[c]] # "none"
       /\ pc[c] \in {"feedback", "build", "launch"} => report[source[c]] # "none"
       /\ c \in Reserved => source[c] \in Runs /\ RepairsOf(source[c]) = {}

OnceInvariant == StateInvariant /\ TriedFirst

\* Steps that start no run that repairs another one.
LEMMA NoNewRepair ==
  ASSUME TypeOK, TriedFirst,
         \A s \in Runs : RepairsOf(s)' \subseteq RepairsOf(s),
         \A s \in Runs : /\ plan[s] # "none" => plan'[s] # "none"
                         /\ report[s] # "none" => report'[s] # "none",
         \A c \in Clients :
           /\ pc'[c] \in {"report", "feedback", "build", "launch"} => plan'[source'[c]] # "none"
           /\ pc'[c] \in {"feedback", "build", "launch"} => report'[source'[c]] # "none"
           /\ c \in Reserved' => source'[c] \in Runs /\ RepairsOf(source'[c]) = {}
  PROVE  TriedFirst'
<1>1. \A s \in Runs : Tried(s) => Tried(s)'
  BY DEF Tried
<1>2. \A s \in Runs : RepairsOf(s)' # {} => Tried(s)'
  BY <1>1 DEF TriedFirst
<1>3. \A s \in Runs : \A q, r \in RepairsOf(s)' : q = r
  BY DEF TriedFirst
<1>4. \A c \in Clients : c \in Reserved' => RepairsOf(source[c])' = {}
  <2> SUFFICES ASSUME NEW c \in Clients, c \in Reserved' PROVE RepairsOf(source[c])' = {}
    OBVIOUS
  <2>1. source'[c] \in Runs /\ RepairsOf(source'[c]) = {}
    OBVIOUS
  <2>2. \A s \in Runs : {r \in Runs : run'[r].source = s} \subseteq RepairsOf(s)
    BY DEF RepairsOf
  <2>3. {r \in Runs : run'[r].source = source'[c]} = {}
    BY <2>1, <2>2
  <2> QED BY <2>3 DEF RepairsOf
<1> QED BY <1>2, <1>3, <1>4 DEF TriedFirst

LEMMA RepairsAfterStart ==
  ASSUME TypeOK, NEW job, NEW of, NewRun(job, of), NEW s \in Runs
  PROVE  /\ s # of => RepairsOf(s)' \subseteq RepairsOf(s)
         /\ RepairsOf(s)' \subseteq RepairsOf(s) \cup {Cardinality(Started) + 1}
<1> DEFINE k == Cardinality(Started)
<1>1. PICK mode \in Modes :
        run' = [run EXCEPT ![k + 1] =
                  [phase |-> "active", job |-> job, source |-> of,
                   evidence |-> [NoEvidence EXCEPT !.mode = mode]]]
  BY DEF NewRun
<1>2. \A r \in Runs : run'[r].source = IF r = k + 1 THEN of ELSE run[r].source
  BY <1>1 DEF TypeOK
<1> QED BY <1>2 DEF RepairsOf

LEMMA TriedStep == OneClient /\ OnceInvariant /\ [Next]_vars => TriedFirst'
<1> SUFFICES ASSUME OneClient, OnceInvariant, [Next]_vars PROVE TriedFirst'
  OBVIOUS
<1>0. StateInvariant' /\ TypeOK /\ TriedFirst
  BY StateStep DEF OnceInvariant, StateInvariant
<1>1. ASSUME NEW c \in Clients, RefusePlan(c) PROVE TriedFirst'
  <2>1. \A s \in Runs : RepairsOf(s)' = RepairsOf(s)
    BY <1>1 DEF RefusePlan, RepairsOf
  <2> QED BY <1>0, <1>1, <2>1, NoNewRepair
          DEF RefusePlan, GoTo, TypeOK, TriedFirst, Reserved, files
<1>2. ASSUME NEW c \in Clients, RefuseReport(c) PROVE TriedFirst'
  <2>1. \A s \in Runs : RepairsOf(s)' = RepairsOf(s)
    BY <1>2 DEF RefuseReport, RepairsOf
  <2> QED BY <1>0, <1>2, <2>1, NoNewRepair
          DEF RefuseReport, GoTo, TypeOK, TriedFirst, Reserved, files, FirstReport
<1>3. ASSUME NEW c \in Clients, WritePlan(c) PROVE TriedFirst'
  <2>1. \A s \in Runs : RepairsOf(s)' = RepairsOf(s)
    BY <1>3 DEF WritePlan, RepairsOf
  <2> QED BY <1>0, <1>3, <2>1, NoNewRepair
          DEF WritePlan, GoTo, TypeOK, TriedFirst, Reserved, files
<1>4. ASSUME NEW c \in Clients, WriteReport(c) PROVE TriedFirst'
  <2>1. \A s \in Runs : RepairsOf(s)' = RepairsOf(s)
    BY <1>4 DEF WriteReport, RepairsOf
  <2> QED BY <1>0, <1>4, <2>1, NoNewRepair
          DEF WriteReport, GoTo, TypeOK, TriedFirst, Reserved, files, FirstReport
<1>5. ASSUME NEW c \in Clients, AddFeedback(c) PROVE TriedFirst'
  <2>1. \A s \in Runs : RepairsOf(s)' = RepairsOf(s)
    BY <1>5 DEF AddFeedback, RepairsOf
  <2> QED BY <1>0, <1>5, <2>1, NoNewRepair
          DEF AddFeedback, GoTo, TypeOK, TriedFirst, Reserved, files
<1>6. ASSUME NEW c \in Clients, BuildPlan(c) PROVE TriedFirst'
  <2>1. \A s \in Runs : RepairsOf(s)' = RepairsOf(s)
    BY <1>6 DEF BuildPlan, RepairsOf
  <2> QED BY <1>0, <1>6, <2>1, NoNewRepair
          DEF BuildPlan, GoTo, TypeOK, TriedFirst, Reserved, files
<1>7. ASSUME NEW c \in Clients, StartIsRefused(c) PROVE TriedFirst'
  <2>1. \A s \in Runs : RepairsOf(s)' = RepairsOf(s)
    BY <1>7 DEF StartIsRefused, RepairsOf
  <2> QED BY <1>0, <1>7, <2>1, NoNewRepair
          DEF StartIsRefused, GoTo, TypeOK, TriedFirst, Reserved, files
<1>8. ASSUME NEW c \in Clients, Returned(c) PROVE TriedFirst'
  <2>1. \A s \in Runs : RepairsOf(s)' = RepairsOf(s)
    BY <1>8 DEF Returned, RepairsOf
  <2> QED BY <1>0, <1>8, <2>1, NoNewRepair
          DEF Returned, GoTo, TypeOK, TriedFirst, Reserved, files
<1>9. ASSUME NEW c \in Clients, NEW r \in Runs, Preview(c, r) PROVE TriedFirst'
  <2>1. \A s \in Runs : RepairsOf(s)' = RepairsOf(s)
    BY <1>9 DEF Preview, RepairsOf
  <2>2. Allowed(r) => RepairsOf(r) = {}
    BY <1>0 DEF Allowed, TriedFirst
  <2> QED BY <1>0, <1>9, <2>1, <2>2, NoNewRepair
          DEF Preview, GoTo, TypeOK, TriedFirst, Reserved, files
<1>10. ASSUME NEW c \in Clients, StartRun(c) PROVE TriedFirst'
  <2>1. /\ source[c] \in Runs /\ RepairsOf(source[c]) = {} /\ Tried(source[c])
        /\ NewRun(TRUE, source[c])
    BY <1>0, <1>10 DEF StartRun, Launch, TriedFirst, Tried, Reserved
  <2>2. \A s \in Runs : /\ s # source[c] => RepairsOf(s)' \subseteq RepairsOf(s)
                        /\ RepairsOf(s)' \subseteq RepairsOf(s) \cup {Cardinality(Started) + 1}
    BY <1>0, <2>1, RepairsAfterStart
  <2>3. \A d \in Clients : pc'[d] \in {"planAgain", "wait"}
    BY <1>0, <1>10 DEF StartRun, GoTo, TypeOK, OneClient
  <2>4. plan' = plan /\ report' = report
    BY <1>10 DEF StartRun, files
  <2>5. \A s \in Runs : RepairsOf(s)' # {} => Tried(s)'
    BY <1>0, <2>1, <2>2, <2>4 DEF TriedFirst, Tried
  <2>6. \A s \in Runs : \A q, r \in RepairsOf(s)' : q = r
    BY <1>0, <2>1, <2>2 DEF TriedFirst
  <2> QED BY <2>3, <2>5, <2>6 DEF TriedFirst, Reserved
<1>11. ASSUME NEW c \in Clients, RunProject(c) PROVE TriedFirst'
  <2>1. /\ source[c] \in Runs /\ RepairsOf(source[c]) = {} /\ Tried(source[c])
        /\ NewRun(FALSE, source[c])
    BY <1>0, <1>11 DEF RunProject, Launch, TriedFirst, Tried, Reserved
  <2>2. \A s \in Runs : /\ s # source[c] => RepairsOf(s)' \subseteq RepairsOf(s)
                        /\ RepairsOf(s)' \subseteq RepairsOf(s) \cup {Cardinality(Started) + 1}
    BY <1>0, <2>1, RepairsAfterStart
  <2>3. \A d \in Clients : pc'[d] \in {"planAgain", "wait"}
    BY <1>0, <1>11 DEF RunProject, GoTo, TypeOK, OneClient
  <2>4. plan' = plan /\ report' = report
    BY <1>11 DEF RunProject, files
  <2>5. \A s \in Runs : RepairsOf(s)' # {} => Tried(s)'
    BY <1>0, <2>1, <2>2, <2>4 DEF TriedFirst, Tried
  <2>6. \A s \in Runs : \A q, r \in RepairsOf(s)' : q = r
    BY <1>0, <2>1, <2>2 DEF TriedFirst
  <2> QED BY <2>3, <2>5, <2>6 DEF TriedFirst, Reserved
<1>12. CASE StartOwnRun
  <2>1. \A s \in Runs : RepairsOf(s)' \subseteq RepairsOf(s)
    <3>1. \A s \in Runs : s # 0
      BY IterationAssumption DEF Runs
    <3> QED BY <1>0, <1>12, <3>1, RepairsAfterStart DEF StartOwnRun
  <2> QED BY <1>0, <1>12, <2>1, NoNewRepair DEF StartOwnRun, TriedFirst, Reserved, files
<1>13. ASSUME NEW r \in Runs, RunEnds(r) PROVE TriedFirst'
  <2>1. \A s \in Runs : RepairsOf(s)' = RepairsOf(s)
    BY <1>0, <1>13 DEF RunEnds, RepairsOf, TypeOK, Run
  <2> QED BY <1>0, <1>13, <2>1, NoNewRepair DEF RunEnds, TriedFirst, Reserved, files
<1>14. ASSUME NEW r \in Runs, RunRaises(r) PROVE TriedFirst'
  <2>1. \A s \in Runs : RepairsOf(s)' = RepairsOf(s)
    BY <1>0, <1>14 DEF RunRaises, RepairsOf, TypeOK, Run
  <2> QED BY <1>0, <1>14, <2>1, NoNewRepair DEF RunRaises, TriedFirst, Reserved, files
<1>15. CASE Crash
  <2>1. \A s \in Runs : RepairsOf(s)' = RepairsOf(s)
    BY <1>0, <1>15 DEF Crash, RepairsOf, TypeOK, Run
  <2> QED BY <1>0, <1>15, <2>1, NoNewRepair DEF Crash, TriedFirst, Reserved, files
<1>16. CASE UNCHANGED vars
  BY <1>0, <1>16 DEF vars, files, TriedFirst, Tried, RepairsOf, Reserved
<1> QED
  BY <1>1, <1>2, <1>3, <1>4, <1>5, <1>6, <1>7, <1>8, <1>9, <1>10, <1>11, <1>12, <1>13, <1>14,
     <1>15, <1>16 DEF Next, Step, End

LEMMA OnceHolds == ASSUME OneClient PROVE Spec => []OnceInvariant
<1>1. Init => TriedFirst
  BY DEF Init, TriedFirst, RepairsOf, Reserved, NoRun, Runs
<1>2. OnceInvariant /\ [Next]_vars => TriedFirst'
  BY TriedStep
<1>3. StateInvariant /\ TriedFirst <=> OnceInvariant
  BY DEF OnceInvariant
<1> QED BY <1>1, <1>2, <1>3, StateHolds, PTL DEF Spec

\* When requests come one after another, a run is repaired at most once, however often it is
\* asked for and wherever the server dies (duplicate_signature_count).
THEOREM RepairedOnce == ASSUME OneClient PROVE Spec => []OneRepairPerSource
<1>1. OnceInvariant => OneRepairPerSource
  <2> SUFFICES ASSUME OnceInvariant, NEW s \in Started PROVE Cardinality(RepairsOf(s)) <= 1
    BY DEF OneRepairPerSource
  <2>1. \A q, r \in RepairsOf(s) : q = r
    BY DEF OnceInvariant, TriedFirst, Started
  <2>2. RepairsOf(s) = {} \/ \E r : RepairsOf(s) = {r}
    BY <2>1
  <2> QED BY <2>2, FS_EmptySet, FS_Singleton
<1> QED BY <1>1, OnceHolds, PTL
=============================================================================
