------------------------- MODULE OrchestratorProofs -------------------------
(***************************************************************************)
(* Proofs about the runtime loop, for every task graph and every bound:    *)
(* its state is well-formed, no task starts before the tasks it depends on *)
(* are finished, and no saved state takes a finished task back.            *)
(*                                                                         *)
(* All three follow from RunInvariant.  The lemmas below show, one         *)
(* operation of the engine after the other, that it maps a sound state to  *)
(* a sound state and keeps what is finished.                               *)
(***************************************************************************)
EXTENDS RunProperties, TLAPS

-----------------------------------------------------------------------------
(* Type correctness of the operations. *)

LEMMA InitialType == InitialRunState \in RunState
BY DEF InitialRunState, RunState, Status, Terminal, Waiting, Broken, Evidence, Node

LEMMA MarkType ==
  ASSUME NEW s \in RunState, NEW n \in Node, NEW r \in Evidence
  PROVE  /\ MarkActive(s, n) \in RunState
         /\ MarkCompleted(s, n, r) \in RunState
         /\ MarkSkipped(s, n) \in RunState
         /\ MarkBlocked(s, n, r) \in RunState
         /\ MarkFailed(s, n, r) \in RunState
         /\ RecordBlocker(s, n) \in RunState
<1>1. MarkActive(s, n) \in RunState
  BY DEF MarkActive, RunState, Status, Terminal, Waiting, Broken
<1>2. MarkCompleted(s, n, r) \in RunState
  BY DEF MarkCompleted, RunState, Status, Terminal, Waiting, Broken
<1>3. MarkSkipped(s, n) \in RunState
  BY DEF MarkSkipped, RunState, Status, Terminal, Waiting, Broken, Evidence
<1>4. MarkBlocked(s, n, r) \in RunState
  BY DEF MarkBlocked, RunState, Status, Terminal, Waiting, Broken
<1>5. MarkFailed(s, n, r) \in RunState
  <2>1. s.retries \in [Node -> Nat]
    BY DEF RunState
  <2>2. [s.retries EXCEPT ![n] = @ + 1] \in [Node -> Nat]
    BY <2>1
  <2>3. [s.status EXCEPT ![n] = "failed"] \in [Node -> Status]
    BY DEF RunState, Status, Terminal, Waiting, Broken
  <2> QED BY <2>2, <2>3 DEF MarkFailed, RunState
<1>6. RecordBlocker(s, n) \in RunState
  BY DEF RecordBlocker, RunState
<1> QED BY <1>1, <1>2, <1>3, <1>4, <1>5, <1>6

LEMMA MarkReadyType == ASSUME NEW s \in RunState PROVE MarkReady(s) \in RunState
BY DEF MarkReady, RunState, Status, Terminal, Waiting, Broken

LEMMA DebugResetType ==
  ASSUME NEW s \in RunState, NEW n \in Node
  PROVE  CreateDebugAndReset(s, n) \in RunState
BY DEF CreateDebugAndReset, RunState, Status, Terminal, Waiting, Broken

LEMMA ConvergeType ==
  ASSUME NEW s \in RunState, NEW d \in Debug
  PROVE  Converge(s, d) \in RunState
<1> DEFINE root == Root(d)
           s1 == GiveUpDebug(s, d)
<1>0. root \in Node /\ d \in Node
  BY DEF Root, Node, Debug
<1>1. s1 \in RunState
  BY <1>0, MarkType DEF GiveUpDebug, Evidence
<1>2. RecordBlocker(MarkBlocked(s1, root, "note"), root) \in RunState
  BY <1>0, <1>1, MarkType DEF Evidence
<1>3. [s1 EXCEPT !.status[root] = "pending", !.failed = @ \ {root}] \in RunState
  BY <1>0, <1>1 DEF RunState, Status, Terminal, Waiting, Broken
<1>4. RecordBlocker(s1, root) \in RunState
  BY <1>0, <1>1, MarkType DEF Evidence
<1> QED BY <1>1, <1>2, <1>3, <1>4 DEF Converge

LEMMA HandleFailedType ==
  ASSUME NEW s \in RunState, NEW n \in Node, NEW r
  PROVE  HandleFailed(s, n, r) \in RunState
<1>1. [s EXCEPT !.status[n] = "blocked"] \in RunState
  BY DEF RunState, Status, Terminal, Waiting, Broken
<1>2. RecordBlocker([s EXCEPT !.status[n] = "blocked"], n) \in RunState
  BY <1>1, MarkType DEF Evidence
<1>3. RecordBlocker(s, n) \in RunState
  BY MarkType DEF Evidence
<1>4. n \in Debug => Converge(s, n) \in RunState
  BY ConvergeType
<1> QED BY <1>2, <1>3, <1>4, DebugResetType DEF HandleFailed

LEMMA RepairType ==
  ASSUME NEW s \in RunState
  PROVE  /\ Promote(s) \in RunState
         /\ Prune(s) \in RunState
         /\ CompleteRest(s) \in RunState
<1>1. Promote(s) \in RunState
  BY DEF Promote, RunState, Status, Terminal, Evidence
<1>2. Prune(s) \in RunState
  BY DEF Prune, RunState, Status, Terminal, Evidence
<1>3. CompleteRest(s) \in RunState
  BY DEF CompleteRest, RunState, Status, Terminal, Evidence
<1> QED BY <1>1, <1>2, <1>3

LEMMA ApplyType ==
  ASSUME NEW s \in RunState, NEW n \in Node, NEW r \in Evidence
  PROVE  ApplyResult(s, n, r) \in RunState
<1>1. RecordBlocker(MarkBlocked(s, n, r), n) \in RunState
  BY MarkType
<1>2. HandleFailed(MarkFailed(s, n, r), n, r) \in RunState
  BY MarkType, HandleFailedType
<1> QED BY <1>1, <1>2, MarkType DEF ApplyResult

LEMMA RecoveryType ==
  ASSUME NEW s \in RunState, NEW f \in [Node -> WorkerFile], NEW sel \in SUBSET Node
  PROVE  /\ MergeWorkerFiles(s, f) \in RunState
         /\ Prepare(s, sel) \in RunState
<1>1. MergeWorkerFiles(s, f) \in RunState
  BY DEF MergeWorkerFiles, RunState
<1>2. Prepare(s, sel) \in RunState
  <2> DEFINE reset == ResetTasks(s, sel)
             recon == Reconciled(s, sel)
  <2>1. [n \in Node |-> IF n \in recon THEN "completed"
                        ELSE IF n \in reset THEN "pending"
                        ELSE s.status[n]] \in [Node -> Status]
    BY DEF RunState, Status, Terminal, Waiting
  <2>2. [n \in Node |-> IF n \in BlockedReset(s, sel)
                        THEN s.retries[n] + 1 ELSE s.retries[n]] \in [Node -> Nat]
    BY DEF RunState
  <2>3. KeptBlockers(s, reset \cup recon) \subseteq Node \X Nat
    BY DEF KeptBlockers, RunState
  <2>4. s.failed \ (reset \cup recon) \subseteq Node /\ s.notices \ {"stop"} \subseteq Notice
    BY DEF RunState
  <2> HIDE DEF reset, recon
  <2>5. [s EXCEPT
         !.status   = [n \in Node |-> IF n \in recon THEN "completed"
                        ELSE IF n \in reset THEN "pending"
                        ELSE s.status[n]],
         !.retries  = [n \in Node |-> IF n \in BlockedReset(s, sel)
                        THEN s.retries[n] + 1 ELSE s.retries[n]],
         !.failed   = @ \ (reset \cup recon),
         !.blockers = KeptBlockers(s, reset \cup recon),
         !.notices  = @ \ {"stop"},
         !.done     = FALSE] \in RunState
    BY <2>1, <2>2, <2>3, <2>4 DEF RunState
  <2> QED BY <2>5 DEF Prepare, reset, recon
<1> QED BY <1>1, <1>2

-----------------------------------------------------------------------------
(* Type correctness of the loop. *)

LEMMA AfterTaskType ==
  ASSUME TypeOK, NEW s0 \in RunState, NEW r, AfterTask(s0, r)
  PROVE  TypeOK'
<1> DEFINE s == Prune(s0)
<1>1. s \in RunState /\ CompleteRest(s) \in RunState
  BY RepairType
<1>2. UNCHANGED <<files, cur, iteration, crashes, resumes, reruns>> /\ result' = "none"
  BY DEF AfterTask, bounds
<1>3. CASE Save(s) /\ Stop("run_blocked")
  BY <1>1, <1>2, <1>3 DEF TypeOK, Save, Stop, Places, Outcomes
<1>4. CASE /\ \E score \in Scores :
                Save([CompleteRest(s) EXCEPT !.done = Evaluate(CompleteRest(s), score)])
           /\ Stop("repair_convergence")
  <2>1. PICK score \in Scores :
          Save([CompleteRest(s) EXCEPT !.done = Evaluate(CompleteRest(s), score)])
    BY <1>4
  <2>2. Evaluate(CompleteRest(s), score) \in BOOLEAN
    BY LoopAssumption DEF Evaluate, NoHardFailure
  <2>3. [CompleteRest(s) EXCEPT !.done = Evaluate(CompleteRest(s), score)] \in RunState
    BY <1>1, <2>2 DEF RunState
  <2> QED BY <1>2, <1>4, <2>1, <2>3 DEF TypeOK, Save, Stop, Places, Outcomes
<1>5. CASE /\ run' = s
           /\ IF OpenDebug(s) # {}
                THEN queue' = {} /\ disk' = s
                ELSE queue' = queue \ {cur} /\ disk' = (IF s = s0 THEN disk ELSE s)
           /\ pc' = "tasks"
           /\ UNCHANGED outcome
  BY <1>1, <1>2, <1>5 DEF TypeOK, Places
<1> QED BY <1>3, <1>4, <1>5 DEF AfterTask

LEMMA TypeStep == TypeOK /\ [Next]_vars => TypeOK'
<1> SUFFICES ASSUME TypeOK, [Next]_vars PROVE TypeOK'
  OBVIOUS
<1> USE DEF Places, Outcomes, bounds
<1>0. cur \in Node /\ run \in RunState /\ disk \in RunState /\ Prune(run) \in RunState
  BY RepairType DEF TypeOK
<1>1. CASE ConvergeChains
  <2>1. PICK d \in UnproductiveDebug(run) : run' = Converge(run, d)
    BY <1>1 DEF ConvergeChains
  <2>2. run' \in RunState
    BY <1>0, <2>1, ConvergeType DEF UnproductiveDebug, OpenDebug
  <2> QED BY <1>1, <2>2 DEF ConvergeChains, TypeOK
<1>2. CASE PassDone
  <2>1. [Prune(run) EXCEPT !.done = TRUE] \in RunState
    BY <1>0 DEF RunState
  <2> QED BY <1>2, <2>1, LoopAssumption DEF PassDone, PassStarts, Save, Stop, TypeOK
<1>3. CASE PassPromotes
  BY <1>0, <1>3, RepairType, LoopAssumption DEF PassPromotes, PassStarts, Save, TypeOK
<1>4. CASE PassBlocked
  BY <1>0, <1>4, LoopAssumption DEF PassBlocked, PassStarts, Save, Stop, TypeOK
<1>5. CASE PassRetries
  BY <1>0, <1>5, LoopAssumption DEF PassRetries, PassStarts, RetryableFailures, TypeOK
<1>6. CASE PassIdle
  BY <1>0, <1>6, LoopAssumption DEF PassIdle, PassStarts, Save, Stop, TypeOK
<1>7. CASE PassSelects
  <2>1. MarkReady(Prune(run)) \in RunState
    BY <1>0, MarkReadyType
  <2> QED BY <1>0, <1>7, <2>1, LoopAssumption
          DEF PassSelects, PassStarts, ReadyTasks, TypeOK
<1>8. CASE IterationLimit
  BY <1>8 DEF IterationLimit, Save, Stop, TypeOK
<1>9. CASE PassEnds
  <2>1. PICK score \in Scores :
          /\ Save([run EXCEPT !.done = Evaluate(run, score)])
          /\ IF Evaluate(run, score) THEN pc' = "stopped" /\ outcome' = "done"
                                     ELSE pc' = "top" /\ UNCHANGED outcome
    BY <1>9 DEF PassEnds
  <2>2. Evaluate(run, score) \in BOOLEAN
    BY LoopAssumption DEF Evaluate, NoHardFailure
  <2>3. [run EXCEPT !.done = Evaluate(run, score)] \in RunState
    BY <1>0, <2>2 DEF RunState
  <2> QED BY <1>9, <2>1, <2>3 DEF PassEnds, Save, TypeOK
<1>10. ASSUME NEW n \in Node, RetryFailure(n) PROVE TypeOK'
  <2>1. run' \in RunState
    BY <1>0, <1>10, HandleFailedType DEF RetryFailure
  <2> QED BY <1>10, <2>1 DEF RetryFailure, TypeOK
<1>12. ASSUME NEW n \in Node, Dispatch(n) PROVE TypeOK'
  <2>1. MarkActive(Prune(run), n) \in RunState
    BY <1>0, MarkType DEF Evidence
  <2> QED BY <1>12, <2>1 DEF Dispatch, AtTask, Save, TypeOK
<1>13. CASE LaunchWorker
  BY <1>13 DEF LaunchWorker, TypeOK, WorkerFile
<1>14. ASSUME NEW r \in WorkerResult, WorkerExits(r) PROVE TypeOK'
  <2>1. FinalFile(r) \subseteq WorkerFile
    BY DEF FinalFile, WorkerFile
  <2>2. files' \in [Node -> WorkerFile]
    BY <1>14, <2>1 DEF WorkerExits, TypeOK
  <2> QED BY <1>14, <2>2 DEF WorkerExits, TypeOK
<1>15. CASE RecordResult
  <2>1. [run EXCEPT !.proven = @ \ {cur}] \in RunState
    BY <1>0 DEF RunState
  <2>2. ApplyResult([run EXCEPT !.proven = @ \ {cur}], cur, result) \in RunState
    BY <1>0, <2>1, ApplyType DEF TypeOK, Evidence
  <2> QED BY <1>15, <2>2, AfterTaskType DEF RecordResult
<1>16. CASE Review
  <2>1. \A r \in {"passed", "failed"} : ApplyResult(run, cur, r) \in RunState
    BY <1>0, ApplyType DEF Evidence, WorkerResult
  <2> QED BY <1>16, <2>1, AfterTaskType DEF Review
<1>17. ASSUME NEW r \in {"passed", "failed", "skipped"}, Inspect(r) PROVE TypeOK'
  <2>1. ApplyResult(run, cur, r) \in RunState \/ r = "skipped"
    BY <1>0, ApplyType DEF Evidence, WorkerResult
  <2>2. MarkSkipped(run, cur) \in RunState
    BY <1>0, MarkType DEF Evidence
  <2> QED BY <1>17, <2>1, <2>2, AfterTaskType DEF Inspect
<1>18. ASSUME NEW g \in ReleaseOutcomes, Release(g) PROVE TypeOK'
  <2> DEFINE s == [run EXCEPT !.github = (g # "failed")]
  <2>1. s \in RunState
    BY <1>0 DEF RunState
  <2>2. [s EXCEPT !.status[cur] = "completed", !.last[cur] = "weak"] \in RunState
    BY <1>0, <2>1 DEF RunState, Status, Terminal, Evidence, WorkerResult
  <2>3. RecordBlocker(MarkBlocked(s, cur, "weak"), cur) \in RunState
    BY <1>0, <2>1, MarkType DEF Evidence, WorkerResult
  <2>4. MarkFailed(s, cur, "failed") \in RunState
    BY <1>0, <2>1, MarkType DEF Evidence, WorkerResult
  <2> HIDE DEF s
  <2>5. g \in {"recorded", "unhealthy", "failed"}
    BY LoopAssumption
  <2> QED BY <1>18, <2>2, <2>3, <2>4, <2>5, AfterTaskType DEF Release, s
<1>19. ASSUME NEW n \in Node, NEW c \in Controls, ObeyControl(n, c) PROVE TypeOK'
  <2>1. [Prune(run) EXCEPT !.notices = @ \cup {"stop"}] \in RunState
    BY <1>0 DEF RunState, Notice
  <2> QED BY <1>0, <1>19, <2>1 DEF ObeyControl, AtTask, Save, Stop, TypeOK
<1>20. CASE Crash
  BY <1>0, <1>20, LoopAssumption DEF Crash, TypeOK
<1>21. ASSUME NEW sel \in Selections, NEW preflight \in BOOLEAN, Resume(sel, preflight)
       PROVE  TypeOK'
  <2> DEFINE s == Prepare(RecoverySource, sel)
  <2>1. RecoverySource \in RunState
    BY <1>0, RecoveryType DEF RecoverySource, TypeOK
  <2>2. s \in RunState
    BY <2>1, RecoveryType, LoopAssumption DEF TypeOK
  <2>3. \A x \in Notice : [s EXCEPT !.notices = @ \cup {x}] \in RunState
    BY <2>2 DEF RunState
  <2> HIDE DEF s
  <2>4. resumes' \in 0 .. MaxResumes
    BY <1>21, LoopAssumption DEF Resume, TypeOK
  <2>5. run' = disk' /\ run' \in RunState
    <3> DEFINE why == IF NothingToResume(RecoverySource, sel)
                        THEN "recovery" ELSE "preflight"
    <3>1. why \in Notice
      BY DEF Notice
    <3> HIDE DEF why
    <3>2. [s EXCEPT !.notices = @ \cup {why}] \in RunState
      BY <2>3, <3>1
    <3>3. run' = disk' /\ run' \in {s, [s EXCEPT !.notices = @ \cup {why}]}
      BY <1>21 DEF Resume, Save, s, why
    <3> QED BY <2>2, <3>2, <3>3
  <2>6. pc' \in Places /\ outcome' \in Outcomes
    BY <1>21 DEF Resume
  <2> QED BY <1>21, <2>4, <2>5, <2>6, LoopAssumption DEF Resume, TypeOK, WorkerFile
<1>22. CASE Rerun
  BY <1>0, <1>22, LoopAssumption DEF Rerun, Save, TypeOK
<1>23. CASE UNCHANGED vars
  BY <1>23 DEF vars, TypeOK
<1> QED
  BY <1>1, <1>2, <1>3, <1>4, <1>5, <1>6, <1>7, <1>8, <1>9, <1>10, <1>12,
     <1>13, <1>14, <1>15, <1>16, <1>17, <1>18, <1>19, <1>20, <1>21, <1>22, <1>23
     DEF Next, LoopStep, Control, Restart

\* The states in memory and on disk are always well-formed run states.
THEOREM TypeCorrect == Spec => []TypeOK
<1>1. Init => TypeOK
  BY InitialType, LoopAssumption
     DEF Init, TypeOK, Node, Places, Outcomes, WorkerFile
<1> QED BY <1>1, TypeStep, PTL DEF Spec

-----------------------------------------------------------------------------
(* Every operation keeps what is finished and maps a sound state to a sound *)
(* state.  Ready(s, n): the tasks n and its planned task depend on are done. *)

Ready(s, n) == DepsFinished(s, Root(n))

Sound(a, b) == Kept(a, b) /\ Safe(b)

LEMMA NodeFacts ==
  /\ \A t \in Task : t \in Node /\ t \notin Debug /\ Root(t) = t
  /\ \A d \in Debug : d \in Node /\ d \notin Task /\ Root(d) \in Task
  /\ \A n \in Node : Root(n) \in Task /\ DepsOf(Root(n)) \subseteq Task
BY GraphAssumption DEF Node, Debug, Root, DepsOf

LEMMA KeptFacts ==
  ASSUME NEW a \in RunState, NEW b \in RunState, Kept(a, b)
  PROVE  /\ \A n \in Node : DepsFinished(a, n) => DepsFinished(b, n)
         /\ \A c \in RunState : Kept(b, c) => Kept(a, c)
         /\ Finished(a) \subseteq Finished(b)
<1>1. Finished(a) \subseteq Finished(b)
  BY DEF Finished, Kept
<1>2. \A c \in RunState : Kept(b, c) => Kept(a, c)
  BY DEF Kept
<1> QED BY <1>1, <1>2 DEF DepsFinished

\* What is left to show of an operation: no task disappears, and a node it
\* touches first is ready.
LEMMA SoundStep ==
  ASSUME NEW a \in RunState, NEW b \in RunState, Safe(a), Kept(a, b),
         \A t \in Task : b.status[t] # "absent",
         \A n \in Node : Touched(b, n) => Touched(a, n) \/ Ready(b, n)
  PROVE  Sound(a, b)
<1>1. \A n \in Node : Touched(b, n) => DepsFinished(b, Root(n))
  BY KeptFacts, NodeFacts DEF Safe, Ready
<1> QED BY <1>1 DEF Sound, Safe

LEMMA SoundTrans ==
  ASSUME NEW a \in RunState, NEW b \in RunState, NEW c \in RunState,
         Sound(a, b), Sound(b, c)
  PROVE  Sound(a, c)
BY KeptFacts DEF Sound

LEMMA SameStatus ==
  ASSUME NEW a \in RunState, NEW b \in RunState, Safe(a),
         b.status = a.status, b.last = a.last
  PROVE  Sound(a, b)
BY SoundStep DEF Kept, Touched, Started, Safe

LEMMA MarkSound ==
  ASSUME NEW s \in RunState, Safe(s), NEW n \in Node, NEW r \in Evidence,
         Ready(s, n), s.status[n] \notin Terminal
  PROVE  /\ Sound(s, MarkActive(s, n))
         /\ Sound(s, MarkCompleted(s, n, r))
         /\ Sound(s, MarkSkipped(s, n))
         /\ Sound(s, MarkBlocked(s, n, r))
         /\ Sound(s, MarkFailed(s, n, r))
<1>1. ASSUME NEW b \in RunState, NEW x \in Status \ {"absent"}, NEW y,
             b.status = [s.status EXCEPT ![n] = x],
             b.last \in {s.last, [s.last EXCEPT ![n] = y]}
      PROVE  Sound(s, b)
  <2>1. /\ \A m \in Node \ {n} : b.status[m] = s.status[m] /\ b.last[m] = s.last[m]
        /\ b.status[n] # "absent"
    BY <1>1 DEF RunState
  <2>2. Kept(s, b)
    BY <2>1 DEF Kept
  <2>3. Ready(b, n)
    BY <1>1, <2>2, KeptFacts, NodeFacts DEF Ready
  <2>4. \A t \in Task : b.status[t] # "absent"
    BY <2>1, NodeFacts DEF Safe
  <2>5. \A m \in Node : Touched(b, m) => Touched(s, m) \/ Ready(b, m)
    BY <2>1, <2>3 DEF Touched, Started
  <2> QED BY <1>1, <2>2, <2>4, <2>5, SoundStep
<1>2. {"active", "completed", "skipped", "blocked", "failed"} \subseteq Status \ {"absent"}
  BY DEF Status, Terminal, Broken
<1>3. Sound(s, MarkActive(s, n))
  <2>1. /\ MarkActive(s, n).status = [s.status EXCEPT ![n] = "active"]
        /\ MarkActive(s, n).last = s.last
    BY DEF MarkActive, RunState
  <2> QED BY <1>1, <1>2, <2>1, MarkType
<1>4. Sound(s, MarkCompleted(s, n, r))
  <2>1. /\ MarkCompleted(s, n, r).status = [s.status EXCEPT ![n] = "completed"]
        /\ MarkCompleted(s, n, r).last = [s.last EXCEPT ![n] = r]
    BY DEF MarkCompleted, RunState
  <2> QED BY <1>1, <1>2, <2>1, MarkType
<1>5. Sound(s, MarkSkipped(s, n))
  <2>1. /\ MarkSkipped(s, n).status = [s.status EXCEPT ![n] = "skipped"]
        /\ MarkSkipped(s, n).last = [s.last EXCEPT ![n] = "note"]
    BY DEF MarkSkipped, RunState
  <2> QED BY <1>1, <1>2, <2>1, MarkType
<1>6. Sound(s, MarkBlocked(s, n, r))
  <2>1. /\ MarkBlocked(s, n, r).status = [s.status EXCEPT ![n] = "blocked"]
        /\ MarkBlocked(s, n, r).last = [s.last EXCEPT ![n] = r]
    BY DEF MarkBlocked, RunState
  <2> QED BY <1>1, <1>2, <2>1, MarkType
<1>7. Sound(s, MarkFailed(s, n, r))
  <2>1. /\ MarkFailed(s, n, r).status = [s.status EXCEPT ![n] = "failed"]
        /\ MarkFailed(s, n, r).last = [s.last EXCEPT ![n] = r]
    BY DEF MarkFailed, RunState
  <2> QED BY <1>1, <1>2, <2>1, MarkType
<1> QED BY <1>3, <1>4, <1>5, <1>6, <1>7

LEMMA BlockerSound ==
  ASSUME NEW s \in RunState, Safe(s), NEW n \in Node
  PROVE  Sound(s, RecordBlocker(s, n)) /\ RecordBlocker(s, n).blockers # {}
<1>1. RecordBlocker(s, n) \in RunState
  BY MarkType DEF Evidence
<1>2. /\ RecordBlocker(s, n).status = s.status
      /\ RecordBlocker(s, n).last = s.last
      /\ RecordBlocker(s, n).blockers # {}
  BY DEF RecordBlocker, RunState
<1> QED BY <1>1, <1>2, SameStatus

LEMMA ReadySound ==
  ASSUME NEW s \in RunState, Safe(s)
  PROVE  Sound(s, MarkReady(s))
<1> DEFINE b == MarkReady(s)
<1>1. b \in RunState
  BY MarkReadyType
<1>2. \A m \in Node : /\ b.last[m] = s.last[m]
                      /\ \/ b.status[m] = s.status[m]
                         \/ b.status[m] = "ready" /\ s.status[m] \in Waiting
  BY DEF MarkReady, ReadyTasks, RunState
<1> HIDE DEF b
<1>3. Kept(s, b)
  BY <1>2 DEF Kept, Terminal, Waiting
<1>4. \A t \in Task : b.status[t] # "absent"
  BY <1>2, NodeFacts DEF Safe
<1>5. \A m \in Node : Touched(b, m) => Touched(s, m)
  BY <1>2 DEF Touched, Started, Terminal, Broken, Waiting
<1> QED BY <1>1, <1>3, <1>4, <1>5, SoundStep DEF b

LEMMA DebugResetSound ==
  ASSUME NEW s \in RunState, Safe(s), NEW n \in Task, Ready(s, n),
         s.status[n] \notin Terminal
  PROVE  /\ Sound(s, CreateDebugAndReset(s, n))
         /\ \A m \in Node \ {n} : CreateDebugAndReset(s, n).status[m]
                                    \in {s.status[m], "pending"}
<1> DEFINE b == CreateDebugAndReset(s, n)
           d == <<n, s.retries[n]>>
<1>1. b \in RunState
  BY DebugResetType, NodeFacts
<1>2. /\ b.status[n] = "pending" /\ b.last = s.last
      /\ \A m \in Node \ {n, d} : b.status[m] = s.status[m]
      /\ d \in Node => b.status[d] \in {s.status[d], "pending"}
      /\ d \in Node /\ s.status[d] # "absent" => b.status[d] = s.status[d]
  <2> DEFINE g == [s.status EXCEPT ![n] = "pending"]
  <2>1. n \in Node /\ d # n
    BY GraphAssumption, NodeFacts DEF RunState
  <2>2. /\ b.status = [g EXCEPT ![d] = IF g[d] = "absent" THEN "pending" ELSE g[d]]
        /\ b.last = s.last
    BY DEF CreateDebugAndReset, RunState
  <2>3. s.status \in [Node -> Status]
    BY DEF RunState
  <2> HIDE DEF b, d
  <2> QED BY <2>1, <2>2, <2>3
<1>3. d \in Node => d \in Debug /\ Root(d) = n
  <2>1. d \in Task \X Nat /\ d[1] = n /\ d \notin Task
    BY GraphAssumption, NodeFacts DEF RunState
  <2> QED BY <2>1 DEF Node, Root
<1> HIDE DEF b, d
<1>4. Kept(s, b)
  BY <1>2 DEF Kept, Terminal
<1>5. Ready(b, n)
  BY <1>1, <1>4, KeptFacts, NodeFacts DEF Ready
<1>6. \A t \in Task : b.status[t] # "absent"
  BY <1>2, <1>3, NodeFacts DEF Safe
<1>7. ASSUME NEW m \in Node, Touched(b, m) PROVE Touched(s, m) \/ Ready(b, m)
  <2>1. CASE m = n
    BY <1>5, <2>1
  <2>2. CASE m = d
    BY <1>3, <1>5, <2>2, NodeFacts DEF Ready
  <2>3. CASE m \notin {n, d}
    BY <1>2, <1>7, <2>3 DEF Touched, Started
  <2> QED BY <2>1, <2>2, <2>3
<1>8. Sound(s, b)
  BY <1>1, <1>4, <1>6, <1>7, SoundStep
<1>9. \A m \in Node \ {n} : b.status[m] \in {s.status[m], "pending"}
  BY <1>2
<1> QED BY <1>8, <1>9 DEF b

\* Giving up a debug node leaves the rest as it is or resets it, or there is a
\* new blocker.
LEMMA ConvergeSound ==
  ASSUME NEW s \in RunState, Safe(s), NEW d \in OpenDebug(s)
  PROVE  /\ Sound(s, Converge(s, d))
         /\ Converge(s, d).blockers = {} =>
              \A m \in Node \ {d} : Converge(s, d).status[m]
                                      \in {s.status[m], "pending"}
<1> DEFINE root == Root(d)
           s1   == GiveUpDebug(s, d)
           s2   == MarkBlocked(s1, root, "note")
           s3   == [s1 EXCEPT !.status[root] = "pending", !.failed = @ \ {root}]
<1>0. /\ d \in Debug /\ d \in Node /\ root \in Task /\ root \in Node /\ root # d
      /\ Root(root) = root
      /\ s.status[d] \notin Terminal /\ s.status[d] # "absent"
      /\ "note" \in Evidence
  <2>1. d \in Debug /\ s.status[d] \notin Terminal /\ s.status[d] # "absent"
    BY DEF OpenDebug
  <2>2. "note" \in Evidence
    BY DEF Evidence
  <2> QED BY <2>1, <2>2, NodeFacts
<1>1. Ready(s, d)
  BY <1>0, NodeFacts DEF Safe, Ready, Touched
<1>2. s1 \in RunState /\ Sound(s, s1)
  BY <1>0, <1>1, MarkType, MarkSound DEF GiveUpDebug
<1>3. /\ \A m \in Node \ {d} : s1.status[m] = s.status[m]
      /\ s1.blockers = s.blockers
  BY <1>0 DEF GiveUpDebug, MarkSkipped, RunState
<1>4. Safe(s1) /\ Ready(s1, root)
  BY <1>0, <1>1, <1>2, KeptFacts, NodeFacts DEF Sound, Ready
<1>5. s2 \in RunState /\ (s.status[root] \notin Terminal => Sound(s1, s2))
  BY <1>0, <1>2, <1>3, <1>4, MarkType, MarkSound
<1>6. s3 \in RunState
  BY <1>0, <1>2 DEF RunState, Status, Terminal, Waiting, Broken
<1>7. /\ \A m \in Node \ {root} : s3.status[m] = s1.status[m]
      /\ s3.status[root] = "pending" /\ s3.last = s1.last
  BY <1>0, <1>2 DEF RunState
<1>8. s.status[root] \notin Terminal => Sound(s1, s3)
  <2> SUFFICES ASSUME s.status[root] \notin Terminal PROVE Sound(s1, s3)
    OBVIOUS
  <2>1. Kept(s1, s3)
    BY <1>0, <1>3, <1>7 DEF Kept
  <2>2. \A t \in Task : s3.status[t] # "absent"
    BY <1>4, <1>7, NodeFacts DEF Safe
  <2>3. Ready(s3, root)
    BY <1>0, <1>2, <1>4, <1>6, <2>1, KeptFacts DEF Ready
  <2>4. \A m \in Node : Touched(s3, m) => Touched(s1, m) \/ Ready(s3, m)
    BY <1>7, <2>3 DEF Touched, Started
  <2> QED BY <1>2, <1>4, <1>6, <2>1, <2>2, <2>4, SoundStep
<1> DEFINE b2 == RecordBlocker(s2, root)
           b1 == RecordBlocker(s1, root)
<1>9. /\ b1 \in RunState /\ Sound(s1, b1) /\ b1.blockers # {}
  BY <1>0, <1>2, <1>4, BlockerSound, MarkType
<1>10. s.status[root] \notin Terminal =>
         b2 \in RunState /\ Sound(s2, b2) /\ b2.blockers # {}
  BY <1>0, <1>5, BlockerSound, MarkType DEF Sound
<1>11. Converge(s, d) \in {s1, b1} \/
         (s.status[root] \notin Terminal /\ Converge(s, d) \in {b2, s3})
  BY DEF Converge
<1> HIDE DEF root, s1, s2, s3, b1, b2
<1>12. Sound(s, Converge(s, d))
  BY <1>2, <1>5, <1>6, <1>8, <1>9, <1>10, <1>11, SoundTrans
<1>13. Converge(s, d).blockers = {} => Converge(s, d) \in {s1, s3}
  BY <1>9, <1>10, <1>11
<1> QED BY <1>3, <1>7, <1>12, <1>13

LEMMA HandleFailedSound ==
  ASSUME NEW s \in RunState, Safe(s), NEW n \in Node, NEW r, Ready(s, n),
         s.status[n] \notin Terminal, n \in Debug => s.status[n] # "absent"
  PROVE  /\ Sound(s, HandleFailed(s, n, r))
         /\ HandleFailed(s, n, r).blockers = {} =>
              \A m \in Node \ {n} : HandleFailed(s, n, r).status[m]
                                      \in {s.status[m], "pending"}
<1> DEFINE a == [s EXCEPT !.status[n] = "blocked"]
           h == HandleFailed(s, n, r)
<1>1. CASE n \in Debug
  BY <1>1, ConvergeSound, NodeFacts DEF HandleFailed, OpenDebug
<1>2. CASE n \in Task
  <2>1. a \in RunState /\ Sound(s, a)
    <3>1. a \in RunState
      BY DEF RunState, Status, Broken
    <3>2. /\ \A m \in Node \ {n} : a.status[m] = s.status[m]
          /\ a.status[n] = "blocked" /\ a.last = s.last
      BY DEF RunState
    <3> HIDE DEF a
    <3>3. Kept(s, a)
      BY <3>2 DEF Kept
    <3>4. Ready(a, n)
      BY <3>1, <3>3, KeptFacts, NodeFacts DEF Ready
    <3>5. \A t \in Task : a.status[t] # "absent"
      BY <3>2, NodeFacts DEF Safe
    <3>6. \A m \in Node : Touched(a, m) => Touched(s, m) \/ Ready(a, m)
      BY <3>2, <3>4 DEF Touched, Started
    <3> QED BY <3>1, <3>3, <3>5, <3>6, SoundStep
  <2>2. RecordBlocker(a, n) \in RunState /\ RecordBlocker(s, n) \in RunState
    BY <2>1, MarkType DEF Evidence
  <2> HIDE DEF a
  <2>3. /\ Sound(s, RecordBlocker(a, n)) /\ RecordBlocker(a, n).blockers # {}
        /\ Sound(s, RecordBlocker(s, n)) /\ RecordBlocker(s, n).blockers # {}
    BY <2>1, <2>2, BlockerSound, SoundTrans DEF Sound
  <2>4. h \in {RecordBlocker(a, n), RecordBlocker(s, n), CreateDebugAndReset(s, n)}
    BY <1>2, NodeFacts DEF HandleFailed, a
  <2> QED BY <1>2, <2>3, <2>4, DebugResetSound
<1> QED BY <1>1, <1>2 DEF Node

LEMMA ApplySound ==
  ASSUME NEW s \in RunState, Safe(s), NEW n \in Node, NEW r \in Evidence,
         Ready(s, n), s.status[n] = "active"
  PROVE  /\ Sound(s, ApplyResult(s, n, r))
         /\ ApplyResult(s, n, r).blockers = {} =>
              \A m \in Node \ {n} : ApplyResult(s, n, r).status[m]
                                      \in {s.status[m], "pending"}
<1> DEFINE c == MarkCompleted(s, n, r)
           b == MarkBlocked(s, n, r)
           f == MarkFailed(s, n, r)
<1>1. "active" \notin Terminal
  BY DEF Terminal
<1>2. /\ c \in RunState /\ b \in RunState /\ f \in RunState
      /\ Sound(s, c) /\ Sound(s, b) /\ Sound(s, f)
  BY <1>1, MarkType, MarkSound
<1>3. /\ \A m \in Node \ {n} : c.status[m] = s.status[m] /\ f.status[m] = s.status[m]
      /\ f.status[n] = "failed"
  BY DEF MarkCompleted, MarkFailed, RunState
<1>4. Ready(f, n)
  BY <1>2, KeptFacts, NodeFacts DEF Ready, Sound
<1>5. RecordBlocker(b, n) \in RunState /\ HandleFailed(f, n, r) \in RunState
  BY <1>2, MarkType, HandleFailedType
<1> HIDE DEF c, b, f
<1>6. Sound(s, RecordBlocker(b, n)) /\ RecordBlocker(b, n).blockers # {}
  BY <1>2, <1>5, BlockerSound, SoundTrans DEF Sound
<1>7. /\ Sound(f, HandleFailed(f, n, r))
      /\ HandleFailed(f, n, r).blockers = {} =>
           \A m \in Node \ {n} : HandleFailed(f, n, r).status[m]
                                   \in {f.status[m], "pending"}
  <2>1. f.status[n] \notin Terminal /\ f.status[n] # "absent"
    BY <1>3 DEF Terminal
  <2> QED BY <1>2, <1>4, <2>1, HandleFailedSound DEF Sound
<1>8. Sound(s, HandleFailed(f, n, r))
  BY <1>2, <1>5, <1>7, SoundTrans
<1>9. ApplyResult(s, n, r) \in {c, RecordBlocker(b, n), HandleFailed(f, n, r)}
  BY DEF ApplyResult, c, b, f
<1> QED BY <1>2, <1>3, <1>6, <1>7, <1>8, <1>9

LEMMA PruneSound ==
  ASSUME NEW s \in RunState, Safe(s)
  PROVE  /\ Sound(s, Prune(s))
         /\ Prune(s).blockers = s.blockers
         /\ \A n \in Node : Prune(s).status[n] \in {s.status[n], "skipped"}
<1> DEFINE b == Prune(s)
<1>1. b \in RunState
  BY RepairType
<1>2. /\ b.blockers = s.blockers
      /\ \A n \in Node : IF n \in Obsolete(s) THEN b.status[n] = "skipped"
                         ELSE b.status[n] = s.status[n] /\ b.last[n] = s.last[n]
  BY DEF Prune, RunState
<1>3. \A n \in Obsolete(s) : n \in Debug /\ Touched(s, n) /\ s.status[n] \notin Terminal
  BY NodeFacts DEF Obsolete, OpenDebug, Touched
<1> HIDE DEF b
<1>4. Kept(s, b)
  BY <1>2, <1>3 DEF Kept
<1>5. \A t \in Task : b.status[t] # "absent"
  BY <1>2, <1>3, NodeFacts DEF Safe
<1>6. \A n \in Node : Touched(b, n) => Touched(s, n)
  BY <1>2, <1>3 DEF Touched, Started
<1>7. Sound(s, b)
  BY <1>1, <1>4, <1>5, <1>6, SoundStep
<1> QED BY <1>2, <1>7 DEF b

LEMMA PromoteSound ==
  ASSUME NEW s \in RunState, Safe(s)
  PROVE  Sound(s, Promote(s))
<1> DEFINE b == Promote(s)
<1>1. b \in RunState
  BY RepairType
<1>2. \A n \in Node : IF n \in Promotable(s) THEN b.status[n] = "completed"
                      ELSE b.status[n] = s.status[n] /\ b.last[n] = s.last[n]
  BY DEF Promote, RunState
<1>3. \A n \in Promotable(s) : n \in Task /\ s.status[n] \in Broken
  BY DEF Promotable
<1> HIDE DEF b
<1>4. Kept(s, b)
  BY <1>2, <1>3 DEF Kept, Terminal, Broken
<1>5. \A t \in Task : b.status[t] # "absent"
  BY <1>2, NodeFacts DEF Safe
<1>6. \A n \in Node : Touched(b, n) => Touched(s, n)
  BY <1>2, <1>3 DEF Touched, Started
<1> QED BY <1>1, <1>4, <1>5, <1>6, SoundStep DEF b

LEMMA CompleteSound ==
  ASSUME NEW s \in RunState, Safe(s)
  PROVE  Sound(s, CompleteRest(s))
<1> DEFINE b == CompleteRest(s)
<1>1. b \in RunState
  BY RepairType
<1>2. \A n \in Node : IF n \in Exists(s) \ Finished(s) THEN b.status[n] = "completed"
                      ELSE b.status[n] = s.status[n] /\ b.last[n] = s.last[n]
  BY DEF CompleteRest, RunState
<1> HIDE DEF b
<1>3. Kept(s, b)
  BY <1>2 DEF Kept, Finished
<1>4. \A t \in Task : b.status[t] \in Terminal
  BY <1>2, NodeFacts DEF Safe, Exists, Finished, Terminal
<1>5. \A n \in Node : Ready(b, n)
  BY <1>4, NodeFacts DEF Ready, DepsFinished, Finished
<1>6. \A t \in Task : b.status[t] # "absent"
  BY <1>4 DEF Terminal
<1> QED BY <1>1, <1>3, <1>5, <1>6, SoundStep DEF b

LEMMA PrepareSound ==
  ASSUME NEW s \in RunState, Safe(s), NEW sel \in SUBSET Node
  PROVE  Sound(s, Prepare(s, sel))
<1> DEFINE b     == Prepare(s, sel)
           reset == ResetTasks(s, sel)
           recon == Reconciled(s, sel)
<1>1. b \in RunState
  <2>1. [n \in Node |-> "none"] \in [Node -> WorkerFile]
    BY DEF WorkerFile
  <2> QED BY <2>1, RecoveryType
<1>2. \A n \in Node : /\ b.last[n] = s.last[n]
                      /\ b.status[n] = IF n \in recon THEN "completed"
                                       ELSE IF n \in reset THEN "pending"
                                       ELSE s.status[n]
  BY DEF Prepare, RunState
<1>3. /\ \A n \in recon : s.status[n] = "active"
      /\ \A n \in reset : s.status[n] \in Waiting \cup Broken \cup {"active"}
  BY DEF Reconciled, ResetTasks, BlockedReset, Broken
<1> HIDE DEF b, reset, recon
<1>4. Kept(s, b)
  BY <1>2, <1>3 DEF Kept, Terminal, Waiting, Broken
<1>5. \A t \in Task : b.status[t] # "absent"
  BY <1>2, NodeFacts DEF Safe
<1>6. \A n \in Node : Touched(b, n) => Touched(s, n)
  BY <1>2, <1>3 DEF Touched, Started, Terminal, Waiting, Broken
<1> QED BY <1>1, <1>4, <1>5, <1>6, SoundStep DEF b

-----------------------------------------------------------------------------
(* The loop preserves the invariant. *)

\* A step that changes the state in memory soundly, and saves it or not.
LEMMA SaveStep ==
  ASSUME RunInvariant, TypeOK', Sound(run, run'), disk' \in {disk, run'}
  PROVE  Safe(run') /\ Safe(disk') /\ Kept(disk', run') /\ Kept(disk, disk')
<1>1. run \in RunState /\ disk \in RunState /\ run' \in RunState
  BY DEF RunInvariant, TypeOK
<1>2. Safe(run') /\ Kept(run, run') /\ Kept(disk, run) /\ Safe(disk)
  BY DEF Sound, RunInvariant
<1>3. Kept(disk, run')
  BY <1>1, <1>2, KeptFacts
<1>4. Kept(disk, disk) /\ Kept(run', run')
  BY DEF Kept
<1> QED BY <1>2, <1>3, <1>4

\* A step that starts over from the saved state.
LEMMA RestartStep ==
  ASSUME RunInvariant, TypeOK', Sound(disk, run'), disk' \in {disk, run'}
  PROVE  Safe(run') /\ Safe(disk') /\ Kept(disk', run') /\ Kept(disk, disk')
<1>1. Kept(disk, disk) /\ Kept(run', run')
  BY DEF Kept
<1> QED BY <1>1 DEF Sound, RunInvariant

Goal == Safe(run') /\ Safe(disk') /\ Kept(disk', run') /\ PassIsSound'
        /\ Kept(disk, disk')

LEMMA AfterTaskSound ==
  ASSUME RunInvariant, TypeOK', pc \in {"dispatched", "exited"},
         NEW s0 \in RunState, NEW r, AfterTask(s0, r), Sound(run, s0),
         s0.blockers = {} =>
           \A m \in Node \ {cur} : s0.status[m] \in {run.status[m], "pending"}
  PROVE  Goal
<1> DEFINE s == Prune(s0)
<1>0. run \in RunState /\ Safe(s0) /\ Kept(run, s0) /\ cur' = cur
  BY DEF RunInvariant, TypeOK, Sound, AfterTask
<1>1. /\ s \in RunState /\ Sound(run, s) /\ s.blockers = s0.blockers
      /\ \A n \in Node : s.status[n] \in {s0.status[n], "skipped"}
  BY <1>0, PruneSound, RepairType, SoundTrans
<1>2. /\ run.blockers = {}
      /\ \A n \in queue \ {cur} : Listed(n)
      /\ queue \subseteq Node
  BY DEF RunInvariant, PassIsSound, TypeOK
<1> HIDE DEF s
<1>3. CASE Save(s) /\ Stop("run_blocked")
  <2>1. Safe(run') /\ Safe(disk') /\ Kept(disk', run') /\ Kept(disk, disk')
    BY <1>1, <1>3, SaveStep DEF Save
  <2> QED BY <1>3, <2>1 DEF Goal, Stop, PassIsSound
<1>4. CASE /\ \E score \in Scores :
                Save([CompleteRest(s) EXCEPT !.done = Evaluate(CompleteRest(s), score)])
           /\ Stop("repair_convergence")
  <2> DEFINE c == CompleteRest(s)
  <2>1. PICK score \in Scores : Save([c EXCEPT !.done = Evaluate(c, score)])
    BY <1>4
  <2>2. c \in RunState /\ Sound(run, c)
    BY <1>0, <1>1, CompleteSound, RepairType, SoundTrans DEF Sound
  <2> HIDE DEF c
  <2>3. run' \in RunState /\ run'.status = c.status /\ run'.last = c.last
    BY <2>1, <2>2 DEF Save, RunState, TypeOK
  <2>4. Sound(run, run')
    BY <1>0, <2>2, <2>3, SameStatus, SoundTrans DEF Sound
  <2>5. Safe(run') /\ Safe(disk') /\ Kept(disk', run') /\ Kept(disk, disk')
    BY <2>1, <2>4, SaveStep DEF Save
  <2> QED BY <1>4, <2>5 DEF Goal, Stop, PassIsSound
<1>5. CASE /\ s.blockers \subseteq run.blockers
           /\ run' = s
           /\ IF OpenDebug(s) # {}
                THEN queue' = {} /\ disk' = s
                ELSE queue' = queue \ {cur} /\ disk' = (IF s = s0 THEN disk ELSE s)
           /\ pc' = "tasks"
           /\ UNCHANGED outcome
  <2>1. Safe(run') /\ Safe(disk') /\ Kept(disk', run') /\ Kept(disk, disk')
    BY <1>1, <1>5, SaveStep
  <2>2. queue' \subseteq queue \ {cur} /\ run'.blockers = {} /\ s0.blockers = {}
    BY <1>1, <1>2, <1>5
  <2>3. ASSUME NEW n \in queue' PROVE Listed(n)'
    <3>1. n \in Node \ {cur} /\ Listed(n)
      BY <1>2, <2>2
    <3>2. run'.status[n] \in Waiting \cup {"skipped"}
      BY <1>1, <1>5, <2>2, <3>1 DEF Listed, Waiting
    <3>3. DepsFinished(run', n)
      BY <1>0, <1>1, <1>5, <3>1, KeptFacts DEF Listed, Sound
    <3> QED BY <3>2, <3>3 DEF Listed
  <2> QED BY <1>5, <2>1, <2>2, <2>3 DEF Goal, PassIsSound
<1> QED BY <1>3, <1>4, <1>5 DEF AfterTask, s

LEMMA InvariantStep == RunInvariant /\ [Next]_vars => RunInvariant' /\ Kept(disk, disk')
<1> SUFFICES ASSUME RunInvariant, [Next]_vars PROVE Goal
  BY TypeStep DEF RunInvariant, Goal
<1>0. /\ TypeOK /\ TypeOK'
      /\ run \in RunState /\ disk \in RunState
      /\ Safe(run) /\ Safe(disk) /\ Kept(disk, run) /\ Kept(run, run)
      /\ cur \in Node /\ queue \subseteq Node
  BY TypeStep DEF RunInvariant, TypeOK, Kept
<1> DEFINE p == Prune(run)
<1>p. /\ p \in RunState /\ Sound(run, p) /\ Safe(p) /\ p.blockers = run.blockers
      /\ \A n \in Node : p.status[n] \in {run.status[n], "skipped"}
  BY <1>0, PruneSound, RepairType DEF Sound
<1> HIDE DEF p
<1>1. CASE ConvergeChains
  <2>1. PICK d \in UnproductiveDebug(run) : run' = Converge(run, d)
    BY <1>1 DEF ConvergeChains
  <2>2. Sound(run, run')
    BY <1>0, <2>1, ConvergeSound DEF UnproductiveDebug
  <2>3. Safe(run') /\ Safe(disk') /\ Kept(disk', run') /\ Kept(disk, disk')
    BY <1>0, <1>1, <2>2, SaveStep DEF ConvergeChains
  <2> QED BY <1>1, <2>3 DEF ConvergeChains, Goal, PassIsSound
<1>2. CASE PassDone
  <2>1. run' = disk' /\ run' = [p EXCEPT !.done = TRUE] /\ pc' = "stopped"
    BY <1>2 DEF PassDone, Save, Stop, p
  <2>2. run'.status = p.status /\ run'.last = p.last /\ run' \in RunState
    BY <1>0, <1>p, <2>1 DEF TypeOK, RunState
  <2>3. Sound(run, run')
    BY <1>0, <1>p, <2>2, SameStatus, SoundTrans
  <2> QED BY <1>0, <2>1, <2>3, SaveStep DEF Goal, PassIsSound
<1>3. CASE PassPromotes
  <2>1. run' = disk' /\ run' = Promote(p) /\ pc' = "top"
    BY <1>3 DEF PassPromotes, PassStarts, Save, p
  <2>2. Sound(run, run')
    BY <1>0, <1>p, <2>1, PromoteSound, RepairType, SoundTrans
  <2> QED BY <1>0, <2>1, <2>2, SaveStep DEF Goal, PassIsSound
<1>4. CASE PassBlocked \/ PassIdle
  <2>1. run' = disk' /\ run' = p /\ pc' = "stopped"
    BY <1>4 DEF PassBlocked, PassIdle, Save, Stop, p
  <2> QED BY <1>0, <1>p, <2>1, SaveStep DEF Goal, PassIsSound
<1>5. CASE PassRetries
  <2>1. /\ run' = p /\ disk' \in {disk, run'} /\ pc' = "retrying"
        /\ queue' = RetryableFailures(p)
    BY <1>5 DEF PassRetries, p
  <2>2. ASSUME NEW n \in queue'
        PROVE  n \in Task /\ run'.status[n] \notin Terminal /\ DepsFinished(run', n)
    <3>1. n \in Node /\ p.status[n] = "failed"
      BY <2>1 DEF RetryableFailures
    <3>2. n \notin Debug
      BY <1>p, <1>5, <3>1
         DEF PassRetries, PassStarts, UnproductiveDebug, OpenDebug, Terminal, Broken
    <3>3. n \in Task /\ Touched(p, n)
      BY <3>1, <3>2 DEF Node, Touched, Started, Broken
    <3> QED BY <1>p, <2>1, <3>1, <3>3, NodeFacts DEF Safe, Terminal
  <2>3. Safe(run') /\ Safe(disk') /\ Kept(disk', run') /\ Kept(disk, disk')
    BY <1>0, <1>p, <2>1, SaveStep
  <2> QED BY <2>1, <2>2, <2>3 DEF Goal, PassIsSound
<1>6. CASE PassSelects
  <2>1. /\ run' = MarkReady(p) /\ disk' \in {disk, p} /\ pc' = "tasks"
        /\ queue' = ReadyTasks(p) /\ ~HasHardBlocker(p)
    BY <1>6 DEF PassSelects, p
  <2>2. Sound(p, run') /\ run' \in RunState
    BY <1>p, <2>1, ReadySound, MarkReadyType
  <2>3. Sound(run, run') /\ Kept(disk, p) /\ Kept(disk, run') /\ Kept(p, run')
    BY <1>0, <1>p, <2>2, SoundTrans, KeptFacts DEF Sound
  <2>4. Safe(run') /\ Safe(disk') /\ Kept(disk', run') /\ Kept(disk, disk')
    <3>1. Kept(disk, disk)
      BY DEF Kept
    <3> QED BY <1>0, <1>p, <2>1, <2>3, <3>1 DEF Sound
  <2>5. run'.blockers = {}
    BY <1>p, <2>1 DEF HasHardBlocker, MarkReady, RunState
  <2>6. ASSUME NEW n \in queue' PROVE Listed(n)'
    <3>1. n \in Node /\ DepsFinished(p, n) /\ run'.status[n] = "ready"
      BY <1>p, <2>1 DEF ReadyTasks, MarkReady, RunState
    <3> QED BY <1>p, <2>2, <2>3, <3>1, KeptFacts DEF Listed, Waiting
  <2> QED BY <2>1, <2>4, <2>5, <2>6 DEF Goal, PassIsSound
<1>7. CASE IterationLimit
  <2>1. Sound(run, run') /\ run' = disk' /\ pc' = "stopped"
    BY <1>0, <1>7 DEF IterationLimit, Save, Stop, Sound
  <2> QED BY <1>0, <2>1, SaveStep DEF Goal, PassIsSound
<1>8. CASE PassEnds
  <2>1. PICK done : run' = [run EXCEPT !.done = done] /\ disk' = run'
    BY <1>8 DEF PassEnds, Save
  <2>2. run'.status = run.status /\ run'.last = run.last /\ run' \in RunState
    BY <1>0, <2>1 DEF TypeOK, RunState
  <2>3. Sound(run, run')
    BY <1>0, <2>2, SameStatus
  <2>4. pc' \in {"stopped", "top"}
    BY <1>8 DEF PassEnds
  <2> QED BY <1>0, <2>1, <2>3, <2>4, SaveStep DEF Goal, PassIsSound
<1>9. ASSUME NEW n \in Node, RetryFailure(n) PROVE Goal
  <2>1. /\ run' = HandleFailed(run, n, "failed") /\ disk' \in {disk, run'}
        /\ pc = "retrying" /\ n \in queue /\ queue' = queue \ {n}
        /\ pc' \in {"retrying", "top"}
    BY <1>9 DEF RetryFailure
  <2>2. \A m \in queue : m \in Task /\ run.status[m] \notin Terminal /\ Ready(run, m)
    BY <2>1, NodeFacts DEF RunInvariant, PassIsSound, Ready
  <2>3. Sound(run, run') /\ run' \in RunState
    BY <1>0, <2>1, <2>2, NodeFacts, HandleFailedSound, HandleFailedType
  <2>4. Safe(run') /\ Safe(disk') /\ Kept(disk', run') /\ Kept(disk, disk')
    BY <1>0, <2>1, <2>3, SaveStep
  <2>5. \A m \in Node \ {n} : run'.status[m] \in {run.status[m], "pending"}
    <3>1. run' \in {CreateDebugAndReset(run, n), RecordBlocker(run, n)}
      BY <2>1, <2>2, NodeFacts DEF HandleFailed, Environment
    <3>2. RecordBlocker(run, n).status = run.status
      BY <1>0 DEF RecordBlocker, RunState
    <3> QED BY <1>0, <2>1, <2>2, <3>1, <3>2, DebugResetSound
  <2>6. ASSUME NEW m \in queue'
        PROVE  m \in Task /\ run'.status[m] \notin Terminal /\ DepsFinished(run', m)
    <3>1. run'.status[m] \notin Terminal
      BY <2>1, <2>2, <2>5, NodeFacts DEF Terminal
    <3> QED BY <1>0, <2>1, <2>2, <2>3, <3>1, KeptFacts, NodeFacts DEF Ready, Sound
  <2> QED BY <2>1, <2>4, <2>6 DEF Goal, PassIsSound
<1>11. ASSUME NEW n \in Node, Dispatch(n) PROVE Goal
  <2>1. /\ run' = MarkActive(p, n) /\ disk' = run' /\ queue' = queue /\ cur' = n
        /\ pc = "tasks" /\ pc' = "dispatched" /\ n \in queue
        /\ p.status[n] # "skipped"
    BY <1>11 DEF Dispatch, AtTask, IsNext, Save, p
  <2>2. run.blockers = {} /\ \A m \in queue : Listed(m)
    BY <2>1 DEF RunInvariant, PassIsSound
  <2>3. /\ \A m \in queue : p.status[m] \in Waiting \cup {"skipped"} /\ DepsFinished(p, m)
        /\ p.status[n] \in Waiting
    BY <1>0, <1>p, <2>1, <2>2, KeptFacts DEF Listed, Sound
  <2>4. Ready(p, n)
    <3>1. CASE n \in Task
      BY <2>1, <2>3, <3>1, NodeFacts DEF Ready
    <3>2. CASE n \in Debug
      BY <1>p, <2>3, <3>2, NodeFacts DEF Safe, Ready, Touched, Waiting
    <3> QED BY <3>1, <3>2 DEF Node
  <2>5. Sound(p, run') /\ run' \in RunState
    BY <1>p, <2>1, <2>3, <2>4, MarkSound, MarkType DEF Evidence, Terminal, Waiting
  <2>6. Sound(run, run')
    BY <1>0, <1>p, <2>5, SoundTrans
  <2>7. Safe(run') /\ Safe(disk') /\ Kept(disk', run') /\ Kept(disk, disk')
    BY <1>0, <2>1, <2>6, SaveStep
  <2>8. /\ run'.status[n] = "active" /\ run'.blockers = p.blockers
        /\ \A m \in Node \ {n} : run'.status[m] = p.status[m]
    BY <1>p, <2>1 DEF MarkActive, RunState
  <2>9. \A m \in queue : DepsFinished(run', m)
    BY <1>0, <1>p, <2>3, <2>5, KeptFacts DEF Sound
  <2>10. \A m \in queue \ {n} : Listed(m)'
    BY <1>0, <2>3, <2>8, <2>9 DEF Listed
  <2> QED BY <1>p, <2>1, <2>2, <2>7, <2>8, <2>9, <2>10 DEF Goal, PassIsSound
<1>12. ASSUME NEW n \in Node, NEW c \in Controls, ObeyControl(n, c) PROVE Goal
  <2>1. /\ run' \in {p, [p EXCEPT !.notices = @ \cup {"stop"}]} /\ disk' = run'
        /\ pc' = "stopped"
    BY <1>12 DEF ObeyControl, AtTask, Save, Stop, p
  <2>2. run'.status = p.status /\ run'.last = p.last /\ run' \in RunState
    BY <1>0, <1>p, <2>1 DEF TypeOK, RunState
  <2>3. Sound(run, run')
    BY <1>0, <1>p, <2>2, SameStatus, SoundTrans
  <2> QED BY <1>0, <2>1, <2>3, SaveStep DEF Goal, PassIsSound
<1>13. CASE LaunchWorker \/ \E r \in WorkerResult : WorkerExits(r)
  <2>1. /\ UNCHANGED <<run, disk, queue, cur>>
        /\ pc \in {"dispatched", "running"} /\ pc' \in {"running", "exited"}
    BY <1>13 DEF LaunchWorker, WorkerExits
  <2>2. \A n \in queue : Listed(n) <=> Listed(n)'
    BY <2>1 DEF Listed
  <2>3. PassIsSound'
    BY <2>1, <2>2 DEF RunInvariant, PassIsSound
  <2> QED BY <1>0, <2>1, <2>3 DEF Goal, Kept
<1>14. ASSUME pc \in {"dispatched", "exited"}, NEW s1 \in RunState,
              s1.status = run.status, s1.last = run.last
       PROVE  /\ \A x \in Evidence :
                   LET a == ApplyResult(s1, cur, x) IN
                   /\ a \in RunState /\ Sound(run, a)
                   /\ a.blockers = {} => \A m \in Node \ {cur} :
                                           a.status[m] \in {run.status[m], "pending"}
              /\ Ready(s1, cur) /\ s1.status[cur] = "active" /\ Safe(s1)
              /\ Sound(run, s1)
  <2>1. Sound(run, s1) /\ Safe(s1)
    BY <1>0, <1>14, SameStatus DEF Sound
  <2>2. s1.status[cur] = "active"
    BY <1>14 DEF RunInvariant, PassIsSound
  <2>3. Ready(s1, cur)
    BY <1>0, <2>1, <2>2 DEF Safe, Touched, Started, Ready
  <2>4. ASSUME NEW x \in Evidence
        PROVE  LET a == ApplyResult(s1, cur, x) IN
               /\ a \in RunState /\ Sound(run, a)
               /\ a.blockers = {} => \A m \in Node \ {cur} :
                                       a.status[m] \in {run.status[m], "pending"}
    BY <1>0, <1>14, <2>1, <2>2, <2>3, ApplySound, ApplyType, SoundTrans
  <2> QED BY <2>1, <2>2, <2>3, <2>4
<1>15. CASE RecordResult
  <2> DEFINE s1 == [run EXCEPT !.proven = @ \ {cur}]
  <2>1. /\ s1 \in RunState /\ s1.status = run.status /\ s1.last = run.last
        /\ result \in Evidence /\ pc = "exited"
        /\ AfterTask(ApplyResult(s1, cur, result), result)
    BY <1>0, <1>15 DEF RecordResult, RunState, TypeOK, Evidence
  <2> HIDE DEF s1
  <2> QED BY <1>0, <1>14, <2>1, AfterTaskSound
<1>16. CASE Review
  <2>1. /\ pc = "dispatched" /\ {"passed", "failed"} \subseteq Evidence
        /\ \E x \in {"passed", "failed"} : AfterTask(ApplyResult(run, cur, x), x)
    BY <1>16 DEF Review, Evidence, WorkerResult
  <2> QED BY <1>0, <1>14, <2>1, AfterTaskSound
<1>17. ASSUME NEW r \in {"passed", "failed", "skipped"}, Inspect(r) PROVE Goal
  <2>1. /\ pc = "dispatched"
        /\ \/ AfterTask(MarkSkipped(run, cur), r)
           \/ r \in Evidence /\ AfterTask(ApplyResult(run, cur, r), r)
    BY <1>17 DEF Inspect, Evidence, WorkerResult
  <2>2. MarkSkipped(run, cur) \in RunState /\ Sound(run, MarkSkipped(run, cur))
    <3>1. Ready(run, cur) /\ run.status[cur] \notin Terminal /\ "note" \in Evidence
      BY <1>0, <1>14, <2>1 DEF Terminal, Evidence
    <3> QED BY <1>0, <3>1, MarkSound, MarkType
  <2>3. \A m \in Node \ {cur} : MarkSkipped(run, cur).status[m] = run.status[m]
    BY <1>0 DEF MarkSkipped, RunState
  <2> QED BY <1>0, <1>14, <2>1, <2>2, <2>3, AfterTaskSound
<1>18. ASSUME NEW g \in ReleaseOutcomes, Release(g) PROVE Goal
  <2> DEFINE s == [run EXCEPT !.github = (g # "failed")]
             a == [s EXCEPT !.status[cur] = "completed", !.last[cur] = "weak"]
             b == RecordBlocker(MarkBlocked(s, cur, "weak"), cur)
             f == MarkFailed(s, cur, "failed")
  <2>1. s \in RunState /\ s.status = run.status /\ s.last = run.last
    BY <1>0 DEF RunState
  <2>2. pc = "dispatched" /\ {"weak", "failed"} \subseteq Evidence
    BY <1>18 DEF Release, Evidence, WorkerResult
  <2>3. \E x \in {a, b, f} : AfterTask(x, "release")
    BY <1>18, LoopAssumption DEF Release
  <2> HIDE DEF s
  <2>4. /\ Ready(s, cur) /\ s.status[cur] = "active" /\ Safe(s) /\ Sound(run, s)
        /\ s.status[cur] \notin Terminal
    BY <1>14, <2>1, <2>2 DEF Terminal
  <2>5. /\ MarkCompleted(s, cur, "weak") \in RunState
        /\ Sound(run, MarkCompleted(s, cur, "weak"))
    BY <1>0, <2>1, <2>2, <2>4, MarkSound, MarkType, SoundTrans
  <2>6. /\ MarkBlocked(s, cur, "weak") \in RunState /\ f \in RunState
        /\ Sound(run, MarkBlocked(s, cur, "weak")) /\ Sound(run, f)
    BY <1>0, <2>1, <2>2, <2>4, MarkSound, MarkType, SoundTrans
  <2>7. \A m \in Node \ {cur} : /\ a.status[m] = run.status[m]
                                /\ f.status[m] = run.status[m]
    BY <1>0, <2>1 DEF MarkFailed, RunState
  <2>8. a \in RunState /\ Sound(run, a)
    <3>1. a.status = MarkCompleted(s, cur, "weak").status
          /\ a.last = MarkCompleted(s, cur, "weak").last
      BY <2>1 DEF MarkCompleted, RunState
    <3>2. a \in RunState
      BY <1>0, <2>1, <2>2 DEF RunState, Status, Terminal
    <3> HIDE DEF a
    <3> QED BY <1>0, <2>5, <3>1, <3>2, SameStatus, SoundTrans DEF Sound
  <2>9. b \in RunState /\ Sound(run, b) /\ b.blockers # {}
    <3> DEFINE mb == MarkBlocked(s, cur, "weak")
    <3>1. mb \in RunState /\ Sound(run, mb) /\ Safe(mb)
      BY <2>6 DEF Sound
    <3> HIDE DEF mb
    <3>2. RecordBlocker(mb, cur) \in RunState
      BY <1>0, <2>2, <3>1, MarkType
    <3>3. Sound(mb, RecordBlocker(mb, cur)) /\ RecordBlocker(mb, cur).blockers # {}
      BY <1>0, <3>1, BlockerSound
    <3> QED BY <1>0, <3>1, <3>2, <3>3, SoundTrans DEF mb
  <2> HIDE DEF a, b, f
  <2> QED BY <1>0, <2>2, <2>3, <2>6, <2>7, <2>8, <2>9, AfterTaskSound
<1>19. CASE Crash \/ Rerun
  <2>1. run' = disk /\ disk' = disk /\ pc' \in {"crashed", "top"}
    BY <1>19 DEF Crash, Rerun, Save
  <2>2. Kept(disk, disk)
    BY DEF Kept
  <2> QED BY <1>0, <2>1, <2>2 DEF Goal, PassIsSound
<1>20. ASSUME NEW sel \in Selections, NEW preflight \in BOOLEAN, Resume(sel, preflight)
       PROVE  Goal
  <2> DEFINE d == RecoverySource
             s == Prepare(d, sel)
  <2>1. d \in RunState /\ d.status = disk.status /\ d.last = disk.last /\ sel \subseteq Node
    <3>1. disk \in RunState /\ files \in [Node -> WorkerFile] /\ sel \subseteq Node
      BY <1>0, LoopAssumption DEF TypeOK
    <3>2. d \in RunState
      BY <3>1, RecoveryType DEF RecoverySource
    <3>3. d.status = disk.status /\ d.last = disk.last
      BY <3>1 DEF RecoverySource, MergeWorkerFiles, RunState
    <3> QED BY <3>1, <3>2, <3>3
  <2>2. Sound(disk, d)
    BY <1>0, <2>1, SameStatus
  <2> HIDE DEF d
  <2>3. s \in RunState /\ Sound(d, s)
    <3>1. [n \in Node |-> "none"] \in [Node -> WorkerFile]
      BY DEF WorkerFile
    <3> QED BY <2>1, <2>2, <3>1, PrepareSound, RecoveryType DEF Sound
  <2>4. Sound(disk, s)
    BY <1>0, <2>1, <2>2, <2>3, SoundTrans
  <2>5. /\ disk' = run' /\ run'.status = s.status /\ run'.last = s.last
        /\ run' \in RunState /\ pc' \in {"stopped", "top"}
    <3>1. disk' = run' /\ run' \in RunState /\ pc' \in {"stopped", "top"}
      BY <1>0, <1>20 DEF Resume, Save, TypeOK
    <3>2. \E x : run' \in {s, [s EXCEPT !.notices = x]}
      BY <1>20 DEF Resume, Save, d
    <3> HIDE DEF s
    <3> QED BY <2>3, <3>1, <3>2 DEF RunState
  <2> HIDE DEF s
  <2>6. Sound(disk, run')
    BY <1>0, <2>3, <2>4, <2>5, SameStatus, SoundTrans DEF Sound
  <2> QED BY <1>0, <2>5, <2>6, RestartStep DEF Goal, PassIsSound
<1>21. CASE UNCHANGED vars
  <2>1. Kept(disk, disk)
    BY DEF Kept
  <2>2. PassIsSound'
    BY <1>21 DEF vars, RunInvariant, PassIsSound, Listed
  <2> QED BY <1>0, <1>21, <2>1, <2>2 DEF Goal, vars
<1> QED
  BY <1>1, <1>2, <1>3, <1>4, <1>5, <1>6, <1>7, <1>8, <1>9, <1>11, <1>12,
     <1>13, <1>15, <1>16, <1>17, <1>18, <1>19, <1>20, <1>21
     DEF Next, LoopStep, Control, Restart

LEMMA InitialSound == Init => RunInvariant
<1> SUFFICES ASSUME Init PROVE RunInvariant
  OBVIOUS
<1>1. TypeOK
  BY InitialType, LoopAssumption
     DEF Init, TypeOK, Node, Places, Outcomes, WorkerFile
<1>2. \A n \in Node : /\ InitialRunState.status[n] = IF n \in Task THEN "pending" ELSE "absent"
                      /\ InitialRunState.last[n] = "none"
  BY DEF InitialRunState
<1>3. Safe(InitialRunState)
  BY <1>2, NodeFacts DEF Safe, Touched, Started, Terminal, Broken
<1>4. Kept(InitialRunState, InitialRunState)
  BY DEF Kept
<1> QED BY <1>1, <1>3, <1>4 DEF Init, RunInvariant, PassIsSound

\* The invariant of the runtime loop holds for every task graph, every result of
\* every worker, and any number of crashes, recoveries and restarts.
THEOREM InvariantHolds == Spec => []RunInvariant
<1>1. RunInvariant /\ [Next]_vars => RunInvariant'
  BY InvariantStep
<1> QED BY <1>1, InitialSound, PTL DEF Spec

\* No task is ever dispatched before the tasks it depends on are finished, in
\* memory or in the saved state (get_ready_tasks, prepare).
THEOREM DependenciesAreKept == Spec => []DependenciesHold
<1>1. RunInvariant => DependenciesHold
  <2> SUFFICES ASSUME RunInvariant, NEW t \in Task, NEW s \in {run, disk},
                      Started(s, t) \/ s.last[t] # "none"
               PROVE  DepsFinished(s, t)
    BY DEF DependenciesHold
  <2> QED BY NodeFacts DEF RunInvariant, Safe, Touched
<1> QED BY <1>1, InvariantHolds, PTL

\* No save, crash, recovery or restart takes back a task the state file says is
\* completed or skipped (run, prepare).
THEOREM FinishedStays == Spec => FinishedIsFinal
<1>1. RunInvariant /\ [Next]_vars =>
        [\A n \in Node :
           disk.status[n] \in Terminal => disk'.status[n] = disk.status[n]]_vars
  BY InvariantStep DEF Kept
<1> QED BY <1>1, InvariantHolds, PTL DEF Spec, FinishedIsFinal
=============================================================================
