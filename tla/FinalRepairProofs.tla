--------------------------- MODULE FinalRepairProofs ---------------------------
(***************************************************************************)
(* Proofs about the final verification: for any findings and any number    *)
(* of attempts, what is delivered had its gates run last, and what starts  *)
(* completed was run before.  Which tasks an attempt has is left open: the *)
(* proofs ask only that the repairs between the planning task and the      *)
(* gates are a sequence of titles.                                         *)
(***************************************************************************)
EXTENDS FinalRepairProperties, WellFoundedInduction, SequenceTheorems,
        TLAPS

\* Repairs are cut out of the forest of tasks by recursion over sequences, which is the
\* one thing about them that is not proved here; TypeOK of the run checks it.
PlansAreSequences ==
  \A b : b.timeout \in BOOLEAN => \E S : ForTargets(b, Repairs(b)) \in Seq(S)

-----------------------------------------------------------------------------
(* Graphs. *)

Planned(g) == \E S : \E r \in Seq(S) : g = <<Planning>> \o r \o Gates

\* The gates end the graph.
LastFour(g) == Len(g) - 3 .. Len(g)

LEMMA FourTuples ==
  ASSUME NEW a, NEW b, NEW c, NEW d
  PROVE  /\ \A S : {a, b, c, d} \subseteq S => <<a, b, c, d>> \in Seq(S)
         /\ Len(<<a, b, c, d>>) = 4 /\ DOMAIN <<a, b, c, d>> = 1 .. 4
OBVIOUS

LEMMA GatesFacts ==
  /\ Gates \in Seq(ToSet(Gates)) /\ Len(Gates) = 4
  /\ ToSet(Gates) = {Gates[1], Gates[2], Gates[3], Gates[4]}
<1>1. /\ Len(Gates) = 4 /\ DOMAIN Gates = 1 .. 4
      /\ Gates = <<Gates[1], Gates[2], Gates[3], Gates[4]>>
  BY DEF Gates
<1>2. ToSet(Gates) = {Gates[1], Gates[2], Gates[3], Gates[4]}
  <2>1. ToSet(Gates) = {Gates[i] : i \in 1 .. 4}
    BY <1>1 DEF ToSet
  <2>2. 1 .. 4 = {1, 2, 3, 4}
    OBVIOUS
  <2> QED BY <2>1, <2>2
<1>3. \A S : {Gates[1], Gates[2], Gates[3], Gates[4]} \subseteq S =>
             <<Gates[1], Gates[2], Gates[3], Gates[4]>> \in Seq(S)
  BY FourTuples
<1>4. <<Gates[1], Gates[2], Gates[3], Gates[4]>> \in Seq(ToSet(Gates))
  BY <1>2, <1>3
<1> QED BY <1>1, <1>2, <1>4

LEMMA PlannedGraphs ==
  ASSUME NEW g, Planned(g)
  PROVE  /\ Len(g) \in Nat /\ Len(g) >= 5
         /\ DOMAIN g = 1 .. Len(g) /\ g[1] = Planning
         /\ LastFour(g) \subseteq GateIds(g)
         /\ \A t \in ToSet(Gates) : \E i \in LastFour(g) : g[i] = t
<1>1a. PICK S : \E r \in Seq(S) : g = <<Planning>> \o r \o Gates
  BY DEF Planned
<1>1. PICK r \in Seq(S) : g = <<Planning>> \o r \o Gates
  BY <1>1a
<1> DEFINE h == <<Planning>> \o r
           Q == S \cup {Planning} \cup ToSet(Gates)
<1>0. r \in Seq(Q) /\ <<Planning>> \in Seq(Q) /\ Gates \in Seq(Q)
  BY <1>1, GatesFacts, SeqMonotonic
<1> HIDE DEF Q
<1>2. /\ h \in Seq(Q) /\ Len(h) = Len(r) + 1 /\ Len(r) \in Nat
      /\ h[1] = Planning
  BY <1>0, LenProperties
<1>3. /\ g = h \o Gates
      /\ g \in Seq(Q) /\ Len(g) = Len(r) + 5 /\ Len(g) \in Nat /\ Len(g) >= 5
      /\ DOMAIN g = 1 .. Len(g)
  <2>1. g = h \o Gates
    BY <1>1
  <2> HIDE DEF h
  <2>2. h \o Gates \in Seq(Q) /\ Len(h \o Gates) = Len(h) + Len(Gates)
    BY <1>0, <1>2, ConcatProperties
  <2>3. Len(g) = Len(r) + 5 /\ Len(g) \in Nat /\ Len(g) >= 5
    BY <2>1, <2>2, <1>2, GatesFacts
  <2> QED BY <2>1, <2>2, <2>3, LenProperties
<1> HIDE DEF h
<1>4. \A i \in 1 .. Len(g) : g[i] = IF i <= Len(h) THEN h[i] ELSE Gates[i - Len(h)]
  BY <1>0, <1>2, <1>3, GatesFacts
<1>5. g[1] = Planning
  BY <1>2, <1>3, <1>4
<1>6. \A k \in 1 .. 4 : Len(h) + k \in LastFour(g) /\ g[Len(h) + k] = Gates[k]
  BY <1>2, <1>3, <1>4 DEF LastFour
<1>7. \A i \in LastFour(g) : i \in DOMAIN g /\ \E k \in 1 .. 4 : i = Len(h) + k
  <2> SUFFICES ASSUME NEW i \in LastFour(g)
               PROVE  i \in DOMAIN g /\ i - Len(h) \in 1 .. 4 /\ i = Len(h) + (i - Len(h))
    OBVIOUS
  <2> QED BY <1>2, <1>3 DEF LastFour
<1>8. LastFour(g) \subseteq GateIds(g)
  <2> SUFFICES ASSUME NEW i \in LastFour(g) PROVE i \in DOMAIN g /\ g[i] \in ToSet(Gates)
    BY DEF GateIds
  <2>1. PICK k \in 1 .. 4 : i = Len(h) + k
    BY <1>7
  <2>2. k \in {1, 2, 3, 4}
    OBVIOUS
  <2> QED BY <1>6, <1>7, <2>1, <2>2, GatesFacts
<1>9. \A t \in ToSet(Gates) : \E i \in LastFour(g) : g[i] = t
  BY <1>6, GatesFacts
<1> QED BY <1>3, <1>5, <1>8, <1>9

LEMMA SmallestOf ==
  ASSUME NEW T, T \subseteq Nat, T # {}
  PROVE  Min(T) \in T /\ \A y \in T : Min(T) <= y
<1>1. \E x \in T : \A y \in T : <<y, x>> \notin OpToRel(<, Nat)
  BY NatLessThanWellFounded, WFMin
<1>2. \A x, y \in Nat : y < x => <<y, x>> \in OpToRel(<, Nat)
  BY DEF OpToRel
<1>3. PICK x \in T : \A y \in T : <<y, x>> \notin OpToRel(<, Nat)
  BY <1>1
<1>4. \A y \in T : ~ (y < x)
  BY Zenon, <1>2, <1>3
<1>5. \A y \in T : x <= y
  BY <1>4
<1> QED BY <1>5 DEF Min

LEMMA CurrentIsFirst ==
  ASSUME Planned(graph), Pending # {}
  PROVE  Current \in Pending /\ \A p \in Pending : Current <= p
<1>1. Pending \subseteq Nat
  BY PlannedGraphs DEF Pending
<1> QED BY <1>1, SmallestOf DEF Current

-----------------------------------------------------------------------------
(* Attempts. *)

\* Tasks are completed in order, gates last.
InOrder == \A d \in done \ kept : \A p \in Pending : d < p
RunGates == \A i \in LastFour(graph) \cap (done \ kept) : graph[i] \in ran

\* The task that ended the attempt before did not start this one completed.
EndedWereOpen == \A p \in earlier.ended : p[1] \notin kept

\* Where the title of a task that starts completed may come from: the attempt before, or
\* the brief that the attempt before was planned from.
Justified(k, title) ==
  \/ title \in {Title(graph[d]) : d \in done}
  \/ <<k, title>> \in earlier.titles
  \/ <<k, title>> \in earlier.ended /\ k \in done \ kept

AttemptInvariant ==
  /\ Planned(graph)
  /\ {1} \cup kept \subseteq done /\ done \subseteq DOMAIN graph
  /\ ran \subseteq ToSet(Gates)
  /\ InOrder /\ RunGates /\ EndedWereOpen
  /\ delivered => Promotable

LEMMA BriefFacts ==
  ASSUME NEW i, NEW finding, NEW timeout, NEW rerun, NEW signals, NEW b,
         b = Brief(i, finding, timeout, rerun, signals)
  PROVE  /\ b.timeout = timeout /\ b.id = i /\ b.older = earlier.titles \cup earlier.ended
         /\ Completed(b) \subseteq done
         /\ \A d \in Completed(b) : b.titles[d] = Title(graph[d])
<1> DEFINE listed == Listed(graph, done, finding.files)
<1>1. b.titles = [d \in listed |-> Title(graph[d])]
  BY DEF Brief
<1>2. listed \subseteq done
  BY DEF Listed, WithoutGates
<1>3. b.timeout = timeout /\ b.id = i /\ b.older = earlier.titles \cup earlier.ended
  BY DEF Brief
<1> QED BY <1>1, <1>2, <1>3 DEF Completed

LEMMA PreservedFacts ==
  ASSUME AttemptInvariant, NEW i, NEW finding, NEW timeout, NEW rerun, NEW signals, NEW b,
         b = Brief(i, finding, timeout, rerun, signals), NEW g
  PROVE  /\ Preserved(b, g) \subseteq DOMAIN g
         /\ Preserved(b, g) \subseteq done
         /\ \A k \in Preserved(b, g) \ GateIds(g) : Justified(k, Title(g[k]))
<1>1. Preserved(b, g) \subseteq DOMAIN g
  BY DEF Preserved
<1>2. Preserved(b, g) \subseteq done
  BY BriefFacts DEF Preserved
<1>3. ASSUME NEW k \in Preserved(b, g) \ GateIds(g)
      PROVE  Justified(k, Title(g[k]))
  <2>1. CASE g[k] = Planning
    <3>1. 1 \in done /\ graph[1] = Planning
      BY PlannedGraphs DEF AttemptInvariant
    <3> QED BY <2>1, <3>1 DEF Justified
  <2>2. CASE g[k] # Planning
    <3>1. k \in Completed(b) /\ (Title(g[k]) = b.titles[k] \/ <<k, Title(g[k])>> \in b.older)
      BY <1>3, <2>2 DEF Preserved, GateIds
    <3>2. k \in done
      BY <3>1, BriefFacts
    <3>3. CASE Title(g[k]) = b.titles[k]
      BY <3>1, <3>2, <3>3, BriefFacts DEF Justified
    <3>4. CASE <<k, Title(g[k])>> \in earlier.titles
      BY <3>4 DEF Justified
    <3>5. CASE <<k, Title(g[k])>> \in earlier.ended
      BY <3>2, <3>5 DEF Justified, AttemptInvariant, EndedWereOpen
    <3> QED BY <3>1, <3>3, <3>4, <3>5, BriefFacts
  <2> QED BY <2>1, <2>2
<1> QED BY <1>1, <1>2, <1>3

\* A new attempt, whatever ended the last one.
LEMMA NewAttempt ==
  ASSUME PlansAreSequences, AttemptInvariant, ~delivered,
         NEW i, i \notin done, NEW finding, NEW timeout \in BOOLEAN, NEW rerun,
         Replan(i, finding, timeout, rerun)
  PROVE  /\ AttemptInvariant'
         /\ \A k \in kept' \ GateIds(graph') : Justified(k, Title(graph'[k]))
<1>0. PICK signals \in Signalled : \E b \in {Brief(i, finding, timeout, rerun, signals)} :
        /\ graph' = Graph(b) /\ kept' = Preserved(b, graph') /\ done' = Marked(kept')
        /\ ran' = {} /\ earlier' = NextBrief(b, graph', rerun, signals) /\ UNCHANGED delivered
  BY DEF Replan
<1>1. PICK b \in {Brief(i, finding, timeout, rerun, signals)} :
        /\ graph' = Graph(b) /\ kept' = Preserved(b, graph') /\ done' = Marked(kept')
        /\ ran' = {} /\ earlier' = NextBrief(b, graph', rerun, signals) /\ UNCHANGED delivered
  BY <1>0
<1>2. Planned(graph')
  <2>1. b.timeout \in BOOLEAN
    BY <1>1, BriefFacts
  <2>2. PICK S : ForTargets(b, Repairs(b)) \in Seq(S)
    BY <2>1 DEF PlansAreSequences
  <2> DEFINE r == ForTargets(b, Repairs(b))
  <2>3. graph' = <<Planning>> \o r \o Gates
    BY <1>1 DEF Graph
  <2>4. r \in Seq(S)
    BY <2>2
  <2> HIDE DEF r
  <2> QED BY <2>3, <2>4 DEF Planned
<1>3. kept' \subseteq DOMAIN graph' /\ done' = {1} \cup kept' /\ done' \subseteq DOMAIN graph'
  BY <1>1, <1>2, PlannedGraphs, PreservedFacts DEF Marked
<1>4. done' \ kept' \subseteq {1} /\ 1 \in done'
  BY <1>3
<1>5. InOrder'
  BY <1>2, <1>3, <1>4, PlannedGraphs DEF InOrder, Pending
<1>6. RunGates'
  <2>1. 1 \notin LastFour(graph')
    BY <1>2, PlannedGraphs DEF LastFour
  <2> QED BY <1>4, <2>1 DEF RunGates
<1>7. EndedWereOpen'
  <2>0. b.id = i
    BY <1>1, BriefFacts
  <2>1. earlier'.ended = Repeated({<<b.id, Title(b.focus)>>}, graph')
    <3>1. NextBrief(b, graph', rerun, signals).ended =
            Repeated({<<b.id, Title(b.focus)>>}, graph')
      BY DEF NextBrief
    <3> QED BY <1>1, <3>1
  <2>2. \A p \in Repeated({<<b.id, Title(b.focus)>>}, graph') : p = <<b.id, Title(b.focus)>>
    BY DEF Repeated
  <2>3. \A p \in earlier'.ended : p[1] = i
    BY <2>0, <2>1, <2>2
  <2>4. kept' \subseteq done
    BY <1>1, PreservedFacts
  <2> QED BY <2>3, <2>4 DEF EndedWereOpen
<1>8. AttemptInvariant'
  BY <1>1, <1>2, <1>3, <1>5, <1>6, <1>7 DEF AttemptInvariant
<1> QED BY <1>1, <1>8, PreservedFacts

-----------------------------------------------------------------------------
(* Steps. *)

LEMMA CompleteStep == AttemptInvariant /\ Complete => AttemptInvariant'
<1> SUFFICES ASSUME AttemptInvariant, Complete PROVE AttemptInvariant'
  OBVIOUS
<1> USE DEF AttemptInvariant
<1>1. /\ Pending # {} /\ done' = done \cup {Current}
      /\ graph' = graph /\ kept' = kept /\ earlier' = earlier /\ delivered' = delivered
      /\ ran' = IF Current \in GateIds(graph) THEN ran \cup {graph[Current]} ELSE {}
  BY DEF Complete
<1>2. Current \in Pending /\ \A p \in Pending : Current <= p
  BY <1>1, CurrentIsFirst
<1>3. Current \in DOMAIN graph /\ Current \notin done /\ Pending' = Pending \ {Current}
  BY <1>1, <1>2 DEF Pending
<1>4. DOMAIN graph = 1 .. Len(graph) /\ Len(graph) \in Nat
  BY PlannedGraphs
<1>5. {1} \cup kept' \subseteq done' /\ done' \subseteq DOMAIN graph'
  BY <1>1, <1>3
<1>6. ran' \subseteq ToSet(Gates)
  BY <1>1 DEF GateIds
<1>7. InOrder'
  <2> SUFFICES ASSUME NEW d \in done' \ kept', NEW p \in Pending' PROVE d < p
    BY DEF InOrder
  <2>1. CASE d = Current
    BY <1>2, <1>3, <1>4, <2>1 DEF Pending
  <2>2. CASE d # Current
    BY <1>1, <1>3, <2>2 DEF InOrder
  <2> QED BY <2>1, <2>2
<1>8. RunGates'
  <2>1. CASE Current \in GateIds(graph)
    BY <1>1, <2>1 DEF RunGates
  <2>2. CASE Current \notin GateIds(graph)
    <3> SUFFICES ASSUME NEW i \in LastFour(graph), i \in done' \ kept' PROVE FALSE
      BY <1>1 DEF RunGates
    <3>1. i \in GateIds(graph) /\ i # Current
      BY <2>2, PlannedGraphs
    <3>2. i < Current
      BY <1>1, <1>2, <3>1 DEF InOrder
    <3>3. Current \in LastFour(graph)
      BY <1>3, <1>4, <3>2 DEF LastFour
    <3> QED BY <2>2, <3>3, PlannedGraphs
  <2> QED BY <2>1, <2>2
<1>9. ~delivered'
  BY <1>1 DEF Promotable
<1>10. EndedWereOpen'
  BY <1>1 DEF EndedWereOpen
<1> QED BY <1>1, <1>5, <1>6, <1>7, <1>8, <1>9, <1>10

LEMMA AttemptStep ==
  ASSUME PlansAreSequences, AttemptInvariant, [Next]_vars
  PROVE  /\ AttemptInvariant'
         /\ \A k \in kept' \ GateIds(graph') : Justified(k, Title(graph'[k]))
<1>1. ASSUME graph' = graph, kept' = kept
      PROVE  \A k \in kept' \ GateIds(graph') : Justified(k, Title(graph'[k]))
  BY <1>1 DEF AttemptInvariant, Justified
<1>2. CASE Complete
  <2>1. graph' = graph /\ kept' = kept
    BY <1>2 DEF Complete
  <2> QED BY <1>1, <1>2, <2>1, CompleteStep
<1>3. Pending # {} => Current \notin done
  BY CurrentIsFirst DEF AttemptInvariant, Pending
<1>4. 0 \notin done
  BY PlannedGraphs DEF AttemptInvariant
<1>5. CASE TimeOut
  BY <1>3, <1>5, NewAttempt DEF TimeOut, AttemptInvariant, Promotable
<1>6. ASSUME NEW f \in Findings, Fail(f)
      PROVE  /\ AttemptInvariant'
             /\ \A k \in kept' \ GateIds(graph') : Justified(k, Title(graph'[k]))
  BY <1>3, <1>6, NewAttempt DEF Fail, AttemptInvariant, Promotable
<1>7. CASE Promote
  <2>1. /\ UNCHANGED <<graph, kept, done, ran, earlier>> /\ Promotable /\ Promotable'
    BY <1>7 DEF Promote, Promotable, Pending, PreservedGates
  <2>2. AttemptInvariant'
    BY <2>1 DEF AttemptInvariant, InOrder, RunGates, EndedWereOpen, Pending
  <2> QED BY <1>1, <2>1, <2>2
<1>8. CASE Refuse
  BY <1>4, <1>8, NewAttempt DEF Refuse, AttemptInvariant, Promotable
<1>9. CASE UNCHANGED vars
  <2>1. /\ UNCHANGED <<graph, kept, done, ran, earlier, delivered>> /\ Promotable' = Promotable
    BY <1>9 DEF vars, Promotable, Pending, PreservedGates
  <2>2. AttemptInvariant'
    BY <2>1 DEF AttemptInvariant, InOrder, RunGates, EndedWereOpen, Pending
  <2> QED BY <1>1, <2>1, <2>2
<1> QED BY <1>2, <1>5, <1>6, <1>7, <1>8, <1>9 DEF Next, Stopped

LEMMA AttemptsHold == ASSUME PlansAreSequences PROVE Spec => []AttemptInvariant
<1>1. Init => AttemptInvariant
  <2> SUFFICES ASSUME Init PROVE AttemptInvariant
    OBVIOUS
  <2>1. Planned(graph)
    <3>1. <<>> \in Seq({}) /\ <<Planning>> \o <<>> = <<Planning>>
      OBVIOUS
    <3>2. graph = <<Planning>> \o <<>> \o Gates
      BY <3>1 DEF Init, FirstGraph
    <3> QED BY <3>1, <3>2 DEF Planned
  <2>2. /\ done = {1} /\ kept = {} /\ ran = {} /\ earlier.ended = {} /\ ~delivered
        /\ DOMAIN graph = 1 .. Len(graph) /\ Len(graph) \in Nat /\ Len(graph) >= 5
    BY <2>1, PlannedGraphs DEF Init
  <2>3. InOrder
    BY <2>2 DEF InOrder, Pending
  <2>4. RunGates
    BY <2>2 DEF RunGates, LastFour
  <2>5. EndedWereOpen
    BY <2>2 DEF EndedWereOpen
  <2> QED BY <2>1, <2>2, <2>3, <2>4, <2>5 DEF AttemptInvariant
<1>2. AttemptInvariant /\ [Next]_vars => AttemptInvariant'
  BY AttemptStep
<1> QED BY <1>1, <1>2, PTL DEF Spec

\* Whatever the gates find and however often workers time out, a verification is delivered
\* only when all four gates were run after the last repair (phase_promotion_decision,
\* final_verification_preserved_gate_tasks).
THEOREM DeliveredWithGates == ASSUME PlansAreSequences PROVE Spec => []GatesRanLast
<1>1. AttemptInvariant => GatesRanLast
  <2> SUFFICES ASSUME AttemptInvariant, delivered PROVE ran = ToSet(Gates)
    BY DEF GatesRanLast
  <2>1. Pending = {} /\ kept \cap GateIds(graph) = {} /\ ran \subseteq ToSet(Gates)
    BY DEF AttemptInvariant, Promotable, PreservedGates
  <2>2. LastFour(graph) \subseteq DOMAIN graph /\ LastFour(graph) \subseteq GateIds(graph)
    BY PlannedGraphs DEF AttemptInvariant, GateIds
  <2>3. LastFour(graph) \subseteq done \ kept
    BY <2>1, <2>2 DEF Pending
  <2>4. \A i \in LastFour(graph) : graph[i] \in ran
    BY <2>3 DEF AttemptInvariant, RunGates
  <2> QED BY <2>1, <2>4, PlannedGraphs DEF AttemptInvariant
<1> QED BY <1>1, AttemptsHold, PTL

\* However the graphs number its tasks, an attempt starts a repair completed only because
\* its title was completed in the attempt before, or had that number among the completed
\* tasks of the one before that, or belonged to the task that ended the latter and whose
\* number another repair has completed since
\* (final_verification_preserved_task_ids_with_matching_repair_title).
THEOREM PreservedRepairsRan == ASSUME PlansAreSequences PROVE Spec => PreservedWasRun
<1>1. AttemptInvariant /\ [Next]_vars =>
        [\A i \in kept' \ GateIds(graph') :
           \/ Title(graph'[i]) \in {Title(graph[d]) : d \in done}
           \/ <<i, Title(graph'[i])>> \in earlier.titles
           \/ <<i, Title(graph'[i])>> \in earlier.ended /\ i \in done \ kept]_vars
  BY AttemptStep DEF Justified
<1> QED BY <1>1, AttemptsHold, PTL DEF Spec, PreservedWasRun

-----------------------------------------------------------------------------
(* Types. *)

\* Repairs are named by strings.
PlansAreTitles ==
  \A b : b.timeout \in BOOLEAN => ForTargets(b, Repairs(b)) \in Seq(STRING)

\* No prover used here knows that a literal is a string.
LiteralsAreStrings ==
  {Planning, "none", "i18n locale contracts"} \cup ToSet(Gates) \subseteq STRING

LEMMA TitleFacts ==
  ASSUME LiteralsAreStrings
  PROVE  /\ Planning \in STRING /\ Gates \in Seq(STRING) /\ "none" \in STRING
         /\ \A t \in STRING : Title(t) \in STRING
<1>1. Gates \in Seq(STRING)
  <2>1. ToSet(Gates) \subseteq STRING
    BY DEF LiteralsAreStrings
  <2> QED BY <2>1, GatesFacts, SeqMonotonic
<1>2. Planning \in STRING /\ "none" \in STRING /\ "i18n locale contracts" \in STRING
  BY DEF LiteralsAreStrings
<1> QED BY <1>1, <1>2 DEF Title

\* What a new attempt repeats of the brief is of its own graph.
LEMMA ReplanTypes ==
  ASSUME LiteralsAreStrings, PlansAreTitles, AttemptInvariant', TypeOK,
         NEW i \in {0} \cup DOMAIN graph,
         NEW finding, NEW timeout \in BOOLEAN, NEW rerun \in BOOLEAN,
         Replan(i, finding, timeout, rerun), failures' \in 0 .. MaxFailures
  PROVE  TypeOK'
<1>0. PICK signals \in Signalled : \E b \in {Brief(i, finding, timeout, rerun, signals)} :
        /\ graph' = Graph(b) /\ earlier' = NextBrief(b, graph', rerun, signals)
        /\ UNCHANGED delivered
  BY DEF Replan
<1>1. PICK b \in {Brief(i, finding, timeout, rerun, signals)} :
        /\ graph' = Graph(b) /\ earlier' = NextBrief(b, graph', rerun, signals)
        /\ UNCHANGED delivered
  BY <1>0
<1>2. graph \in Seq(STRING) /\ done \subseteq DOMAIN graph
  BY DEF TypeOK
<1>3. graph' \in Seq(STRING)
  <2> DEFINE r == ForTargets(b, Repairs(b))
  <2>1. graph' = <<Planning>> \o r \o Gates
    BY <1>1 DEF Graph
  <2>2. b.timeout \in BOOLEAN
    BY <1>1, BriefFacts
  <2>3. r \in Seq(STRING)
    BY <2>2 DEF PlansAreTitles
  <2> HIDE DEF r
  <2>4. <<Planning>> \in Seq(STRING) /\ Gates \in Seq(STRING)
    BY TitleFacts
  <2> QED BY <2>1, <2>3, <2>4
<1>4. \A p \in earlier'.titles \cup earlier'.ended : p[1] \in DOMAIN graph' /\ p[2] \in STRING
  <2> SUFFICES ASSUME NEW p \in earlier'.titles \cup earlier'.ended
               PROVE  p[1] \in DOMAIN graph' /\ p[2] \in STRING
    OBVIOUS
  <2>1. /\ p[1] \in DOMAIN graph'
        /\ \/ \E d \in DOMAIN b.titles : p = <<d, b.titles[d]>>
           \/ p = <<b.id, Title(b.focus)>>
    BY <1>1 DEF NextBrief, Repeated
  <2>2. ASSUME NEW d \in DOMAIN b.titles, p = <<d, b.titles[d]>> PROVE p[2] \in STRING
    <3>1. d \in done /\ b.titles[d] = Title(graph[d])
      BY <1>1, BriefFacts DEF Completed
    <3>2. graph[d] \in STRING
      BY <1>2, <3>1
    <3> QED BY <2>2, <3>1, <3>2, TitleFacts
  <2>3. CASE p = <<b.id, Title(b.focus)>>
    <3>1. b.focus = FocusTask(graph, i)
      BY <1>1 DEF Brief
    <3>2. FocusTask(graph, i) \in STRING
      BY <1>2, TitleFacts DEF FocusTask
    <3>3. p[2] = Title(b.focus) /\ Title(b.focus) \in STRING
      BY <2>3, <3>1, <3>2, TitleFacts
    <3> QED BY <2>1, <3>3
  <2> QED BY <2>1, <2>2, <2>3
<1>5. /\ earlier'.exists \in BOOLEAN /\ earlier'.rerun \in BOOLEAN
      /\ earlier'.signals \subseteq Signals
  <2>1. signals \subseteq Signals
    BY DEF Signalled
  <2> QED BY <1>1, <2>1 DEF NextBrief
<1>6. {1} \cup kept' \subseteq done' /\ done' \subseteq DOMAIN graph' /\ ran' \subseteq ToSet(Gates)
  BY DEF AttemptInvariant
<1>7. delivered' \in BOOLEAN
  BY <1>1 DEF TypeOK
<1> QED BY <1>3, <1>4, <1>5, <1>6, <1>7 DEF TypeOK

\* The state of a verification is well-formed whatever the gates find and however often
\* workers time out: the titles a brief repeats from the one before are of tasks of the
\* new graph, and what is kept and completed is in it
\* (final_verification_previous_repair_context, mark_preserved_completed_tasks).
THEOREM RepairsAreTyped ==
  ASSUME LiteralsAreStrings, PlansAreTitles PROVE Spec => []TypeOK
<1>0. PlansAreSequences
  BY DEF PlansAreTitles, PlansAreSequences
<1>1. Init => TypeOK
  <2> SUFFICES ASSUME Init PROVE TypeOK
    OBVIOUS
  <2>1. graph = <<Planning>> \o Gates /\ graph \in Seq(STRING)
    BY TitleFacts DEF Init, FirstGraph
  <2>2. 1 \in DOMAIN graph
    BY <2>1, TitleFacts, GatesFacts
  <2>3. /\ earlier.exists = FALSE /\ earlier.rerun = FALSE
        /\ earlier.signals = {} /\ earlier.titles \cup earlier.ended = {}
    BY DEF Init
  <2>4. /\ done = {1} /\ kept = {} /\ ran = {} /\ delivered = FALSE /\ failures = 0
    BY DEF Init
  <2>5. 0 \in 0 .. MaxFailures
    <3>1. MaxFailures \in Nat
      BY RepairAssumption
    <3> QED BY <3>1
  <2> QED BY <2>1, <2>2, <2>3, <2>4, <2>5 DEF TypeOK
<1>2. AttemptInvariant /\ AttemptInvariant' /\ TypeOK /\ [Next]_vars => TypeOK'
  <2> SUFFICES ASSUME AttemptInvariant, AttemptInvariant', TypeOK, [Next]_vars PROVE TypeOK'
    OBVIOUS
  <2>1. Pending # {} => Current \in DOMAIN graph
    BY CurrentIsFirst DEF AttemptInvariant, Pending
  <2>2. failures \in 0 .. MaxFailures /\ MaxFailures \in Nat
    BY RepairAssumption DEF TypeOK
  <2>3. CASE Complete
    <3>1. UNCHANGED <<graph, kept, delivered, earlier, failures>>
      BY <2>3 DEF Complete
    <3> QED BY <3>1 DEF AttemptInvariant, TypeOK
  <2>4. CASE TimeOut
    <3>1. Replan(Current, NoFinding, TRUE, FALSE) /\ failures' = failures /\ Pending # {}
      BY <2>4 DEF TimeOut
    <3> QED BY <2>1, <2>2, <3>1, ReplanTypes
  <2>5. ASSUME NEW f \in Findings, Fail(f) PROVE TypeOK'
    <3>1. /\ Replan(Current, f, FALSE, TRUE) /\ failures' = failures + 1
          /\ failures < MaxFailures /\ Pending # {}
      BY <2>5 DEF Fail
    <3>2. failures' \in 0 .. MaxFailures
      BY <2>2, <3>1
    <3> QED BY <2>1, <3>1, <3>2, ReplanTypes
  <2>6. CASE Promote \/ Stopped
    <3>1. UNCHANGED <<graph, done, kept, ran, earlier, failures>> /\ delivered' \in BOOLEAN
      BY <2>6 DEF Promote, Stopped, vars, TypeOK
    <3> QED BY <3>1 DEF TypeOK
  <2>7. CASE Refuse
    <3>1. Replan(0, NoFinding, FALSE, TRUE) /\ failures' = failures
      BY <2>7 DEF Refuse
    <3> QED BY <2>2, <3>1, ReplanTypes
  <2>8. CASE UNCHANGED vars
    BY <2>8 DEF vars, TypeOK
  <2> QED BY <2>3, <2>4, <2>5, <2>6, <2>7, <2>8 DEF Next
<1> QED BY <1>0, <1>1, <1>2, AttemptsHold, PTL DEF Spec
=============================================================================
