----------------------------- MODULE FinalRepair -----------------------------
(***************************************************************************)
(* The attempts of the final verification (_run_final_verification_worker  *)
(* of autodev/full_roadmap_executor.py).  An attempt works through its     *)
(* graph in order.  A worker time-out or a gate that reports a finding     *)
(* ends it: the next launch writes a brief of the failed attempt and plans *)
(* a new graph from it, in which the tasks the brief lists as completed    *)
(* start completed.  An attempt whose tasks are all completed is promoted  *)
(* unless a gate was not run in it.                                        *)
(***************************************************************************)
EXTENDS RepairTopics, FiniteSetsExt

CONSTANTS
  Findings,     \* what a gate may report: words and files, as in a brief
  Signals,      \* topics that the line about the earlier brief may name
  MaxFailures   \* bound on the gates that fail

ASSUME RepairAssumption ==
  /\ Findings \subseteq [words : SUBSET STRING, files : SUBSET STRING]
  /\ Signals \subseteq {"delivery artifact contracts", "forbidden admin route surface contracts"}
  /\ MaxFailures \in Nat

VARIABLES
  graph,      \* the tasks of the attempt
  done,       \* the numbers of the completed ones
  kept,       \* those completed before the attempt (focused_repair_preserved_task)
  ran,        \* history: the gates run since the last repair task ended
  delivered,  \* the final verification passed
  earlier,    \* the brief of the attempt: what the next one repeats of it
  failures    \* gates failed so far

vars == <<graph, done, kept, ran, delivered, earlier, failures>>

Pending == DOMAIN graph \ done
Current == Min(Pending)

TypeOK ==
  /\ graph \in Seq(STRING)
  /\ {1} \cup kept \subseteq done
  /\ done \subseteq DOMAIN graph
  /\ ran \subseteq ToSet(Gates)
  /\ delivered \in BOOLEAN
  /\ earlier.exists \in BOOLEAN /\ earlier.rerun \in BOOLEAN
  /\ earlier.signals \subseteq Signals
  /\ \A p \in earlier.titles \cup earlier.ended : p[1] \in DOMAIN graph /\ p[2] \in STRING
  /\ failures \in 0 .. MaxFailures

Init ==
  /\ graph = FirstGraph
  /\ done = {1}
  /\ kept = {}
  /\ ran = {}
  /\ delivered = FALSE
  /\ earlier = [exists |-> FALSE, titles |-> {}, ended |-> {}, rerun |-> FALSE, signals |-> {}]
  /\ failures = 0

\* final_verification_previous_repair_context: the briefs are long, what they mention is
\* open, but a brief that names the delivery artifacts is named after them in the next.
Signalled == {s \in SUBSET Signals : earlier.signals \subseteq s /\ (s # {} => earlier.exists)}

\* final_verification_resume_repair_documents, after task i ended the attempt.
Brief(i, finding, timeout, rerun, signals) ==
  LET focus  == FocusTask(graph, i)
      listed == Listed(graph, done, finding.files)
  IN  [id      |-> i,
       focus   |-> focus,
       titles  |-> [d \in listed |-> Title(graph[d])],
       named   |-> {Title(graph[d]) : d \in listed} \cup {Title(focus)},
       deep    |-> IsDeep(graph),
       files   |-> finding.files,
       words   |-> finding.words \cup signals,
       timeout |-> timeout,
       older   |-> earlier.titles \cup earlier.ended,
       rerun   |-> rerun \/ earlier.rerun]

\* Of the titles that b gives to numbers, those that may matter to the brief after it.
Repeated(titles, new) ==
  {p \in titles : p[1] \in DOMAIN new \ GateIds(new) /\ p[2] # Title(new[p[1]])}

\* What the next brief repeats of b: the tasks it lists as completed, and apart from them
\* the one that ended the attempt, which its text names in the same way.
NextBrief(b, new, rerun, signals) ==
  [exists |-> TRUE, rerun |-> rerun,
   titles |-> Repeated({<<d, b.titles[d]>> : d \in DOMAIN b.titles}, new),
   ended  |-> Repeated({<<b.id, Title(b.focus)>>}, new),
   signals |-> signals \ {"forbidden admin route surface contracts"}]

\* A likely mistake: the planning task is pending again in the new graph.
ReplanAll(i, finding, timeout, rerun) ==
  \E signals \in Signalled : \E b \in {Brief(i, finding, timeout, rerun, signals)} :
    /\ graph' = Graph(b)
    /\ kept' = Preserved(b, graph')
    /\ done' = kept' \ {1}
    /\ ran' = {}
    /\ earlier' = NextBrief(b, graph', rerun, signals)
    /\ UNCHANGED delivered

\* mark_preserved_completed_tasks; the planning task always starts completed.
Marked(preserved) == {1} \cup preserved

\* The next attempt, planned from the brief.
Replan(i, finding, timeout, rerun) ==
  \E signals \in Signalled : \E b \in {Brief(i, finding, timeout, rerun, signals)} :
    /\ graph' = Graph(b)
    /\ kept' = Preserved(b, graph')
    /\ done' = Marked(kept')
    /\ ran' = {}
    /\ earlier' = NextBrief(b, graph', rerun, signals)
    /\ UNCHANGED delivered

NoFinding == [words |-> {}, files |-> {}]

Complete ==
  /\ Pending # {}
  /\ done' = done \cup {Current}
  /\ ran' = IF Current \in GateIds(graph) THEN ran \cup {graph[Current]} ELSE {}
  /\ UNCHANGED <<graph, kept, delivered, earlier, failures>>

\* The worker of the current task exceeds its time.
TimeOut ==
  /\ Pending # {}
  /\ Replan(Current, NoFinding, TRUE, FALSE)
  /\ UNCHANGED failures

\* The current gate reports a finding.
Fail(finding) ==
  /\ Pending # {}
  /\ Current \in GateIds(graph)
  /\ failures < MaxFailures
  /\ Replan(Current, finding, FALSE, TRUE)
  /\ failures' = failures + 1

\* A likely mistake: every task is completed, so the gates passed.
AllCompleted == Pending = {}

\* final_verification_preserved_gate_tasks: the gates not run in this attempt.
PreservedGates == kept \cap GateIds(graph)

\* phase_promotion_decision
Promotable == Pending = {} /\ PreservedGates = {}

Promote ==
  /\ Promotable /\ ~delivered
  /\ delivered' = TRUE
  /\ UNCHANGED <<graph, done, kept, ran, earlier, failures>>

\* A likely mistake: all that the refused attempt completed stays completed.
RefuseOnly ==
  /\ Pending = {} /\ ~Promotable
  /\ graph' = Graph(Brief(0, NoFinding, FALSE, FALSE, {}))
  /\ kept' = DOMAIN graph' \cap done
  /\ done' = kept'
  /\ ran' = {}
  /\ UNCHANGED <<delivered, earlier, failures>>

\* The refusal asks for the gates to rerun.  final_verification_gate_rerun_required
Refuse ==
  /\ Pending = {} /\ ~Promotable
  /\ Replan(0, NoFinding, FALSE, TRUE)
  /\ UNCHANGED failures

Stopped == delivered /\ UNCHANGED vars

Next ==
  Complete \/ TimeOut \/ (\E f \in Findings : Fail(f)) \/ Promote \/ Refuse \/ Stopped

\* A stopped verification is launched again, and a worker ends.
Spec == Init /\ [][Next]_vars /\ WF_vars(Complete) /\ WF_vars(Promote) /\ WF_vars(Refuse)
=============================================================================
