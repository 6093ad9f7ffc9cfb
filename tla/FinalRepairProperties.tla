----------------------- MODULE FinalRepairProperties -----------------------
EXTENDS FinalRepair

\* A verification is delivered only when the audit, the simulation, the real
\* checks and the handoff review were all run after the last repair, although
\* a graph that shrinks puts gates at the numbers of completed repairs, which
\* mark_preserved_completed_tasks then completes unrun.
GatesRanLast == delivered => ran = ToSet(Gates)

\* A repair starts an attempt completed only if one of its title was completed (or started
\* completed) in the attempt before, or had its number so in the one before that; or, the
\* one exception, it ended the attempt before by a time-out, its split was numbered anew and
\* another repair has completed its number since: the code takes any title that the briefs
\* give to a completed number (final_verification_preserved_task_ids_with_matching_repair_title),
\* the title of the task that failed among them.
PreservedWasRun ==
  [][\A i \in kept' \ GateIds(graph') :
       \/ Title(graph'[i]) \in {Title(graph[d]) : d \in done}
       \/ <<i, Title(graph'[i])>> \in earlier.titles
       \/ <<i, Title(graph'[i])>> \in earlier.ended /\ i \in done \ kept]_vars

\* "A resumed downstream route repair must keep the already-established API/i18n
\* task IDs stable instead of collapsing them into one task"
\* (task_graph_builder.py:825): a split of the API task outlives the time-out of
\* every later task.
ApiStaysSplit ==
  [][/\ "constants and shared types contracts" \in ToSet(graph)
     /\ Pending # {} /\ Current > 8 /\ failures' = failures
     => "API and i18n contracts" \notin ToSet(graph')]_vars

\* A graph whose frontend tasks are all split keeps its numbers in every later
\* attempt (phase_focused_repair_lines, "Preserve final frontend split tail graph
\* shape"), up to the split of one of the four tasks of that tail.
DeepShapeStays ==
  [][IsDeep(graph) /\ failures' = failures => IsDeep(graph') \/ graph[Current] \in DeepTail]_vars

\* What was split stays split, although the split is guessed again from the last brief
\* (should_split_* of task_graph_builder.py).
SplitsStay == ApiStaysSplit /\ DeepShapeStays

\* When the time-outs stop, the verification is delivered: a graph that is
\* refused because of gates it did not run is followed by one that runs them.
QuietRunDelivers == <>[][Complete \/ Promote \/ Refuse]_vars => <>delivered
============================================================================
