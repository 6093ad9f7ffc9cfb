------------------------------ MODULE RunProofs ------------------------------
(***************************************************************************)
(* More proofs about the runtime loop, on top of RunInvariant and for      *)
(* every task graph: blockers and blocked tasks belong together, done      *)
(* means delivered, no task is attempted too often, one node runs at a     *)
(* time and has one repair at a time, a run that stops says why, and the   *)
(* passes of a run are bounded by the size of its graph.                   *)
(***************************************************************************)
EXTENDS OrchestratorProofs, WellFoundedInduction, FiniteSetTheorems

-----------------------------------------------------------------------------
(* What one run state must tell. *)

Named(s) ==
  \A n \in Node : s.status[n] = "blocked" => \E b \in s.blockers : b[1] = n

Alive(s) ==
  \A b \in s.blockers : b[1] \in Task => s.status[b[1]] \notin Terminal

\* The attempts of a task are counted up to most; one that is to be attempted has one left.
Counted(s, most) ==
  \A t \in Task : /\ s.retries[t] <= most
                  /\ s.status[t] \in Waiting \cup {"active"} => s.retries[t] < most

Plain(s, most) == Named(s) /\ Alive(s) /\ Counted(s, most)

\* The limit of attempts before and after the first recovery.
Limits == {MaxAttempts, MaxAttempts + 1}
Limit == IF resumes = 0 THEN MaxAttempts ELSE MaxAttempts + 1

LEMMA LimitFacts ==
  /\ MaxAttempts \in Nat /\ MaxAttempts >= 1
  /\ \A most \in Limits : most \in Nat /\ most >= MaxAttempts /\ most <= MaxAttempts + 1
BY GraphAssumption DEF Limits

LEMMA RecordPlain ==
  ASSUME NEW s \in RunState, NEW n \in Node
  PROVE  /\ RecordBlocker(s, n).status = s.status /\ RecordBlocker(s, n).retries = s.retries
         /\ RecordBlocker(s, n).last = s.last /\ RecordBlocker(s, n).failed = s.failed
         /\ RecordBlocker(s, n).done = s.done
         /\ \A b \in RecordBlocker(s, n).blockers : b \in s.blockers \/ b[1] = n
         /\ \E b \in RecordBlocker(s, n).blockers : b[1] = n
         /\ s.blockers \subseteq RecordBlocker(s, n).blockers
<1> DEFINE b == <<n, s.retries[n]>>
<1>1. /\ RecordBlocker(s, n).blockers = s.blockers \cup {b}
      /\ RecordBlocker(s, n).status = s.status /\ RecordBlocker(s, n).retries = s.retries
      /\ RecordBlocker(s, n).last = s.last /\ RecordBlocker(s, n).failed = s.failed
      /\ RecordBlocker(s, n).done = s.done
  BY DEF RecordBlocker, RunState
<1>2. b[1] = n
  OBVIOUS
<1> HIDE DEF b
<1> QED BY <1>1, <1>2

\* What _converge_debug_task_to_parent_retry leaves behind.
LEMMA ConvergeFacts ==
  ASSUME NEW s \in RunState, NEW d \in Debug
  PROVE  LET c == Converge(s, d)
             root == Root(d)
         IN  /\ c.retries = s.retries /\ c.done = s.done
             /\ \A n \in Node \ {d, root} : c.status[n] = s.status[n]
             /\ c.status[d] = "skipped"
             /\ \/ c.status[root] = s.status[root] /\ c.blockers = s.blockers
                \/ /\ s.status[root] \notin Terminal
                   /\ c.status[root] = s.status[root]
                   /\ ~CanRetry(s, root)
                   /\ c.blockers = s.blockers \cup {<<root, s.retries[root]>>}
                \/ /\ s.status[root] \notin Terminal
                   /\ c.status[root] = "blocked"
                   /\ c.blockers = s.blockers \cup {<<root, s.retries[root]>>}
                \/ /\ s.status[root] \notin Terminal /\ CanRetry(s, root)
                   /\ c.status[root] = "pending" /\ c.blockers = s.blockers
<1> DEFINE root == Root(d)
           g == GiveUpDebug(s, d)
<1>0. root \in Task /\ root \in Node /\ d \in Node /\ root # d
  BY NodeFacts
<1>1. /\ g \in RunState
      /\ g.retries = s.retries /\ g.done = s.done /\ g.blockers = s.blockers
      /\ g.status = [s.status EXCEPT ![d] = "skipped"]
  <2>1. g \in RunState
    BY <1>0, MarkType DEF GiveUpDebug, Evidence
  <2> QED BY <2>1 DEF GiveUpDebug, MarkSkipped, RunState
<1>2. s.status \in [Node -> Status]
  BY DEF RunState
<1>3. g.status[root] = s.status[root] /\ g.status[d] = "skipped"
      /\ \A n \in Node \ {d, root} : g.status[n] = s.status[n]
  BY <1>0, <1>1, <1>2
<1> HIDE DEF g
<1>4. CASE Converge(s, d) = g
  BY <1>1, <1>3, <1>4 DEF root
<1>5. CASE /\ Converge(s, d) = RecordBlocker(MarkBlocked(g, root, "note"), root)
           /\ s.status[root] \notin Terminal
  <2>1. /\ Converge(s, d).status = [g.status EXCEPT ![root] = "blocked"]
        /\ Converge(s, d).retries = g.retries /\ Converge(s, d).done = g.done
        /\ Converge(s, d).blockers = g.blockers \cup {<<root, g.retries[root]>>}
    BY <1>1, <1>5 DEF RecordBlocker, MarkBlocked, RunState
  <2> QED BY <1>0, <1>1, <1>2, <1>3, <1>5, <2>1 DEF root
<1>6. CASE /\ Converge(s, d) = [g EXCEPT !.status[root] = "pending", !.failed = @ \ {root}]
           /\ s.status[root] \notin Terminal /\ CanRetry(s, root)
  <2>1. /\ Converge(s, d).status = [g.status EXCEPT ![root] = "pending"]
        /\ Converge(s, d).retries = g.retries /\ Converge(s, d).done = g.done
        /\ Converge(s, d).blockers = g.blockers
    BY <1>1, <1>6 DEF RunState
  <2> QED BY <1>0, <1>1, <1>2, <1>3, <1>6, <2>1 DEF root
<1>7. CASE /\ Converge(s, d) = RecordBlocker(g, root)
           /\ s.status[root] \notin Terminal /\ ~CanRetry(s, root)
  <2>1. /\ Converge(s, d).status = g.status
        /\ Converge(s, d).retries = g.retries /\ Converge(s, d).done = g.done
        /\ Converge(s, d).blockers = g.blockers \cup {<<root, g.retries[root]>>}
    BY <1>1, <1>7 DEF RecordBlocker, RunState
  <2> QED BY <1>0, <1>1, <1>2, <1>3, <1>7, <2>1 DEF root
<1> QED BY <1>4, <1>5, <1>6, <1>7 DEF Converge, g, root

LEMMA ConvergePlain ==
  ASSUME NEW s \in RunState, NEW d \in Debug, NEW most \in Limits, Plain(s, most)
  PROVE  Plain(Converge(s, d), most)
<1> DEFINE c == Converge(s, d)
           root == Root(d)
           b == <<root, s.retries[root]>>
<1>0. /\ root \in Task /\ root \in Node /\ d \in Node /\ d \notin Task /\ b[1] = root
      /\ \A t \in Task : t \in Node /\ t # d
  BY NodeFacts
<1>1. /\ c.retries = s.retries
      /\ \A n \in Node \ {d, root} : c.status[n] = s.status[n]
      /\ c.status[d] = "skipped"
      /\ \/ c.status[root] = s.status[root] /\ c.blockers = s.blockers
         \/ /\ s.status[root] \notin Terminal
            /\ c.status[root] = s.status[root] /\ c.blockers = s.blockers \cup {b}
         \/ /\ s.status[root] \notin Terminal
            /\ c.status[root] = "blocked" /\ c.blockers = s.blockers \cup {b}
         \/ /\ s.status[root] \notin Terminal /\ s.retries[root] < MaxAttempts
            /\ c.status[root] = "pending" /\ c.blockers = s.blockers
  BY ConvergeFacts DEF CanRetry
<1>2. most >= MaxAttempts /\ most \in Nat /\ MaxAttempts \in Nat /\ s.retries \in [Node -> Nat]
  BY LimitFacts DEF RunState
<1> HIDE DEF c, b
<1>3. Named(c)
  BY <1>0, <1>1 DEF Plain, Named
<1>4. Alive(c)
  <2> SUFFICES ASSUME NEW x \in c.blockers, x[1] \in Task PROVE c.status[x[1]] \notin Terminal
    BY DEF Alive
  <2>1. s.status[x[1]] \notin Terminal
    BY <1>0, <1>1 DEF Plain, Alive
  <2>2. x[1] = root \/ c.status[x[1]] = s.status[x[1]]
    BY <1>0, <1>1
  <2> QED BY <1>1, <2>1, <2>2 DEF Terminal
<1>5. Counted(c, most)
  <2> SUFFICES ASSUME NEW t \in Task
               PROVE  /\ c.retries[t] <= most
                      /\ c.status[t] \in Waiting \cup {"active"} => c.retries[t] < most
    BY DEF Counted
  <2>1. /\ s.retries[t] \in Nat /\ s.retries[t] <= most
        /\ s.status[t] \in Waiting \cup {"active"} => s.retries[t] < most
    BY <1>0, <1>2 DEF Plain, Counted
  <2>2. CASE t # root
    BY <1>0, <1>1, <2>1, <2>2
  <2>3. CASE t = root
    BY <1>0, <1>1, <1>2, <2>1, <2>3 DEF Waiting
  <2> QED BY <2>2, <2>3
<1> QED BY <1>3, <1>4, <1>5 DEF Plain, c

LEMMA HandleFailedPlain ==
  ASSUME NEW s \in RunState, NEW n \in Node, NEW r, NEW most \in Limits, Plain(s, most),
         n \in Task => s.status[n] \notin Terminal
  PROVE  /\ Plain(HandleFailed(s, n, r), most)
         /\ HandleFailed(s, n, r).done = s.done
<1> DEFINE h == HandleFailed(s, n, r)
<1>1. CASE n \in Debug
  <2>1. h \in {s, Converge(s, n)}
    BY <1>1, NodeFacts DEF HandleFailed
  <2> HIDE DEF h
  <2> QED BY <1>1, <2>1, ConvergePlain, ConvergeFacts DEF h
<1>2. CASE n \in Task
  <2> DEFINE a == [s EXCEPT !.status[n] = "blocked"]
  <2>0. n \in Node /\ n \notin Debug /\ s.status \in [Node -> Status]
    BY <1>2, NodeFacts DEF RunState
  <2>1. /\ a \in RunState /\ a.status = [s.status EXCEPT ![n] = "blocked"]
        /\ a.retries = s.retries /\ a.blockers = s.blockers /\ a.done = s.done
    BY <2>0 DEF RunState, Status, Broken
  <2> HIDE DEF a
  <2>2. /\ Plain(RecordBlocker(a, n), most) /\ RecordBlocker(a, n).done = s.done
    <3> DEFINE q == RecordBlocker(a, n)
    <3>1. /\ q.status = a.status /\ q.retries = s.retries /\ q.done = s.done
          /\ \A b \in q.blockers : b \in s.blockers \/ b[1] = n
          /\ \E b \in q.blockers : b[1] = n
          /\ s.blockers \subseteq q.blockers
      BY <2>1, RecordPlain
    <3> HIDE DEF q
    <3>2. q.status[n] = "blocked" /\ \A m \in Node \ {n} : q.status[m] = s.status[m]
      BY <2>0, <2>1, <3>1
    <3>3. Named(q) /\ Alive(q)
      BY <3>1, <3>2, NodeFacts DEF Plain, Named, Alive, Terminal
    <3>4. Counted(q, most)
      BY <3>1, <3>2, NodeFacts DEF Plain, Counted, Waiting
    <3> QED BY <3>1, <3>3, <3>4 DEF Plain, q
  <2>3. Plain(RecordBlocker(s, n), most) /\ RecordBlocker(s, n).done = s.done
    <3> DEFINE q == RecordBlocker(s, n)
    <3>1. /\ q.status = s.status /\ q.retries = s.retries /\ q.done = s.done
          /\ \A b \in q.blockers : b \in s.blockers \/ b[1] = n
          /\ s.blockers \subseteq q.blockers
      BY RecordPlain
    <3> HIDE DEF q
    <3>2. Named(q) /\ Alive(q) /\ Counted(q, most)
      BY <1>2, <3>1 DEF Plain, Named, Alive, Counted
    <3> QED BY <3>1, <3>2 DEF Plain, q
  <2>4. CanRetry(s, n) =>
          Plain(CreateDebugAndReset(s, n), most) /\ CreateDebugAndReset(s, n).done = s.done
    <3> SUFFICES ASSUME CanRetry(s, n)
                 PROVE  Plain(CreateDebugAndReset(s, n), most)
                        /\ CreateDebugAndReset(s, n).done = s.done
      OBVIOUS
    <3> DEFINE q == CreateDebugAndReset(s, n)
               d == <<n, s.retries[n]>>
    <3>1. s.retries[n] \in Nat /\ s.retries[n] < MaxAttempts
      BY <2>0 DEF CanRetry, RunState
    <3>2. d \in Debug /\ d \in Node /\ d # n
      BY <1>2, <2>0, <3>1, LimitFacts DEF Debug, Node
    <3>3. /\ q.status = [s.status EXCEPT ![n] = "pending",
                                         ![d] = IF @ = "absent" THEN "pending" ELSE @]
          /\ q.retries = s.retries /\ q.blockers = s.blockers /\ q.done = s.done
      BY DEF CreateDebugAndReset, RunState
    <3> HIDE DEF q, d
    <3>4. /\ q.status[n] = "pending" /\ q.status[d] \in {"pending", s.status[d]}
          /\ \A m \in Node \ {n, d} : q.status[m] = s.status[m]
      BY <2>0, <3>2, <3>3
    <3>5. Named(q)
      BY <3>3, <3>4 DEF Plain, Named
    <3>6. Alive(q)
      BY <3>2, <3>3, <3>4, NodeFacts DEF Plain, Alive, Terminal
    <3>7. Counted(q, most)
      <4>1. most >= MaxAttempts /\ most \in Nat /\ MaxAttempts \in Nat
        BY LimitFacts
      <4> QED BY <3>1, <3>2, <3>3, <3>4, <4>1, NodeFacts DEF Plain, Counted
    <3> QED BY <3>3, <3>5, <3>6, <3>7 DEF Plain, q
  <2>5. \/ h = RecordBlocker(a, n) \/ h = RecordBlocker(s, n)
        \/ CanRetry(s, n) /\ h = CreateDebugAndReset(s, n)
    BY <1>2, <2>0 DEF HandleFailed, a
  <2> HIDE DEF h
  <2> QED BY <2>2, <2>3, <2>4, <2>5 DEF h
<1> QED BY <1>1, <1>2 DEF Node

\* A worker's answer is recorded for the active task, when nothing is blocked.
LEMMA ApplyPlain ==
  ASSUME NEW s \in RunState, NEW n \in Node, NEW r \in Evidence, NEW most \in Limits,
         Plain(s, most), s.status[n] = "active", s.blockers = {}
  PROVE  /\ Plain(ApplyResult(s, n, r), most)
         /\ ApplyResult(s, n, r).done = s.done
<1> DEFINE c == MarkCompleted(s, n, r)
           b == MarkBlocked(s, n, r)
           f == MarkFailed(s, n, r)
<1>0. /\ s.status \in [Node -> Status] /\ s.retries \in [Node -> Nat]
      /\ n \in Task => s.retries[n] < most
      /\ most \in Nat
  BY LimitFacts DEF RunState, Plain, Counted
<1>1. Plain(c, most) /\ c.done = s.done
  <2>1. /\ c.status = [s.status EXCEPT ![n] = "completed"]
        /\ c.retries = s.retries /\ c.blockers = s.blockers /\ c.done = s.done
    BY DEF MarkCompleted, RunState
  <2> HIDE DEF c
  <2>2. c.status[n] = "completed" /\ \A m \in Node \ {n} : c.status[m] = s.status[m]
    BY <1>0, <2>1
  <2>3. Named(c) /\ Alive(c)
    BY <2>1, <2>2 DEF Plain, Named, Alive
  <2>4. Counted(c, most)
    BY <2>1, <2>2, NodeFacts DEF Plain, Counted, Waiting
  <2> QED BY <2>1, <2>3, <2>4 DEF Plain, c
<1>2. Plain(RecordBlocker(b, n), most) /\ RecordBlocker(b, n).done = s.done
  <2>1. /\ b \in RunState /\ b.status = [s.status EXCEPT ![n] = "blocked"]
        /\ b.retries = s.retries /\ b.blockers = s.blockers /\ b.done = s.done
    <3>1. b \in RunState
      BY MarkType
    <3> QED BY <3>1 DEF MarkBlocked, RunState
  <2> HIDE DEF b
  <2> DEFINE q == RecordBlocker(b, n)
  <2>2. /\ q.status = b.status /\ q.retries = s.retries /\ q.done = s.done
        /\ \A x \in q.blockers : x[1] = n
        /\ \E x \in q.blockers : x[1] = n
    BY <2>1, RecordPlain
  <2> HIDE DEF q
  <2>3. q.status[n] = "blocked" /\ \A m \in Node \ {n} : q.status[m] = s.status[m]
    BY <1>0, <2>1, <2>2
  <2>4. Named(q) /\ Alive(q)
    BY <2>2, <2>3 DEF Plain, Named, Alive, Terminal
  <2>5. Counted(q, most)
    BY <2>2, <2>3, NodeFacts DEF Plain, Counted, Waiting
  <2> QED BY <2>2, <2>4, <2>5 DEF Plain, q
<1>3. Plain(HandleFailed(f, n, r), most) /\ HandleFailed(f, n, r).done = s.done
  <2>1. /\ f \in RunState /\ f.status = [s.status EXCEPT ![n] = "failed"]
        /\ f.retries = [s.retries EXCEPT ![n] = @ + 1]
        /\ f.blockers = s.blockers /\ f.done = s.done
    <3>1. f \in RunState
      BY MarkType
    <3> QED BY <3>1 DEF MarkFailed, RunState
  <2> HIDE DEF f
  <2>2. /\ f.status[n] = "failed" /\ f.retries[n] = s.retries[n] + 1
        /\ \A m \in Node \ {n} : f.status[m] = s.status[m] /\ f.retries[m] = s.retries[m]
    BY <1>0, <2>1
  <2>3. Named(f) /\ Alive(f)
    BY <2>1, <2>2 DEF Plain, Named, Alive
  <2>4. Counted(f, most)
    <3> SUFFICES ASSUME NEW t \in Task
                 PROVE  /\ f.retries[t] <= most
                        /\ f.status[t] \in Waiting \cup {"active"} => f.retries[t] < most
      BY DEF Counted
    <3>1. CASE t = n
      BY <1>0, <2>2, <3>1 DEF Waiting
    <3>2. CASE t # n
      BY <2>2, <3>2, NodeFacts DEF Plain, Counted
    <3> QED BY <3>1, <3>2
  <2>5. f.status[n] \notin Terminal
    BY <2>2 DEF Terminal
  <2>6. Plain(f, most)
    BY <2>3, <2>4 DEF Plain
  <2>7. n \in Task => f.status[n] \notin Terminal
    BY <2>5
  <2> HIDE DEF f
  <2>8. f \in RunState
    BY <2>1
  <2>9. Plain(HandleFailed(f, n, r), most) /\ HandleFailed(f, n, r).done = f.done
    BY ZenonT(60), <2>6, <2>7, <2>8, HandleFailedPlain
  <2> QED BY <2>1, <2>9
<1>4. ApplyResult(s, n, r) \in {c, RecordBlocker(b, n), HandleFailed(f, n, r)}
  BY DEF ApplyResult
<1> HIDE DEF c, b, f
<1> QED BY <1>1, <1>2, <1>3, <1>4

LEMMA PrunePlain ==
  ASSUME NEW s \in RunState, NEW most \in Limits, Plain(s, most)
  PROVE  /\ Plain(Prune(s), most)
         /\ Prune(s).done = s.done /\ Prune(s).blockers = s.blockers
         /\ Prune(s).notices = s.notices /\ Prune(s).github = s.github
         /\ Prune(s).retries = s.retries
         /\ \A t \in Task : Prune(s).status[t] = s.status[t]
<1> DEFINE b == Prune(s)
<1>1. /\ b.done = s.done /\ b.blockers = s.blockers /\ b.retries = s.retries
      /\ b.notices = s.notices /\ b.github = s.github
      /\ \A n \in Node : b.status[n] = IF n \in Obsolete(s) THEN "skipped" ELSE s.status[n]
  BY DEF Prune, RunState
<1>2. \A n \in Obsolete(s) : n \in Debug /\ n \notin Task
  BY NodeFacts DEF Obsolete, OpenDebug
<1> HIDE DEF b
<1>3. \A t \in Task : t \in Node /\ b.status[t] = s.status[t]
  BY <1>1, <1>2, NodeFacts
<1>4. Named(b) /\ Alive(b)
  BY <1>1, <1>3 DEF Plain, Named, Alive
<1>5. Counted(b, most)
  BY <1>1, <1>3 DEF Plain, Counted
<1> QED BY <1>1, <1>3, <1>4, <1>5 DEF Plain, b

LEMMA PromotePlain ==
  ASSUME NEW s \in RunState, NEW most \in Limits, Plain(s, most)
  PROVE  Plain(Promote(s), most) /\ Promote(s).done = s.done
<1> DEFINE b == Promote(s)
<1>1. /\ b.done = s.done /\ b.retries = s.retries
      /\ b.blockers = {x \in s.blockers : x[1] \notin Promotable(s)}
      /\ \A n \in Node : b.status[n] = IF n \in Promotable(s) THEN "completed" ELSE s.status[n]
  BY DEF Promote, RunState
<1> HIDE DEF b
<1>2. Named(b)
  BY <1>1 DEF Plain, Named
<1>3. Alive(b)
  BY <1>1, NodeFacts DEF Plain, Alive
<1>4. Counted(b, most)
  BY <1>1, NodeFacts DEF Plain, Counted, Waiting
<1> QED BY <1>1, <1>2, <1>3, <1>4 DEF Plain, b

LEMMA SelectPlain ==
  ASSUME NEW s \in RunState, NEW most \in Limits, Plain(s, most)
  PROVE  /\ Plain(MarkReady(s), most) /\ MarkReady(s).done = s.done
         /\ \A n \in Node : s.status[n] \in Waiting =>
              Plain(MarkActive(s, n), most) /\ MarkActive(s, n).done = s.done
<1>1. Plain(MarkReady(s), most) /\ MarkReady(s).done = s.done
  <2> DEFINE b == MarkReady(s)
  <2>1. /\ b.done = s.done /\ b.retries = s.retries /\ b.blockers = s.blockers
        /\ \A n \in Node : b.status[n] = IF n \in ReadyTasks(s) THEN "ready" ELSE s.status[n]
    BY DEF MarkReady, RunState
  <2>2. \A n \in ReadyTasks(s) : s.status[n] \in Waiting
    BY DEF ReadyTasks
  <2> HIDE DEF b
  <2>3. Named(b) /\ Alive(b)
    BY <2>1, <2>2, NodeFacts DEF Plain, Named, Alive, Terminal
  <2>4. Counted(b, most)
    BY <2>1, <2>2, NodeFacts DEF Plain, Counted, Waiting
  <2> QED BY <2>1, <2>3, <2>4 DEF Plain, b
<1>2. ASSUME NEW n \in Node, s.status[n] \in Waiting
      PROVE  Plain(MarkActive(s, n), most) /\ MarkActive(s, n).done = s.done
  <2> DEFINE b == MarkActive(s, n)
  <2>1. /\ b.done = s.done /\ b.retries = s.retries /\ b.blockers = s.blockers
        /\ \A m \in Node : b.status[m] = IF m = n THEN "active" ELSE s.status[m]
    BY DEF MarkActive, RunState
  <2> HIDE DEF b
  <2>2. Named(b) /\ Alive(b)
    BY <2>1, NodeFacts DEF Plain, Named, Alive, Terminal
  <2>3. Counted(b, most)
    BY <1>2, <2>1, NodeFacts DEF Plain, Counted
  <2> QED BY <2>1, <2>2, <2>3 DEF Plain, b
<1> QED BY <1>1, <1>2

LEMMA PreparePlain ==
  ASSUME NEW s \in RunState, NEW most \in Limits, Plain(s, most), NEW sel \in SUBSET Node
  PROVE  Plain(Prepare(s, sel), MaxAttempts + 1)
<1> DEFINE b == Prepare(s, sel)
           reset == ResetTasks(s, sel)
           recon == Reconciled(s, sel)
<1>1. /\ b.blockers = {x \in s.blockers : x[1] \notin reset \cup recon}
      /\ \A n \in Node : /\ b.status[n] = IF n \in recon THEN "completed"
                                          ELSE IF n \in reset THEN "pending"
                                          ELSE s.status[n]
                         /\ b.retries[n] = IF n \in BlockedReset(s, sel)
                                           THEN s.retries[n] + 1 ELSE s.retries[n]
  BY DEF Prepare, KeptBlockers, RunState
<1>2. /\ \A n \in recon : s.status[n] = "active"
      /\ \A n \in BlockedReset(s, sel) : s.retries[n] < MaxAttempts
      /\ \A n \in reset \ BlockedReset(s, sel) :
           s.status[n] \in Waiting \cup {"active"} \/ s.retries[n] < MaxAttempts
  BY DEF Reconciled, ResetTasks, BlockedReset, CanRetry
<1> HIDE DEF b, reset, recon
<1>3. Named(b)
  BY <1>1 DEF Plain, Named
<1>4. Alive(b)
  BY <1>1, NodeFacts DEF Plain, Alive, Terminal
<1>5. Counted(b, MaxAttempts + 1)
  <2> SUFFICES ASSUME NEW t \in Task
               PROVE  /\ b.retries[t] <= MaxAttempts + 1
                      /\ b.status[t] \in Waiting \cup {"active"} => b.retries[t] < MaxAttempts + 1
    BY DEF Counted
  <2>1. /\ t \in Node /\ s.retries[t] \in Nat
        /\ s.retries[t] <= most /\ most <= MaxAttempts + 1 /\ MaxAttempts \in Nat /\ most \in Nat
        /\ s.status[t] \in Waiting \cup {"active"} => s.retries[t] < most
    BY LimitFacts, NodeFacts DEF Plain, Counted, RunState
  <2>2. CASE t \in BlockedReset(s, sel)
    BY <1>1, <1>2, <2>1, <2>2
  <2>3. CASE t \notin BlockedReset(s, sel)
    <3>1. b.retries[t] = s.retries[t]
      BY <1>1, <2>1, <2>3
    <3>2. CASE t \in recon \/ t \notin reset
      BY <1>1, <1>2, <2>1, <3>1, <3>2 DEF Waiting
    <3>3. CASE t \in reset
      BY <1>2, <2>1, <2>3, <3>1, <3>3
    <3> QED BY <3>2, <3>3
  <2> QED BY <2>2, <2>3
<1> QED BY <1>3, <1>4, <1>5 DEF Plain, b

LEMMA CompletePlain ==
  ASSUME NEW s \in RunState, NEW most \in Limits, Plain(s, most), s.blockers = {}
  PROVE  /\ Plain(CompleteRest(s), most)
         /\ CompleteRest(s).blockers = {} /\ CompleteRest(s).notices = s.notices
         /\ \A n \in Node : CompleteRest(s).status[n] \in Terminal \cup {"absent"}
<1> DEFINE b == CompleteRest(s)
<1>1. /\ b.retries = s.retries /\ b.blockers = {} /\ b.notices = s.notices
      /\ \A n \in Node : b.status[n] = IF n \in Exists(s) \ Finished(s) THEN "completed"
                                       ELSE s.status[n]
  BY DEF CompleteRest, RunState
<1> HIDE DEF b
<1>2. \A n \in Node : b.status[n] \in Terminal \cup {"absent"}
  BY <1>1 DEF Exists, Finished, Terminal
<1>3. Named(b) /\ Alive(b)
  BY <1>1, <1>2 DEF Named, Alive, Terminal
<1>4. Counted(b, most)
  BY <1>1, <1>2, NodeFacts DEF Plain, Counted, Waiting, Terminal
<1> QED BY <1>1, <1>2, <1>3, <1>4 DEF Plain, b

\* What a task leaves behind, in memory and in the file.
LEMMA AfterTaskPlain ==
  ASSUME RunInvariant, pc \in {"dispatched", "exited"}, NEW most \in Limits,
         NEW s0 \in RunState, NEW r, AfterTask(s0, r), Plain(s0, most)
  PROVE  /\ Plain(run', most) /\ disk' \in {disk, run'}
         /\ resumes' = resumes
<1> DEFINE s == Prune(s0)
<1>1. s \in RunState /\ Plain(s, most) /\ run.blockers = {}
  BY PrunePlain, RepairType DEF RunInvariant, PassIsSound
<1>2. disk' \in {disk, run'} /\ resumes' = resumes
  BY DEF AfterTask, Save, bounds
<1> HIDE DEF s
<1>3. CASE run' = s
  BY <1>1, <1>2, <1>3
<1>4. CASE /\ s.blockers \subseteq run.blockers
           /\ \E score \in Scores :
                run' = [CompleteRest(s) EXCEPT !.done = Evaluate(CompleteRest(s), score)]
  <2>1. PICK score \in Scores :
          run' = [CompleteRest(s) EXCEPT !.done = Evaluate(CompleteRest(s), score)]
    BY <1>4
  <2>2. CompleteRest(s) \in RunState /\ Plain(CompleteRest(s), most)
    BY <1>1, <1>4, CompletePlain, RepairType
  <2>3. /\ run'.status = CompleteRest(s).status /\ run'.retries = CompleteRest(s).retries
        /\ run'.blockers = CompleteRest(s).blockers
    BY <2>1, <2>2 DEF RunState
  <2> QED BY <1>2, <2>2, <2>3 DEF Plain, Named, Alive, Counted
<1> QED BY <1>3, <1>4 DEF AfterTask, Save, s

\* The state a task leaves behind, before the loop looks at it.
LEMMA ResultPlain ==
  ASSUME RunInvariant, pc \in {"dispatched", "exited"}, NEW most \in Limits, Plain(run, most)
  PROVE  /\ \A r \in Evidence : Plain(ApplyResult(run, cur, r), most)
                                /\ ApplyResult(run, cur, r).done = run.done
         /\ \A r \in Evidence : LET s == [run EXCEPT !.proven = @ \ {cur}] IN
              /\ s \in RunState
              /\ Plain(ApplyResult(s, cur, r), most) /\ ApplyResult(s, cur, r).done = run.done
         /\ Plain(MarkSkipped(run, cur), most) /\ MarkSkipped(run, cur).done = run.done
<1>0. /\ run \in RunState /\ cur \in Node /\ run.status[cur] = "active" /\ run.blockers = {}
  BY DEF RunInvariant, TypeOK, PassIsSound
<1>1. \A r \in Evidence : Plain(ApplyResult(run, cur, r), most)
                          /\ ApplyResult(run, cur, r).done = run.done
  BY <1>0, ApplyPlain
<1>2. ASSUME NEW r \in Evidence
      PROVE  LET s == [run EXCEPT !.proven = @ \ {cur}] IN
              /\ s \in RunState
              /\ Plain(ApplyResult(s, cur, r), most) /\ ApplyResult(s, cur, r).done = run.done
  <2> DEFINE s == [run EXCEPT !.proven = @ \ {cur}]
  <2>1. /\ s \in RunState /\ s.status = run.status /\ s.retries = run.retries
        /\ s.blockers = run.blockers /\ s.done = run.done
    BY <1>0 DEF RunState
  <2> HIDE DEF s
  <2>2. Plain(s, most)
    BY <2>1 DEF Plain, Named, Alive, Counted
  <2>3. Plain(ApplyResult(s, cur, r), most) /\ ApplyResult(s, cur, r).done = run.done
    BY <1>0, <2>1, <2>2, ApplyPlain
  <2> QED BY <2>1, <2>3 DEF s
<1>3. Plain(MarkSkipped(run, cur), most) /\ MarkSkipped(run, cur).done = run.done
  <2> DEFINE c == MarkSkipped(run, cur)
  <2>1. /\ c.status = [run.status EXCEPT ![cur] = "skipped"]
        /\ c.retries = run.retries /\ c.blockers = run.blockers /\ c.done = run.done
    BY <1>0 DEF MarkSkipped, RunState
  <2> HIDE DEF c
  <2>2. c.status[cur] = "skipped" /\ \A m \in Node \ {cur} : c.status[m] = run.status[m]
    BY <1>0, <2>1 DEF RunState
  <2>3. Named(c) /\ Alive(c)
    BY <1>0, <2>1, <2>2 DEF Plain, Named, Alive
  <2>4. Counted(c, most)
    BY <2>1, <2>2, NodeFacts DEF Plain, Counted, Waiting
  <2> QED BY <2>1, <2>3, <2>4 DEF Plain, c
<1> QED BY <1>1, <1>2, <1>3

TaskEnds ==
  \/ RecordResult \/ Review
  \/ \E r \in {"passed", "failed", "skipped"} : Inspect(r)
  \/ \E g \in ReleaseOutcomes : Release(g)

\* Every end of a task is a plain state that the loop then looks at.
LEMMA TaskEndsPlain ==
  ASSUME RunInvariant, TaskEnds, NEW most \in Limits, Plain(run, most)
  PROVE  /\ pc \in {"dispatched", "exited"}
         /\ \E s0 \in RunState : \E r : /\ AfterTask(s0, r)
                                        /\ Plain(s0, most) /\ s0.done = run.done
<1>0. /\ run \in RunState /\ cur \in Node /\ run.status[cur] = "active" /\ run.blockers = {}
      /\ pc \in {"dispatched", "exited"} /\ result \in WorkerResult \cup {"none"}
  BY DEF RunInvariant, TypeOK, PassIsSound, TaskEnds, RecordResult, Review, Inspect, Release
<1>1. CASE RecordResult
  <2> DEFINE s == [run EXCEPT !.proven = @ \ {cur}]
  <2>1. result \in Evidence /\ AfterTask(ApplyResult(s, cur, result), result)
    BY <1>0, <1>1 DEF RecordResult, Evidence
  <2>2. s \in RunState /\ Plain(ApplyResult(s, cur, result), most)
        /\ ApplyResult(s, cur, result).done = run.done
    BY <1>0, <2>1, ResultPlain
  <2> HIDE DEF s
  <2>3. ApplyResult(s, cur, result) \in RunState
    BY <1>0, <2>1, <2>2, ApplyType
  <2> QED BY <1>0, <2>1, <2>2, <2>3
<1>2. CASE Review
  <2> DEFINE r == IF ReviewPasses(run, cur) THEN "passed" ELSE "failed"
  <2>1. AfterTask(ApplyResult(run, cur, r), r)
    BY <1>2 DEF Review
  <2>2. r \in Evidence
    BY DEF Evidence, WorkerResult
  <2> HIDE DEF r
  <2>3. ApplyResult(run, cur, r) \in RunState
    BY <1>0, <2>2, ApplyType
  <2> QED BY <1>0, <2>1, <2>2, <2>3, ResultPlain
<1>3. ASSUME NEW r \in {"passed", "failed", "skipped"}, Inspect(r)
      PROVE  \E s0 \in RunState : \E q : /\ AfterTask(s0, q)
                                         /\ Plain(s0, most) /\ s0.done = run.done
  <2>1. CASE r = "skipped"
    <3>1. AfterTask(MarkSkipped(run, cur), r)
      BY <1>3, <2>1 DEF Inspect
    <3>2. MarkSkipped(run, cur) \in RunState
      BY <1>0, MarkType DEF Evidence
    <3> QED BY <1>0, <3>1, <3>2, ResultPlain
  <2>2. CASE r # "skipped"
    <3>1. AfterTask(ApplyResult(run, cur, r), r) /\ r \in Evidence
      BY <1>3, <2>2 DEF Inspect, Evidence, WorkerResult
    <3>2. ApplyResult(run, cur, r) \in RunState
      BY <1>0, <3>1, ApplyType
    <3> QED BY <1>0, <3>1, <3>2, ResultPlain
  <2> QED BY <2>1, <2>2
<1>4. ASSUME NEW g \in ReleaseOutcomes, Release(g)
      PROVE  \E s0 \in RunState : \E q : /\ AfterTask(s0, q)
                                         /\ Plain(s0, most) /\ s0.done = run.done
  <2> DEFINE s == [run EXCEPT !.github = (g # "failed")]
             c == [s EXCEPT !.status[cur] = "completed", !.last[cur] = "weak"]
  <2>1. /\ s \in RunState /\ s.status = run.status /\ s.retries = run.retries
        /\ s.blockers = run.blockers /\ s.done = run.done
    BY <1>0 DEF RunState
  <2>2. Plain(s, most)
    BY <2>1 DEF Plain, Named, Alive, Counted
  <2> HIDE DEF s
  <2>3. c \in RunState
    BY <1>0, <2>1 DEF RunState, Status, Terminal, Evidence, WorkerResult
  <2>4. /\ c.retries = s.retries /\ c.blockers = s.blockers /\ c.done = s.done
        /\ c.status = [s.status EXCEPT ![cur] = "completed"]
    BY <2>1 DEF RunState
  <2> DEFINE w == ApplyResult(s, cur, "blocked")
  <2>5. RecordBlocker(MarkBlocked(s, cur, "weak"), cur) \in RunState
        /\ MarkFailed(s, cur, "failed") \in RunState
    BY <1>0, <2>1, MarkType DEF Evidence, WorkerResult
  <2>6. \/ AfterTask(c, "release")
        \/ AfterTask(RecordBlocker(MarkBlocked(s, cur, "weak"), cur), "release")
        \/ AfterTask(MarkFailed(s, cur, "failed"), "release")
    BY <1>4, LoopAssumption DEF Release, c, s
  <2>7. Plain(c, most)
    <3> HIDE DEF c
    <3>1. c.status[cur] = "completed" /\ \A m \in Node \ {cur} : c.status[m] = s.status[m]
      BY <1>0, <2>1, <2>4 DEF RunState
    <3>2. Named(c) /\ Alive(c)
      BY <1>0, <2>1, <2>2, <2>4, <3>1 DEF Plain, Named, Alive
    <3>3. Counted(c, most)
      BY <2>2, <2>4, <3>1, NodeFacts DEF Plain, Counted, Waiting
    <3> QED BY <3>2, <3>3 DEF Plain
  <2>8. Plain(RecordBlocker(MarkBlocked(s, cur, "weak"), cur), most)
        /\ RecordBlocker(MarkBlocked(s, cur, "weak"), cur).done = s.done
    <3> DEFINE b == MarkBlocked(s, cur, "weak")
               q == RecordBlocker(b, cur)
    <3>1. /\ b \in RunState
      BY <1>0, <2>1, MarkType DEF Evidence, WorkerResult
    <3>2. /\ b.status = [s.status EXCEPT ![cur] = "blocked"]
          /\ b.retries = s.retries /\ b.blockers = {} /\ b.done = s.done
      BY <1>0, <2>1, <3>1 DEF MarkBlocked, RunState
    <3> HIDE DEF b
    <3>3. /\ q.status = b.status /\ q.retries = s.retries /\ q.done = s.done
          /\ \A x \in q.blockers : x[1] = cur
          /\ \E x \in q.blockers : x[1] = cur
      BY <1>0, <3>1, <3>2, RecordPlain
    <3> HIDE DEF q
    <3>4. q.status[cur] = "blocked" /\ \A m \in Node \ {cur} : q.status[m] = s.status[m]
      BY <1>0, <2>1, <3>2, <3>3 DEF RunState
    <3>5. Named(q) /\ Alive(q)
      BY <1>0, <2>1, <2>2, <3>3, <3>4 DEF Plain, Named, Alive, Terminal
    <3>6. Counted(q, most)
      BY <2>2, <3>3, <3>4, NodeFacts DEF Plain, Counted, Waiting
    <3> QED BY <3>3, <3>5, <3>6 DEF Plain, q, b
  <2>9. Plain(MarkFailed(s, cur, "failed"), most) /\ MarkFailed(s, cur, "failed").done = s.done
    <3> DEFINE f == MarkFailed(s, cur, "failed")
    <3>1. /\ f.status = [s.status EXCEPT ![cur] = "failed"]
          /\ f.retries = [s.retries EXCEPT ![cur] = @ + 1]
          /\ f.blockers = {} /\ f.done = s.done
      BY <1>0, <2>1, <2>5 DEF MarkFailed, RunState
    <3> HIDE DEF f
    <3>2. /\ f.status[cur] = "failed" /\ f.retries[cur] = s.retries[cur] + 1
          /\ \A m \in Node \ {cur} : f.status[m] = s.status[m] /\ f.retries[m] = s.retries[m]
          /\ s.retries \in [Node -> Nat] /\ most \in Nat
      BY <1>0, <2>1, <3>1, LimitFacts DEF RunState
    <3>3. Named(f) /\ Alive(f)
      BY <1>0, <2>1, <2>2, <3>1, <3>2 DEF Plain, Named, Alive
    <3>4. Counted(f, most)
      <4> SUFFICES ASSUME NEW t \in Task
                   PROVE  /\ f.retries[t] <= most
                          /\ f.status[t] \in Waiting \cup {"active"} => f.retries[t] < most
        BY DEF Counted
      <4>1. CASE t = cur
        BY <1>0, <2>1, <2>2, <3>2, <4>1 DEF Plain, Counted, Waiting
      <4>2. CASE t # cur
        BY <2>2, <3>2, <4>2, NodeFacts DEF Plain, Counted
      <4> QED BY <4>1, <4>2
    <3> QED BY <3>1, <3>3, <3>4 DEF Plain, f
  <2> HIDE DEF c
  <2> QED BY <2>1, <2>3, <2>4, <2>5, <2>6, <2>7, <2>8, <2>9
<1> QED BY <1>0, <1>1, <1>2, <1>3, <1>4 DEF TaskEnds

BothPlain == Plain(run, Limit) /\ Plain(disk, Limit)

LEMMA PlainStep == RunInvariant /\ BothPlain /\ [Next]_vars => BothPlain'
<1> SUFFICES ASSUME RunInvariant, BothPlain, [Next]_vars PROVE BothPlain'
  OBVIOUS
<1>0. /\ run \in RunState /\ disk \in RunState /\ queue \subseteq Node
      /\ Plain(run, Limit) /\ Plain(disk, Limit) /\ Limit \in Limits
      /\ resumes \in Nat /\ MaxAttempts \in Nat
  BY LoopAssumption, LimitFacts DEF RunInvariant, TypeOK, BothPlain, Limit, Limits
<1> DEFINE p == Prune(run)
<1>p. /\ p \in RunState /\ Plain(p, Limit) /\ p.status \in [Node -> Status]
      /\ \A n \in Node : p.status[n] \in {run.status[n], "skipped"}
  BY <1>0, PrunePlain, PruneSound, RepairType DEF RunState, RunInvariant
<1> HIDE DEF p
\* It is enough that the new state in memory is plain; the file has one of the two.
<1>a. ASSUME resumes' = resumes, Plain(run', Limit), disk' \in {disk, run'} PROVE BothPlain'
  BY <1>0, <1>a DEF BothPlain, Limit
<1>b. ASSUME NEW s \in RunState, NEW x, NEW y, Plain(s, Limit),
             run' = [s EXCEPT !.done = x] \/ run' = [s EXCEPT !.notices = y]
      PROVE  Plain(run', Limit)
  <2>1. run'.status = s.status /\ run'.retries = s.retries /\ run'.blockers = s.blockers
    BY <1>b DEF RunState
  <2> QED BY <1>b, <2>1 DEF Plain, Named, Alive, Counted
<1>1. CASE ConvergeChains
  <2>1. PICK d \in UnproductiveDebug(run) : run' = Converge(run, d)
    BY <1>1 DEF ConvergeChains
  <2>2. disk' \in {disk, run'} /\ resumes' = resumes
    BY <1>1 DEF ConvergeChains, bounds
  <2>3. d \in Debug
    BY DEF UnproductiveDebug, OpenDebug
  <2> QED BY <1>0, <1>a, <2>1, <2>2, <2>3, ConvergePlain
<1>2. CASE PassDone
  <2>1. run' = [p EXCEPT !.done = TRUE] /\ disk' = run' /\ resumes' = resumes
    BY <1>2 DEF PassDone, PassStarts, Save, bounds, p
  <2> QED BY <1>p, <1>a, <1>b, <2>1
<1>3. CASE PassPromotes
  <2>1. run' = Promote(p) /\ disk' = run' /\ resumes' = resumes
    BY <1>3 DEF PassPromotes, PassStarts, Save, bounds, p
  <2> QED BY <1>0, <1>p, <1>a, <2>1, PromotePlain
<1>4. CASE PassBlocked \/ PassRetries \/ PassIdle
  <2>1. run' = p /\ disk' \in {disk, run'} /\ resumes' = resumes
    BY <1>4 DEF PassBlocked, PassRetries, PassIdle, PassStarts, Save, bounds, p
  <2> QED BY <1>p, <1>a, <2>1
<1>5. CASE PassSelects
  <2>1. run' = MarkReady(p) /\ disk' \in {disk, p} /\ resumes' = resumes
    BY <1>5 DEF PassSelects, PassStarts, bounds, p
  <2>2. Plain(run', Limit)
    BY <1>0, <1>p, <2>1, SelectPlain
  <2> QED BY <1>0, <1>p, <2>1, <2>2 DEF BothPlain, Limit
<1>6. CASE \/ IterationLimit \/ LaunchWorker
           \/ \E r \in WorkerResult : WorkerExits(r)
           \/ UNCHANGED vars
  <2>1. run' = run /\ disk' \in {disk, run'} /\ resumes' = resumes
    BY <1>6 DEF IterationLimit, LaunchWorker, WorkerExits, Save, bounds, vars
  <2> QED BY <1>0, <1>a, <2>1
<1>7. CASE PassEnds
  <2>1. PICK score \in Scores : run' = [run EXCEPT !.done = Evaluate(run, score)] /\ disk' = run'
    BY <1>7 DEF PassEnds, Save
  <2>2. resumes' = resumes
    BY <1>7 DEF PassEnds, bounds
  <2> QED BY <1>0, <1>a, <1>b, <2>1, <2>2
<1>8. ASSUME NEW n \in Node, RetryFailure(n) PROVE BothPlain'
  <2>1. /\ run' = HandleFailed(run, n, "failed") /\ disk' \in {disk, run'} /\ resumes' = resumes
        /\ pc = "retrying" /\ n \in queue
    BY <1>8 DEF RetryFailure, bounds
  <2>2. run.status[n] \notin Terminal
    BY <2>1 DEF RunInvariant, PassIsSound
  <2> QED BY <1>0, <1>a, <2>1, <2>2, HandleFailedPlain
<1>9. ASSUME NEW n \in Node, Dispatch(n) PROVE BothPlain'
  <2>1. /\ run' = MarkActive(p, n) /\ disk' = run' /\ resumes' = resumes
        /\ pc = "tasks" /\ n \in queue /\ p.status[n] # "skipped"
    BY <1>9 DEF Dispatch, AtTask, IsNext, Save, bounds, p
  <2>2. p.status[n] \in Waiting
    BY <1>0, <1>p, <2>1 DEF RunInvariant, PassIsSound, Listed
  <2> QED BY <1>0, <1>p, <1>a, <2>1, <2>2, SelectPlain
<1>10. CASE TaskEnds
  <2>1. PICK s0 \in RunState : \E r : AfterTask(s0, r) /\ Plain(s0, Limit) /\ s0.done = run.done
    BY <1>0, <1>10, TaskEndsPlain
  <2> QED BY <1>0, <1>10, <1>a, <2>1, AfterTaskPlain, TaskEndsPlain
<1>11. ASSUME NEW n \in Node, NEW c \in Controls, ObeyControl(n, c) PROVE BothPlain'
  <2>1. resumes' = resumes
    BY <1>11 DEF ObeyControl, bounds
  <2>2. CASE c = "stop"
    <3>1. run' = [p EXCEPT !.notices = @ \cup {"stop"}] /\ disk' = run'
      BY <1>11, <2>2 DEF ObeyControl, AtTask, Save, p
    <3> QED BY <1>p, <1>a, <1>b, <2>1, <3>1
  <2>3. CASE c # "stop"
    <3>1. run' = p /\ disk' = run'
      BY <1>11, <2>3 DEF ObeyControl, AtTask, Save, p
    <3> QED BY <1>p, <1>a, <2>1, <3>1
  <2> QED BY <2>2, <2>3
<1>12. CASE Crash \/ Rerun
  <2>1. run' = disk /\ disk' = disk /\ resumes' = resumes
    BY <1>12 DEF Crash, Rerun, Save, bounds
  <2> QED BY <1>0, <1>a, <2>1
<1>13. ASSUME NEW sel \in Selections, NEW preflight \in BOOLEAN, Resume(sel, preflight)
       PROVE  BothPlain'
  <2> DEFINE d == RecoverySource
             s == Prepare(d, sel)
  <2>1. sel \in SUBSET Node /\ files \in [Node -> WorkerFile]
    BY LoopAssumption DEF RunInvariant, TypeOK
  <2>2. d \in RunState
    BY <1>0, <2>1, RecoveryType DEF RecoverySource
  <2>3. d.status = disk.status /\ d.retries = disk.retries /\ d.blockers = disk.blockers
    BY <1>0 DEF RecoverySource, MergeWorkerFiles, RunState
  <2>4. Plain(d, Limit)
    BY <1>0, <2>3 DEF Plain, Named, Alive, Counted
  <2> HIDE DEF d
  <2>5. Plain(s, MaxAttempts + 1) /\ s \in RunState
    <3>1. [n \in Node |-> "none"] \in [Node -> WorkerFile]
      BY DEF WorkerFile
    <3> QED BY <1>0, <2>1, <2>2, <2>4, <3>1, PreparePlain, RecoveryType
  <2>6. Limit' = MaxAttempts + 1 /\ disk' = run'
    <3>1. resumes' = resumes + 1
      BY <1>13 DEF Resume
    <3>2. disk' = run'
      BY <1>13 DEF Resume, Save
    <3> QED BY <1>0, <3>1, <3>2 DEF Limit
  <2>7. \E x : run' \in {s, [s EXCEPT !.notices = x]}
    BY <1>13 DEF Resume, Save, d
  <2> HIDE DEF s
  <2>8. run'.status = s.status /\ run'.retries = s.retries /\ run'.blockers = s.blockers
    BY <2>5, <2>7 DEF RunState
  <2>9. Plain(run', MaxAttempts + 1)
    BY <2>5, <2>8 DEF Plain, Named, Alive, Counted
  <2> QED BY <2>6, <2>9 DEF BothPlain
<1> QED
  BY <1>1, <1>2, <1>3, <1>4, <1>5, <1>6, <1>7, <1>8, <1>9, <1>10, <1>11, <1>12, <1>13
     DEF Next, LoopStep, Control, Restart, TaskEnds

LEMMA PlainHolds == Spec => []BothPlain
<1>1. Init => BothPlain
  <2> SUFFICES ASSUME Init PROVE BothPlain
    OBVIOUS
  <2>1. /\ \A n \in Node : InitialRunState.status[n] \in {"pending", "absent"}
                           /\ InitialRunState.retries[n] = 0
        /\ InitialRunState.blockers = {}
    BY DEF InitialRunState
  <2>2. Plain(InitialRunState, Limit)
    BY <2>1, NodeFacts, LimitFacts DEF Plain, Named, Alive, Counted, Limit
  <2> QED BY <2>2 DEF Init, BothPlain
<1> QED BY <1>1, PlainStep, InvariantHolds, PTL DEF Spec

\* A task is attempted no more often than the retry policy allows, and once more after a
\* recovery, however many recoveries follow (can_retry, mark_failed, prepare).
THEOREM AttemptsAreBounded == Spec => []AttemptsBounded
<1>1. BothPlain => AttemptsBounded
  BY DEF BothPlain, Plain, Counted, Limit, AttemptsBounded
<1> QED BY <1>1, PlainHolds, PTL

\* A blocker of a planned task names a task that still needs work, in memory and in the
\* state file (_promote_completed_debug_repairs, prepare).
THEOREM BlockersStayLive == Spec => []BlockersAreLive
<1>1. BothPlain => BlockersAreLive
  BY DEF BothPlain, Plain, Alive, BlockersAreLive
<1> QED BY <1>1, PlainHolds, PTL

\* A blocked node is named by a blocker, in memory and in the state file
\* (_record_blocker, _clear_recoverable_blockers): half of what StopIsExplained says.
THEOREM BlockedIsNamed == Spec => []BlockedHasBlocker
<1>1. BothPlain => BlockedHasBlocker
  BY DEF BothPlain, Plain, Named, BlockedHasBlocker
<1> QED BY <1>1, PlainHolds, PTL

-----------------------------------------------------------------------------
(* Done means delivered.  The flag is set when the gate passes and nothing   *)
(* is left to do on such a state; while a pass is under way it is down.      *)

Whole(s) ==
  s.done => /\ Exists(s) \subseteq Finished(s)
            /\ s.blockers = {} /\ s.notices = {}
            /\ s.github

InPass == pc \in {"retrying", "dispatched", "running", "exited"} \/ (pc = "tasks" /\ queue # {})

WholeRun == Whole(run) /\ Whole(disk) /\ (InPass => ~run.done)

\* On a whole state the loop has nothing to converge, promote, retry or select.
LEMMA WholeIdle ==
  ASSUME NEW s \in RunState, Exists(s) \subseteq Finished(s)
  PROVE  /\ UnproductiveDebug(s) = {} /\ Promotable(s) = {}
         /\ RetryableFailures(s) = {} /\ ReadyTasks(s) = {}
<1>1. \A n \in Node : s.status[n] \in Terminal \cup {"absent"}
  BY DEF Exists, Finished
<1>2. \A n \in Node : s.status[n] \notin Broken \cup Waiting /\ s.status[n] # "failed"
  BY <1>1 DEF Terminal, Broken, Waiting
<1> QED
  BY <1>1, <1>2, NodeFacts
     DEF UnproductiveDebug, OpenDebug, Promotable, RetryableFailures, ReadyTasks

\* The loop never clears the flag of a whole state by pruning it.
LEMMA PruneWhole ==
  ASSUME NEW s \in RunState, Whole(s)
  PROVE  /\ Whole(Prune(s)) /\ Prune(s).done = s.done
         /\ Prune(s).blockers = s.blockers /\ Prune(s).notices = s.notices
<1> DEFINE b == Prune(s)
<1>1. /\ b.done = s.done /\ b.blockers = s.blockers
      /\ b.notices = s.notices /\ b.github = s.github
      /\ \A n \in Node : b.status[n] = IF n \in Obsolete(s) THEN "skipped" ELSE s.status[n]
  BY DEF Prune, RunState
<1>2. \A n \in Obsolete(s) : n \in Node /\ s.status[n] \notin Terminal \cup {"absent"}
  BY NodeFacts DEF Obsolete, OpenDebug
<1> HIDE DEF b
<1>3. ASSUME s.done PROVE Exists(b) \subseteq Finished(b)
  BY <1>1, <1>2, <1>3 DEF Whole, Exists, Finished
<1> QED BY <1>1, <1>3 DEF Whole, b

LEMMA WholeStep == RunInvariant /\ BothPlain /\ WholeRun /\ [Next]_vars => WholeRun'
<1> SUFFICES ASSUME RunInvariant, BothPlain, WholeRun, [Next]_vars PROVE WholeRun'
  OBVIOUS
<1>0. /\ run \in RunState /\ disk \in RunState /\ queue \subseteq Node
      /\ Whole(run) /\ Whole(disk) /\ (InPass => ~run.done)
      /\ Plain(run, Limit) /\ Limit \in Limits
  BY LoopAssumption, LimitFacts
     DEF RunInvariant, TypeOK, BothPlain, WholeRun, Limit, Limits
<1> DEFINE p == Prune(run)
<1>p. p \in RunState /\ Whole(p) /\ p.done = run.done
  BY <1>0, PruneWhole, RepairType
<1> HIDE DEF p
<1>a. ASSUME Whole(run'), disk' \in {disk, run'}, pc' \in {"top", "stopped", "crashed"}
      PROVE  WholeRun'
  BY <1>0, <1>a DEF WholeRun, InPass, Whole, Exists, Finished
<1>b. ASSUME ~run'.done, disk' \in {disk, run'} PROVE WholeRun'
  BY <1>0, <1>b DEF WholeRun, Whole, Exists, Finished
<1>1. CASE ConvergeChains
  <2>1. PICK d \in UnproductiveDebug(run) : run' = Converge(run, d)
    BY <1>1 DEF ConvergeChains
  <2>2. disk' \in {disk, run'} /\ d \in Debug
    BY <1>1 DEF ConvergeChains, UnproductiveDebug, OpenDebug
  <2>3. ~run.done
    BY <1>0, <2>1, WholeIdle DEF Whole
  <2>4. run'.done = run.done
    BY <1>0, <2>1, <2>2, ConvergeFacts
  <2> QED BY <1>b, <2>2, <2>3, <2>4
<1>2. CASE PassDone
  <2>1. /\ run' = [p EXCEPT !.done = TRUE] /\ disk' = run' /\ pc' = "stopped"
        /\ \E score \in Scores : Evaluate(p, score)
    BY <1>2 DEF PassDone, PassStarts, Save, Stop, p
  <2>2. /\ run'.status = p.status /\ run'.blockers = p.blockers
        /\ run'.notices = p.notices /\ run'.github = p.github
    BY <1>p, <2>1 DEF RunState
  <2>3. Whole(run')
    BY <2>1, <2>2 DEF Whole, Evaluate, NoHardFailure, Exists, Finished
  <2> QED BY <1>a, <2>1, <2>3
<1>3. CASE PassPromotes
  <2>1. /\ run' = Promote(p) /\ disk' = run' /\ Promotable(p) # {}
    BY <1>3 DEF PassPromotes, PassStarts, Save, p
  <2>2. ~p.done
    BY <1>p, <2>1, WholeIdle DEF Whole
  <2>3. run'.done = p.done
    BY <1>p, <2>1 DEF Promote, RunState
  <2> QED BY <1>b, <2>1, <2>2, <2>3
<1>4. CASE PassBlocked \/ PassIdle
  <2>1. run' = p /\ disk' = run' /\ pc' = "stopped"
    BY <1>4 DEF PassBlocked, PassIdle, PassStarts, Save, Stop, p
  <2> QED BY <1>p, <1>a, <2>1
<1>5. CASE PassRetries
  <2>1. run' = p /\ disk' \in {disk, run'} /\ RetryableFailures(p) # {}
    BY <1>5 DEF PassRetries, PassStarts, p
  <2>2. ~p.done
    BY <1>p, <2>1, WholeIdle DEF Whole
  <2> QED BY <1>b, <2>1, <2>2
<1>6. CASE PassSelects
  <2>1. run' = MarkReady(p) /\ disk' \in {disk, p} /\ ReadyTasks(p) # {}
    BY <1>6 DEF PassSelects, PassStarts, p
  <2>2. ~p.done
    BY <1>p, <2>1, WholeIdle DEF Whole
  <2>3. run'.done = p.done
    BY <1>p, <2>1 DEF MarkReady, RunState
  <2> QED BY <1>0, <1>p, <2>1, <2>2, <2>3 DEF WholeRun, Whole, Exists, Finished
<1>7. CASE IterationLimit
  <2>1. run' = run /\ disk' = run' /\ pc' = "stopped"
    BY <1>7 DEF IterationLimit, Save, Stop
  <2> QED BY <1>0, <1>a, <2>1
<1>8. CASE LaunchWorker \/ (\E r \in WorkerResult : WorkerExits(r))
  <2>1. run' = run /\ disk' = disk /\ pc \in {"dispatched", "running"}
    BY <1>8 DEF LaunchWorker, WorkerExits
  <2> QED BY <1>0, <1>b, <2>1 DEF InPass
<1>9. CASE PassEnds
  <2>1. PICK score \in Scores : /\ run' = [run EXCEPT !.done = Evaluate(run, score)]
                                /\ disk' = run'
    BY <1>9 DEF PassEnds, Save
  <2>2. pc' \in {"top", "stopped"}
    BY <1>9 DEF PassEnds
  <2>3. /\ run'.status = run.status /\ run'.blockers = run.blockers
        /\ run'.notices = run.notices /\ run'.github = run.github
        /\ run'.done = Evaluate(run, score)
    BY <1>0, <2>1 DEF RunState
  <2>4. Whole(run')
    BY <2>3 DEF Whole, Evaluate, NoHardFailure, Exists, Finished
  <2> QED BY <1>a, <2>1, <2>2, <2>4
<1>10. ASSUME NEW n \in Node, RetryFailure(n) PROVE WholeRun'
  <2>1. /\ run' = HandleFailed(run, n, "failed") /\ disk' \in {disk, run'}
        /\ pc = "retrying" /\ n \in queue
    BY <1>10 DEF RetryFailure
  <2>2. run.status[n] \notin Terminal
    BY <2>1 DEF RunInvariant, PassIsSound
  <2>3. run'.done = run.done
    BY <1>0, <2>1, <2>2, HandleFailedPlain
  <2> QED BY <1>0, <1>b, <2>1, <2>3 DEF InPass
<1>11. ASSUME NEW n \in Node, Dispatch(n) PROVE WholeRun'
  <2>1. run' = MarkActive(p, n) /\ disk' = run' /\ pc = "tasks" /\ n \in queue
    BY <1>11 DEF Dispatch, AtTask, IsNext, Save, p
  <2>2. run'.done = p.done
    BY <1>p, <2>1 DEF MarkActive, RunState
  <2> QED BY <1>0, <1>p, <1>b, <2>1, <2>2 DEF InPass
<1>12. ASSUME NEW n \in Node, NEW c \in Controls, ObeyControl(n, c) PROVE WholeRun'
  <2>1. pc = "tasks" /\ n \in queue /\ disk' = run'
    BY <1>12 DEF ObeyControl, AtTask, IsNext, Save
  <2>2. run' = p \/ run' = [p EXCEPT !.notices = @ \cup {"stop"}]
    BY <1>12 DEF ObeyControl, AtTask, Save, p
  <2>3. run'.done = p.done
    BY <1>p, <2>2 DEF RunState
  <2> QED BY <1>0, <1>p, <1>b, <2>1, <2>3 DEF InPass
<1>13. CASE TaskEnds
  <2>1. pc \in {"dispatched", "exited"}
    BY <1>0, <1>13, TaskEndsPlain
  <2>2. PICK s0 \in RunState : \E r : AfterTask(s0, r) /\ s0.done = run.done
    BY <1>0, <1>13, TaskEndsPlain
  <2> DEFINE s == Prune(s0)
  <2>3. s \in RunState /\ ~s.done
    <3>1. ~run.done
      BY <1>0, <2>1 DEF InPass
    <3> QED BY <2>2, <3>1, RepairType DEF Prune, RunState
  <2> HIDE DEF s
  <2>4. CASE run' = s /\ disk' \in {disk, run'}
    BY <1>b, <2>3, <2>4
  <2>5. CASE /\ \E score \in Scores :
                  run' = [CompleteRest(s) EXCEPT !.done = Evaluate(CompleteRest(s), score)]
             /\ disk' = run' /\ pc' = "stopped"
    <3> DEFINE c == CompleteRest(s)
    <3>1. PICK score \in Scores : run' = [c EXCEPT !.done = Evaluate(c, score)]
      BY <2>5
    <3>2. c \in RunState
      BY <2>3, RepairType
    <3> HIDE DEF c
    <3>3. /\ run'.status = c.status /\ run'.blockers = c.blockers
          /\ run'.notices = c.notices /\ run'.github = c.github
          /\ run'.done = Evaluate(c, score)
      BY <3>1, <3>2 DEF RunState
    <3>4. Whole(run')
      BY <3>3 DEF Whole, Evaluate, NoHardFailure, Exists, Finished
    <3> QED BY <1>a, <2>5, <3>4
  <2> QED BY <2>2, <2>4, <2>5 DEF AfterTask, Save, Stop, s
<1>14. CASE Crash \/ Rerun
  <2>1. run' = disk /\ disk' = disk /\ pc' \in {"top", "crashed"}
    BY <1>14 DEF Crash, Rerun, Save
  <2> QED BY <1>0, <1>a, <2>1
<1>15. ASSUME NEW sel \in Selections, NEW preflight \in BOOLEAN, Resume(sel, preflight)
       PROVE  WholeRun'
  <2> DEFINE d == RecoverySource
             s == Prepare(d, sel)
  <2>1. sel \in SUBSET Node /\ files \in [Node -> WorkerFile]
    BY LoopAssumption DEF RunInvariant, TypeOK
  <2>2. d \in RunState
    BY <1>0, <2>1, RecoveryType DEF RecoverySource
  <2> HIDE DEF d
  <2>3. s \in RunState /\ ~s.done
    <3>1. [n \in Node |-> "none"] \in [Node -> WorkerFile]
      BY DEF WorkerFile
    <3>2. s \in RunState
      BY <2>1, <2>2, <3>1, RecoveryType
    <3>3. s.done = FALSE
      BY <2>2 DEF Prepare, RunState
    <3> QED BY <3>2, <3>3
  <2>4. (\E x : run' \in {s, [s EXCEPT !.notices = x]}) /\ disk' = run'
    BY <1>15 DEF Resume, Save, d
  <2> HIDE DEF s
  <2>5. ~run'.done
    BY <2>3, <2>4 DEF RunState
  <2> QED BY <1>b, <2>4, <2>5
<1>16. CASE UNCHANGED vars
  BY <1>16 DEF vars, WholeRun, Whole, InPass, Exists, Finished
<1> QED
  BY <1>1, <1>2, <1>3, <1>4, <1>5, <1>6, <1>7, <1>8, <1>9, <1>10, <1>11, <1>12, <1>13,
     <1>14, <1>15, <1>16
     DEF Next, LoopStep, Control, Restart, TaskEnds

\* A run that says it is done, in memory or in its state file, has finished every node,
\* has no blocker left and has its delivery evidence (evaluate, prepare).
THEOREM DoneMeansWhole == Spec => []DoneIsWhole
<1>1. Init => WholeRun
  BY DEF Init, InitialRunState, WholeRun, Whole, InPass
<1>2. WholeRun => DoneIsWhole
  BY DEF WholeRun, Whole, DoneIsWhole
<1> QED BY <1>1, <1>2, WholeStep, InvariantHolds, PlainHolds, PTL DEF Spec

-----------------------------------------------------------------------------
(* One node at a time.  Only a dispatch makes a node active, after a save,   *)
(* and a recovery of all tasks leaves none active.  A recovery of selected   *)
(* tasks, or a restart without recovery, may: both are left out here.        *)

\* b has no new active node and no newly finished task.
Tame(a, b) ==
  /\ \A n \in Node : b.status[n] = "active" => a.status[n] = "active"
  /\ \A t \in Task : b.status[t] \in Terminal => a.status[t] = b.status[t]

\* No debug node is open in b that was not in a, but for one of the task n.
Opens(a, b, n) ==
  \E x : \A d \in OpenDebug(b) :
    d \in OpenDebug(a) \/ (n \in Task /\ d = x /\ Root(d) = n)

\* b is tame but for the node n, which is no longer active and may have a new debug node.
TameBut(a, b, n) ==
  /\ Opens(a, b, n)
  /\ b.status[n] # "active"
  /\ \A m \in Node : b.status[m] = "active" => a.status[m] = "active"
  /\ \A t \in Task \ {n} : b.status[t] \in Terminal => a.status[t] = b.status[t]

\* A blocker that a retry could resolve is one of a broken node.
Clearable(s) ==
  \A b \in s.blockers : CanRetry(s, b[1]) => s.status[b[1]] \in Broken

\* What the end of n tells: its blockers name n or a task, and can be cleared.
Told(s, n) == Clearable(s) /\ \A b \in s.blockers : b[1] \in Task \cup {n}

LEMMA HandleFailedTame ==
  ASSUME NEW s \in RunState, NEW n \in Node, NEW r
  PROVE  Tame(s, HandleFailed(s, n, r)) /\ Opens(s, HandleFailed(s, n, r), n)
<1> DEFINE h == HandleFailed(s, n, r)
<1>1. CASE n \in Debug
  <2>1. h \in {s, Converge(s, n)}
    BY <1>1, NodeFacts DEF HandleFailed
  <2> DEFINE c == Converge(s, n)
             root == Root(n)
  <2>2. /\ \A m \in Node \ {n, root} : c.status[m] = s.status[m]
        /\ c.status[n] = "skipped"
        /\ c.status[root] \in {s.status[root], "blocked", "pending"}
    BY <1>1, ConvergeFacts
  <2>3. n \notin Task /\ root \in Task /\ root \in Node
    BY <1>1, NodeFacts
  <2> HIDE DEF c, h, root
  <2>4. Tame(s, c) /\ OpenDebug(c) \subseteq OpenDebug(s)
    <3>1. \A d \in Debug : d # root /\ d \in Node
      BY <2>3, NodeFacts
    <3>2. OpenDebug(c) \subseteq OpenDebug(s)
      BY <1>1, <2>2, <3>1 DEF OpenDebug, Terminal
    <3> QED BY <1>1, <2>2, <2>3, <3>2, NodeFacts DEF Tame, Terminal
  <2>5. h = s \/ h = c
    BY <2>1 DEF c
  <2> QED BY <2>4, <2>5 DEF Tame, Opens, h
<1>2. CASE n \in Task
  <2> DEFINE a == [s EXCEPT !.status[n] = "blocked"]
             q == CreateDebugAndReset(s, n)
             d == <<n, s.retries[n]>>
  <2>1. n \notin Debug /\ s.status \in [Node -> Status]
    BY <1>2, NodeFacts DEF RunState
  <2>2. a \in RunState /\ \A m \in Node : a.status[m] \in {s.status[m], "blocked"}
    BY <2>1 DEF RunState, Status, Broken
  <2>3. \A m \in Node : q.status[m] \in {s.status[m], "pending"}
    BY <2>1 DEF CreateDebugAndReset, RunState
  <2>4. \/ h = RecordBlocker(a, n) \/ h = RecordBlocker(s, n) \/ h = q
    BY <1>2, <2>1 DEF HandleFailed
  <2>5. RecordBlocker(a, n).status = a.status /\ RecordBlocker(s, n).status = s.status
    BY <2>2, RecordPlain
  <2> HIDE DEF a, q, h, d
  <2>6. \A m \in Node : h.status[m] \in {s.status[m], "blocked", "pending"}
    BY <2>2, <2>3, <2>4, <2>5
  <2>7. \A m \in Node \ {n, d} : h.status[m] = s.status[m]
    <3>1. \A m \in Node \ {n, d} : q.status[m] = s.status[m]
      BY <2>1 DEF CreateDebugAndReset, RunState, q, d
    <3>2. \A m \in Node \ {n} : a.status[m] = s.status[m]
      BY <2>1 DEF RunState, a
    <3> QED BY <2>4, <2>5, <3>1, <3>2
  <2>8. ASSUME NEW e \in OpenDebug(h) PROVE e \in OpenDebug(s) \/ (e = d /\ Root(e) = n)
    <3>1. e \in Debug /\ e \in Node /\ e # n /\ h.status[e] \notin Terminal \cup {"absent"}
      BY <2>1, <2>8, NodeFacts DEF OpenDebug
    <3>2. CASE e = d
      BY <1>2, <3>1, <3>2, NodeFacts DEF Root, d
    <3>3. CASE e # d
      BY <2>7, <3>1, <3>3 DEF OpenDebug
    <3> QED BY <3>2, <3>3
  <2> QED BY <1>2, <2>6, <2>8, NodeFacts DEF Tame, Terminal, Opens, h
<1> QED BY <1>1, <1>2 DEF Node

\* The blocker a failure leaves behind.
LEMMA HandleFailedTold ==
  ASSUME NEW s \in RunState, NEW n \in Node, NEW r, s.blockers = {}, s.status[n] = "failed"
  PROVE  Told(HandleFailed(s, n, r), n)
<1> DEFINE h == HandleFailed(s, n, r)
<1>0. s.status \in [Node -> Status]
  BY DEF RunState
<1>1. CASE n \in Debug
  <2> DEFINE root == Root(n)
             b == <<root, s.retries[root]>>
             c == Converge(s, n)
  <2>1. h \in {s, c}
    BY <1>1, NodeFacts DEF HandleFailed
  <2>2. /\ b[1] = root /\ root \in Task
        /\ c.retries = s.retries
        /\ \/ c.blockers = {}
           \/ c.blockers = {b} /\ (~CanRetry(s, root) \/ c.status[root] = "blocked")
    BY <1>1, NodeFacts, ConvergeFacts
  <2> HIDE DEF b, c, h, root
  <2>3. Told(c, n)
    BY <2>2 DEF Told, Clearable, CanRetry, Broken
  <2>4. Told(s, n)
    BY DEF Told, Clearable
  <2>5. h = s \/ h = c
    BY <2>1
  <2> QED BY <2>3, <2>4, <2>5 DEF h
<1>2. CASE n \in Task
  <2> DEFINE a == [s EXCEPT !.status[n] = "blocked"]
             q == CreateDebugAndReset(s, n)
  <2>1. n \notin Debug
    BY <1>2, NodeFacts
  <2>2. a \in RunState /\ a.status[n] = "blocked" /\ a.blockers = {}
    BY <1>0 DEF RunState, Status, Broken
  <2>3. q.blockers = {}
    BY DEF CreateDebugAndReset, RunState
  <2>4. h = RecordBlocker(a, n) \/ h = RecordBlocker(s, n) \/ h = q
    BY <1>2, <2>1 DEF HandleFailed
  <2> HIDE DEF a, q, h
  <2>5. ASSUME NEW e \in RunState, e.blockers = {}, e.status[n] \in Broken
        PROVE  Told(RecordBlocker(e, n), n)
    BY <2>5, RecordPlain DEF Told, Clearable
  <2>6. Told(q, n)
    BY <2>3 DEF Told, Clearable
  <2>7. Told(RecordBlocker(a, n), n) /\ Told(RecordBlocker(s, n), n)
    BY <2>2, <2>5 DEF Broken
  <2> QED BY <2>4, <2>6, <2>7 DEF h
<1> QED BY <1>1, <1>2 DEF Node

LEMMA StatusTame ==
  ASSUME NEW a, a.status \in [Node -> Status], NEW n \in Node, a.status[n] = "active",
         NEW x \in {"completed", "blocked", "failed", "skipped"},
         NEW b, b.status = [a.status EXCEPT ![n] = x]
  PROVE  TameBut(a, b, n)
<1>1. b.status[n] = x /\ \A m \in Node \ {n} : b.status[m] = a.status[m]
  OBVIOUS
<1>2. OpenDebug(b) \subseteq OpenDebug(a)
  BY <1>1, NodeFacts DEF OpenDebug, Terminal
<1> QED BY <1>1, <1>2, NodeFacts DEF TameBut, Opens

LEMMA ApplyTame ==
  ASSUME NEW s \in RunState, NEW n \in Node, NEW r \in Evidence, s.status[n] = "active",
         s.blockers = {}
  PROVE  TameBut(s, ApplyResult(s, n, r), n) /\ Told(ApplyResult(s, n, r), n)
<1> DEFINE c == MarkCompleted(s, n, r)
           b == MarkBlocked(s, n, r)
           f == MarkFailed(s, n, r)
<1>1. s.status \in [Node -> Status]
  BY DEF RunState
<1>2. ASSUME NEW x \in {"completed", "blocked", "failed"}, NEW a,
             a.status = [s.status EXCEPT ![n] = x]
      PROVE  TameBut(s, a, n)
  BY <1>1, <1>2, StatusTame
<1>3. TameBut(s, c, n) /\ Told(c, n)
  <2>1. c.status = [s.status EXCEPT ![n] = "completed"] /\ c.blockers = {}
    BY DEF MarkCompleted, RunState
  <2> HIDE DEF c
  <2> QED BY <1>2, <2>1 DEF Told, Clearable
<1>4. TameBut(s, RecordBlocker(b, n), n) /\ Told(RecordBlocker(b, n), n)
  <2>1. b \in RunState
    BY MarkType
  <2>2. b.status = [s.status EXCEPT ![n] = "blocked"] /\ b.blockers = {}
    BY DEF MarkBlocked, RunState
  <2> HIDE DEF b
  <2>3. RecordBlocker(b, n).status = [s.status EXCEPT ![n] = "blocked"]
    BY <2>1, <2>2, RecordPlain
  <2>4. Told(RecordBlocker(b, n), n)
    BY <1>1, <2>1, <2>2, <2>3, RecordPlain DEF Told, Clearable, Broken
  <2> QED BY <1>2, <2>3, <2>4
<1>5. TameBut(s, HandleFailed(f, n, r), n) /\ Told(HandleFailed(f, n, r), n)
  <2>1. f \in RunState
    BY MarkType
  <2>2. f.status = [s.status EXCEPT ![n] = "failed"] /\ f.blockers = {}
    BY DEF MarkFailed, RunState
  <2> HIDE DEF f
  <2>3. OpenDebug(f) \subseteq OpenDebug(s)
    BY <1>1, <2>2, NodeFacts DEF OpenDebug, Terminal
  <2>4. /\ TameBut(s, f, n) /\ Tame(f, HandleFailed(f, n, r))
        /\ Opens(f, HandleFailed(f, n, r), n)
    BY <1>2, <2>1, <2>2, HandleFailedTame
  <2> HIDE DEF f
  <2>5. Opens(s, HandleFailed(f, n, r), n)
    BY <2>3, <2>4 DEF Opens
  <2>6. Told(HandleFailed(f, n, r), n)
    BY <1>1, <2>1, <2>2, HandleFailedTold
  <2> QED BY <2>4, <2>5, <2>6, NodeFacts DEF Tame, TameBut
<1>6. ApplyResult(s, n, r) \in {c, RecordBlocker(b, n), HandleFailed(f, n, r)}
  BY DEF ApplyResult
<1> HIDE DEF c, b, f
<1> QED BY <1>3, <1>4, <1>5, <1>6

LEMMA PassTame ==
  ASSUME NEW s \in RunState
  PROVE  /\ Tame(s, Prune(s)) /\ Tame(s, MarkReady(s))
         /\ OpenDebug(Prune(s)) \subseteq OpenDebug(s)
         /\ OpenDebug(MarkReady(s)) \subseteq OpenDebug(s)
<1>1. \A n \in Node : /\ Prune(s).status[n] = IF n \in Obsolete(s) THEN "skipped"
                                              ELSE s.status[n]
                      /\ MarkReady(s).status[n] = IF n \in ReadyTasks(s) THEN "ready"
                                                  ELSE s.status[n]
  BY DEF Prune, MarkReady, RunState
<1>2. \A t \in Task : t \in Node /\ t \notin Obsolete(s)
  BY NodeFacts DEF Obsolete, OpenDebug
<1>3. \A n \in ReadyTasks(s) : s.status[n] \in Waiting
  BY DEF ReadyTasks
<1>4. Tame(s, Prune(s)) /\ Tame(s, MarkReady(s))
  BY <1>1, <1>2 DEF Tame, Terminal
<1> QED BY <1>1, <1>3, <1>4, NodeFacts DEF OpenDebug, Terminal, Waiting

\* Every end of a task leaves cur inactive and finishes no other task.
LEMMA TaskEndsTame ==
  ASSUME RunInvariant, TaskEnds
  PROVE  /\ pc \in {"dispatched", "exited"}
         /\ \E s0 \in RunState : \E r :
              AfterTask(s0, r) /\ TameBut(run, s0, cur) /\ Told(s0, cur)
<1>0. /\ run \in RunState /\ cur \in Node /\ run.status[cur] = "active" /\ run.blockers = {}
      /\ pc \in {"dispatched", "exited"} /\ result \in WorkerResult \cup {"none"}
      /\ run.status \in [Node -> Status]
  BY DEF RunInvariant, TypeOK, PassIsSound, TaskEnds, RecordResult, Review, Inspect, Release,
         RunState
<1>1. CASE RecordResult
  <2> DEFINE s == [run EXCEPT !.proven = @ \ {cur}]
  <2>1. result \in Evidence /\ AfterTask(ApplyResult(s, cur, result), result)
    BY <1>0, <1>1 DEF RecordResult, Evidence
  <2>2. s \in RunState /\ s.status = run.status /\ s.blockers = {}
    BY <1>0 DEF RunState
  <2> HIDE DEF s
  <2>3. /\ ApplyResult(s, cur, result) \in RunState
        /\ TameBut(s, ApplyResult(s, cur, result), cur)
        /\ Told(ApplyResult(s, cur, result), cur)
    BY <1>0, <2>1, <2>2, ApplyType, ApplyTame
  <2> QED BY <1>0, <2>1, <2>2, <2>3 DEF TameBut, Opens, OpenDebug
<1>2. CASE Review
  <2> DEFINE r == IF ReviewPasses(run, cur) THEN "passed" ELSE "failed"
  <2>1. AfterTask(ApplyResult(run, cur, r), r)
    BY <1>2 DEF Review
  <2>2. r \in Evidence
    BY DEF Evidence, WorkerResult
  <2> HIDE DEF r
  <2> QED BY <1>0, <2>1, <2>2, ApplyType, ApplyTame
<1>3. ASSUME NEW r \in {"passed", "failed", "skipped"}, Inspect(r)
      PROVE  \E s0 \in RunState : \E q :
               AfterTask(s0, q) /\ TameBut(run, s0, cur) /\ Told(s0, cur)
  <2>1. CASE r = "skipped"
    <3> DEFINE c == MarkSkipped(run, cur)
    <3>1. AfterTask(c, r)
      BY <1>3, <2>1 DEF Inspect
    <3>2. c \in RunState
      BY <1>0, MarkType DEF Evidence
    <3>3. c.status = [run.status EXCEPT ![cur] = "skipped"] /\ c.blockers = {}
      BY <1>0 DEF MarkSkipped, RunState
    <3> HIDE DEF c
    <3>4. TameBut(run, c, cur) /\ Told(c, cur)
      BY <1>0, <3>3, StatusTame DEF Told, Clearable
    <3> QED BY <3>1, <3>2, <3>4
  <2>2. CASE r # "skipped"
    <3>1. AfterTask(ApplyResult(run, cur, r), r) /\ r \in Evidence
      BY <1>3, <2>2 DEF Inspect, Evidence, WorkerResult
    <3> QED BY <1>0, <3>1, ApplyType, ApplyTame
  <2> QED BY <2>1, <2>2
<1>4. ASSUME NEW g \in ReleaseOutcomes, Release(g)
      PROVE  \E s0 \in RunState : \E q :
               AfterTask(s0, q) /\ TameBut(run, s0, cur) /\ Told(s0, cur)
  <2> DEFINE s == [run EXCEPT !.github = (g # "failed")]
             c == [s EXCEPT !.status[cur] = "completed", !.last[cur] = "weak"]
             b == MarkBlocked(s, cur, "weak")
             f == MarkFailed(s, cur, "failed")
  <2>1. \/ AfterTask(c, "release") \/ AfterTask(RecordBlocker(b, cur), "release")
        \/ AfterTask(f, "release")
    BY <1>4, LoopAssumption DEF Release
  <2>2. s \in RunState /\ s.status = run.status /\ s.blockers = {}
    BY <1>0 DEF RunState
  <2> HIDE DEF s
  <2>3. b \in RunState /\ f \in RunState /\ RecordBlocker(b, cur) \in RunState
    BY <1>0, <2>2, MarkType DEF Evidence, WorkerResult
  <2>4. c \in RunState
    BY <1>0, <2>2 DEF RunState, Status, Terminal, Evidence, WorkerResult
  <2>5. /\ c.status = [run.status EXCEPT ![cur] = "completed"]
        /\ b.status = [run.status EXCEPT ![cur] = "blocked"]
        /\ f.status = [run.status EXCEPT ![cur] = "failed"]
        /\ c.blockers = {} /\ b.blockers = {} /\ f.blockers = {}
    BY <2>2 DEF MarkBlocked, MarkFailed, RunState
  <2> HIDE DEF c, b, f
  <2>6. RecordBlocker(b, cur).status = b.status
    BY <1>0, <2>3, RecordPlain
  <2>7. ASSUME NEW a, NEW x \in {"completed", "blocked", "failed"},
               a.status = [run.status EXCEPT ![cur] = x]
        PROVE  TameBut(run, a, cur)
    BY <1>0, <2>7, StatusTame
  <2>8. Told(c, cur) /\ Told(f, cur)
    BY <2>5 DEF Told, Clearable
  <2>9. Told(RecordBlocker(b, cur), cur)
    BY <1>0, <2>3, <2>5, <2>6, RecordPlain DEF Told, Clearable, Broken
  <2> QED BY <2>1, <2>3, <2>4, <2>5, <2>6, <2>7, <2>8, <2>9
<1> QED BY <1>0, <1>1, <1>2, <1>3, <1>4 DEF TaskEnds

Flying == {"dispatched", "running", "exited"}

InFlight ==
  /\ pc \in Flying => run = disk
  /\ \A n \in Node : disk.status[n] = "active" => n = cur
  /\ \A n \in Node : run.status[n] = "active" => n = cur /\ pc \in Flying \cup {"crashed"}
  /\ pc # "crashed" =>
       \A t \in Task : run.status[t] \in Terminal /\ disk.status[t] \notin Terminal => t = cur

LEMMA InFlightStep ==
  ASSUME Selections = {{}}, MaxReruns = 0
  PROVE  RunInvariant /\ InFlight /\ [Next]_vars => InFlight'
<1> SUFFICES ASSUME RunInvariant, InFlight, [Next]_vars PROVE InFlight'
  OBVIOUS
<1>0. /\ run \in RunState /\ disk \in RunState /\ queue \subseteq Node /\ cur \in Node
      /\ run.status \in [Node -> Status]
      /\ pc \in Places /\ reruns = 0
  BY LoopAssumption DEF RunInvariant, TypeOK, RunState
<1> DEFINE p == Prune(run)
<1>p. /\ p \in RunState /\ Tame(run, p)
      /\ Tame(p, MarkReady(p)) /\ MarkReady(p) \in RunState
  BY <1>0, PassTame, RepairType, MarkReadyType
<1> HIDE DEF p
<1>q. ASSUME NEW a, NEW b, NEW c, Tame(a, b), Tame(b, c) PROVE Tame(a, c)
  BY <1>q DEF Tame
\* A step that neither starts nor finishes a task, wherever it saves.
<1>a. ASSUME Tame(run, run'), disk' \in {disk, run'}, cur' = cur,
             pc \notin Flying \cup {"crashed"}, pc' \notin Flying
      PROVE  InFlight'
  <2>1. \A n \in Node : run.status[n] # "active" /\ run'.status[n] # "active"
    BY <1>a DEF InFlight, Tame
  <2>2. \A n \in Node : disk'.status[n] = "active" => n = cur'
    BY <1>a, <2>1 DEF InFlight
  <2>3. \A t \in Task : run'.status[t] \in Terminal /\ disk'.status[t] \notin Terminal => t = cur'
    BY <1>a DEF InFlight, Tame
  <2> QED BY <1>a, <2>1, <2>2, <2>3 DEF InFlight
\* A step that saves a state without an active node.
<1>b. ASSUME \A n \in Node : run'.status[n] # "active", disk' = run', pc' \notin Flying
      PROVE  InFlight'
  BY <1>b DEF InFlight
<1>c. "top" \notin Flying \cup {"crashed"} /\ "tasks" \notin Flying \cup {"crashed"}
      /\ "retrying" \notin Flying \cup {"crashed"} /\ "stopped" \notin Flying \cup {"crashed"}
      /\ "crashed" \notin Flying
  BY DEF Flying
<1>1. CASE ConvergeChains
  <2>1. PICK d \in UnproductiveDebug(run) : run' = Converge(run, d)
    BY <1>1 DEF ConvergeChains
  <2>2. /\ disk' \in {disk, run'} /\ cur' = cur /\ pc = "top" /\ pc' = "top"
        /\ d \in Debug /\ d \in OpenDebug(run)
    BY <1>1 DEF ConvergeChains, UnproductiveDebug, OpenDebug
  <2>3. run' = HandleFailed(run, d, "failed")
    BY <2>1, <2>2, NodeFacts DEF HandleFailed
  <2>4. Tame(run, run')
    BY <1>0, <2>2, <2>3, NodeFacts, HandleFailedTame
  <2> QED BY <1>a, <1>c, <2>2, <2>4
<1>2. CASE PassDone
  <2>1. /\ run' = [p EXCEPT !.done = TRUE] /\ disk' = run' /\ cur' = cur
        /\ pc = "top" /\ pc' = "stopped"
    BY <1>2 DEF PassDone, PassStarts, Save, Stop, p
  <2>2. run'.status = p.status
    BY <1>p, <2>1 DEF RunState
  <2> QED BY <1>p, <1>a, <1>c, <2>1, <2>2 DEF Tame
<1>3. CASE PassPromotes
  <2>1. run' = Promote(p) /\ disk' = run' /\ pc = "top" /\ pc' = "top"
    BY <1>3 DEF PassPromotes, PassStarts, Save, p
  <2>2. \A n \in Node : run'.status[n] \in {p.status[n], "completed"}
    BY <1>p, <2>1 DEF Promote, RunState
  <2>3. \A n \in Node : run'.status[n] # "active"
    BY <1>p, <1>c, <2>1, <2>2 DEF InFlight, Tame
  <2> QED BY <1>b, <1>c, <2>1, <2>3
<1>4. CASE PassBlocked \/ PassIdle \/ PassRetries
  <2>1. run' = p /\ disk' \in {disk, run'} /\ cur' = cur /\ pc = "top"
        /\ pc' \in {"stopped", "retrying"}
    BY <1>4 DEF PassBlocked, PassIdle, PassRetries, PassStarts, Save, Stop, p
  <2> QED BY <1>p, <1>a, <1>c, <2>1
<1>5. CASE PassSelects
  <2>1. /\ run' = MarkReady(p) /\ disk' \in {disk, p} /\ cur' = cur
        /\ pc = "top" /\ pc' = "tasks"
    BY <1>5 DEF PassSelects, PassStarts, p
  <2>2. Tame(run, run') /\ Tame(p, run')
    BY <1>p, <1>q, <2>1
  <2>3. \A n \in Node : run.status[n] # "active" /\ run'.status[n] # "active"
    BY <1>c, <2>1, <2>2 DEF InFlight, Tame
  <2>4. CASE disk' = disk
    BY <1>a, <1>c, <2>1, <2>2, <2>4
  <2>5. CASE disk' = p
    <3>1. \A n \in Node : p.status[n] # "active"
      BY <1>p, <2>3 DEF Tame
    <3>2. \A t \in Task : run'.status[t] \in Terminal => disk'.status[t] \in Terminal
      BY <2>2, <2>5 DEF Tame
    <3> QED BY <1>c, <2>1, <2>3, <2>5, <3>1, <3>2 DEF InFlight
  <2> QED BY <2>1, <2>4, <2>5
<1>6. CASE IterationLimit
  <2>1. /\ run' = run /\ disk' = run' /\ cur' = cur
        /\ pc = "top" /\ pc' = "stopped"
    BY <1>6 DEF IterationLimit, Save, Stop
  <2> QED BY <1>a, <1>c, <2>1 DEF Tame
<1>7. CASE LaunchWorker \/ (\E r \in WorkerResult : WorkerExits(r))
  <2>1. run' = run /\ disk' = disk /\ cur' = cur /\ pc \in Flying /\ pc' \in Flying
    BY <1>7 DEF LaunchWorker, WorkerExits, Flying
  <2> QED BY <1>c, <2>1 DEF InFlight, Flying
<1>8. CASE PassEnds
  <2>1. PICK score \in Scores : /\ run' = [run EXCEPT !.done = Evaluate(run, score)]
                                /\ disk' = run'
    BY <1>8 DEF PassEnds, Save
  <2>2. cur' = cur /\ pc = "tasks" /\ pc' \in {"top", "stopped"}
    BY <1>8 DEF PassEnds
  <2>3. run'.status = run.status
    BY <1>0, <2>1 DEF RunState
  <2> QED BY <1>a, <1>c, <2>1, <2>2, <2>3 DEF Tame
<1>9. ASSUME NEW n \in Node, RetryFailure(n) PROVE InFlight'
  <2>1. /\ run' = HandleFailed(run, n, "failed") /\ disk' \in {disk, run'} /\ cur' = cur
        /\ pc = "retrying" /\ pc' \in {"retrying", "top"}
    BY <1>9 DEF RetryFailure
  <2> QED BY <1>0, <1>a, <1>c, <2>1, HandleFailedTame
<1>10. ASSUME NEW n \in Node, Dispatch(n) PROVE InFlight'
  <2>1. /\ run' = MarkActive(p, n) /\ disk' = run' /\ pc = "tasks"
        /\ pc' = "dispatched" /\ cur' = n
    BY <1>10 DEF Dispatch, AtTask, Save, p
  <2>2. \A m \in Node : run'.status[m] = IF m = n THEN "active" ELSE p.status[m]
    BY <1>p, <2>1 DEF MarkActive, RunState
  <2>3. \A m \in Node : run'.status[m] = "active" => m = n
    BY <1>p, <1>c, <2>1, <2>2 DEF InFlight, Tame
  <2> QED BY <2>1, <2>3 DEF InFlight, Flying
<1>11. ASSUME NEW n \in Node, NEW c \in Controls, ObeyControl(n, c) PROVE InFlight'
  <2>1. /\ pc = "tasks" /\ disk' = run' /\ cur' = cur /\ pc' = "stopped"
    BY <1>11 DEF ObeyControl, AtTask, Save, Stop
  <2>2. run' = p \/ run' = [p EXCEPT !.notices = @ \cup {"stop"}]
    BY <1>11 DEF ObeyControl, AtTask, Save, p
  <2>3. run'.status = p.status
    BY <1>p, <2>2 DEF RunState
  <2> QED BY <1>p, <1>a, <1>c, <2>1, <2>3 DEF Tame
<1>12. CASE TaskEnds
  <2>1. pc \in {"dispatched", "exited"}
    BY <1>12, TaskEndsTame
  <2>2. PICK s0 \in RunState : \E r : AfterTask(s0, r) /\ TameBut(run, s0, cur)
    BY <1>12, TaskEndsTame
  <2> DEFINE s == Prune(s0)
  <2>3. s \in RunState /\ Tame(s0, s) /\ OpenDebug(s) \subseteq OpenDebug(s0)
    BY PassTame, RepairType
  <2> HIDE DEF s
  <2>4. TameBut(run, s, cur)
    <3>1. Opens(run, s, cur)
      BY <2>2, <2>3 DEF TameBut, Opens
    <3> QED BY <1>0, <2>2, <2>3, <3>1 DEF Tame, TameBut
  <2>5. \A n \in Node : s.status[n] # "active"
    BY <1>0, <2>4 DEF TameBut, InFlight
  <2>6. run = disk
    BY <2>1 DEF InFlight, Flying
  <2>7. CASE /\ run' = s /\ disk' \in {disk, run'} /\ cur' = cur
             /\ pc' \in {"stopped", "tasks"}
    <3>1. \A n \in Node : disk'.status[n] = "active" => n = cur'
      BY <2>5, <2>7 DEF InFlight
    <3>2. \A t \in Task : run'.status[t] \in Terminal /\ disk'.status[t] \notin Terminal => t = cur'
      BY <2>4, <2>6, <2>7 DEF TameBut
    <3> QED BY <1>c, <2>5, <2>7, <3>1, <3>2 DEF InFlight
  <2>8. CASE /\ \E score \in Scores :
                  run' = [CompleteRest(s) EXCEPT !.done = Evaluate(CompleteRest(s), score)]
             /\ disk' = run' /\ pc' = "stopped"
    <3>1. run'.status = CompleteRest(s).status
      BY <2>3, <2>8, RepairType DEF RunState
    <3>2. \A n \in Node : CompleteRest(s).status[n] \in {s.status[n], "completed"}
      BY <2>3 DEF CompleteRest, RunState
    <3> QED BY <1>b, <1>c, <2>5, <2>8, <3>1, <3>2
  <2> QED BY <2>2, <2>7, <2>8 DEF AfterTask, Save, Stop, s
<1>13. CASE Crash
  <2>1. run' = disk /\ disk' = disk /\ cur' = cur /\ pc' = "crashed"
    BY <1>13 DEF Crash
  <2> QED BY <1>c, <2>1 DEF InFlight
<1>14. CASE Rerun
  BY <1>0, <1>14 DEF Rerun
<1>15. ASSUME NEW sel \in Selections, NEW preflight \in BOOLEAN, Resume(sel, preflight)
       PROVE  InFlight'
  <2> DEFINE d == RecoverySource
             s == Prepare(d, sel)
  <2>1. sel = {} /\ sel \in SUBSET Node /\ files \in [Node -> WorkerFile]
    BY DEF RunInvariant, TypeOK
  <2>2. d \in RunState
    BY <1>0, <2>1, RecoveryType DEF RecoverySource
  <2> HIDE DEF d
  <2>3. s \in RunState
    <3>1. [n \in Node |-> "none"] \in [Node -> WorkerFile]
      BY DEF WorkerFile
    <3> QED BY <2>1, <2>2, <3>1, RecoveryType
  <2>4. \A n \in Node : s.status[n] # "active"
    <3>1. \A n \in Node : s.status[n] = IF n \in Reconciled(d, sel) THEN "completed"
                                        ELSE IF n \in ResetTasks(d, sel) THEN "pending"
                                        ELSE d.status[n]
      BY <2>2 DEF Prepare, RunState
    <3>2. \A n \in Node : d.status[n] = "active" =>
                            n \in Reconciled(d, sel) \/ n \in ResetTasks(d, sel)
      BY <2>1 DEF Reconciled, ResetTasks, Chosen
    <3> QED BY <3>1, <3>2
  <2>5. (\E x : run' \in {s, [s EXCEPT !.notices = x]}) /\ disk' = run'
        /\ pc' \in {"stopped", "top"}
    BY <1>15 DEF Resume, Save, d
  <2> HIDE DEF s
  <2>6. run'.status = s.status
    BY <2>3, <2>5 DEF RunState
  <2> QED BY <1>b, <1>c, <2>4, <2>5, <2>6
<1>16. CASE UNCHANGED vars
  BY <1>16 DEF vars, InFlight
<1> QED
  BY <1>1, <1>2, <1>3, <1>4, <1>5, <1>6, <1>7, <1>8, <1>9, <1>10, <1>11, <1>12, <1>13,
     <1>14, <1>15, <1>16
     DEF Next, LoopStep, Control, Restart, TaskEnds

\* When a run is only ever continued by a recovery of all its tasks, one node at most is
\* active, in memory and on disk, and a crash forgets the result of at most one task
\* (execute_task, prepare).
THEOREM OnlyOneInFlight ==
  ASSUME Selections = {{}}, MaxReruns = 0
  PROVE  Spec => []OneInFlight
<1>1. Init => InFlight
  BY NodeFacts DEF Init, InitialRunState, InFlight, Flying
<1>2. RunInvariant /\ InFlight /\ [Next]_vars => InFlight'
  BY InFlightStep
<1>3. InFlight => OneInFlight
  BY DEF InFlight, OneInFlight, OneActive, AtMostOneResultUnsaved
<1> QED BY <1>1, <1>2, <1>3, InvariantHolds, PTL DEF Spec

-----------------------------------------------------------------------------
(* Why the loop gives up.                                                    *)

\* No task depends on itself, however far down: the tasks can be numbered.
Ordered ==
  \E rank \in [Task -> Nat] : \A t \in Task : \A d \in Deps[t] : rank[d] < rank[t]

LEMMA SmallestExists ==
  ASSUME NEW T, T \subseteq Nat, T # {}
  PROVE  \E x \in T : \A y \in T : x <= y
<1>1. \E x \in T : \A y \in T : <<y, x>> \notin OpToRel(<, Nat)
  BY NatLessThanWellFounded, WFMin
<1>2. \A x, y \in Nat : y < x => <<y, x>> \in OpToRel(<, Nat)
  BY DEF OpToRel
<1>3. PICK x \in T : \A y \in T : <<y, x>> \notin OpToRel(<, Nat)
  BY <1>1
<1>4. \A y \in T : ~ (y < x)
  BY Zenon, <1>2, <1>3
<1>5. \A y \in T : x <= y
  BY <1>4
<1> QED BY <1>5

\* Of the tasks of a set, one has all its dependencies outside of it.
LEMMA FirstTask ==
  ASSUME Ordered, NEW U, U \subseteq Task, U # {}
  PROVE  \E t \in U : Deps[t] \cap U = {}
<1>1. PICK rank \in [Task -> Nat] : \A t \in Task : \A d \in Deps[t] : rank[d] < rank[t]
  BY DEF Ordered
<1> DEFINE R == {rank[t] : t \in U}
<1>2. PICK x \in R : \A y \in R : x <= y
  <2>1. R \subseteq Nat /\ R # {}
    BY <1>1
  <2> HIDE DEF R
  <2> QED BY <2>1, SmallestExists
<1>3. PICK t \in U : rank[t] = x
  BY <1>2
<1>4. ASSUME NEW d \in Deps[t] \cap U PROVE FALSE
  <2>1. rank[d] < rank[t] /\ rank[d] \in Nat /\ rank[t] \in Nat
    BY <1>1, <1>4
  <2>2. rank[t] <= rank[d]
    BY <1>2, <1>3, <1>4
  <2> QED BY <2>1, <2>2
<1> QED BY <1>3, <1>4

\* A state with no active node, no blocker, and nothing to repair, retry or start.
LEMMA NothingReady ==
  ASSUME Ordered, NEW s \in RunState, Safe(s), Named(s), s.blockers = {},
         \A n \in Node : s.status[n] # "active",
         UnproductiveDebug(s) = {}, RetryableFailures(s) = {}, ReadyTasks(s) = {}
  PROVE  \/ Exists(s) \subseteq Finished(s)
         \/ \E t \in Task : s.status[t] = "failed" /\ ~CanRetry(s, t)
<1> SUFFICES ASSUME \A t \in Task : ~(s.status[t] = "failed" /\ ~CanRetry(s, t))
             PROVE  Exists(s) \subseteq Finished(s)
  OBVIOUS
<1>0. s.status \in [Node -> Status]
  BY DEF RunState
<1>1. \A n \in Node : s.status[n] # "blocked"
  BY DEF Named
<1>2. \A d \in Debug : s.status[d] \in Terminal \cup {"absent"}
  <2> SUFFICES ASSUME NEW d \in Debug, s.status[d] \notin Terminal \cup {"absent"} PROVE FALSE
    OBVIOUS
  <2>1. d \in OpenDebug(s) /\ d \in Node /\ d \notin Task
    BY NodeFacts DEF OpenDebug
  <2>2. s.status[d] \notin Broken
    BY <2>1 DEF UnproductiveDebug
  <2>3. s.status[d] \in Waiting
    BY <1>0, <2>1, <2>2 DEF Status
  <2> QED BY <2>1, <2>3 DEF ReadyTasks, DepsFinished, DepsOf
<1>3. \A t \in Task : s.status[t] # "failed"
  BY NodeFacts DEF RetryableFailures
<1> DEFINE U == {t \in Task : s.status[t] \notin Terminal}
<1>4. U = {}
  <2> SUFFICES ASSUME U # {} PROVE FALSE
    OBVIOUS
  <2>1. PICK t \in U : Deps[t] \cap U = {}
    BY FirstTask
  <2>2. t \in Task /\ t \in Node /\ Deps[t] \subseteq Task
    BY <2>1, NodeFacts, GraphAssumption
  <2>3. DepsFinished(s, t)
    BY <2>1, <2>2, NodeFacts DEF DepsFinished, DepsOf, Finished
  <2>4. s.status[t] \in Waiting
    BY <1>0, <1>1, <1>3, <2>1, <2>2 DEF Status, Broken, Safe
  <2> QED BY <2>2, <2>3, <2>4 DEF ReadyTasks
<1> QED BY <1>2, <1>4 DEF Exists, Finished, Node

IdleInvariant == (pc # "stopped" => outcome = "none") /\ IdleIsExplained

LEMMA IdleStep ==
  ASSUME Ordered, MaxReruns = 0
  PROVE  /\ RunInvariant /\ BothPlain /\ InFlight /\ IdleInvariant /\ [Next]_vars
         => IdleInvariant'
<1> SUFFICES ASSUME RunInvariant, BothPlain, InFlight, IdleInvariant, [Next]_vars
             PROVE  IdleInvariant'
  OBVIOUS
<1>0. run \in RunState /\ Safe(run) /\ Named(run) /\ reruns = 0
  BY LoopAssumption DEF RunInvariant, TypeOK, BothPlain, Plain
<1>1. CASE PassIdle
  <2> DEFINE p == Prune(run)
  <2>1. /\ run' = p /\ pc = "top" /\ pc' = "stopped"
        /\ ~HasHardBlocker(p) /\ ReadyTasks(p) = {} /\ RetryableFailures(p) = {}
        /\ UnproductiveDebug(run) = {}
    BY <1>1 DEF PassIdle, PassStarts, Save, Stop
  <2>2. p \in RunState /\ Safe(p) /\ Tame(run, p)
    BY <1>0, RepairType, PruneSound, PassTame DEF Sound
  <2>3. p.blockers = {} /\ p.blockers = run.blockers
    BY <1>0, <2>1, PruneSound DEF HasHardBlocker
  <2>4. \A n \in Node : /\ p.status[n] = IF n \in Obsolete(run) THEN "skipped" ELSE run.status[n]
                        /\ p.last[n] = IF n \in Obsolete(run) THEN "note" ELSE run.last[n]
    BY <1>0 DEF Prune, RunState
  <2>5. p.retries = run.retries /\ p.failed \subseteq run.failed
    BY <1>0 DEF Prune, RunState
  <2>6. \A n \in Node : p.status[n] # "active"
    BY <2>1, <2>2 DEF InFlight, Flying, Tame
  <2> HIDE DEF p
  <2>7. Named(p)
    BY <1>0, <2>3, <2>4 DEF Named
  <2>8. UnproductiveDebug(p) = {}
    <3> SUFFICES ASSUME NEW d \in UnproductiveDebug(p) PROVE FALSE
      OBVIOUS
    <3>1. d \in Debug /\ d \in Node /\ p.status[d] \notin Terminal
      BY NodeFacts DEF UnproductiveDebug, OpenDebug
    <3>2. p.status[d] = run.status[d] /\ p.last[d] = run.last[d]
      BY <2>4, <3>1 DEF Terminal
    <3>3. d \in UnproductiveDebug(run)
      BY <2>5, <3>1, <3>2 DEF UnproductiveDebug, OpenDebug
    <3> QED BY <2>1, <3>3
  <2>9. \/ Exists(p) \subseteq Finished(p)
        \/ \E t \in Task : p.status[t] = "failed" /\ ~CanRetry(p, t)
    BY <2>1, <2>2, <2>3, <2>6, <2>7, <2>8, NothingReady
  <2> QED BY <2>1, <2>9 DEF IdleInvariant, IdleIsExplained, Exists, Finished, CanRetry
<1>2. CASE Rerun
  BY <1>0, <1>2 DEF Rerun
<1>3. CASE UNCHANGED vars
  BY <1>3 DEF vars, IdleInvariant, IdleIsExplained, Exists, Finished, CanRetry
\* Every other step ends the run for another reason, or goes on.
<1>4. ASSUME outcome' # "no_ready_tasks", pc' # "stopped" => outcome' = "none"
      PROVE  IdleInvariant'
  BY <1>4 DEF IdleInvariant, IdleIsExplained
<1>5. ASSUME outcome' = outcome, pc # "stopped" PROVE IdleInvariant'
  BY <1>4, <1>5 DEF IdleInvariant
<1>6. CASE PassDone \/ PassBlocked \/ IterationLimit \/ Control
  BY <1>4, <1>6 DEF PassDone, PassBlocked, IterationLimit, Control, ObeyControl, Stop
<1>7. CASE ConvergeChains \/ PassPromotes \/ PassRetries \/ PassSelects \/ LaunchWorker \/ Crash
           \/ (\E n \in Node : RetryFailure(n) \/ Dispatch(n))
           \/ (\E r \in WorkerResult : WorkerExits(r))
  BY <1>5, <1>7
     DEF ConvergeChains, PassPromotes, PassRetries, PassSelects, PassStarts, LaunchWorker,
         Crash, RetryFailure, Dispatch, AtTask, WorkerExits
<1>8. CASE PassEnds
  BY <1>4, <1>8 DEF PassEnds, IdleInvariant
<1>9. CASE TaskEnds
  <2>1. PICK s0 \in RunState : \E r : AfterTask(s0, r)
    BY <1>9, TaskEndsTame
  <2>2. outcome = "none"
    BY <1>9, TaskEndsTame DEF IdleInvariant
  <2> QED BY <1>4, <2>1, <2>2 DEF AfterTask, Stop
<1>10. CASE \E sel \in Selections, preflight \in BOOLEAN : Resume(sel, preflight)
  BY <1>4, <1>10 DEF Resume
<1> QED
  BY <1>1, <1>2, <1>3, <1>6, <1>7, <1>8, <1>9, <1>10 DEF Next, LoopStep, Restart, TaskEnds

\* On a graph without cycles, continued only by recoveries of all tasks: when the loop gives
\* up because nothing is ready, the gate refused finished work or a failed task has no
\* attempt left; and every blocked node has its blocker (run, _clear_recoverable_blockers).
THEOREM StopsAreExplained ==
  ASSUME Ordered, Selections = {{}}, MaxReruns = 0
  PROVE  Spec => []StopIsExplained
<1>1. Init => InFlight /\ IdleInvariant
  BY NodeFacts DEF Init, InitialRunState, InFlight, Flying, IdleInvariant, IdleIsExplained
<1>2. RunInvariant /\ InFlight /\ [Next]_vars => InFlight'
  BY InFlightStep
<1>3. /\ RunInvariant /\ BothPlain /\ InFlight /\ IdleInvariant /\ [Next]_vars => IdleInvariant'
  BY IdleStep
<1>4. BothPlain /\ IdleInvariant => StopIsExplained
  BY DEF BothPlain, Plain, Named, BlockedHasBlocker, IdleInvariant, StopIsExplained
<1> QED BY <1>1, <1>2, <1>3, <1>4, InvariantHolds, PlainHolds, PTL DEF Spec

\* Every other task but a release is among the dependencies of a review, directly or through
\* other tasks, as in the graphs of the planner: it is in each set of tasks that contains the
\* dependencies of the review and of its own members.
ReviewsComeLast ==
  \A v \in Reviews : \A S \in SUBSET Task :
    Deps[v] \subseteq S /\ (\A t \in S : Deps[t] \subseteq S) =>
      \A t \in Task \ {v} : Kind[t] # "release" => t \in S

\* An approved review, also one that its debug node repaired or a repair run waved through,
\* stands for all the work before the release (_review_result,
\* _promote_completed_debug_repairs).
THEOREM ReviewsCoverTheWork ==
  ASSUME ReviewsComeLast
  PROVE  Spec => []ReviewCoversWork
<1>1. RunInvariant => ReviewCoversWork
  <2> SUFFICES ASSUME RunInvariant, NEW v \in Reviews, run.status[v] = "completed",
                      NEW t \in Task, Kind[t] # "release"
               PROVE  run.status[t] \in Terminal
    BY DEF ReviewCoversWork
  <2> DEFINE S == {u \in Task : run.status[u] \in Terminal}
  <2>1. ASSUME NEW u \in S PROVE Deps[u] \subseteq S
    <3>1. u \in Node /\ u \in Task /\ Root(u) = u /\ Deps[u] \subseteq Task
      BY <2>1, NodeFacts, GraphAssumption
    <3>2. Touched(run, u)
      BY <2>1, <3>1 DEF Touched, Started
    <3>3. DepsFinished(run, u)
      BY <3>1, <3>2 DEF RunInvariant, Safe
    <3> QED BY <3>1, <3>3 DEF DepsFinished, DepsOf, Finished
  <2>2. v \in S
    BY DEF Reviews, Terminal
  <2>3. Deps[v] \subseteq S
    BY <2>1, <2>2
  <2>4. t \in S \/ t = v
    <3> HIDE DEF S
    <3>1. S \in SUBSET Task
      BY DEF S
    <3> QED BY <2>1, <2>3, <3>1 DEF ReviewsComeLast
  <2> QED BY <2>2, <2>4
<1> QED BY <1>1, InvariantHolds, PTL

-----------------------------------------------------------------------------
(* One repair at a time.  A debug node is listed before its root, and a pass *)
(* that leaves an open one behind ends, so no root is started beside it.     *)

Single(s) == \A d, e \in OpenDebug(s) : Root(d) = Root(e) => d = e

Unrepaired(s, n) == \A d \in OpenDebug(s) : Root(d) # n

OneRepair ==
  /\ Single(run) /\ Single(disk)
  /\ pc = "tasks" => queue = {} \/ OpenDebug(run) \subseteq queue
  /\ pc \in Flying /\ cur \in Task => Unrepaired(run, cur)
  /\ pc = "retrying" => \A n \in queue : Unrepaired(run, n)

LEMMA SingleKept ==
  ASSUME NEW a, NEW b, NEW n, Single(a), Opens(a, b, n), n \in Task => Unrepaired(a, n)
  PROVE  Single(b)
BY DEF Single, Opens, Unrepaired

LEMMA SingleNarrows ==
  ASSUME NEW a, NEW b, Single(a), OpenDebug(b) \subseteq OpenDebug(a)
  PROVE  Single(b)
BY DEF Single

LEMMA DebugComesFirst ==
  ASSUME NEW d \in Debug
  PROVE  ~Before(Root(d), d)
<1>1. /\ Root(d) \in Task /\ d \notin Task /\ Root(Root(d)) = Root(d)
      /\ Priority[Root(d)] \in Nat
  BY NodeFacts, GraphAssumption
<1>2. NodePriority(Root(d)) = Priority[Root(d)]
  BY <1>1 DEF NodePriority
<1>3. NodePriority(d) = IF Priority[Root(d)] > 90 THEN Priority[Root(d)] + 10 ELSE 100
  BY <1>1 DEF NodePriority
<1>4. NodePriority(d) \in Nat /\ NodePriority(d) > NodePriority(Root(d))
  BY <1>1, <1>2, <1>3
<1> QED BY <1>1, <1>2, <1>4 DEF Before

\* When nothing is active, the debug nodes that are open after the chains were converged are
\* all listed.
LEMMA OpenIsReady ==
  ASSUME NEW s \in RunState, \A n \in Node : s.status[n] # "active", UnproductiveDebug(s) = {}
  PROVE  /\ OpenDebug(Prune(s)) \subseteq ReadyTasks(Prune(s))
         /\ OpenDebug(MarkReady(Prune(s))) \subseteq ReadyTasks(Prune(s))
<1> DEFINE p == Prune(s)
<1>1. p \in RunState /\ OpenDebug(p) \subseteq OpenDebug(s)
      /\ OpenDebug(MarkReady(p)) \subseteq OpenDebug(p)
  BY PassTame, RepairType
<1>2. \A n \in Node : p.status[n] = IF n \in Obsolete(s) THEN "skipped" ELSE s.status[n]
  BY DEF Prune, RunState
<1>3. ASSUME NEW d \in OpenDebug(p) PROVE d \in ReadyTasks(p)
  <2>1. d \in Debug /\ d \in Node /\ d \notin Task /\ d \in OpenDebug(s)
    BY <1>1, <1>3, NodeFacts DEF OpenDebug
  <2>2. s.status[d] \in Status /\ s.status[d] \notin Terminal \cup {"absent", "active"} \cup Broken
    BY <2>1 DEF UnproductiveDebug, OpenDebug, RunState
  <2>3. p.status[d] \in Waiting
    BY <1>2, <1>3, <2>1, <2>2 DEF OpenDebug, Status, Terminal
  <2> QED BY <2>1, <2>3 DEF ReadyTasks, DepsFinished, DepsOf
<1> QED BY <1>1, <1>3

LEMMA RepairStep ==
  RunInvariant /\ InFlight /\ OneRepair /\ [Next]_vars => OneRepair'
<1> SUFFICES ASSUME RunInvariant, InFlight, OneRepair, [Next]_vars PROVE OneRepair'
  OBVIOUS
<1>0. /\ run \in RunState /\ disk \in RunState /\ queue \subseteq Node /\ cur \in Node
      /\ Single(run) /\ Single(disk)
  BY DEF RunInvariant, TypeOK, OneRepair
<1> DEFINE p == Prune(run)
<1>p. /\ p \in RunState /\ Single(p) /\ OpenDebug(p) \subseteq OpenDebug(run)
      /\ MarkReady(p) \in RunState /\ OpenDebug(MarkReady(p)) \subseteq OpenDebug(p)
      /\ Single(MarkReady(p))
  BY <1>0, PassTame, RepairType, MarkReadyType, SingleNarrows
<1>t. pc = "top" /\ UnproductiveDebug(run) = {} =>
        /\ OpenDebug(p) \subseteq ReadyTasks(p)
        /\ OpenDebug(MarkReady(p)) \subseteq ReadyTasks(p)
  BY <1>0, OpenIsReady DEF InFlight, Flying
<1> HIDE DEF p
<1>a. ASSUME Single(run'), disk' \in {disk, run'}, pc' \in {"top", "stopped", "crashed"}
      PROVE  OneRepair'
  BY <1>0, <1>a DEF OneRepair, Flying, Single, OpenDebug
<1>1. CASE ConvergeChains
  <2>1. PICK d \in UnproductiveDebug(run) : run' = Converge(run, d)
    BY <1>1 DEF ConvergeChains
  <2>2. /\ disk' \in {disk, run'} /\ pc' = "top"
        /\ d \in Debug /\ d \in OpenDebug(run) /\ d \in Node /\ d \notin Task
    BY <1>1, NodeFacts DEF ConvergeChains, UnproductiveDebug, OpenDebug
  <2>3. run' = HandleFailed(run, d, "failed")
    BY <2>1, <2>2 DEF HandleFailed
  <2>4. Single(run')
    BY <1>0, <2>2, <2>3, HandleFailedTame, SingleKept
  <2> QED BY <1>a, <2>2, <2>4
<1>2. CASE PassDone
  <2>1. run' = [p EXCEPT !.done = TRUE] /\ disk' = run' /\ pc' = "stopped"
    BY <1>2 DEF PassDone, PassStarts, Save, Stop, p
  <2>2. run'.status = p.status
    BY <1>p, <2>1 DEF RunState
  <2> QED BY <1>p, <1>a, <2>1, <2>2 DEF Single, OpenDebug
<1>3. CASE PassPromotes
  <2>1. run' = Promote(p) /\ disk' = run' /\ pc' = "top"
    BY <1>3 DEF PassPromotes, PassStarts, Save, p
  <2>2. \A n \in Node : run'.status[n] \in {p.status[n], "completed"}
    BY <1>p, <2>1 DEF Promote, RunState
  <2>3. OpenDebug(run') \subseteq OpenDebug(p)
    BY <2>2, NodeFacts DEF OpenDebug, Terminal
  <2> QED BY <1>p, <1>a, <2>1, <2>3, SingleNarrows
<1>4. CASE PassBlocked \/ PassIdle
  <2>1. run' = p /\ disk' = run' /\ pc' = "stopped"
    BY <1>4 DEF PassBlocked, PassIdle, PassStarts, Save, Stop, p
  <2> QED BY <1>p, <1>a, <2>1
<1>5. CASE PassRetries
  <2>1. /\ run' = p /\ disk' \in {disk, run'} /\ pc' = "retrying" /\ pc = "top"
        /\ UnproductiveDebug(run) = {} /\ ReadyTasks(p) = {}
    BY <1>5 DEF PassRetries, PassStarts, p
  <2>2. OpenDebug(run') = {}
    BY <1>t, <2>1
  <2>3. Single(run') /\ Single(disk')
    BY <1>0, <1>p, <2>1
  <2> QED BY <2>1, <2>2, <2>3 DEF OneRepair, Unrepaired, Flying
<1>6. CASE PassSelects
  <2>1. /\ run' = MarkReady(p) /\ disk' \in {disk, p} /\ pc' = "tasks" /\ pc = "top"
        /\ queue' = ReadyTasks(p) /\ UnproductiveDebug(run) = {}
    BY <1>6 DEF PassSelects, PassStarts, p
  <2>2. OpenDebug(run') \subseteq queue'
    BY <1>t, <2>1
  <2>3. Single(run') /\ Single(disk')
    BY <1>0, <1>p, <2>1
  <2> QED BY <2>1, <2>2, <2>3 DEF OneRepair, Flying
<1>7. CASE IterationLimit
  <2>1. run' = run /\ disk' = run' /\ pc' = "stopped"
    BY <1>7 DEF IterationLimit, Save, Stop
  <2> QED BY <1>0, <1>a, <2>1
<1>8. CASE LaunchWorker \/ (\E r \in WorkerResult : WorkerExits(r))
  <2>1. run' = run /\ disk' = disk /\ cur' = cur /\ pc \in Flying /\ pc' \in {"running", "exited"}
    BY <1>8 DEF LaunchWorker, WorkerExits, Flying
  <2> QED BY <2>1 DEF OneRepair, Single, Unrepaired, OpenDebug
<1>9. CASE PassEnds
  <2>1. PICK score \in Scores : /\ run' = [run EXCEPT !.done = Evaluate(run, score)]
                                /\ disk' = run'
    BY <1>9 DEF PassEnds, Save
  <2>2. pc' \in {"top", "stopped"}
    BY <1>9 DEF PassEnds
  <2>3. run'.status = run.status
    BY <1>0, <2>1 DEF RunState
  <2> QED BY <1>0, <1>a, <2>1, <2>2, <2>3 DEF Single, OpenDebug
<1>10. ASSUME NEW n \in Node, RetryFailure(n) PROVE OneRepair'
  <2>1. /\ run' = HandleFailed(run, n, "failed") /\ disk' \in {disk, run'}
        /\ pc = "retrying" /\ pc' \in {"retrying", "top"}
        /\ n \in queue /\ queue' = queue \ {n}
    BY <1>10 DEF RetryFailure
  <2>2. Opens(run, run', n) /\ \A m \in queue : Unrepaired(run, m)
    BY <1>0, <2>1, HandleFailedTame DEF OneRepair
  <2>3. Single(run') /\ Single(disk')
    BY <1>0, <2>1, <2>2, SingleKept
  <2>4. \A m \in queue' : Unrepaired(run', m)
    BY <2>1, <2>2 DEF Unrepaired, Opens
  <2> QED BY <2>1, <2>3, <2>4 DEF OneRepair, Flying
<1>11. ASSUME NEW n \in Node, Dispatch(n) PROVE OneRepair'
  <2>1. /\ run' = MarkActive(p, n) /\ disk' = run' /\ pc = "tasks" /\ n \in queue
        /\ pc' = "dispatched" /\ cur' = n /\ p.status[n] # "skipped"
        /\ \A m \in queue \ {n} : Before(n, m)
    BY <1>11 DEF Dispatch, AtTask, IsNext, Save, p
  <2>2. \A m \in Node : run'.status[m] = IF m = n THEN "active" ELSE p.status[m]
    BY <1>p, <2>1 DEF MarkActive, RunState
  <2>3. p.status[n] \in Waiting
    <3>1. p.status[n] \in {run.status[n], "skipped"}
      BY <1>0 DEF p, Prune, RunState
    <3> QED BY <2>1, <3>1 DEF RunInvariant, PassIsSound, Listed
  <2>4. OpenDebug(run') \subseteq OpenDebug(p)
    BY <2>2, <2>3, NodeFacts DEF OpenDebug, Waiting, Terminal
  <2>5. ASSUME NEW d \in OpenDebug(run'), Root(d) = n, n \in Task PROVE FALSE
    <3>1. d \in queue
      BY <1>p, <2>1, <2>4, <2>5 DEF OneRepair
    <3>2. d \in Debug /\ d # n
      BY <2>5, NodeFacts DEF OpenDebug
    <3> QED BY <2>1, <2>5, <3>1, <3>2, DebugComesFirst
  <2>6. Single(run')
    BY <1>p, <2>4, SingleNarrows
  <2> QED BY <2>1, <2>5, <2>6 DEF OneRepair, Unrepaired
<1>12. ASSUME NEW n \in Node, NEW c \in Controls, ObeyControl(n, c) PROVE OneRepair'
  <2>1. disk' = run' /\ pc' = "stopped"
    BY <1>12 DEF ObeyControl, Save, Stop
  <2>2. run' = p \/ run' = [p EXCEPT !.notices = @ \cup {"stop"}]
    BY <1>12 DEF ObeyControl, AtTask, Save, p
  <2>3. run'.status = p.status
    BY <1>p, <2>2 DEF RunState
  <2> QED BY <1>p, <1>a, <2>1, <2>3 DEF Single, OpenDebug
<1>13. CASE TaskEnds
  <2>1. pc \in {"dispatched", "exited"}
    BY <1>13, TaskEndsTame
  <2>2. PICK s0 \in RunState : \E r : AfterTask(s0, r) /\ TameBut(run, s0, cur)
    BY <1>13, TaskEndsTame
  <2> DEFINE s == Prune(s0)
  <2>3. s \in RunState /\ Single(s)
    <3>1. Single(s0)
      BY <1>0, <2>1, <2>2, SingleKept DEF TameBut, OneRepair, Flying
    <3> QED BY <3>1, PassTame, RepairType, SingleNarrows
  <2> HIDE DEF s
  <2>4. CASE run' = s /\ disk' \in {disk, run'} /\ pc' = "stopped"
    BY <1>a, <2>3, <2>4
  <2>5. CASE /\ run' = s /\ disk' \in {disk, run'} /\ pc' = "tasks"
             /\ queue' = {} \/ OpenDebug(s) = {}
    BY <1>0, <2>3, <2>5 DEF OneRepair, Flying
  <2>6. CASE /\ \E score \in Scores :
                  run' = [CompleteRest(s) EXCEPT !.done = Evaluate(CompleteRest(s), score)]
             /\ disk' = run' /\ pc' = "stopped"
    <3>1. run'.status = CompleteRest(s).status
      BY <2>3, <2>6, RepairType DEF RunState
    <3>2. \A n \in Node : CompleteRest(s).status[n] \in {s.status[n], "completed"}
      BY <2>3 DEF CompleteRest, RunState
    <3>3. OpenDebug(run') \subseteq OpenDebug(s)
      BY <3>1, <3>2, NodeFacts DEF OpenDebug, Terminal
    <3> QED BY <1>a, <2>3, <2>6, <3>3, SingleNarrows
  <2> QED BY <2>2, <2>4, <2>5, <2>6 DEF AfterTask, Save, Stop, s
<1>14. CASE Crash \/ Rerun
  <2>1. run' = disk /\ disk' = disk /\ pc' \in {"top", "crashed"}
    BY <1>14 DEF Crash, Rerun, Save
  <2> QED BY <1>0, <1>a, <2>1
<1>15. ASSUME NEW sel \in Selections, NEW preflight \in BOOLEAN, Resume(sel, preflight)
       PROVE  OneRepair'
  <2> DEFINE d == RecoverySource
             s == Prepare(d, sel)
  <2>1. sel \in SUBSET Node /\ files \in [Node -> WorkerFile]
    BY LoopAssumption DEF RunInvariant, TypeOK
  <2>2. d \in RunState /\ d.status = disk.status
    <3>1. d \in RunState
      BY <1>0, <2>1, RecoveryType DEF RecoverySource
    <3> QED BY <1>0, <3>1 DEF RecoverySource, MergeWorkerFiles, RunState
  <2>3. Single(d)
    BY <1>0, <2>2 DEF Single, OpenDebug
  <2>4. (\E x : run' \in {s, [s EXCEPT !.notices = x]}) /\ disk' = run'
        /\ pc' \in {"stopped", "top"}
    BY <1>15 DEF Resume, Save
  <2> HIDE DEF d
  <2>5. s \in RunState
    <3>1. [n \in Node |-> "none"] \in [Node -> WorkerFile]
      BY DEF WorkerFile
    <3> QED BY <2>1, <2>2, <3>1, RecoveryType
  <2>6. OpenDebug(s) \subseteq OpenDebug(d)
    <3>1. \A n \in Node : s.status[n] = IF n \in Reconciled(d, sel) THEN "completed"
                                        ELSE IF n \in ResetTasks(d, sel) THEN "pending"
                                        ELSE d.status[n]
      BY <2>2 DEF Prepare, RunState
    <3>2. \A n \in ResetTasks(d, sel) : d.status[n] \in Waiting \cup Broken \cup {"active"}
      BY DEF ResetTasks, BlockedReset, Broken
    <3> QED BY <3>1, <3>2, NodeFacts DEF OpenDebug, Terminal, Waiting, Broken
  <2> HIDE DEF s
  <2>7. run'.status = s.status
    BY <2>4, <2>5 DEF RunState
  <2>8. OpenDebug(run') \subseteq OpenDebug(d)
    BY <2>6, <2>7 DEF OpenDebug
  <2> QED BY <1>a, <2>3, <2>4, <2>8, SingleNarrows
<1>16. CASE UNCHANGED vars
  BY <1>16 DEF vars, OneRepair, Single, Unrepaired, OpenDebug
<1> QED
  BY <1>1, <1>2, <1>3, <1>4, <1>5, <1>6, <1>7, <1>8, <1>9, <1>10, <1>11, <1>12, <1>13,
     <1>14, <1>15, <1>16
     DEF Next, LoopStep, Control, Restart, TaskEnds

LEMMA RepairHolds ==
  ASSUME Selections = {{}}, MaxReruns = 0
  PROVE  Spec => [](RunInvariant /\ InFlight /\ OneRepair)
<1>1. Init => InFlight /\ OneRepair
  BY NodeFacts DEF Init, InitialRunState, InFlight, Flying, OneRepair, Single, OpenDebug
<1>2. RunInvariant /\ InFlight /\ [Next]_vars => InFlight'
  BY InFlightStep
<1> QED BY <1>1, <1>2, RepairStep, InvariantHolds, PTL DEF Spec

\* When a run is only ever continued by a recovery of all its tasks, a task has one open
\* debug node at most (create_debug_task, _converge_unproductive_debug_chains): half of
\* what RepairsAreBounded says.
THEOREM OneDebugAtATime ==
  ASSUME Selections = {{}}, MaxReruns = 0
  PROVE  Spec => []OneOpenDebug
<1>1. OneRepair => OneOpenDebug
  BY DEF OneRepair, Single, OneOpenDebug
<1> QED BY <1>1, RepairHolds, PTL

\* The list of a pass is never acted on when it is out of date: what is dispatched still
\* waits, has its dependencies finished, and no open debug node of its own (run,
\* _has_pending_debug_work).
THEOREM DispatchesAreCurrent ==
  ASSUME Selections = {{}}, MaxReruns = 0
  PROVE  Spec => DispatchIsCurrent
<1>1. RunInvariant /\ OneRepair /\ [Next]_vars =>
        [pc = "tasks" /\ pc' = "dispatched" =>
           /\ run.status[cur'] \in Waiting
           /\ DepsFinished(run, cur')
           /\ cur' \in Task => \A d \in OpenDebug(run) : Root(d) # cur']_vars
  <2> SUFFICES ASSUME RunInvariant, OneRepair, [Next]_vars, pc = "tasks", pc' = "dispatched"
               PROVE  /\ run.status[cur'] \in Waiting
                      /\ DepsFinished(run, cur')
                      /\ cur' \in Task => \A d \in OpenDebug(run) : Root(d) # cur'
    OBVIOUS
  <2>1. PICK n \in Node : Dispatch(n)
    <3>1. ~UNCHANGED vars
      BY DEF vars
    <3> QED BY <3>1
      DEF Next, LoopStep, Control, Restart, ConvergeChains, PassDone, PassPromotes,
          PassBlocked, PassRetries, PassIdle, PassSelects, PassStarts, IterationLimit,
          PassEnds, RetryFailure, LaunchWorker, WorkerExits, RecordResult, Review, Inspect,
          Release, ObeyControl, Stop, Crash, Resume, Rerun
  <2>2. /\ n \in queue /\ cur' = n /\ Prune(run).status[n] # "skipped"
        /\ \A m \in queue \ {n} : Before(n, m)
    BY <2>1 DEF Dispatch, AtTask, IsNext
  <2>3. Prune(run).status[n] = IF n \in Obsolete(run) THEN "skipped" ELSE run.status[n]
    BY <2>1 DEF RunInvariant, TypeOK, Prune, RunState
  <2>4. run.status[n] \in Waiting /\ DepsFinished(run, n)
    BY <2>2, <2>3 DEF RunInvariant, PassIsSound, Listed
  <2>5. ASSUME NEW d \in OpenDebug(run), Root(d) = n, n \in Task PROVE FALSE
    <3>1. d \in queue
      BY <2>2, <2>5 DEF OneRepair
    <3>2. d \in Debug /\ d # n
      BY <2>5, NodeFacts DEF OpenDebug
    <3> QED BY <2>2, <2>5, <3>1, <3>2, DebugComesFirst
  <2> QED BY <2>2, <2>4, <2>5
<1> QED BY <1>1, RepairHolds, PTL DEF Spec, DispatchIsCurrent

-----------------------------------------------------------------------------
(* What a recovery can clear.  A blocker whose node has an attempt left is   *)
(* one of a blocked or failed node, which a recovery resets; and the head of *)
(* a pass, which resets roots, never finds such a root with an open debug    *)
(* node.                                                                     *)

Hopeless(s) == \A b \in s.blockers : ~CanRetry(s, b[1])

ClearInvariant ==
  /\ Clearable(run) /\ Clearable(disk)
  /\ pc = "top" =>
       \A b \in run.blockers : CanRetry(run, b[1]) => b[1] \in Task /\ Unrepaired(run, b[1])
  /\ pc = "retrying" => Hopeless(run)
  /\ pc \in Flying /\ cur \in Debug => run.status[Root(cur)] # "completed"

\* Converging the chain of one debug node keeps the blockers clearable.
LEMMA ConvergeClear ==
  ASSUME NEW s \in RunState, NEW d \in OpenDebug(s), Clearable(s), Single(s),
         \A b \in s.blockers : CanRetry(s, b[1]) => b[1] \in Task /\ Unrepaired(s, b[1])
  PROVE  LET c == Converge(s, d) IN
         /\ Clearable(c)
         /\ \A b \in c.blockers : CanRetry(c, b[1]) => b[1] \in Task /\ Unrepaired(c, b[1])
<1> DEFINE c == Converge(s, d)
           root == Root(d)
           x == <<root, s.retries[root]>>
<1>0. /\ d \in Debug /\ d \in Node /\ d \notin Task /\ root \in Task /\ root \in Node
      /\ root # d /\ x[1] = root
  BY NodeFacts DEF OpenDebug
<1>1. /\ c.retries = s.retries
      /\ \A n \in Node \ {d, root} : c.status[n] = s.status[n]
      /\ c.status[d] = "skipped"
      /\ c.blockers \subseteq s.blockers \cup {x}
      /\ x \in c.blockers \ s.blockers => ~CanRetry(s, root) \/ c.status[root] = "blocked"
  BY <1>0, ConvergeFacts
<1> HIDE DEF c, x
<1>2. OpenDebug(c) \subseteq OpenDebug(s) \ {d}
  BY <1>0, <1>1, NodeFacts DEF OpenDebug, Terminal
<1>3. ASSUME NEW b \in c.blockers, CanRetry(c, b[1])
      PROVE  /\ c.status[b[1]] \in Broken
             /\ b[1] \in Task /\ Unrepaired(c, b[1])
  <2>1. CanRetry(s, b[1])
    BY <1>1, <1>3 DEF CanRetry
  <2>2. CASE b \in s.blockers
    <3>1. b[1] \in Task /\ Unrepaired(s, b[1]) /\ s.status[b[1]] \in Broken
      BY <2>1, <2>2 DEF Clearable
    <3>2. b[1] # root /\ b[1] # d /\ b[1] \in Node
      BY <1>0, <3>1, NodeFacts DEF Unrepaired
    <3> QED BY <1>1, <1>2, <3>1, <3>2 DEF Unrepaired
  <2>3. CASE b = x /\ b \notin s.blockers
    <3>1. c.status[root] = "blocked"
      BY <1>0, <1>1, <1>3, <2>1, <2>3
    <3>2. Unrepaired(c, root)
      BY <1>2 DEF Unrepaired, Single
    <3> QED BY <1>0, <2>3, <3>1, <3>2 DEF Broken
  <2> QED BY <1>1, <1>3, <2>2, <2>3
<1> QED BY <1>3 DEF Clearable, c

\* Pruning hides no blocker that can be cleared: it skips only debug nodes.
LEMMA PruneClear ==
  ASSUME NEW s \in RunState, Clearable(s),
         \A b \in s.blockers : CanRetry(s, b[1]) => b[1] \in Node \ Obsolete(s)
  PROVE  Clearable(Prune(s))
<1>1. /\ Prune(s).blockers = s.blockers /\ Prune(s).retries = s.retries
      /\ \A n \in Node \ Obsolete(s) : Prune(s).status[n] = s.status[n]
  BY DEF Prune, RunState
<1> QED BY <1>1 DEF Clearable, CanRetry

\* What a recovery of all tasks leaves are blockers that no retry can resolve.
LEMMA PrepareClear ==
  ASSUME NEW s \in RunState, Clearable(s)
  PROVE  /\ Hopeless(Prepare(s, {}))
         /\ \A b \in Prepare(s, {}).blockers : ~CanRetry(s, b[1])
<1> DEFINE q == Prepare(s, {})
<1>1. /\ q.blockers = {b \in s.blockers : b[1] \notin ResetTasks(s, {}) \cup Reconciled(s, {})}
      /\ \A n \in Node : q.retries[n] \in {s.retries[n], s.retries[n] + 1}
  BY DEF Prepare, KeptBlockers, RunState
<1> HIDE DEF q
<1>2. ASSUME NEW b \in q.blockers PROVE ~CanRetry(s, b[1]) /\ ~CanRetry(q, b[1])
  <2>1. b \in s.blockers /\ b[1] \in Node /\ b[1] \notin ResetTasks(s, {})
    BY <1>1, <1>2 DEF RunState
  <2>2. ~CanRetry(s, b[1])
    BY <2>1 DEF Clearable, ResetTasks, BlockedReset, Chosen, Broken
  <2>3. s.retries[b[1]] \in Nat /\ MaxAttempts \in Nat
    BY <2>1, LimitFacts DEF RunState
  <2>4. q.retries[b[1]] \in {s.retries[b[1]], s.retries[b[1]] + 1}
    BY <1>1, <2>1
  <2> QED BY <2>2, <2>3, <2>4 DEF CanRetry
<1> QED BY <1>2 DEF Hopeless, q

LEMMA ClearStep ==
  ASSUME Selections = {{}}, MaxReruns = 0
  PROVE  RunInvariant /\ InFlight /\ OneRepair /\ ClearInvariant /\ [Next]_vars
           => /\ ClearInvariant'
              /\ resumes' # resumes => \A b \in run'.blockers : ~CanRetry(disk, b[1])
<1> SUFFICES ASSUME RunInvariant, InFlight, OneRepair, ClearInvariant, [Next]_vars
             PROVE  /\ ClearInvariant'
                    /\ resumes' # resumes => \A b \in run'.blockers : ~CanRetry(disk, b[1])
  OBVIOUS
<1>0. /\ run \in RunState /\ disk \in RunState /\ queue \subseteq Node /\ cur \in Node
      /\ run.status \in [Node -> Status] /\ reruns = 0
      /\ Clearable(run) /\ Clearable(disk) /\ Single(run)
      /\ \A b \in run.blockers : b[1] \in Node
  BY LoopAssumption DEF RunInvariant, TypeOK, ClearInvariant, OneRepair, RunState
<1> DEFINE p == Prune(run)
<1>p. /\ p \in RunState /\ OpenDebug(p) \subseteq OpenDebug(run)
      /\ p.blockers = run.blockers /\ p.retries = run.retries
      /\ \A n \in Node : p.status[n] = IF n \in Obsolete(run) THEN "skipped" ELSE run.status[n]
  <2>1. p \in RunState /\ OpenDebug(p) \subseteq OpenDebug(run)
    BY <1>0, PassTame, RepairType
  <2> QED BY <1>0, <2>1 DEF Prune, RunState
<1>o. Obsolete(run) \cap Task = {}
  BY NodeFacts DEF Obsolete, OpenDebug
\* At the head of a pass.
<1>t. ASSUME pc = "top"
      PROVE  /\ Clearable(p)
             /\ \A b \in p.blockers : CanRetry(p, b[1]) => b[1] \in Task /\ Unrepaired(p, b[1])
  <2>1. \A b \in run.blockers : CanRetry(run, b[1]) => b[1] \in Task /\ Unrepaired(run, b[1])
    BY <1>t DEF ClearInvariant
  <2>2. Clearable(p)
    BY <1>0, <1>o, <2>1, PruneClear
  <2> QED BY <1>p, <2>1, <2>2 DEF CanRetry, Unrepaired
<1> HIDE DEF p
<1>a. ASSUME resumes' = resumes, Clearable(run'), disk' \in {disk, run'},
             pc' \in {"tasks", "stopped", "crashed"}
      PROVE  /\ ClearInvariant'
             /\ resumes' # resumes => \A b \in run'.blockers : ~CanRetry(disk, b[1])
  <2>1. Clearable(disk')
    BY <1>0, <1>a DEF Clearable, CanRetry
  <2> QED BY <1>a, <2>1 DEF ClearInvariant, Flying, Clearable, CanRetry
\* The same step to the head of a pass.
<1>b. ASSUME resumes' = resumes, Clearable(run'), disk' \in {disk, run'}, pc' = "top",
             \A b \in run'.blockers :
               CanRetry(run', b[1]) => b[1] \in Task /\ Unrepaired(run', b[1])
      PROVE  /\ ClearInvariant'
             /\ resumes' # resumes => \A b \in run'.blockers : ~CanRetry(disk, b[1])
  <2>1. Clearable(disk')
    BY <1>0, <1>b DEF Clearable, CanRetry
  <2> QED BY <1>b, <2>1 DEF ClearInvariant, Flying, Clearable, CanRetry, Unrepaired, OpenDebug
\* A step of the loop that leaves no blocker.
<1>c. ASSUME NEW s, s.blockers = {} PROVE Clearable(s) /\ Hopeless(s)
  BY <1>c DEF Clearable, Hopeless
<1>1. CASE ConvergeChains
  <2>1. PICK d \in UnproductiveDebug(run) : run' = Converge(run, d)
    BY <1>1 DEF ConvergeChains
  <2>2. disk' \in {disk, run'} /\ pc' = "top" /\ pc = "top" /\ resumes' = resumes
    BY <1>1 DEF ConvergeChains, bounds
  <2>3. d \in OpenDebug(run)
    BY DEF UnproductiveDebug
  <2>4. \A b \in run.blockers : CanRetry(run, b[1]) => b[1] \in Task /\ Unrepaired(run, b[1])
    BY <2>2 DEF ClearInvariant
  <2>5. /\ Clearable(run')
        /\ \A b \in run'.blockers :
             CanRetry(run', b[1]) => b[1] \in Task /\ Unrepaired(run', b[1])
    BY <1>0, <2>1, <2>3, <2>4, ConvergeClear
  <2> QED BY <1>b, <2>2, <2>5
<1>2. CASE PassDone
  <2>1. /\ run' = [p EXCEPT !.done = TRUE] /\ disk' = run' /\ pc' = "stopped" /\ pc = "top"
        /\ resumes' = resumes
    BY <1>2 DEF PassDone, PassStarts, Save, Stop, bounds, p
  <2>2. run'.status = p.status /\ run'.retries = p.retries /\ run'.blockers = p.blockers
    BY <1>p, <2>1 DEF RunState
  <2>3. Clearable(run')
    BY <1>t, <2>1, <2>2 DEF Clearable, CanRetry
  <2> QED BY <1>a, <2>1, <2>3
<1>3. CASE PassPromotes
  <2>1. run' = Promote(p) /\ disk' = run' /\ pc' = "top" /\ pc = "top" /\ resumes' = resumes
    BY <1>3 DEF PassPromotes, PassStarts, Save, bounds, p
  <2>2. /\ run'.blockers = {b \in p.blockers : b[1] \notin Promotable(p)}
        /\ run'.retries = p.retries
        /\ \A n \in Node : run'.status[n] = IF n \in Promotable(p) THEN "completed"
                                            ELSE p.status[n]
    BY <1>p, <2>1 DEF Promote, RunState
  <2>3. OpenDebug(run') \subseteq OpenDebug(p)
    BY <2>2, NodeFacts DEF OpenDebug, Terminal
  <2>4. Clearable(run')
    BY <1>0, <1>p, <1>t, <2>1, <2>2 DEF Clearable, CanRetry
  <2>5. \A b \in run'.blockers :
          CanRetry(run', b[1]) => b[1] \in Task /\ Unrepaired(run', b[1])
    BY <1>t, <2>1, <2>2, <2>3 DEF CanRetry, Unrepaired
  <2> QED BY <1>b, <2>1, <2>4, <2>5
<1>4. CASE PassBlocked \/ PassIdle
  <2>1. run' = p /\ disk' = run' /\ pc' = "stopped" /\ pc = "top" /\ resumes' = resumes
    BY <1>4 DEF PassBlocked, PassIdle, PassStarts, Save, Stop, bounds, p
  <2> QED BY <1>a, <1>t, <2>1
<1>5. CASE PassRetries
  <2>1. /\ run' = p /\ disk' \in {disk, run'} /\ pc' = "retrying" /\ resumes' = resumes
        /\ p.blockers = {}
    BY <1>5 DEF PassRetries, PassStarts, HasHardBlocker, bounds, p
  <2>2. Clearable(run') /\ Hopeless(run') /\ Clearable(disk')
    BY <1>0, <1>c, <2>1
  <2> QED BY <2>1, <2>2 DEF ClearInvariant, Flying
<1>6. CASE PassSelects
  <2>1. /\ run' = MarkReady(p) /\ disk' \in {disk, p} /\ pc' = "tasks" /\ resumes' = resumes
        /\ p.blockers = {}
    BY <1>6 DEF PassSelects, PassStarts, HasHardBlocker, bounds, p
  <2>2. run'.blockers = {}
    BY <1>p, <2>1 DEF MarkReady, RunState
  <2>3. Clearable(run') /\ Clearable(disk')
    BY <1>0, <1>c, <2>1, <2>2
  <2> QED BY <2>1, <2>3 DEF ClearInvariant, Flying
<1>7. CASE IterationLimit
  <2>1. run' = run /\ disk' = run' /\ pc' = "stopped" /\ resumes' = resumes
    BY <1>7 DEF IterationLimit, Save, Stop, bounds
  <2> QED BY <1>0, <1>a, <2>1
<1>8. CASE LaunchWorker \/ (\E r \in WorkerResult : WorkerExits(r))
  <2>1. /\ run' = run /\ disk' = disk /\ cur' = cur /\ pc \in Flying
        /\ pc' \in {"running", "exited"} /\ resumes' = resumes
    BY <1>8 DEF LaunchWorker, WorkerExits, Flying, bounds
  <2> QED BY <2>1 DEF ClearInvariant, Clearable, CanRetry
<1>9. CASE PassEnds
  <2>1. PICK score \in Scores : /\ run' = [run EXCEPT !.done = Evaluate(run, score)]
                                /\ disk' = run'
    BY <1>9 DEF PassEnds, Save
  <2>2. pc' \in {"top", "stopped"} /\ pc = "tasks" /\ resumes' = resumes
    BY <1>9 DEF PassEnds, bounds
  <2>3. run'.blockers = {}
    BY <1>0, <2>1, <2>2 DEF RunInvariant, PassIsSound, RunState
  <2> QED BY <1>a, <1>b, <1>c, <2>1, <2>2, <2>3
<1>10. ASSUME NEW n \in Node, RetryFailure(n)
       PROVE  /\ ClearInvariant'
              /\ resumes' # resumes => \A b \in run'.blockers : ~CanRetry(disk, b[1])
  <2>1. /\ run' = HandleFailed(run, n, "failed") /\ disk' \in {disk, run'}
        /\ pc = "retrying" /\ pc' \in {"retrying", "top"} /\ n \in queue /\ resumes' = resumes
    BY <1>10 DEF RetryFailure, bounds
  <2>2. n \in Task /\ n \notin Debug /\ Hopeless(run)
    BY <2>1, NodeFacts DEF RunInvariant, PassIsSound, ClearInvariant
  <2>3. \/ run' = CreateDebugAndReset(run, n)
        \/ run' = RecordBlocker(run, n) /\ ~CanRetry(run, n)
    BY <2>1, <2>2 DEF HandleFailed, Environment
  <2>4. /\ run'.retries = run.retries
        /\ \A b \in run'.blockers : b \in run.blockers \/ (b[1] = n /\ ~CanRetry(run, n))
    <3>1. CASE run' = CreateDebugAndReset(run, n)
      BY <1>0, <3>1 DEF CreateDebugAndReset, RunState
    <3>2. CASE run' = RecordBlocker(run, n) /\ ~CanRetry(run, n)
      BY <1>0, <3>2, RecordPlain
    <3> QED BY <2>3, <3>1, <3>2
  <2>5. Hopeless(run') /\ Clearable(run')
    BY <2>2, <2>4 DEF Hopeless, Clearable, CanRetry
  <2>6. Clearable(disk')
    BY <1>0, <2>1, <2>5
  <2>7. CASE pc' = "retrying"
    BY <2>1, <2>5, <2>6, <2>7 DEF ClearInvariant, Flying
  <2>8. CASE pc' = "top"
    BY <1>b, <2>1, <2>5, <2>8 DEF Hopeless
  <2> QED BY <2>1, <2>7, <2>8
<1>11. ASSUME NEW n \in Node, Dispatch(n)
       PROVE  /\ ClearInvariant'
              /\ resumes' # resumes => \A b \in run'.blockers : ~CanRetry(disk, b[1])
  <2>1. /\ run' = MarkActive(p, n) /\ disk' = run' /\ pc = "tasks" /\ n \in queue
        /\ pc' = "dispatched" /\ cur' = n /\ p.status[n] # "skipped" /\ resumes' = resumes
    BY <1>11 DEF Dispatch, AtTask, IsNext, Save, bounds, p
  <2>2. p.blockers = {} /\ run.status[n] \in Waiting
    BY <1>p, <2>1 DEF RunInvariant, PassIsSound, Listed
  <2>3. /\ run'.blockers = {}
        /\ \A m \in Node : run'.status[m] = IF m = n THEN "active" ELSE p.status[m]
    BY <1>p, <2>1, <2>2 DEF MarkActive, RunState
  <2>4. ASSUME n \in Debug PROVE run'.status[Root(n)] # "completed"
    <3>1. n \in OpenDebug(run)
      BY <2>2, <2>4 DEF OpenDebug, Waiting, Terminal
    <3>2. run.status[Root(n)] # "completed"
      BY <1>p, <2>1, <3>1 DEF Obsolete
    <3>3. Root(n) \in Node /\ Root(n) \in Task /\ Root(n) # n
      BY <2>4, NodeFacts
    <3> QED BY <1>p, <2>3, <3>2, <3>3
  <2>5. Clearable(run')
    BY <1>c, <2>3
  <2> QED BY <2>1, <2>4, <2>5 DEF ClearInvariant
<1>12. ASSUME NEW n \in Node, NEW c \in Controls, ObeyControl(n, c)
       PROVE  /\ ClearInvariant'
              /\ resumes' # resumes => \A b \in run'.blockers : ~CanRetry(disk, b[1])
  <2>1. disk' = run' /\ pc' = "stopped" /\ pc = "tasks" /\ resumes' = resumes
    <3>1. CASE c = "stop"
      BY <1>12, <3>1 DEF ObeyControl, AtTask, Save, Stop, bounds
    <3>2. CASE c # "stop"
      BY <1>12, <3>2 DEF ObeyControl, AtTask, Save, Stop, bounds
    <3> QED BY <3>1, <3>2
  <2>2. run' = p \/ run' = [p EXCEPT !.notices = @ \cup {"stop"}]
    BY <1>12 DEF ObeyControl, AtTask, Save, p
  <2>3. run'.blockers = {}
    BY <1>p, <2>1, <2>2 DEF RunInvariant, PassIsSound, RunState
  <2> QED BY <1>a, <1>c, <2>1, <2>3
<1>13. CASE TaskEnds
  <2>1. pc \in {"dispatched", "exited"}
    BY <1>13, TaskEndsTame
  <2>2. PICK s0 \in RunState : \E r : AfterTask(s0, r) /\ TameBut(run, s0, cur) /\ Told(s0, cur)
    BY <1>13, TaskEndsTame
  <2> DEFINE s == Prune(s0)
  <2>3. ASSUME NEW b \in s0.blockers PROVE b[1] \in Node \ Obsolete(s0)
    <3>1. b[1] \in Node /\ b[1] \in Task \cup {cur}
      BY <2>2 DEF Told, RunState
    <3>2. ASSUME b[1] \in Obsolete(s0) PROVE FALSE
      <4>1. b[1] \in Debug /\ b[1] \notin Task /\ s0.status[Root(b[1])] = "completed"
        BY <3>2, NodeFacts DEF Obsolete, OpenDebug
      <4>2. cur \in Debug /\ b[1] = cur /\ Root(cur) \in Task /\ Root(cur) # cur
        BY <3>1, <4>1, NodeFacts
      <4>3. run.status[Root(cur)] = "completed"
        BY <2>2, <4>1, <4>2 DEF TameBut, Terminal
      <4> QED BY <2>1, <4>2, <4>3 DEF ClearInvariant, Flying
    <3> QED BY <3>1, <3>2
  <2>4. s \in RunState /\ Clearable(s)
    BY <2>2, <2>3, PruneClear, RepairType DEF Told
  <2> HIDE DEF s
  <2>5. run.blockers = {}
    BY <2>1 DEF RunInvariant, PassIsSound
  <2>6. CASE /\ run' = s /\ disk' \in {disk, run'}
             /\ pc' \in {"stopped", "tasks"} /\ resumes' = resumes
    BY <1>a, <2>4, <2>6
  <2>7. CASE /\ s.blockers \subseteq run.blockers
             /\ \E score \in Scores :
                  run' = [CompleteRest(s) EXCEPT !.done = Evaluate(CompleteRest(s), score)]
             /\ disk' = run' /\ pc' = "stopped" /\ resumes' = resumes
    <3>1. run'.blockers = CompleteRest(s).blockers
      BY <2>4, <2>7, RepairType DEF RunState
    <3>2. CompleteRest(s).blockers = {}
      BY <2>4, <2>5, <2>7 DEF CompleteRest, RunState
    <3> QED BY <1>a, <1>c, <2>7, <3>1, <3>2
  <2> QED BY <2>2, <2>6, <2>7 DEF AfterTask, Save, Stop, bounds, s
<1>14. CASE Crash
  <2>1. run' = disk /\ disk' = disk /\ pc' = "crashed" /\ resumes' = resumes
    BY <1>14 DEF Crash
  <2> QED BY <1>0, <1>a, <2>1
<1>15. CASE Rerun
  BY <1>0, <1>15 DEF Rerun
<1>16. ASSUME NEW sel \in Selections, NEW preflight \in BOOLEAN, Resume(sel, preflight)
       PROVE  /\ ClearInvariant'
              /\ resumes' # resumes => \A b \in run'.blockers : ~CanRetry(disk, b[1])
  <2> DEFINE d == RecoverySource
             s == Prepare(d, {})
  <2>1. {} \in SUBSET Node /\ files \in [Node -> WorkerFile]
    BY DEF RunInvariant, TypeOK
  <2>2. /\ d \in RunState /\ d.status = disk.status /\ d.retries = disk.retries
        /\ d.blockers = disk.blockers
    <3>1. d \in RunState
      BY <1>0, <2>1, RecoveryType DEF RecoverySource
    <3> QED BY <1>0, <3>1 DEF RecoverySource, MergeWorkerFiles, RunState
  <2>3. Clearable(d)
    BY <1>0, <2>2 DEF Clearable, CanRetry
  <2>4. (\E x : run' \in {s, [s EXCEPT !.notices = x]}) /\ disk' = run'
        /\ pc' \in {"stopped", "top"}
    BY <1>16 DEF Resume, Save
  <2> HIDE DEF d
  <2>5. s \in RunState
    <3>1. [n \in Node |-> "none"] \in [Node -> WorkerFile]
      BY DEF WorkerFile
    <3> QED BY <2>1, <2>2, <3>1, RecoveryType
  <2>6. Hopeless(s) /\ \A b \in s.blockers : ~CanRetry(d, b[1])
    BY <2>2, <2>3, PrepareClear
  <2> HIDE DEF s
  <2>7. run'.retries = s.retries /\ run'.blockers = s.blockers
    BY <2>4, <2>5 DEF RunState
  <2>8. Hopeless(run') /\ \A b \in run'.blockers : ~CanRetry(disk, b[1])
    BY <2>2, <2>6, <2>7 DEF Hopeless, CanRetry
  <2>9. Clearable(run') /\ Clearable(disk')
    BY <2>4, <2>8 DEF Hopeless, Clearable
  <2> QED BY <2>4, <2>8, <2>9 DEF ClearInvariant, Flying, Hopeless
<1>17. CASE UNCHANGED vars
  BY <1>17 DEF vars, ClearInvariant, Clearable, Hopeless, CanRetry, Unrepaired, OpenDebug
<1> QED
  BY <1>1, <1>2, <1>3, <1>4, <1>5, <1>6, <1>7, <1>8, <1>9, <1>10, <1>11, <1>12, <1>13,
     <1>14, <1>15, <1>16, <1>17
     DEF Next, LoopStep, Control, Restart, TaskEnds

\* A recovery of all tasks leaves only blockers of tasks that have no attempt left (prepare,
\* _clear_recoverable_blockers).
THEOREM RecoveryClearsIt ==
  ASSUME Selections = {{}}, MaxReruns = 0
  PROVE  Spec => RecoveryClearsWhatItCan
<1>1. Init => ClearInvariant
  BY NodeFacts DEF Init, InitialRunState, ClearInvariant, Clearable, Hopeless, Flying
<1>2. RunInvariant /\ InFlight /\ OneRepair /\ ClearInvariant /\ [Next]_vars =>
        /\ ClearInvariant'
        /\ [resumes' # resumes => \A b \in run'.blockers : ~CanRetry(disk, b[1])]_vars
  BY ClearStep
<1> QED BY <1>1, <1>2, RepairHolds, PTL DEF Spec, RecoveryClearsWhatItCan

-----------------------------------------------------------------------------
(* How many passes a run can make.  Every pass that is followed by another   *)
(* one leaves a mark on some task that no later step takes back: an attempt  *)
(* counted, a debug node opened or closed, the task finished.                *)

Mark ==
  ({"attempt"} \X (1 .. MaxAttempts + 1)) \cup
  ({"opened", "closed"} \X (1 .. MaxAttempts - 1)) \cup {<<"finished", 0>>}

Marked(s, t, m) ==
  \/ m[1] = "attempt" /\ m[2] <= s.retries[t]
  \/ m[1] = "opened" /\ s.status[<<t, m[2]>>] # "absent"
  \/ m[1] = "closed" /\ s.status[<<t, m[2]>>] \in Terminal
  \/ m[1] = "finished" /\ s.status[t] \in Terminal

Happened(s) == {e \in Task \X Mark : Marked(s, e[1], e[2])}

PassBound == 3 * MaxAttempts * Cardinality(Task)

\* What happened in a has happened in b.
Further(a, b) ==
  /\ \A n \in Node : a.status[n] \in Terminal => b.status[n] \in Terminal
  /\ \A d \in Debug : a.status[d] # "absent" => b.status[d] # "absent"
  /\ \A t \in Task : a.retries[t] <= b.retries[t]

\* Something happened to n between a and b.
Gains(a, b, n) ==
  \/ a.status[n] \notin Terminal /\ b.status[n] \in Terminal
  \/ n \in Task /\ a.retries[n] < b.retries[n]
  \/ n \in Debug /\ a.status[n] = "absent" /\ b.status[n] # "absent"

\* A debug node is named after an attempt that failed; the debug node of the last failure
\* of a task that is still failed is yet to be made.
Numbered(s) ==
  /\ \A d \in Debug : s.status[d] # "absent" =>
       /\ 1 <= d[2] /\ d[2] <= s.retries[Root(d)]
       /\ s.status[Root(d)] = "failed" => d[2] < s.retries[Root(d)]
  /\ \A t \in Task : s.status[t] = "failed" => 1 <= s.retries[t]

\* Further, with no new debug node and no new failure.
Calm(a, b) ==
  /\ Further(a, b)
  /\ \A d \in Debug : b.status[d] # "absent" => a.status[d] # "absent"
  /\ \A t \in Task : b.status[t] = "failed" => a.status[t] = "failed"

LEMMA MarksAreFinite ==
  ASSUME IsFiniteSet(Task)
  PROVE  /\ IsFiniteSet(Task \X Mark) /\ Cardinality(Task \X Mark) = PassBound
         /\ PassBound \in Nat
<1> DEFINE attempts == {"attempt"} \X (1 .. MaxAttempts + 1)
           names    == {"opened", "closed"}
           repairs  == names \X (1 .. MaxAttempts - 1)
           finish   == {<<"finished", 0>>}
<1>0. MaxAttempts \in Nat /\ MaxAttempts >= 1
  BY LimitFacts
<1>1. \A k \in Nat : IsFiniteSet(1 .. k) /\ Cardinality(1 .. k) = k
  <2> SUFFICES ASSUME NEW k \in Nat PROVE IsFiniteSet(1 .. k) /\ Cardinality(1 .. k) = k
    OBVIOUS
  <2>1. IsFiniteSet(1 .. k) /\ Cardinality(1 .. k) = IF 1 > k THEN 0 ELSE k - 1 + 1
    BY FS_Interval
  <2> QED BY <2>1
<1>2. \A S, T : IsFiniteSet(S) /\ IsFiniteSet(T) =>
        IsFiniteSet(S \X T) /\ Cardinality(S \X T) = Cardinality(S) * Cardinality(T)
  BY FS_Product
<1>3. \A x : IsFiniteSet({x}) /\ Cardinality({x}) = 1
  BY FS_Singleton
<1>a. IsFiniteSet(finish) /\ Cardinality(finish) = 1
  BY <1>3
<1>b. IsFiniteSet(names) /\ Cardinality(names) = 2
  <2>1. IsFiniteSet({"opened"}) /\ Cardinality({"opened"}) = 1
    BY <1>3
  <2>2. "closed" \notin {"opened"} /\ names = {"opened"} \cup {"closed"}
    OBVIOUS
  <2> QED BY <2>1, <2>2, FS_AddElement
<1>4. IsFiniteSet(attempts) /\ Cardinality(attempts) = MaxAttempts + 1
  <2> DEFINE one == {"attempt"}
             all == 1 .. MaxAttempts + 1
  <2>1. IsFiniteSet(one) /\ Cardinality(one) = 1
    BY <1>3
  <2>2. IsFiniteSet(all) /\ Cardinality(all) = MaxAttempts + 1
    BY <1>0, <1>1
  <2> HIDE DEF one, all
  <2>3. IsFiniteSet(one \X all) /\ Cardinality(one \X all) = 1 * (MaxAttempts + 1)
    BY <1>2, <2>1, <2>2
  <2> QED BY <1>0, <2>3 DEF one, all
<1>5. IsFiniteSet(repairs) /\ Cardinality(repairs) = 2 * (MaxAttempts - 1)
  <2> DEFINE all == 1 .. MaxAttempts - 1
  <2>1. MaxAttempts - 1 \in Nat
    BY <1>0
  <2>2. IsFiniteSet(all) /\ Cardinality(all) = MaxAttempts - 1
    BY <1>1, <2>1
  <2> HIDE DEF all, names
  <2>3. IsFiniteSet(names \X all) /\ Cardinality(names \X all) = 2 * (MaxAttempts - 1)
    BY <1>2, <1>b, <2>2
  <2> QED BY <2>3 DEF all
<1>6. attempts \cap repairs = {} /\ (attempts \cup repairs) \cap finish = {}
  OBVIOUS
<1> HIDE DEF attempts, repairs, finish, names
<1>7. /\ IsFiniteSet(attempts \cup repairs)
      /\ Cardinality(attempts \cup repairs) = 3 * MaxAttempts - 1
  <2>1. /\ IsFiniteSet(attempts \cup repairs)
        /\ Cardinality(attempts \cup repairs) =
             Cardinality(attempts) + Cardinality(repairs) - Cardinality(attempts \cap repairs)
    BY <1>4, <1>5, FS_Union
  <2>2. Cardinality(attempts \cap repairs) = 0
    BY <1>6, FS_EmptySet
  <2> QED BY <1>0, <1>4, <1>5, <2>1, <2>2
<1>8. IsFiniteSet(Mark) /\ Cardinality(Mark) = 3 * MaxAttempts
  <2>1. Mark = attempts \cup repairs \cup finish
    BY DEF Mark, attempts, repairs, finish, names
  <2>2. /\ IsFiniteSet(attempts \cup repairs \cup finish)
        /\ Cardinality(attempts \cup repairs \cup finish) =
             Cardinality(attempts \cup repairs) + Cardinality(finish)
               - Cardinality((attempts \cup repairs) \cap finish)
    BY <1>a, <1>7, FS_Union
  <2>3. Cardinality((attempts \cup repairs) \cap finish) = 0
    BY <1>6, FS_EmptySet
  <2> QED BY <1>0, <1>a, <1>7, <2>1, <2>2, <2>3
<1>9. Cardinality(Task) \in Nat
  BY FS_CardinalityType
<1>10. /\ IsFiniteSet(Task \X Mark)
       /\ Cardinality(Task \X Mark) = Cardinality(Task) * (3 * MaxAttempts)
  BY <1>2, <1>8
<1> QED BY <1>0, <1>9, <1>10 DEF PassBound

LEMMA DebugFacts ==
  /\ \A d \in Debug : /\ d \in Node /\ Root(d) \in Task /\ d[2] \in 0 .. MaxAttempts - 1
                      /\ d = <<Root(d), d[2]>>
  /\ \A t \in Task : \A k \in 0 .. MaxAttempts - 1 :
       /\ <<t, k>> \in Debug /\ Root(<<t, k>>) = t /\ <<t, k>>[2] = k
<1>1. \A d \in Debug : d \notin Task /\ d \in Node /\ d[1] \in Task
                       /\ d[2] \in 0 .. MaxAttempts - 1 /\ d = <<d[1], d[2]>>
  BY NodeFacts DEF Debug
<1>2. \A t \in Task : \A k \in 0 .. MaxAttempts - 1 : <<t, k>> \in Debug
  BY DEF Debug
<1> QED BY <1>1, <1>2 DEF Root

\* Marks stay, and what a step gains is a mark more.
LEMMA MarksGrow ==
  ASSUME IsFiniteSet(Task), NEW a \in RunState, NEW b \in RunState, Further(a, b)
  PROVE  LET before == Cardinality(Happened(a))
             after  == Cardinality(Happened(b))
         IN  /\ before \in Nat /\ after \in Nat
             /\ before <= after /\ after <= PassBound
             /\ \A n \in Node : /\ Gains(a, b, n) /\ Numbered(b)
                                /\ n \in Task => b.retries[n] <= MaxAttempts + 1
                                => before + 1 <= after
<1>0. /\ a.retries \in [Node -> Nat] /\ b.retries \in [Node -> Nat]
      /\ MaxAttempts \in Nat /\ MaxAttempts >= 1
  BY LimitFacts DEF RunState
<1>1. Happened(a) \subseteq Happened(b)
  <2> SUFFICES ASSUME NEW e \in Happened(a) PROVE Marked(b, e[1], e[2])
    BY DEF Happened
  <2>1. e[1] \in Task /\ e[2] \in Mark /\ Marked(a, e[1], e[2])
    BY DEF Happened
  <2>2. PICK t \in Task, m \in Mark : e[1] = t /\ e[2] = m
    BY <2>1
  <2>3. CASE m[1] = "attempt"
    <3>1. m[2] \in Nat /\ m[2] <= a.retries[t]
      BY <1>0, <2>1, <2>2, <2>3 DEF Mark, Marked
    <3> QED BY <1>0, <2>2, <2>3, <3>1, NodeFacts DEF Further, Marked
  <2>4. CASE m[1] \in {"opened", "closed"}
    <3>1. m[2] \in 0 .. MaxAttempts - 1
      BY <1>0, <2>4 DEF Mark
    <3>2. <<t, m[2]>> \in Debug /\ <<t, m[2]>> \in Node
      BY <3>1, DebugFacts
    <3> QED BY <2>1, <2>2, <2>4, <3>2 DEF Further, Marked
  <2>5. CASE m[1] = "finished"
    BY <2>1, <2>2, <2>5, NodeFacts DEF Further, Marked
  <2>6. m[1] \in {"attempt", "opened", "closed", "finished"}
    BY DEF Mark
  <2> QED BY <2>3, <2>4, <2>5, <2>6
<1>2. /\ Happened(a) \in SUBSET (Task \X Mark) /\ Happened(b) \in SUBSET (Task \X Mark)
      /\ Happened(a) \in SUBSET Happened(b)
  BY <1>1 DEF Happened
<1>3. /\ IsFiniteSet(Happened(b)) /\ Cardinality(Happened(b)) <= PassBound
      /\ IsFiniteSet(Happened(a))
  BY <1>2, MarksAreFinite, FS_Subset
<1>4. /\ Cardinality(Happened(a)) <= Cardinality(Happened(b))
      /\ Cardinality(Happened(a)) = Cardinality(Happened(b)) => Happened(b) = Happened(a)
  BY <1>2, <1>3, FS_Subset
<1>5. Cardinality(Happened(a)) \in Nat /\ Cardinality(Happened(b)) \in Nat
  BY <1>3, FS_CardinalityType
<1>6. ASSUME NEW n \in Node, Gains(a, b, n), Numbered(b),
             n \in Task => b.retries[n] <= MaxAttempts + 1
      PROVE  \E e : e \in Happened(b) /\ e \notin Happened(a)
  <2>1. CASE n \in Task /\ a.retries[n] < b.retries[n]
    <3> DEFINE m == <<"attempt", b.retries[n]>>
               e == <<n, m>>
    <3>1. b.retries[n] \in 1 .. MaxAttempts + 1
      BY <1>0, <1>6, <2>1
    <3>2. m \in Mark
      BY <3>1 DEF Mark
    <3>3. e[1] = n /\ e[2] = m /\ m[1] = "attempt" /\ m[2] = b.retries[n]
      OBVIOUS
    <3> HIDE DEF m
    <3>4. e \in Task \X Mark
      BY <2>1, <3>2
    <3>5. Marked(b, n, m) /\ ~Marked(a, n, m)
      BY <1>0, <2>1, <3>1, <3>3 DEF Marked
    <3> HIDE DEF e
    <3> QED BY <3>3, <3>4, <3>5 DEF Happened
  <2>2. CASE /\ n \in Task
             /\ a.status[n] \notin Terminal /\ b.status[n] \in Terminal
    <3> DEFINE m == <<"finished", 0>>
               e == <<n, m>>
    <3>1. m \in Mark
      BY DEF Mark
    <3>2. e[1] = n /\ e[2] = m /\ m[1] = "finished"
      OBVIOUS
    <3> HIDE DEF m
    <3>3. e \in Task \X Mark
      BY <2>2, <3>1
    <3>4. Marked(b, n, m) /\ ~Marked(a, n, m)
      BY <2>2, <3>2 DEF Marked
    <3> HIDE DEF e
    <3> QED BY <3>2, <3>3, <3>4 DEF Happened
  <2>3. ASSUME n \in Debug, b.status[n] # "absent", NEW what \in {"opened", "closed"},
               what = "opened" => a.status[n] = "absent",
               what = "closed" => a.status[n] \notin Terminal /\ b.status[n] \in Terminal
        PROVE  \E e : e \in Happened(b) /\ e \notin Happened(a)
    <3> DEFINE t == Root(n)
               m == <<what, n[2]>>
               e == <<t, m>>
    <3>1. t \in Task /\ n = <<t, n[2]>> /\ n[2] \in 1 .. MaxAttempts - 1
      BY <1>0, <1>6, <2>3, DebugFacts DEF Numbered
    <3>2. m \in Mark
      BY <2>3, <3>1 DEF Mark
    <3>3. e[1] = t /\ e[2] = m /\ m[1] = what /\ m[2] = n[2]
      OBVIOUS
    <3> HIDE DEF m, t
    <3>4. e \in Task \X Mark
      BY <3>1, <3>2
    <3>5. Marked(b, t, m) /\ ~Marked(a, t, m)
      BY <2>3, <3>1, <3>3 DEF Marked
    <3> HIDE DEF e
    <3> QED BY <3>3, <3>4, <3>5 DEF Happened
  <2>4. CASE n \in Debug /\ a.status[n] = "absent" /\ b.status[n] # "absent"
    BY <2>3, <2>4
  <2>5. CASE n \in Debug /\ a.status[n] \notin Terminal /\ b.status[n] \in Terminal
    <3>1. b.status[n] # "absent"
      BY <2>5 DEF Terminal
    <3> QED BY <2>3, <2>5, <3>1
  <2> QED BY <1>6, <2>1, <2>2, <2>4, <2>5 DEF Gains, Node
<1>7. ASSUME NEW n \in Node, Gains(a, b, n), Numbered(b),
             n \in Task => b.retries[n] <= MaxAttempts + 1
      PROVE  Cardinality(Happened(a)) + 1 <= Cardinality(Happened(b))
  <2>1. Happened(b) # Happened(a)
    BY <1>6, <1>7
  <2> QED BY <1>4, <1>5, <2>1
<1> QED BY <1>3, <1>4, <1>5, <1>7

\* Only unfinished nodes change, none to failed or absent, and no debug node is new.
Milder(a, b) ==
  /\ \A n \in Node : b.status[n] = a.status[n]
                     \/ /\ a.status[n] \notin Terminal /\ b.status[n] \notin {"failed", "absent"}
                        /\ n \in Debug => a.status[n] # "absent"
  /\ \A t \in Task : a.retries[t] <= b.retries[t]

LEMMA MilderIsCalm ==
  ASSUME NEW a, NEW b, Milder(a, b)
  PROVE  Calm(a, b)
BY NodeFacts DEF Milder, Calm, Further, Terminal

LEMMA CalmKeepsNumbers ==
  ASSUME NEW a \in RunState, NEW b \in RunState, Calm(a, b), Numbered(a)
  PROVE  Numbered(b)
<1>1. /\ \A t \in Task : a.retries[t] \in Nat /\ b.retries[t] \in Nat
      /\ \A d \in Debug : Root(d) \in Task /\ d[2] \in Int
  BY NodeFacts, DebugFacts, LimitFacts DEF RunState
<1>2. ASSUME NEW d \in Debug, b.status[d] # "absent"
      PROVE  /\ 1 <= d[2] /\ d[2] <= b.retries[Root(d)]
             /\ b.status[Root(d)] = "failed" => d[2] < b.retries[Root(d)]
  <2>1. /\ 1 <= d[2] /\ d[2] <= a.retries[Root(d)]
        /\ a.status[Root(d)] = "failed" => d[2] < a.retries[Root(d)]
        /\ b.status[Root(d)] = "failed" => a.status[Root(d)] = "failed"
        /\ a.retries[Root(d)] <= b.retries[Root(d)]
    BY <1>1, <1>2 DEF Calm, Further, Numbered
  <2> QED BY <1>1, <2>1
<1>3. \A t \in Task : b.status[t] = "failed" => 1 <= b.retries[t]
  BY <1>1 DEF Calm, Further, Numbered
<1> QED BY <1>2, <1>3 DEF Numbered

LEMMA FurtherTrans ==
  ASSUME NEW a \in RunState, NEW b \in RunState, NEW c \in RunState, Further(b, c)
  PROVE  /\ Further(a, b) => Further(a, c)
         /\ \A n \in Node : Gains(a, b, n) => Gains(a, c, n)
<1>1. \A t \in Task : a.retries[t] \in Nat /\ b.retries[t] \in Nat /\ c.retries[t] \in Nat
  BY NodeFacts DEF RunState
<1>2. Further(a, b) => Further(a, c)
  BY <1>1 DEF Further
<1>3. ASSUME NEW n \in Node, Gains(a, b, n) PROVE Gains(a, c, n)
  <2>1. CASE a.status[n] \notin Terminal /\ b.status[n] \in Terminal
    BY <2>1 DEF Further, Gains
  <2>2. CASE n \in Task /\ a.retries[n] < b.retries[n]
    BY <1>1, <2>2 DEF Further, Gains
  <2>3. CASE n \in Debug /\ a.status[n] = "absent" /\ b.status[n] # "absent"
    BY <2>3 DEF Further, Gains
  <2> QED BY <1>3, <2>1, <2>2, <2>3 DEF Gains
<1> QED BY <1>2, <1>3

\* What the loop does between two attempts is calm.
LEMMA StepsAreCalm ==
  ASSUME NEW s \in RunState
  PROVE  /\ Calm(s, s) /\ Calm(s, Prune(s)) /\ Calm(s, MarkReady(s)) /\ Calm(s, Promote(s))
         /\ Calm(s, CompleteRest(s))
         /\ \A n \in Node : /\ Calm(s, RecordBlocker(s, n))
                            /\ s.status[n] \in Waiting => Calm(s, MarkActive(s, n))
         /\ \A sel \in SUBSET Node : Calm(s, Prepare(s, sel))
         /\ \A d \in OpenDebug(s) : Calm(s, Converge(s, d))
<1>0. /\ s.status \in [Node -> Status] /\ s.retries \in [Node -> Nat]
      /\ \A t \in Task : t \in Node /\ s.retries[t] \in Nat
  BY NodeFacts DEF RunState
<1>1. Milder(s, s)
  BY <1>0 DEF Milder
<1>2. Milder(s, Prune(s))
  <2>1. /\ Prune(s).retries = s.retries
        /\ \A n \in Node : Prune(s).status[n] = IF n \in Obsolete(s) THEN "skipped"
                                                ELSE s.status[n]
    BY DEF Prune, RunState
  <2>2. \A n \in Obsolete(s) : s.status[n] \notin Terminal \cup {"absent"}
    BY DEF Obsolete, OpenDebug
  <2> QED BY <1>0, <2>1, <2>2 DEF Milder
<1>3. Milder(s, MarkReady(s))
  <2>1. /\ MarkReady(s).retries = s.retries
        /\ \A n \in Node : MarkReady(s).status[n] = IF n \in ReadyTasks(s) THEN "ready"
                                                    ELSE s.status[n]
    BY DEF MarkReady, RunState
  <2>2. \A n \in ReadyTasks(s) : s.status[n] \notin Terminal \cup {"absent"}
    BY DEF ReadyTasks, Waiting, Terminal
  <2> QED BY <1>0, <2>1, <2>2 DEF Milder
<1>4. Milder(s, Promote(s))
  <2>1. /\ Promote(s).retries = s.retries
        /\ \A n \in Node : Promote(s).status[n] = IF n \in Promotable(s) THEN "completed"
                                                  ELSE s.status[n]
    BY DEF Promote, RunState
  <2>2. \A n \in Promotable(s) : s.status[n] \notin Terminal \cup {"absent"}
    BY DEF Promotable, Broken, Terminal
  <2> QED BY <1>0, <2>1, <2>2 DEF Milder
<1>5. Milder(s, CompleteRest(s))
  <2> DEFINE open == Exists(s) \ Finished(s)
  <2>1. /\ CompleteRest(s).retries = s.retries
        /\ \A n \in Node : CompleteRest(s).status[n] = IF n \in open THEN "completed"
                                                       ELSE s.status[n]
    BY DEF CompleteRest, RunState
  <2>2. \A n \in open : s.status[n] \notin Terminal \cup {"absent"}
    BY DEF Exists, Finished
  <2> HIDE DEF open
  <2> QED BY <1>0, <2>1, <2>2 DEF Milder
<1>6. ASSUME NEW n \in Node
      PROVE  /\ Milder(s, RecordBlocker(s, n))
             /\ s.status[n] \in Waiting => Milder(s, MarkActive(s, n))
  <2>1. RecordBlocker(s, n).status = s.status /\ RecordBlocker(s, n).retries = s.retries
    BY RecordPlain
  <2>2. /\ MarkActive(s, n).retries = s.retries
        /\ \A m \in Node : MarkActive(s, n).status[m] = IF m = n THEN "active" ELSE s.status[m]
    BY <1>0 DEF MarkActive, RunState
  <2> QED BY <1>0, <2>1, <2>2 DEF Milder, Waiting, Terminal
<1>7. ASSUME NEW sel \in SUBSET Node PROVE Milder(s, Prepare(s, sel))
  <2> DEFINE recon == Reconciled(s, sel)
             reset == ResetTasks(s, sel)
             p == Prepare(s, sel)
  <2>1. /\ \A n \in Node : p.status[n] = IF n \in recon THEN "completed"
                                         ELSE IF n \in reset THEN "pending" ELSE s.status[n]
        /\ \A n \in Node : p.retries[n] = IF n \in BlockedReset(s, sel) THEN s.retries[n] + 1
                                                                        ELSE s.retries[n]
    BY DEF Prepare, RunState
  <2>2. \A n \in recon \cup reset : s.status[n] \notin Terminal \cup {"absent"}
    BY DEF Reconciled, ResetTasks, BlockedReset, Waiting, Terminal
  <2> HIDE DEF recon, reset, p
  <2> QED BY <1>0, <2>1, <2>2 DEF Milder, p
<1>8. ASSUME NEW d \in OpenDebug(s) PROVE Milder(s, Converge(s, d))
  <2> DEFINE c == Converge(s, d)
             root == Root(d)
  <2>1. d \in Debug /\ d \in Node /\ root \in Node /\ root \in Task
    BY <1>8, NodeFacts DEF OpenDebug
  <2>2. /\ c.retries = s.retries /\ \A n \in Node \ {d, root} : c.status[n] = s.status[n]
        /\ c.status[d] = "skipped"
        /\ \/ c.status[root] = s.status[root]
           \/ s.status[root] \notin Terminal /\ c.status[root] \in {"blocked", "pending"}
    BY <2>1, ConvergeFacts
  <2>3. s.status[d] \notin Terminal \cup {"absent"}
    BY <1>8 DEF OpenDebug
  <2> HIDE DEF c
  <2>4. root \notin Debug
    BY <2>1, NodeFacts
  <2> QED BY <1>0, <2>1, <2>2, <2>3, <2>4 DEF Milder, c
<1> QED BY <1>1, <1>2, <1>3, <1>4, <1>5, <1>6, <1>7, <1>8, MilderIsCalm

\* A failed task that may be retried gets a debug node it never had.
LEMMA NewDebug ==
  ASSUME NEW s \in RunState, Numbered(s), NEW n \in Task, s.status[n] = "failed", CanRetry(s, n)
  PROVE  LET q == CreateDebugAndReset(s, n)
             d == <<n, s.retries[n]>>
         IN  /\ d \in Debug /\ d \in Node /\ Gains(s, q, d)
             /\ Further(s, q) /\ Numbered(q) /\ q.retries = s.retries
             /\ \A m \in Task \ {n} : q.status[m] = s.status[m]
<1> DEFINE q == CreateDebugAndReset(s, n)
           d == <<n, s.retries[n]>>
<1>0. /\ s.status \in [Node -> Status] /\ s.retries \in [Node -> Nat] /\ n \in Node
      /\ s.retries[n] \in 0 .. MaxAttempts - 1 /\ 1 <= s.retries[n]
  BY NodeFacts, LimitFacts DEF RunState, CanRetry, Numbered
<1>1. /\ d \in Debug /\ d \in Node /\ d # n /\ Root(d) = n /\ d[2] = s.retries[n]
      /\ d \notin Task
  BY <1>0, DebugFacts, NodeFacts
<1>2. s.status[d] = "absent"
  BY <1>0, <1>1 DEF Numbered
<1>3. /\ q.retries = s.retries
      /\ q.status = [s.status EXCEPT ![n] = "pending",
                                     ![d] = IF @ = "absent" THEN "pending" ELSE @]
  BY DEF CreateDebugAndReset, RunState
<1> HIDE DEF q, d
<1>4. /\ q.status[n] = "pending" /\ q.status[d] = "pending"
      /\ \A m \in Node \ {n, d} : q.status[m] = s.status[m]
  BY <1>0, <1>1, <1>2, <1>3
<1>5. Further(s, q)
  BY <1>0, <1>1, <1>2, <1>3, <1>4, NodeFacts DEF Further, Terminal
<1>6. Numbered(q)
  <2>1. ASSUME NEW e \in Debug, q.status[e] # "absent"
        PROVE  /\ 1 <= e[2] /\ e[2] <= q.retries[Root(e)]
               /\ q.status[Root(e)] = "failed" => e[2] < q.retries[Root(e)]
    <3>1. CASE e = d
      BY <1>0, <1>1, <1>3, <1>4, <3>1
    <3>2. CASE e # d
      <4>1. e # n /\ s.status[e] # "absent" /\ Root(e) \in Node /\ Root(e) # d
        BY <1>1, <1>4, <2>1, <3>2, NodeFacts
      <4>2. q.status[Root(e)] = "failed" => s.status[Root(e)] = "failed"
        BY <1>4, <4>1
      <4> QED BY <1>3, <4>1, <4>2 DEF Numbered
    <3> QED BY <3>1, <3>2
  <2>2. ASSUME NEW t \in Task, q.status[t] = "failed" PROVE 1 <= q.retries[t]
    <3>1. t \in Node /\ t # d /\ t # n
      BY <1>1, <1>4, <2>2, NodeFacts
    <3> QED BY <1>3, <1>4, <2>2, <3>1 DEF Numbered
  <2> QED BY <2>1, <2>2 DEF Numbered
<1>7. Gains(s, q, d)
  BY <1>1, <1>2, <1>4 DEF Gains
<1>8. \A m \in Task \ {n} : q.status[m] = s.status[m]
  BY <1>1, <1>4, NodeFacts
<1> QED BY <1>1, <1>3, <1>5, <1>6, <1>7, <1>8 DEF q, d

\* What failed leaves its marks: a task its attempt, a debug node its end.
LEMMA HandleAdvances ==
  ASSUME NEW s \in RunState, Numbered(s), NEW n \in Node, NEW r, s.status[n] = "failed"
  PROVE  LET h == HandleFailed(s, n, r) IN
         /\ h \in RunState /\ Further(s, h) /\ Numbered(h) /\ h.retries = s.retries
         /\ n \in Debug => h.status[n] \in Terminal
<1> DEFINE h == HandleFailed(s, n, r)
<1>0. h \in RunState /\ s.status \in [Node -> Status]
  BY HandleFailedType DEF RunState
<1>1. CASE n \in Debug
  <2>1. n \in OpenDebug(s)
    BY <1>1 DEF OpenDebug, Terminal
  <2>2. h = Converge(s, n)
    BY <1>1, <2>1, NodeFacts DEF HandleFailed
  <2>3. Calm(s, h) /\ h.retries = s.retries /\ h.status[n] = "skipped"
    BY <1>1, <2>1, <2>2, StepsAreCalm, ConvergeFacts
  <2> HIDE DEF h
  <2>4. Further(s, h) /\ Numbered(h)
    BY <1>0, <2>3, CalmKeepsNumbers DEF Calm
  <2> QED BY <1>0, <2>3, <2>4 DEF h, Terminal
<1>2. CASE n \in Task
  <2> DEFINE a == [s EXCEPT !.status[n] = "blocked"]
  <2>1. n \notin Debug
    BY <1>2, NodeFacts
  <2>2. \/ h = RecordBlocker(a, n) \/ h = RecordBlocker(s, n)
        \/ CanRetry(s, n) /\ h = CreateDebugAndReset(s, n)
    BY <1>2, <2>1 DEF HandleFailed
  <2>3. /\ a \in RunState /\ a.retries = s.retries
        /\ \A m \in Node : a.status[m] = IF m = n THEN "blocked" ELSE s.status[m]
    BY <1>0 DEF RunState, Status, Broken
  <2> HIDE DEF a, h
  <2>4. CASE CanRetry(s, n) /\ h = CreateDebugAndReset(s, n)
    <3>1. Further(s, h) /\ Numbered(h) /\ h.retries = s.retries
      BY <1>2, <2>4, NewDebug
    <3> QED BY <1>0, <2>1, <3>1 DEF h
  <2>5. CASE h = RecordBlocker(a, n) \/ h = RecordBlocker(s, n)
    <3>1. h.retries = s.retries /\ h.status \in {s.status, a.status}
      BY <2>3, <2>5, RecordPlain
    <3>2. Milder(s, h)
      BY <2>1, <2>3, <3>1, <1>0, NodeFacts DEF Milder, Terminal, RunState
    <3>3. Further(s, h) /\ Numbered(h)
      BY <1>0, <3>2, MilderIsCalm, CalmKeepsNumbers DEF h, Calm
    <3> QED BY <1>0, <2>1, <3>1, <3>3 DEF h
  <2> QED BY <2>2, <2>4, <2>5
<1> QED BY <1>1, <1>2 DEF Node

\* b is further than a, and n shows it unless something is blocked.
Shows(a, b, n) ==
  Further(a, b) /\ Numbered(b) /\ (b.blockers = {} => Gains(a, b, n))

\* A status change of an active node and the attempt it may count.
LEMMA MarkAdvances ==
  ASSUME NEW a \in RunState, NEW b \in RunState, NEW n \in Node, Numbered(a),
         a.status[n] = "active",
         \A m \in Node \ {n} : b.status[m] = a.status[m] /\ b.retries[m] = a.retries[m]
  PROVE  /\ b.status[n] \in Terminal /\ b.retries[n] = a.retries[n] => Shows(a, b, n)
         /\ b.status[n] = "blocked" /\ b.retries[n] = a.retries[n] /\ b.blockers # {}
              => Shows(a, b, n)
         /\ b.status[n] = "failed" /\ b.retries[n] = a.retries[n] + 1 =>
              /\ Further(a, b) /\ Numbered(b)
              /\ n \in Task => Gains(a, b, n)
<1>0. /\ a.retries \in [Node -> Nat] /\ b.retries \in [Node -> Nat]
      /\ \A t \in Task : t \in Node
      /\ "active" \notin Terminal
  BY NodeFacts DEF RunState, Terminal
<1>1. ASSUME b.status[n] \in Terminal \cup {"blocked"}, b.retries[n] = a.retries[n]
      PROVE  Further(a, b) /\ Numbered(b)
  <2>1. Milder(a, b)
    BY <1>0, <1>1 DEF Milder, Terminal
  <2> QED BY <2>1, MilderIsCalm, CalmKeepsNumbers DEF Calm
<1>2. ASSUME b.status[n] \in Terminal, b.retries[n] = a.retries[n] PROVE Shows(a, b, n)
  BY <1>0, <1>1, <1>2 DEF Shows, Gains
<1>3. ASSUME b.status[n] = "blocked", b.retries[n] = a.retries[n], b.blockers # {}
      PROVE  Shows(a, b, n)
  BY <1>1, <1>3 DEF Shows
<1>4. ASSUME b.status[n] = "failed", b.retries[n] = a.retries[n] + 1
      PROVE  Further(a, b) /\ Numbered(b) /\ (n \in Task => Gains(a, b, n))
  <2>1. Further(a, b)
    BY <1>0, <1>4, NodeFacts DEF Further
  <2>2. n \in Task => Gains(a, b, n)
    BY <1>0, <1>4 DEF Gains
  <2>3. ASSUME NEW d \in Debug, b.status[d] # "absent"
        PROVE  /\ 1 <= d[2] /\ d[2] <= b.retries[Root(d)]
               /\ b.status[Root(d)] = "failed" => d[2] < b.retries[Root(d)]
    <3>1. d \in Node /\ Root(d) \in Node /\ Root(d) \in Task /\ d[2] \in Int
      BY NodeFacts, DebugFacts
    <3>2. a.status[d] # "absent"
      BY <1>4, <2>3, <3>1
    <3>3. /\ 1 <= d[2] /\ d[2] <= a.retries[Root(d)]
          /\ a.status[Root(d)] = "failed" => d[2] < a.retries[Root(d)]
      BY <3>2 DEF Numbered
    <3>4. CASE Root(d) = n
      BY <1>0, <1>4, <3>1, <3>3, <3>4
    <3>5. CASE Root(d) # n
      BY <3>1, <3>3, <3>5
    <3> QED BY <3>4, <3>5
  <2>4. ASSUME NEW t \in Task, b.status[t] = "failed" PROVE 1 <= b.retries[t]
    BY <1>0, <1>4, <2>4 DEF Numbered
  <2> QED BY <2>1, <2>2, <2>3, <2>4 DEF Numbered
<1> QED BY <1>2, <1>3, <1>4

LEMMA ApplyAdvances ==
  ASSUME NEW s \in RunState, Numbered(s), NEW n \in Node, NEW r \in Evidence,
         s.status[n] = "active"
  PROVE  Shows(s, ApplyResult(s, n, r), n)
<1> DEFINE c == MarkCompleted(s, n, r)
           b == MarkBlocked(s, n, r)
           f == MarkFailed(s, n, r)
<1>0. /\ s.status \in [Node -> Status] /\ s.retries \in [Node -> Nat]
      /\ c \in RunState /\ b \in RunState /\ f \in RunState
  BY MarkType DEF RunState
<1>1. Shows(s, c, n)
  <2>1. /\ c.status = [s.status EXCEPT ![n] = "completed"] /\ c.retries = s.retries
    BY DEF MarkCompleted, RunState
  <2> HIDE DEF c
  <2>2. /\ c.status[n] \in Terminal
        /\ \A m \in Node : m # n => c.status[m] = s.status[m]
    BY <1>0, <2>1 DEF Terminal
  <2> QED BY <1>0, <2>1, <2>2, MarkAdvances
<1>2. Shows(s, RecordBlocker(b, n), n)
  <2> DEFINE q == RecordBlocker(b, n)
  <2>1. b.status = [s.status EXCEPT ![n] = "blocked"] /\ b.retries = s.retries
    BY DEF MarkBlocked, RunState
  <2> HIDE DEF b
  <2>2. q \in RunState /\ q.status = b.status /\ q.retries = b.retries /\ q.blockers # {}
    <3>1. q \in RunState
      BY <1>0, MarkType DEF Evidence
    <3>2. q.status = b.status /\ q.retries = b.retries /\ \E x \in q.blockers : x[1] = n
      BY <1>0, RecordPlain
    <3> QED BY <3>1, <3>2
  <2> HIDE DEF q
  <2>3. /\ q.status[n] = "blocked" /\ q.retries[n] = s.retries[n]
        /\ \A m \in Node \ {n} : q.status[m] = s.status[m] /\ q.retries[m] = s.retries[m]
    BY <1>0, <2>1, <2>2
  <2> QED BY <2>2, <2>3, MarkAdvances DEF q
<1>3. Shows(s, HandleFailed(f, n, r), n)
  <2> DEFINE h == HandleFailed(f, n, r)
  <2>1. /\ f.status = [s.status EXCEPT ![n] = "failed"]
        /\ f.retries = [s.retries EXCEPT ![n] = @ + 1]
    BY DEF MarkFailed, RunState
  <2> HIDE DEF f
  <2>2. /\ f.status[n] = "failed" /\ f.retries[n] = s.retries[n] + 1
        /\ \A m \in Node \ {n} : f.status[m] = s.status[m] /\ f.retries[m] = s.retries[m]
    BY <1>0, <2>1
  <2>3. Further(s, f) /\ Numbered(f) /\ (n \in Task => Gains(s, f, n))
    BY <1>0, <2>2, MarkAdvances
  <2>4. /\ h \in RunState /\ Further(f, h) /\ Numbered(h)
        /\ n \in Debug => h.status[n] \in Terminal
    BY <1>0, <2>2, <2>3, HandleAdvances
  <2> HIDE DEF h
  <2>5. Further(s, h) /\ (n \in Task => Gains(s, h, n))
    BY <1>0, <2>3, <2>4, FurtherTrans
  <2>6. n \in Debug => Gains(s, h, n)
    BY <2>4 DEF Gains, Terminal
  <2> QED BY <2>4, <2>5, <2>6 DEF Shows, Node, h
<1>4. ApplyResult(s, n, r) \in {c, RecordBlocker(b, n), HandleFailed(f, n, r)}
  BY DEF ApplyResult
<1> HIDE DEF c, b, f
<1> QED BY <1>1, <1>2, <1>3, <1>4

\* Every end of a task shows on the task, unless it blocks something.
LEMMA TaskEndsAdvances ==
  ASSUME RunInvariant, TaskEnds, Numbered(run)
  PROVE  /\ pc \in {"dispatched", "exited"}
         /\ \E s0 \in RunState : \E r : AfterTask(s0, r) /\ Shows(run, s0, cur)
<1>0. /\ run \in RunState /\ cur \in Node /\ run.status[cur] = "active"
      /\ pc \in {"dispatched", "exited"} /\ result \in WorkerResult \cup {"none"}
      /\ run.status \in [Node -> Status] /\ run.retries \in [Node -> Nat]
  BY DEF RunInvariant, TypeOK, PassIsSound, TaskEnds, RecordResult, Review, Inspect, Release,
         RunState
<1>1. CASE RecordResult
  <2> DEFINE s == [run EXCEPT !.proven = @ \ {cur}]
  <2>1. result \in Evidence /\ AfterTask(ApplyResult(s, cur, result), result)
    BY <1>0, <1>1 DEF RecordResult, Evidence
  <2>2. s \in RunState /\ s.status = run.status /\ s.retries = run.retries
    BY <1>0 DEF RunState
  <2> HIDE DEF s
  <2>3. Numbered(s)
    BY <2>2 DEF Numbered
  <2>4. ApplyResult(s, cur, result) \in RunState /\ Shows(s, ApplyResult(s, cur, result), cur)
    BY <1>0, <2>1, <2>2, <2>3, ApplyType, ApplyAdvances
  <2> QED BY <1>0, <2>1, <2>2, <2>4 DEF Shows, Further, Gains
<1>2. CASE Review
  <2> DEFINE r == IF ReviewPasses(run, cur) THEN "passed" ELSE "failed"
  <2>1. AfterTask(ApplyResult(run, cur, r), r)
    BY <1>2 DEF Review
  <2>2. r \in Evidence
    BY DEF Evidence, WorkerResult
  <2> HIDE DEF r
  <2> QED BY <1>0, <2>1, <2>2, ApplyType, ApplyAdvances
<1>3. ASSUME NEW r \in {"passed", "failed", "skipped"}, Inspect(r)
      PROVE  \E s0 \in RunState : \E q : AfterTask(s0, q) /\ Shows(run, s0, cur)
  <2>1. CASE r = "skipped"
    <3> DEFINE c == MarkSkipped(run, cur)
    <3>1. AfterTask(c, r)
      BY <1>3, <2>1 DEF Inspect
    <3>2. c \in RunState
      BY <1>0, MarkType DEF Evidence
    <3>3. c.status = [run.status EXCEPT ![cur] = "skipped"] /\ c.retries = run.retries
      BY <1>0 DEF MarkSkipped, RunState
    <3> HIDE DEF c
    <3>4. /\ c.status[cur] \in Terminal
          /\ \A m \in Node \ {cur} : c.status[m] = run.status[m]
      BY <1>0, <3>3 DEF Terminal
    <3>5. Shows(run, c, cur)
      BY <1>0, <3>2, <3>3, <3>4, MarkAdvances
    <3> QED BY <3>1, <3>2, <3>5
  <2>2. CASE r # "skipped"
    <3>1. AfterTask(ApplyResult(run, cur, r), r) /\ r \in Evidence
      BY <1>3, <2>2 DEF Inspect, Evidence, WorkerResult
    <3> QED BY <1>0, <3>1, ApplyType, ApplyAdvances
  <2> QED BY <2>1, <2>2
<1>4. ASSUME NEW g \in ReleaseOutcomes, Release(g)
      PROVE  \E s0 \in RunState : \E q : AfterTask(s0, q) /\ Shows(run, s0, cur)
  <2> DEFINE s == [run EXCEPT !.github = (g # "failed")]
             c == [s EXCEPT !.status[cur] = "completed", !.last[cur] = "weak"]
             b == RecordBlocker(MarkBlocked(s, cur, "weak"), cur)
             f == MarkFailed(s, cur, "failed")
  <2>0. cur \in Task /\ (AfterTask(c, "release") \/ AfterTask(b, "release")
                         \/ AfterTask(f, "release"))
    BY <1>4, LoopAssumption DEF Release
  <2>1. s \in RunState /\ s.status = run.status /\ s.retries = run.retries
    BY <1>0 DEF RunState
  <2> HIDE DEF s
  <2>2. /\ c \in RunState /\ c.retries = s.retries
        /\ c.status = [s.status EXCEPT ![cur] = "completed"]
    BY <1>0, <2>1 DEF RunState, Status, Terminal, Evidence, WorkerResult
  <2>3. b \in RunState /\ b.retries = s.retries /\ b.blockers # {}
        /\ b.status = [s.status EXCEPT ![cur] = "blocked"]
    <3> DEFINE m == MarkBlocked(s, cur, "weak")
    <3>1. m \in RunState
      BY <1>0, <2>1, MarkType DEF Evidence, WorkerResult
    <3>2. m.retries = s.retries /\ m.status = [s.status EXCEPT ![cur] = "blocked"]
      BY <1>0, <2>1 DEF MarkBlocked, RunState
    <3> HIDE DEF m
    <3>3. RecordBlocker(m, cur) \in RunState
      BY <1>0, <3>1, MarkType DEF Evidence
    <3>4. /\ RecordBlocker(m, cur).status = m.status /\ RecordBlocker(m, cur).retries = m.retries
          /\ \E x \in RecordBlocker(m, cur).blockers : x[1] = cur
      BY <1>0, <3>1, RecordPlain
    <3> QED BY <3>2, <3>3, <3>4 DEF m
  <2>4. f \in RunState /\ f.retries = [s.retries EXCEPT ![cur] = @ + 1]
        /\ f.status = [s.status EXCEPT ![cur] = "failed"]
    <3>1. f \in RunState
      BY <1>0, <2>1, MarkType DEF Evidence, WorkerResult
    <3> QED BY <1>0, <2>1, <3>1 DEF MarkFailed, RunState
  <2> HIDE DEF c, b, f
  <2>5. Shows(run, c, cur)
    BY <1>0, <2>1, <2>2, MarkAdvances DEF Terminal
  <2>6. Shows(run, b, cur)
    BY <1>0, <2>1, <2>3, MarkAdvances
  <2>7. Shows(run, f, cur)
    BY <1>0, <2>0, <2>1, <2>4, MarkAdvances DEF Shows
  <2> QED BY <2>0, <2>2, <2>3, <2>4, <2>5, <2>6, <2>7
<1> QED BY <1>0, <1>1, <1>2, <1>3, <1>4 DEF TaskEnds

\* A pass that has begun and not shown its result yet.
Pace == IF pc = "top" \/ (pc = "tasks" /\ queue = {}) THEN 0 ELSE 1

\* The passes of a run are no more than what happened, and the one under way.
Paced ==
  /\ Numbered(run) /\ Numbered(disk)
  /\ iteration <= PassBound + 1
  /\ pc = "retrying" => \A n \in queue : run.status[n] = "failed" /\ CanRetry(run, n)
  /\ pc \notin {"stopped", "crashed"} => iteration <= Cardinality(Happened(run)) + Pace

LEMMA PacedStep ==
  ASSUME IsFiniteSet(Task)
  PROVE  RunInvariant /\ BothPlain /\ Paced /\ [Next]_vars => Paced'
<1> SUFFICES ASSUME RunInvariant, BothPlain, Paced, [Next]_vars PROVE Paced'
  OBVIOUS
<1> DEFINE h == Cardinality(Happened(run))
           k == Cardinality(Happened(run'))
           p == Prune(run)
           live == pc \notin {"stopped", "crashed"}
<1>0. /\ run \in RunState /\ disk \in RunState /\ run' \in RunState /\ disk' \in RunState
      /\ iteration \in Nat /\ PassBound \in Nat /\ queue \subseteq Node
      /\ Numbered(run) /\ Numbered(disk) /\ iteration <= PassBound + 1
      /\ live => iteration <= h + Pace
      /\ Pace \in {0, 1} /\ Pace' \in {0, 1}
  <2>1. TypeOK /\ TypeOK'
    BY InvariantStep DEF RunInvariant
  <2> QED BY <2>1, MarksAreFinite, LoopAssumption DEF Paced, TypeOK, Pace
<1>1. \A t \in Task : run'.retries[t] <= MaxAttempts + 1
  <2>1. BothPlain'
    BY PlainStep
  <2>2. \A t \in Task : run'.retries[t] <= Limit'
    BY <2>1 DEF BothPlain, Plain, Counted
  <2>3. Limit' \in {MaxAttempts, MaxAttempts + 1}
    BY DEF Limit
  <2>4. \A t \in Task : run'.retries[t] \in Nat
    BY <1>0, NodeFacts DEF RunState
  <2> QED BY <2>2, <2>3, <2>4, LimitFacts
<1>p. p \in RunState /\ Calm(run, p) /\ Further(run, p) /\ Numbered(p)
  <2>1. p \in RunState /\ Calm(run, p)
    BY <1>0, RepairType, StepsAreCalm
  <2> QED BY <1>0, <2>1, CalmKeepsNumbers DEF Calm
<1>m. ASSUME Further(run, run'), Numbered(run')
      PROVE  /\ h \in Nat /\ k \in Nat /\ h <= k /\ k <= PassBound
             /\ \A n \in Node : Gains(run, run', n) => h + 1 <= k
  BY <1>0, <1>1, <1>m, MarksGrow
<1> HIDE DEF p
\* Calm steps may only change the flags besides.
<1>f. ASSUME NEW s \in RunState, Further(run, s), Numbered(s),
             run'.status = s.status, run'.retries = s.retries
      PROVE  Further(run, run') /\ Numbered(run')
  BY <1>f DEF Further, Numbered
<1>k. ASSUME NEW s \in RunState, Numbered(s), NEW c \in RunState, Calm(s, c), Further(run, s)
      PROVE  Further(run, c) /\ Numbered(c)
  BY <1>0, <1>k, CalmKeepsNumbers, FurtherTrans DEF Calm
<1>z. h \in Nat /\ k \in Nat
  <2>1. Further(run, run) /\ Further(run', run')
    BY <1>0, StepsAreCalm DEF Calm
  <2> QED BY <1>0, <2>1, MarksGrow
\* At the start of a run.
<1>n. 0 <= k + Pace' /\ 0 <= PassBound + 1
  <2>1. Pace' \in Nat /\ PassBound \in Nat /\ k \in Nat
    BY <1>0, <1>z
  <2>2. \A x, y, z \in Nat : 0 <= x + y /\ 0 <= z + 1
    OBVIOUS
  <2> QED BY <2>1, <2>2
\* The run stops, within a pass or at the head of one.
<1>s. ASSUME Further(run, run'), Numbered(run'), Numbered(disk'), pc' \in {"stopped", "crashed"},
             iteration' = iteration \/ (pc = "top" /\ iteration' = iteration + 1)
      PROVE  Paced'
  <2>1. h <= PassBound
    BY <1>0, <1>m, <1>s
  <2>2. pc = "top" => Pace = 0 /\ live
    BY DEF Pace
  <2>3. iteration' <= PassBound + 1
    BY <1>0, <1>z, <1>s, <2>1, <2>2
  <2> QED BY <1>s, <2>3 DEF Paced
\* The run goes on: within a pass, into the tasks of one, or with a result.
<1>c. ASSUME live, Further(run, run'), Numbered(run'), Numbered(disk'), pc' # "retrying",
             \/ iteration' = iteration /\ Pace <= Pace'
             \/ Pace = 0 /\ iteration' = iteration + 1 /\ Pace' = 1
             \/ /\ \E n \in Node : Gains(run, run', n)
                /\ iteration' = iteration \/ (Pace = 0 /\ iteration' = iteration + 1)
      PROVE  Paced'
  <2>1. /\ h \in Nat /\ k \in Nat /\ h <= k /\ k <= PassBound
        /\ \A n \in Node : Gains(run, run', n) => h + 1 <= k
    BY <1>c, <1>m
  <2>2. iteration' <= k + Pace' /\ iteration' <= PassBound + 1
    BY <1>0, <1>c, <2>1
  <2> QED BY <1>c, <2>2 DEF Paced
<1> HIDE DEF h, k
<1>2. CASE ConvergeChains
  <2>1. PICK d \in UnproductiveDebug(run) : run' = Converge(run, d)
    BY <1>2 DEF ConvergeChains
  <2>2. /\ disk' \in {disk, run'} /\ iteration' = iteration /\ pc = "top" /\ pc' = "top"
    BY <1>2 DEF ConvergeChains
  <2>3. d \in OpenDebug(run)
    BY DEF UnproductiveDebug
  <2>4. Calm(run, run') /\ Further(run, run')
    BY <1>0, <2>1, <2>3, StepsAreCalm DEF Calm
  <2>5. Numbered(run')
    BY <1>0, <2>4, CalmKeepsNumbers
  <2>6. Pace <= Pace' /\ live
    BY <2>2 DEF Pace
  <2>7. Numbered(disk')
    BY <1>0, <2>2, <2>5
  <2> QED BY <1>c, <2>2, <2>4, <2>5, <2>6, <2>7
<1>3. CASE PassDone \/ PassBlocked \/ PassIdle
  <2>1. /\ run' = p \/ run' = [p EXCEPT !.done = TRUE]
        /\ disk' = run' /\ pc' = "stopped" /\ pc = "top" /\ iteration' = iteration + 1
    BY <1>3 DEF PassDone, PassBlocked, PassIdle, PassStarts, Save, Stop, p
  <2>2. run'.status = p.status /\ run'.retries = p.retries
    BY <1>p, <2>1 DEF RunState
  <2>3. Further(run, run') /\ Numbered(run')
    BY <1>p, <1>f, <2>2
  <2> QED BY <1>s, <2>1, <2>3
<1>4. CASE PassPromotes
  <2>1. /\ run' = Promote(p) /\ disk' = run' /\ pc' = "top" /\ pc = "top"
        /\ iteration' = iteration + 1 /\ Promotable(p) # {}
    BY <1>4 DEF PassPromotes, PassStarts, Save, p
  <2>2. Calm(p, run')
    BY <1>p, <2>1, StepsAreCalm
  <2>3. Further(run, run') /\ Numbered(run')
    BY <1>0, <1>k, <1>p, <2>2
  <2>4. PICK t \in Promotable(p) : TRUE
    BY <2>1
  <2>5. t \in Node /\ p.status[t] \in Broken /\ run'.status[t] = "completed" /\ t \in Task
    BY <1>p, <2>1, <2>4, NodeFacts DEF Promotable, Promote, RunState
  <2>6. run.status[t] \notin Terminal
    BY <1>p, <2>5 DEF Further, Broken, Terminal
  <2>7. Gains(run, run', t)
    BY <2>5, <2>6 DEF Gains, Terminal
  <2>8. live /\ Pace = 0
    BY <2>1 DEF Pace
  <2> QED BY <1>c, <2>1, <2>3, <2>5, <2>7, <2>8
<1>5. CASE PassRetries
  <2>1. /\ run' = p /\ disk' \in {disk, p} /\ pc' = "retrying" /\ pc = "top"
        /\ iteration' = iteration + 1 /\ queue' = RetryableFailures(p)
    BY <1>5 DEF PassRetries, PassStarts, p
  <2>2. h <= k /\ k <= PassBound
    BY <1>m, <1>p, <2>1
  <2>3. iteration <= h /\ Pace' = 1
    BY <1>0, <1>z, <2>1 DEF Pace
  <2>4. iteration' <= k + Pace' /\ iteration' <= PassBound + 1
    BY <1>0, <1>z, <2>1, <2>2, <2>3
  <2>5. \A n \in queue' : run'.status[n] = "failed" /\ CanRetry(run', n)
    BY <2>1 DEF RetryableFailures
  <2> QED BY <1>0, <1>p, <2>1, <2>4, <2>5 DEF Paced, k, CanRetry
<1>6. CASE PassSelects
  <2>1. /\ run' = MarkReady(p) /\ disk' \in {disk, p} /\ pc' = "tasks" /\ pc = "top"
        /\ iteration' = iteration + 1 /\ queue' # {}
    BY <1>6 DEF PassSelects, PassStarts, p
  <2>2. Calm(p, run')
    BY <1>p, <2>1, StepsAreCalm
  <2>3. Further(run, run') /\ Numbered(run') /\ Numbered(disk')
    BY <1>0, <1>k, <1>p, <2>1, <2>2
  <2>4. live /\ Pace = 0 /\ Pace' = 1
    BY <2>1 DEF Pace
  <2> QED BY <1>c, <2>1, <2>3, <2>4
<1>7. CASE IterationLimit
  <2>1. run' = run /\ disk' = run' /\ pc' = "stopped" /\ iteration' = iteration
    BY <1>7 DEF IterationLimit, Save, Stop
  <2>2. Further(run, run')
    BY <1>0, <2>1, StepsAreCalm DEF Calm
  <2> QED BY <1>0, <1>s, <2>1, <2>2
<1>8. CASE LaunchWorker \/ (\E r \in WorkerResult : WorkerExits(r))
  <2>1. /\ run' = run /\ disk' = disk /\ iteration' = iteration
        /\ pc \in {"dispatched", "running"} /\ pc' \in {"running", "exited"}
    BY <1>8 DEF LaunchWorker, WorkerExits
  <2>2. Further(run, run') /\ live /\ Pace <= Pace'
    BY <1>0, <2>1, StepsAreCalm DEF Calm, Pace
  <2> QED BY <1>0, <1>c, <2>1, <2>2
<1>9. CASE PassEnds
  <2>1. PICK score \in Scores : /\ run' = [run EXCEPT !.done = Evaluate(run, score)]
                                /\ disk' = run'
    BY <1>9 DEF PassEnds, Save
  <2>2. /\ pc' \in {"top", "stopped"} /\ pc = "tasks" /\ queue = {} /\ iteration' = iteration
    BY <1>9 DEF PassEnds
  <2>3. run'.status = run.status /\ run'.retries = run.retries
    BY <1>0, <2>1 DEF RunState
  <2>4. Further(run, run)
    BY <1>0, StepsAreCalm DEF Calm
  <2>5. Further(run, run') /\ Numbered(run')
    BY <1>0, <1>f, <2>3, <2>4
  <2>6. live /\ Pace = 0
    BY <2>2 DEF Pace
  <2>7. CASE pc' = "stopped"
    BY <1>s, <2>1, <2>2, <2>5, <2>7
  <2>8. CASE pc' = "top"
    <3>1. Pace <= Pace'
      BY <1>0, <2>6
    <3> QED BY <1>c, <2>1, <2>2, <2>5, <2>6, <2>8, <3>1
  <2> QED BY <2>2, <2>7, <2>8
<1>10. ASSUME NEW n \in Node, RetryFailure(n) PROVE Paced'
  <2>1. /\ run' = HandleFailed(run, n, "failed") /\ disk' \in {disk, run'}
        /\ pc = "retrying" /\ pc' \in {"retrying", "top"} /\ n \in queue
        /\ queue' = queue \ {n} /\ iteration' = iteration
    BY <1>10 DEF RetryFailure
  <2>2. /\ n \in Task /\ n \notin Debug /\ run.status[n] = "failed" /\ CanRetry(run, n)
        /\ \A m \in queue : m \in Task /\ run.status[m] = "failed" /\ CanRetry(run, m)
    BY <2>1, NodeFacts DEF RunInvariant, PassIsSound, Paced
  <2>3. run' = CreateDebugAndReset(run, n)
    BY <2>1, <2>2 DEF HandleFailed, Environment
  <2>4. PICK d \in Debug : d \in Node /\ Gains(run, run', d)
    BY <1>0, <2>2, <2>3, NewDebug
  <2>5. /\ Further(run, run') /\ Numbered(run') /\ run'.retries = run.retries
        /\ \A m \in Task \ {n} : run'.status[m] = run.status[m]
    BY <1>0, <2>2, <2>3, NewDebug
  <2>6. Numbered(disk') /\ live
    BY <1>0, <2>1, <2>5
  <2>7. CASE pc' = "top"
    BY <1>c, <2>1, <2>4, <2>5, <2>6, <2>7
  <2>8. CASE pc' = "retrying"
    <3>1. h <= k /\ k <= PassBound
      BY <1>m, <2>5
    <3>2. Pace' = 1
      BY <2>8 DEF Pace
    <3>3. iteration' <= k + Pace' /\ iteration' <= PassBound + 1
      BY <1>0, <1>z, <2>1, <2>6, <3>1, <3>2
    <3>4. \A m \in queue' : run'.status[m] = "failed" /\ CanRetry(run', m)
      BY <2>1, <2>2, <2>5 DEF CanRetry
    <3> QED BY <2>5, <2>6, <3>3, <3>4 DEF Paced, k, CanRetry
  <2> QED BY <2>1, <2>7, <2>8
<1>11. ASSUME NEW n \in Node, Dispatch(n) PROVE Paced'
  <2>1. /\ run' = MarkActive(p, n) /\ disk' = run' /\ pc = "tasks" /\ n \in queue
        /\ pc' = "dispatched" /\ p.status[n] # "skipped" /\ iteration' = iteration
    BY <1>11 DEF Dispatch, AtTask, IsNext, Save, p
  <2>2. p.status[n] \in Waiting
    <3>1. run.status[n] \in Waiting \cup {"skipped"}
      BY <2>1 DEF RunInvariant, PassIsSound, Listed
    <3>2. p.status[n] \in {run.status[n], "skipped"}
      BY <1>0, PruneSound DEF RunInvariant, p
    <3> QED BY <2>1, <3>1, <3>2
  <2>3. Calm(p, run')
    BY <1>p, <2>1, <2>2, StepsAreCalm
  <2>4. Further(run, run') /\ Numbered(run')
    BY <1>0, <1>k, <1>p, <2>3
  <2>5. live /\ Pace <= Pace'
    BY <1>0, <2>1 DEF Pace
  <2> QED BY <1>c, <2>1, <2>4, <2>5
<1>12. ASSUME NEW n \in Node, NEW c \in Controls, ObeyControl(n, c) PROVE Paced'
  <2>1. disk' = run' /\ pc' = "stopped" /\ iteration' = iteration
    <3>1. CASE c = "stop"
      BY <1>12, <3>1 DEF ObeyControl, AtTask, Save, Stop
    <3>2. CASE c # "stop"
      BY <1>12, <3>2 DEF ObeyControl, AtTask, Save, Stop
    <3> QED BY <3>1, <3>2
  <2>2. run' = p \/ run' = [p EXCEPT !.notices = @ \cup {"stop"}]
    BY <1>12 DEF ObeyControl, AtTask, Save, p
  <2>3. run'.status = p.status /\ run'.retries = p.retries
    BY <1>p, <2>2 DEF RunState
  <2>4. Further(run, run') /\ Numbered(run')
    BY <1>f, <1>p, <2>3
  <2> QED BY <1>s, <2>1, <2>4
<1>13. CASE TaskEnds
  <2>1. pc \in {"dispatched", "exited"} /\ run.blockers = {} /\ live /\ Pace = 1
    <3>1. pc \in {"dispatched", "exited"}
      BY <1>0, <1>13, TaskEndsAdvances
    <3> QED BY <3>1 DEF RunInvariant, PassIsSound, Pace
  <2>2. PICK s0 \in RunState : \E r : AfterTask(s0, r) /\ Shows(run, s0, cur)
    BY <1>0, <1>13, TaskEndsAdvances
  <2> DEFINE s == Prune(s0)
  <2>3. s \in RunState /\ Calm(s0, s) /\ s.blockers = s0.blockers
    BY <2>2, RepairType, StepsAreCalm DEF Prune, RunState
  <2> HIDE DEF s
  <2>4. Further(run, s) /\ Numbered(s) /\ (s.blockers = {} => Gains(run, s, cur))
    <3>1. Further(run, s0) /\ Numbered(s0) /\ (s0.blockers = {} => Gains(run, s0, cur))
      BY <2>2 DEF Shows
    <3>2. Further(run, s) /\ Numbered(s)
      BY <1>0, <1>k, <2>2, <2>3, <3>1
    <3>3. cur \in Node /\ Further(s0, s)
      BY <2>3 DEF RunInvariant, TypeOK, Calm
    <3> QED BY <1>0, <2>2, <2>3, <3>1, <3>2, <3>3, FurtherTrans
  <2>5. CASE run' = s /\ disk' = run' /\ pc' = "stopped" /\ iteration' = iteration
    BY <1>s, <2>4, <2>5
  <2>6. CASE /\ \E score \in Scores :
                  run' = [CompleteRest(s) EXCEPT !.done = Evaluate(CompleteRest(s), score)]
             /\ disk' = run' /\ pc' = "stopped" /\ iteration' = iteration
    <3> DEFINE c == CompleteRest(s)
    <3>1. c \in RunState /\ Calm(s, c)
      BY <2>3, RepairType, StepsAreCalm
    <3>2. run'.status = c.status /\ run'.retries = c.retries
      BY <2>6, <3>1 DEF RunState
    <3> HIDE DEF c
    <3>3. Further(run, c) /\ Numbered(c)
      BY <1>k, <2>3, <2>4, <3>1
    <3>4. Further(run, run') /\ Numbered(run')
      BY <1>f, <3>1, <3>2, <3>3
    <3> QED BY <1>s, <2>6, <3>4
  <2>7. CASE /\ s.blockers \subseteq run.blockers
             /\ run' = s /\ disk' \in {disk, run'} /\ pc' = "tasks" /\ iteration' = iteration
    <3>1. cur \in Node /\ s.blockers = {} /\ Numbered(disk')
      BY <1>0, <2>1, <2>4, <2>7 DEF RunInvariant, TypeOK
    <3>2. \E n \in Node : Gains(run, run', n)
      BY <2>4, <2>7, <3>1
    <3> QED BY <1>c, <2>1, <2>4, <2>7, <3>1, <3>2
  <2> QED BY <2>2, <2>5, <2>6, <2>7 DEF AfterTask, Save, Stop, s
<1>14. CASE Crash
  <2>1. run' = disk /\ disk' = disk /\ pc' = "crashed" /\ iteration' = iteration
    BY <1>14 DEF Crash
  <2> QED BY <1>0, <2>1 DEF Paced
<1>15. CASE Rerun
  <2>1. run' = disk /\ disk' = disk /\ pc' = "top" /\ iteration' = 0
    BY <1>15 DEF Rerun, Save
  <2> QED BY <1>0, <1>n, <2>1 DEF Paced, k
<1>16. ASSUME NEW sel \in Selections, NEW preflight \in BOOLEAN, Resume(sel, preflight)
       PROVE  Paced'
  <2> DEFINE d == RecoverySource
             s == Prepare(d, sel)
  <2>1. sel \in SUBSET Node /\ files \in [Node -> WorkerFile]
    BY LoopAssumption DEF RunInvariant, TypeOK
  <2>2. d \in RunState /\ d.status = disk.status /\ d.retries = disk.retries
    <3>1. d \in RunState
      BY <1>0, <2>1, RecoveryType DEF RecoverySource
    <3> QED BY <1>0, <3>1 DEF RecoverySource, MergeWorkerFiles, RunState
  <2>3. Numbered(d)
    BY <1>0, <2>2 DEF Numbered
  <2>4. /\ \E x : run' \in {s, [s EXCEPT !.notices = x]}
        /\ disk' = run' /\ pc' \in {"stopped", "top"} /\ iteration' = 0
    BY <1>16 DEF Resume, Save
  <2> HIDE DEF d
  <2>5. s \in RunState /\ Calm(d, s)
    <3>1. [n \in Node |-> "none"] \in [Node -> WorkerFile]
      BY DEF WorkerFile
    <3> QED BY <2>1, <2>2, <3>1, RecoveryType, StepsAreCalm
  <2>6. Numbered(s)
    BY <2>2, <2>3, <2>5, CalmKeepsNumbers
  <2> HIDE DEF s
  <2>7. run'.status = s.status /\ run'.retries = s.retries
    BY <2>4, <2>5 DEF RunState
  <2>8. Numbered(run')
    BY <2>6, <2>7 DEF Numbered
  <2> QED BY <1>n, <2>4, <2>8 DEF Paced, k
<1>17. CASE UNCHANGED vars
  BY <1>17 DEF vars, Paced, Pace, CanRetry
<1> QED
  BY <1>2, <1>3, <1>4, <1>5, <1>6, <1>7, <1>8, <1>9, <1>10, <1>11, <1>12, <1>13,
     <1>14, <1>15, <1>16, <1>17
     DEF Next, LoopStep, Control, Restart, TaskEnds

LEMMA PacedHolds ==
  ASSUME IsFiniteSet(Task)
  PROVE  Spec => [](RunInvariant /\ BothPlain /\ Paced)
<1>1. Init => Paced
  <2> SUFFICES ASSUME Init PROVE Paced
    OBVIOUS
  <2>1. /\ \A d \in Debug : InitialRunState.status[d] = "absent"
        /\ \A t \in Task : InitialRunState.status[t] = "pending"
    BY NodeFacts DEF InitialRunState
  <2>2. Numbered(InitialRunState)
    BY <2>1 DEF Numbered
  <2>3. Cardinality(Happened(InitialRunState)) \in Nat /\ PassBound \in Nat
    BY InitialType, StepsAreCalm, MarksGrow, MarksAreFinite DEF Calm
  <2>4. /\ run = InitialRunState /\ disk = InitialRunState /\ pc = "top" /\ iteration = 0
        /\ Pace = 0
    BY DEF Init, Pace
  <2> QED BY <2>2, <2>3, <2>4 DEF Paced
<1>2. RunInvariant /\ BothPlain /\ Paced /\ [Next]_vars => Paced'
  BY PacedStep
<1> QED BY <1>1, <1>2, InvariantHolds, PlainHolds, PTL DEF Spec

\* However tasks fail and are repaired, a started run makes no more passes than its graph has
\* marks, and one: no sequence of legal passes goes on for ever (run,
\* _converge_unproductive_debug_chains, can_retry).
THEOREM PassesAreBounded ==
  ASSUME IsFiniteSet(Task)
  PROVE  Spec => [](iteration <= PassBound + 1)
<1>1. Paced => iteration <= PassBound + 1
  BY DEF Paced
<1> QED BY <1>1, PacedHolds, PTL

\* So a budget above that bound never ends a run (max_iterations in run).
THEOREM BudgetIsEnough ==
  ASSUME IsFiniteSet(Task), MaxIterations > PassBound
  PROVE  Spec => []BudgetSuffices
<1>1. Init => BudgetSuffices
  BY DEF Init, BudgetSuffices
<1>2. RunInvariant /\ BothPlain /\ Paced /\ BudgetSuffices /\ [Next]_vars => BudgetSuffices'
  <2> SUFFICES ASSUME RunInvariant, Paced, BudgetSuffices, [Next]_vars PROVE BudgetSuffices'
    OBVIOUS
  <2>1. CASE IterationLimit
    <3>1. pc = "top" /\ iteration = MaxIterations /\ MaxIterations \in Nat /\ run \in RunState
      BY <2>1, LoopAssumption DEF IterationLimit, RunInvariant, TypeOK
    <3>2. iteration <= Cardinality(Happened(run)) + 0
      BY <3>1 DEF Paced, Pace
    <3>3. /\ Cardinality(Happened(run)) \in Nat /\ Cardinality(Happened(run)) <= PassBound
          /\ PassBound \in Nat
      BY <3>1, StepsAreCalm, MarksGrow, MarksAreFinite DEF Calm
    <3> QED BY <3>1, <3>2, <3>3
  <2>2. CASE TaskEnds
    BY <2>2 DEF TaskEnds, RecordResult, Review, Inspect, Release, AfterTask, Stop, BudgetSuffices
  <2>3. CASE \/ ConvergeChains \/ PassDone \/ PassPromotes \/ PassBlocked \/ PassRetries
             \/ PassIdle \/ PassSelects \/ PassEnds \/ LaunchWorker
             \/ (\E r \in WorkerResult : WorkerExits(r))
             \/ (\E n \in Node : RetryFailure(n) \/ Dispatch(n))
    BY <2>3 DEF ConvergeChains, PassDone, PassPromotes, PassBlocked, PassRetries, PassIdle,
                PassSelects, PassEnds, LaunchWorker, WorkerExits, RetryFailure, Dispatch, Stop,
                BudgetSuffices
  <2>4. CASE Control \/ Crash \/ Restart \/ UNCHANGED vars
    BY <2>4 DEF Control, ObeyControl, Crash, Restart, Resume, Rerun, Stop, vars, BudgetSuffices
  <2> QED BY <2>1, <2>2, <2>3, <2>4 DEF Next, LoopStep, TaskEnds
<1> QED BY <1>1, <1>2, PacedHolds, PTL DEF Spec

\* Repair work stays bounded: one open debug node per task, and every chain over before such a
\* budget (_converge_unproductive_debug_chains, run).
THEOREM RepairsStayBounded ==
  ASSUME IsFiniteSet(Task), MaxIterations > PassBound, Selections = {{}}, MaxReruns = 0
  PROVE  Spec => []RepairsAreBounded
<1>1. OneOpenDebug /\ BudgetSuffices => RepairsAreBounded
  BY DEF RepairsAreBounded
<1> QED BY <1>1, OneDebugAtATime, BudgetIsEnough, PTL
=============================================================================
