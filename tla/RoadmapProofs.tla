----------------------------- MODULE RoadmapProofs -----------------------------
(***************************************************************************)
(* Proofs about the full-roadmap executor, for any number of phases,       *)
(* attempts and invocations: it delivers the phases in order, in one tree. *)
(***************************************************************************)
EXTENDS RoadmapProperties, WellFoundedInduction, SequenceTheorems, TLAPS

Section == Phase \cup {Final}

-----------------------------------------------------------------------------
(* Sequences of run directories and of worktrees. *)

LEMMA SmallestExists ==
  ASSUME NEW T, T \subseteq Nat, T # {}
  PROVE  \E x \in T : \A y \in T : x <= y
<1>1. \E x \in T : \A y \in T : <<y, x>> \notin OpToRel(<, Nat)
  BY NatLessThanWellFounded, WFMin
<1>2. \A x, y \in Nat : y < x => <<y, x>> \in OpToRel(<, Nat)
  BY DEF OpToRel
<1>3. PICK x \in T : \A y \in T : <<y, x>> \notin OpToRel(<, Nat)
  BY <1>1
<1>4. \A y \in T : ~ (y < x)
  BY Zenon, <1>2, <1>3
<1>5. \A y \in T : x <= y
  BY <1>4
<1> QED BY <1>5

LEMMA NewestIsLargest ==
  ASSUME NEW n \in Nat, NEW T, T \subseteq 1 .. n, T # {}
  PROVE  Newest(T) \in T /\ \A j \in T : Newest(T) >= j
<1> DEFINE M == {m \in 0 .. n : n - m \in T}
<1>0. M \subseteq Nat
  OBVIOUS
<1>1. M # {}
  <2>1. PICK i \in T : TRUE
    OBVIOUS
  <2>2. n - i \in M
    OBVIOUS
  <2> QED BY <2>2
<1>2. PICK x \in M : \A y \in M : x <= y
  BY <1>0, <1>1, SmallestExists
<1>3. n - x \in T /\ \A j \in T : n - x >= j
  <2> SUFFICES ASSUME NEW j \in T PROVE n - x >= j
    BY <1>2
  <2>1. n - j \in M
    OBVIOUS
  <2> QED BY <1>2, <2>1
<1> QED BY <1>3 DEF Newest

LEMMA EntryChanges ==
  ASSUME runs \in [Section -> Seq(RunDir)], NEW s \in Section, NEW i \in DOMAIN runs[s],
         NEW x \in RunDir, runs' = [runs EXCEPT ![s][i] = x]
  PROVE  /\ runs' \in [Section -> Seq(RunDir)]
         /\ \A u \in Section : Len(runs'[u]) = Len(runs[u]) /\ DOMAIN runs'[u] = DOMAIN runs[u]
         /\ \A u \in Section : \A j \in DOMAIN runs[u] :
              runs'[u][j] = IF u = s /\ j = i THEN x ELSE runs[u][j]
<1>1. runs'[s] = [runs[s] EXCEPT ![i] = x] /\ \A u \in Section : u # s => runs'[u] = runs[u]
  OBVIOUS
<1>2. [runs[s] EXCEPT ![i] = x] \in Seq(RunDir) /\ Len([runs[s] EXCEPT ![i] = x]) = Len(runs[s])
  BY ExceptSeq
<1> QED BY <1>1, <1>2

LEMMA EntryIsAdded ==
  ASSUME runs \in [Section -> Seq(RunDir)], NEW s \in Section,
         NEW x \in RunDir, runs' = [runs EXCEPT ![s] = Append(@, x)]
  PROVE  /\ runs' \in [Section -> Seq(RunDir)]
         /\ \A u \in Section : u # s => runs'[u] = runs[u]
         /\ Len(runs'[s]) = Len(runs[s]) + 1
         /\ runs'[s][Len(runs[s]) + 1] = x
         /\ \A j \in DOMAIN runs[s] : runs'[s][j] = runs[s][j]
<1>1. runs'[s] = Append(runs[s], x) /\ \A u \in Section : u # s => runs'[u] = runs[u]
  OBVIOUS
<1>2. Append(runs[s], x) \in Seq(RunDir)
  OBVIOUS
<1> QED BY <1>1, <1>2

LEMMA TreeIsMade ==
  ASSUME work \in Seq(SUBSET Phase), NEW t \in 1 .. Len(work) + 1,
         work' = IF t > Len(work) THEN Append(work, {}) ELSE work
  PROVE  /\ work' \in Seq(SUBSET Phase) /\ Len(work) \in Nat /\ Len(work') \in Nat
         /\ Len(work) <= Len(work') /\ t <= Len(work')
         /\ \A u \in 1 .. Len(work) : work'[u] = work[u]
OBVIOUS

LEMMA SetIsAdded ==
  ASSUME NEW S, NEW q \in Seq(SUBSET S), NEW t \in 1 .. Len(q), NEW e \in SUBSET S
  PROVE  /\ [q EXCEPT ![t] = e] \in Seq(SUBSET S) /\ Len([q EXCEPT ![t] = e]) = Len(q)
         /\ Len(q) \in Nat
         /\ \A u \in 1 .. Len(q) : [q EXCEPT ![t] = e][u] = IF u = t THEN e ELSE q[u]
<1>1. \A R : \A r \in Seq(R) : \A i \in 1 .. Len(r) : \A d \in R :
        /\ [r EXCEPT ![i] = d] \in Seq(R) /\ Len([r EXCEPT ![i] = d]) = Len(r)
        /\ \A j \in 1 .. Len(r) : [r EXCEPT ![i] = d][j] = IF j = i THEN d ELSE r[j]
  BY ExceptSeq
<1> QED BY <1>1, LenProperties

LEMMA TreeIsEdited ==
  ASSUME work \in Seq(SUBSET Phase), NEW t \in 1 .. Len(work), NEW p \in Phase,
         work' = [work EXCEPT ![t] = @ \cup {p}]
  PROVE  /\ work' \in Seq(SUBSET Phase) /\ Len(work') = Len(work) /\ Len(work) \in Nat
         /\ \A u \in 1 .. Len(work) : work'[u] = IF u = t THEN work[u] \cup {p} ELSE work[u]
<1> DEFINE e == work[t] \cup {p}
           q == [work EXCEPT ![t] = e]
<1>1. e \in SUBSET Phase
  BY ElementOfSeq
<1>2. work' = q
  OBVIOUS
<1> HIDE DEF e
<1>3. /\ q \in Seq(SUBSET Phase) /\ Len(q) = Len(work) /\ Len(work) \in Nat
      /\ \A u \in 1 .. Len(work) : q[u] = IF u = t THEN e ELSE work[u]
  BY <1>1, SetIsAdded
<1> QED BY <1>2, <1>3 DEF e

-----------------------------------------------------------------------------
(* Places: what the executor holds in memory where it is, and what the directories name. *)

Places ==
  /\ pc \in {"attempt", "prove", "record", "save"} => phase \in Phase
  /\ pc \in {"verify", "handover"} => phase = Final
  /\ pc = "working" =>
       /\ run \in DOMAIN runs[phase] /\ runs[phase][run].tree = tree
       /\ runs[phase][run].result = "none"
  /\ \A p \in Phase : plan[p] = "running" =>
       pc = "down" \/ (p = phase /\ pc \in {"attempt", "working"})
  /\ pc \in {"select", "attempt", "working", "prove", "record", "save"} =>
       (phase = Final /\ pc = "working") \/ count <= MaxPhases

Directories ==
  /\ \A s \in Section : \A i \in DOMAIN runs[s] : runs[s][i].tree \in 1 .. Len(work)
  /\ \A p \in Phase : /\ record[p].tree \in 0 .. Len(work)
                      /\ record[p].status = "done" => record[p].tree # Checkout
  /\ \A r \in kept : /\ r.tree \in 0 .. Len(work) /\ r.at <= MaxPhases
                     /\ r.status = "done" => r.tree # Checkout
  /\ pc \in {"prove", "record"} /\ verdict = "done" => tree # Checkout

Typed == TypeOK /\ Places /\ Directories

LEMMA Constants ==
  /\ Phases \in Nat /\ Phases >= 1 /\ MaxPhases \in Nat /\ MaxPhases >= 1
  /\ MaxRuns \in Nat /\ MaxRepairs \in Nat /\ MaxFinal \in Nat /\ MaxStarts \in Nat
  /\ Revisions \subseteq Nat /\ EditPhases \subseteq Phase
  /\ Final \notin Phase /\ Phase \subseteq Nat /\ Section = 0 .. Phases
BY RoadmapAssumption DEF Phase, Final, Section

Candidates(s) ==
  {i \in DOMAIN runs[s] : ~runs[s][i].marked /\ runs[s][i].state # "absent"}

LEMMA InterruptedFacts ==
  ASSUME TypeOK, NEW s \in Section
  PROVE  /\ Interrupted(s).run \in DOMAIN runs[s] \cup {0}
         /\ Interrupted(s).mode = "new" => Interrupted(s).run = 0
         /\ Interrupted(s).run # 0 =>
              /\ Interrupted(s).run \in Candidates(s)
              /\ runs[s][Interrupted(s).run].state = "active"
              /\ \A j \in Candidates(s) : j <= Interrupted(s).run
         /\ Interrupted(s).mode # "live" =>
              \A i \in Candidates(s) :
                (\A j \in Candidates(s) : j <= i) =>
                  runs[s][i].state = "idle" \/ runs[s][i].worker # "live"
<1> DEFINE c == Candidates(s)
           n == Newest(c)
<1>1. runs[s] \in Seq(RunDir)
  BY DEF TypeOK, Section
<1>2. DOMAIN runs[s] = 1 .. Len(runs[s]) /\ Len(runs[s]) \in Nat
  BY <1>1
<1>3. c \subseteq 1 .. Len(runs[s])
  BY <1>2 DEF Candidates
<1>4. CASE c = {}
  <2>1. Interrupted(s) = [mode |-> "new", run |-> 0]
    BY <1>4 DEF Interrupted, Candidates
  <2> QED BY <1>4, <2>1
<1>5. CASE c # {}
  <2>1. n \in c /\ \A i \in c : n >= i
    BY <1>2, <1>3, <1>5, NewestIsLargest
  <2>2. n \in Nat /\ n # 0 /\ c \subseteq Nat /\ n \in DOMAIN runs[s]
    BY <1>2, <1>3, <2>1
  <2>3. \A i \in c : (\A m \in c : m <= i) => i = n
    BY <2>1, <2>2
  <2>4. runs[s][n].state \in {"active", "idle"}
    <3>1. runs[s][n] \in RunDir
      BY <1>1, <2>2
    <3> QED BY <2>1, <3>1 DEF Candidates, RunDir
  <2>5. CASE runs[s][n].state = "idle"
    <3>1. Interrupted(s) = [mode |-> "new", run |-> 0]
      BY <2>5 DEF Interrupted, Candidates
    <3> QED BY <2>1, <2>2, <2>3, <2>5, <3>1
  <2>6. CASE runs[s][n].state = "active" /\ runs[s][n].worker = "live"
    <3>1. Interrupted(s) = [mode |-> "live", run |-> n]
      BY <1>5, <2>6 DEF Interrupted, Candidates
    <3> QED BY <2>1, <2>2, <2>6, <3>1
  <2>7. CASE runs[s][n].state = "active" /\ runs[s][n].worker \in {"completed", "lost"}
    <3>1. Interrupted(s) = [mode |-> "resume", run |-> n]
      BY <1>5, <2>7 DEF Interrupted, Candidates
    <3> QED BY <2>1, <2>2, <2>3, <2>7, <3>1
  <2>8. CASE /\ runs[s][n].state = "active"
             /\ runs[s][n].worker \notin {"live", "completed", "lost"}
    <3>1. Interrupted(s) = [mode |-> "new", run |-> 0]
      BY <1>5, <2>8 DEF Interrupted, Candidates
    <3> QED BY <2>1, <2>2, <2>3, <2>8, <3>1
  <2> QED BY <2>4, <2>5, <2>6, <2>7, <2>8
<1> QED BY <1>4, <1>5

\* The tree of the last accepted phase, if there is one.
Done == {r \in kept : r.status = "done"}

LEMMA RepositoryPathFacts ==
  ASSUME TypeOK, Directories
  PROVE  /\ Done = {} => RepositoryPath = Checkout
         /\ Done # {} => \E r \in Done : /\ RepositoryPath = r.tree
                                        /\ \A q \in Done : r.at >= q.at
         /\ RepositoryPath \in 0 .. Len(work)
         /\ RepositoryPath = Checkout => Done = {}
<1>1. CASE Done = {}
  BY <1>1 DEF Done, RepositoryPath, TypeOK, Checkout
<1>2. CASE Done # {}
  <2> DEFINE T == {MaxPhases - r.at : r \in Done}
  <2>1. \A r \in Done : r.at \in Int /\ r.at <= MaxPhases
    BY DEF Done, TypeOK, Record, Directories
  <2>2. T \subseteq Nat /\ T # {}
    BY <1>2, <2>1, Constants
  <2>3. PICK x \in T : \A y \in T : x <= y
    BY <2>2, SmallestExists
  <2>4. PICK r \in Done : x = MaxPhases - r.at
    BY <2>3
  <2>5. \A q \in Done : r.at >= q.at
    <3> SUFFICES ASSUME NEW q \in Done PROVE r.at >= q.at
      OBVIOUS
    <3>1. MaxPhases - r.at <= MaxPhases - q.at
      BY <2>3, <2>4
    <3> QED BY <2>1, <3>1, Constants
  <2>6. \E r1 \in Done : RepositoryPath = r1.tree /\ \A q \in Done : r1.at >= q.at
    BY <1>2, <2>5 DEF Done, RepositoryPath
  <2> QED BY <1>2, <2>6 DEF Directories, Done
<1> QED BY <1>1, <1>2

LEMMA AttemptTreeFacts ==
  ASSUME TypeOK, Directories, phase \in Section,
         NEW resumed \in DOMAIN runs[phase] \cup {0}
  PROVE  AttemptTree(resumed) \in 1 .. Len(work) + 1
<1>1. Len(work) \in Nat
  BY DEF TypeOK
<1>2. CASE resumed # 0
  BY <1>1, <1>2 DEF AttemptTree, Directories
<1>3. CASE resumed = 0
  BY <1>1, <1>3, RepositoryPathFacts DEF AttemptTree, Checkout
<1> QED BY <1>2, <1>3
-----------------------------------------------------------------------------
(* What becomes of the run directories and the worktrees. *)

\* Nothing but the condition of what is left of an attempt changes.
Aftermath ==
  /\ runs' \in [Section -> Seq(RunDir)]
  /\ \A u \in Section : DOMAIN runs'[u] = DOMAIN runs[u]
  /\ \A u \in Section : \A i \in DOMAIN runs[u] :
       runs'[u][i].tree = runs[u][i].tree /\ runs'[u][i].result = runs[u][i].result

\* An attempt is begun in tree t.
BegunIn(t) ==
  /\ runs' \in [Section -> Seq(RunDir)]
  /\ tree' = t /\ t \in 1 .. Len(work')
  /\ run' \in DOMAIN runs'[phase] /\ runs'[phase][run'] = Begun(t)
  /\ \A u \in Section : DOMAIN runs[u] \subseteq DOMAIN runs'[u]
  /\ \A u \in Section : \A i \in DOMAIN runs'[u] :
       \/ u = phase /\ i = run'
       \/ i \in DOMAIN runs[u] /\ runs'[u][i] = runs[u][i]
  /\ work' \in Seq(SUBSET Phase) /\ Len(work) \in Nat /\ Len(work') \in Nat
  /\ Len(work) <= Len(work')
  /\ \A u \in 1 .. Len(work) : work'[u] = work[u]

\* The attempt ends with an outcome.
EndedWith(outcome) ==
  /\ runs' \in [Section -> Seq(RunDir)]
  /\ \A u \in Section : DOMAIN runs'[u] = DOMAIN runs[u]
  /\ \A u \in Section : \A i \in DOMAIN runs[u] :
       u # phase \/ i # run => runs'[u][i] = runs[u][i]
  /\ runs'[phase][run].state = "idle" /\ runs'[phase][run].worker = "none"
  /\ runs'[phase][run].result = outcome
  /\ runs'[phase][run].tree = tree
  /\ work' \in Seq(SUBSET Phase) /\ Len(work) \in Nat /\ Len(work') = Len(work)
  /\ \A u \in 1 .. Len(work) :
       work'[u] = IF u = tree /\ outcome = "promotable" /\ phase # Final
                  THEN work[u] \cup {phase} ELSE work[u]

LEMMA EntryType ==
  ASSUME TypeOK, NEW s \in Section, NEW i \in DOMAIN runs[s]
  PROVE  runs[s][i] \in RunDir
<1>1. runs[s] \in Seq(RunDir)
  BY DEF TypeOK, Section
<1> QED BY <1>1

LEMMA AttemptBegins ==
  ASSUME Typed, BeginAttempt \/ BeginFinal
  PROVE  BegunIn(AttemptTree(Interrupted(phase).run))
<1> DEFINE b == Interrupted(phase).run
           t == AttemptTree(b)
<1>1. phase \in Section
  BY DEF Typed, TypeOK, Section
<1>2. b \in DOMAIN runs[phase] \cup {0}
  BY <1>1, InterruptedFacts DEF Typed
<1>3. t \in 1 .. Len(work) + 1
  BY <1>1, <1>2, AttemptTreeFacts DEF Typed
<1>4. work' = IF t > Len(work) THEN Append(work, {}) ELSE work
  BY DEF BeginAttempt, BeginFinal, Places, Typed
<1>5. /\ work' \in Seq(SUBSET Phase) /\ Len(work) \in Nat /\ Len(work') \in Nat
      /\ Len(work) <= Len(work') /\ t <= Len(work')
      /\ \A u \in 1 .. Len(work) : work'[u] = work[u]
  BY <1>3, <1>4, TreeIsMade DEF Typed, TypeOK
<1>6. tree' = t
  BY DEF BeginAttempt, BeginFinal, Places, Typed
<1>7. Begun(t) \in RunDir
  BY <1>3, <1>5 DEF Begun, RunDir, RunDirWorkers, Trees
<1>8. runs \in [Section -> Seq(RunDir)]
  BY DEF Typed, TypeOK, Section
<1>9. \/ /\ run' \in DOMAIN runs[phase]
         /\ runs' = [runs EXCEPT ![phase] = [@ EXCEPT ![run'] = Begun(t)]]
      \/ run' = Len(runs[phase]) + 1 /\ runs' = [runs EXCEPT ![phase] = Append(@, Begun(t))]
  <2>1. CASE BeginAttempt
    <3>1. CASE phase # Final /\ record[phase].status = "done" /\ runs[phase] # <<>>
      <4>1. 1 \in DOMAIN runs[phase]
        BY <1>1, <1>8, <3>1
      <4> QED BY <2>1, <3>1, <4>1 DEF BeginAttempt
    <3>2. CASE ~(phase # Final /\ record[phase].status = "done" /\ runs[phase] # <<>>)
      BY <2>1, <3>2 DEF BeginAttempt
    <3> QED BY <3>1, <3>2
  <2>2. CASE BeginFinal
    BY <1>2, <2>2 DEF BeginFinal, Typed, Places
  <2> QED BY <2>1, <2>2
<1>10. CASE /\ run' \in DOMAIN runs[phase]
            /\ runs' = [runs EXCEPT ![phase] = [@ EXCEPT ![run'] = Begun(t)]]
  <2>1. runs' = [runs EXCEPT ![phase][run'] = Begun(t)]
    BY <1>10
  <2> QED BY <1>1, <1>3, <1>5, <1>6, <1>7, <1>8, <1>10, <2>1, EntryChanges DEF BegunIn
<1>11. CASE run' = Len(runs[phase]) + 1 /\ runs' = [runs EXCEPT ![phase] = Append(@, Begun(t))]
  <2>1. /\ runs' \in [Section -> Seq(RunDir)]
        /\ \A u \in Section : u # phase => runs'[u] = runs[u]
        /\ Len(runs'[phase]) = Len(runs[phase]) + 1
        /\ runs'[phase][run'] = Begun(t)
        /\ \A i \in DOMAIN runs[phase] : runs'[phase][i] = runs[phase][i]
    BY <1>1, <1>7, <1>8, <1>11, EntryIsAdded
  <2>2. /\ DOMAIN runs'[phase] = 1 .. Len(runs[phase]) + 1
        /\ DOMAIN runs[phase] = 1 .. Len(runs[phase]) /\ Len(runs[phase]) \in Nat
    BY <1>1, <1>8, <2>1
  <2>3. \A i \in DOMAIN runs'[phase] : i = run' \/ i \in DOMAIN runs[phase]
    BY <1>11, <2>2
  <2> QED BY <1>1, <1>3, <1>5, <1>6, <1>11, <2>1, <2>2, <2>3 DEF BegunIn
<1> QED BY <1>9, <1>10, <1>11

LEMMA AttemptEnds ==
  ASSUME Typed, pc = "working", NEW outcome \in Outcomes, Answered(outcome)
  PROVE  EndedWith(outcome)
<1>1. /\ phase \in Section /\ run \in DOMAIN runs[phase]
      /\ runs \in [Section -> Seq(RunDir)] /\ runs[phase][run].tree = tree
  BY DEF Typed, TypeOK, Section, Places
<1>2. PICK marker \in BOOLEAN :
        runs' = [runs EXCEPT ![phase][run] =
                  [@ EXCEPT !.state = "idle", !.worker = "none",
                            !.marked = marker, !.result = outcome]]
  BY DEF Answered
<1> DEFINE x == [runs[phase][run] EXCEPT !.state = "idle", !.worker = "none",
                                         !.marked = marker, !.result = outcome]
<1>3. x \in RunDir /\ x.state = "idle" /\ x.worker = "none" /\ x.result = outcome /\ x.tree = tree
  <2>1. runs[phase][run] \in RunDir
    BY <1>1, EntryType DEF Typed
  <2> QED BY <1>1, <2>1 DEF RunDir, RunDirWorkers
<1>4. runs' = [runs EXCEPT ![phase][run] = x]
  BY <1>2
<1> HIDE DEF x
<1>5. /\ runs' \in [Section -> Seq(RunDir)]
      /\ \A u \in Section : DOMAIN runs'[u] = DOMAIN runs[u]
      /\ \A u \in Section : \A j \in DOMAIN runs[u] :
           runs'[u][j] = IF u = phase /\ j = run THEN x ELSE runs[u][j]
  BY <1>1, <1>3, <1>4, EntryChanges
<1>6. /\ tree \in 1 .. Len(work) /\ work \in Seq(SUBSET Phase)
      /\ phase # Final => phase \in Phase
  BY <1>1 DEF Typed, TypeOK, Directories
<1>7. CASE outcome = "promotable" /\ phase # Final
  <2>1. work' = [work EXCEPT ![tree] = @ \cup {phase}]
    BY <1>7 DEF Answered
  <2>2. /\ work' \in Seq(SUBSET Phase) /\ Len(work') = Len(work) /\ Len(work) \in Nat
        /\ \A u \in 1 .. Len(work) : work'[u] = IF u = tree THEN work[u] \cup {phase} ELSE work[u]
    BY <1>6, <1>7, <2>1, TreeIsEdited
  <2> QED BY <1>1, <1>3, <1>5, <1>7, <2>2 DEF EndedWith
<1>8. CASE ~(outcome = "promotable" /\ phase # Final)
  <2>1. work' = work
    BY <1>8 DEF Answered
  <2> QED BY <1>1, <1>3, <1>5, <1>6, <1>8, <2>1 DEF EndedWith
<1> QED BY <1>7, <1>8

\* A worker is left behind, ends or is stopped.
LEMMA LeftBehind ==
  ASSUME Typed, (Crash /\ pc = "working") \/ WorkerEnds \/ MarkStopped
  PROVE  Aftermath
<1>0. runs \in [Section -> Seq(RunDir)]
  BY DEF Typed, TypeOK, Section
<1>1. ASSUME NEW s \in Section, NEW i \in DOMAIN runs[s], NEW x \in RunDir,
             runs' = [runs EXCEPT ![s][i] = x],
             x.tree = runs[s][i].tree, x.result = runs[s][i].result
      PROVE  Aftermath
  BY <1>0, <1>1, EntryChanges DEF Aftermath
<1>2. CASE Crash /\ pc = "working"
  <2>1. phase \in Section /\ run \in DOMAIN runs[phase]
    BY <1>2 DEF Typed, TypeOK, Section, Places
  <2>2. PICK state \in {"absent", "active", "idle"}, worker \in RunDirWorkers :
          runs' = [runs EXCEPT ![phase][run] = [@ EXCEPT !.state = state, !.worker = worker]]
    BY <1>2 DEF Crash
  <2> DEFINE x == [runs[phase][run] EXCEPT !.state = state, !.worker = worker]
  <2>3. runs' = [runs EXCEPT ![phase][run] = x]
    BY <2>2
  <2>4. x \in RunDir /\ x.tree = runs[phase][run].tree /\ x.result = runs[phase][run].result
    <3>1. runs[phase][run] \in RunDir
      BY <2>1, EntryType DEF Typed
    <3> QED BY <2>2, <3>1 DEF RunDir
  <2> HIDE DEF x
  <2> QED BY <1>1, <2>1, <2>3, <2>4
<1>3. CASE WorkerEnds /\ runs' = runs
  BY <1>0, <1>3 DEF Aftermath
<1>4. CASE WorkerEnds /\ runs' # runs
  <2>1. PICK s \in Section, worker \in {"lost", "lostDebug"} :
          \E i \in DOMAIN runs[s] : runs' = [runs EXCEPT ![s][i].worker = worker]
    BY <1>4 DEF WorkerEnds, Section
  <2>2. PICK i \in DOMAIN runs[s] : runs' = [runs EXCEPT ![s][i].worker = worker]
    BY <2>1
  <2> DEFINE x == [runs[s][i] EXCEPT !.worker = worker]
  <2>3. runs' = [runs EXCEPT ![s][i] = x]
    BY <2>2
  <2>4. x \in RunDir /\ x.tree = runs[s][i].tree /\ x.result = runs[s][i].result
    <3>1. runs[s][i] \in RunDir
      BY <2>2, EntryType DEF Typed
    <3> QED BY <3>1 DEF RunDir, RunDirWorkers
  <2> HIDE DEF x
  <2> QED BY <1>1, <2>3, <2>4
<1>5. CASE MarkStopped
  <2>1. PICK s \in Section : \E i \in DOMAIN runs[s] : runs' = [runs EXCEPT ![s][i].marked = TRUE]
    BY <1>5 DEF MarkStopped, Section
  <2>2. PICK i \in DOMAIN runs[s] : runs' = [runs EXCEPT ![s][i].marked = TRUE]
    BY <2>1
  <2> DEFINE x == [runs[s][i] EXCEPT !.marked = TRUE]
  <2>3. runs' = [runs EXCEPT ![s][i] = x]
    BY <2>2
  <2>4. x \in RunDir /\ x.tree = runs[s][i].tree /\ x.result = runs[s][i].result
    <3>1. runs[s][i] \in RunDir
      BY <2>2, EntryType DEF Typed
    <3> QED BY <3>1 DEF RunDir
  <2> HIDE DEF x
  <2> QED BY <1>1, <2>3, <2>4
<1> QED BY <1>2, <1>3, <1>4, <1>5

-----------------------------------------------------------------------------
(* Typing is inductive. *)

LEMMA InitIsTyped == Init => Typed
<1> SUFFICES ASSUME Init PROVE Typed
  OBVIOUS
<1>1. TypeOK
  <2>1. work \in Seq(SUBSET Phase) /\ Len(work) = 0 /\ stored = <<>>
    BY DEF Init
  <2>2. /\ runs \in [Phase \cup {Final} -> Seq(RunDir)] /\ plan \in [Phase -> PlanStatus]
        /\ proof \in [Phase -> {"none", "empty", "evidence"}]
    BY DEF Init, Unplanned, PlanStatus
  <2>3. record \in [Phase -> [status : {"none", "done", "blocked"}, tree : Trees]]
    BY DEF Init, NoRecord, Checkout, Trees
  <2>4. strays \subseteq 0 .. Len(work) /\ tree \in 0 .. Len(work)
    BY <2>1 DEF Init, Checkout
  <2> QED BY <2>1, <2>2, <2>3, <2>4, Constants DEF Init, TypeOK, Checkout, Final
<1>2. Places /\ Directories
  BY Constants DEF Init, Places, Directories, Unplanned, NoRecord, Checkout, Section, Final
<1> QED BY <1>1, <1>2 DEF Typed

LEMMA LoadedFacts ==
  ASSUME Typed
  PROVE  /\ LoadedRecords \subseteq Record
         /\ \A r \in LoadedRecords :
              /\ r.tree \in 0 .. Len(work) /\ r.at \in Int /\ r.at <= 0
              /\ r.phase \in Phase /\ r.at = r.phase - Phases
              /\ r.status = record[r.phase].status /\ r.tree = record[r.phase].tree
              /\ ~locked /\ r.status = "done" => r.tree # Checkout
         /\ locked => LoadedRecords = {}
         /\ ~locked => \A p \in Phase : record[p].status # "none" =>
              \E r \in LoadedRecords : r.phase = p
<1>1. \A q \in Phase : record[q] \in [status : {"none", "done", "blocked"}, tree : Trees]
  BY DEF Typed, TypeOK
<1>2. \A q \in Phase : q - Phases \in Int /\ q - Phases <= 0
  BY Constants DEF Phase
<1>3. ASSUME NEW r \in LoadedRecords
      PROVE  /\ ~locked /\ r \in Record /\ r.phase \in Phase /\ r.at = r.phase - Phases
             /\ r.status = record[r.phase].status /\ r.tree = record[r.phase].tree
  <2>1. ~locked
    BY <1>3 DEF LoadedRecords
  <2>2. PICK q \in Phase : /\ record[q].status # "none"
                           /\ r = [phase |-> q, status |-> record[q].status,
                                   tree |-> record[q].tree, at |-> q - Phases]
    BY <1>3, <2>1 DEF LoadedRecords
  <2> QED BY <1>1, <1>2, <2>1, <2>2 DEF Record
<1>4. ASSUME ~locked, NEW p \in Phase, record[p].status # "none"
      PROVE  \E r \in LoadedRecords : r.phase = p
  <2> DEFINE r == [phase |-> p, status |-> record[p].status,
                   tree |-> record[p].tree, at |-> p - Phases]
  <2>1. r \in LoadedRecords /\ r.phase = p
    BY <1>4 DEF LoadedRecords
  <2> QED BY <2>1
<1>5. locked => LoadedRecords = {}
  BY DEF LoadedRecords
<1> QED BY <1>2, <1>3, <1>4, <1>5 DEF Typed, Directories

LEMMA PromotableFacts ==
  ASSUME TypeOK, NEW s \in Section, Promotable(s) # {}
  PROVE  /\ Newest(Promotable(s)) \in Promotable(s)
         /\ Promotable(s) \subseteq DOMAIN runs[s]
<1>1. DOMAIN runs[s] = 1 .. Len(runs[s]) /\ Len(runs[s]) \in Nat
  <2>1. runs[s] \in Seq(RunDir)
    BY DEF TypeOK, Section
  <2> QED BY <2>1
<1>2. Promotable(s) \subseteq 1 .. Len(runs[s])
  BY <1>1 DEF Promotable
<1> QED BY <1>1, <1>2, NewestIsLargest DEF Promotable

LEMMA TypedStep == Typed /\ [Next]_vars => Typed'
<1> SUFFICES ASSUME Typed, [Next]_vars PROVE Typed'
  OBVIOUS
<1> USE Constants
<1>1. ASSUME NEW goal \in Revisions, Start(goal) PROVE Typed'
  <2>1. /\ plan' \in [Phase -> PlanStatus] /\ \A p \in Phase : plan'[p] # "running"
        /\ stored' \in [Phase -> PlanStatus \ {"running"}]
    BY <1>1 DEF Start, Typed, TypeOK, Resumable, SyncedPlan, Unplanned, PlanStatus
  <2>2. /\ kept' \subseteq Record
        /\ \A r \in kept' : /\ r.tree \in 0 .. Len(work) /\ r.at <= MaxPhases
                            /\ r.status = "done" => r.tree # Checkout
    <3>1. kept' = LoadedRecords \/ kept' = {}
      BY <1>1 DEF Start
    <3> QED BY <3>1, LoadedFacts
  <2>3. TypeOK'
    <3>1. /\ pc' \in {"select", "down"} /\ contract' \in Nat /\ built' \in Nat /\ starts' \in Nat
          /\ report' \in {"none", "running", "blocked", "done"}
          /\ tree' \in 0 .. Len(work)
      BY <1>1 DEF Start, Typed, TypeOK, Checkout
    <3>2. /\ phase' = Final /\ run' = 0 /\ written' = 0 /\ count' = 0
          /\ seen' = FALSE /\ blocked' = FALSE
          /\ verdict' = "blocked" /\ UNCHANGED <<locked, record, proof, runs, work, strays>>
      BY <1>1 DEF Start
    <3>3. /\ locked' \in Modes /\ written' \in 0 .. MaxRepairs /\ verdict' \in {"done", "blocked"}
          /\ pc' \in {"down", "select", "attempt", "working", "prove", "record", "save",
                     "verify", "handover"}
          /\ {contract, built, starts}' \subseteq Nat
      BY <3>1, <3>2 DEF Typed, TypeOK
    <3>4. /\ seen' \in BOOLEAN /\ blocked' \in BOOLEAN /\ phase' \in Phase \cup {Final}
          /\ run' \in Nat /\ count' \in Nat
      BY <3>2 DEF Final
    <3>5. /\ record' \in [Phase -> [status : {"none", "done", "blocked"}, tree : Trees]]
          /\ proof' \in [Phase -> {"none", "empty", "evidence"}]
          /\ runs' \in [Phase \cup {Final} -> Seq(RunDir)] /\ work' \in Seq(SUBSET Phase)
          /\ tree' \in 0 .. Len(work') /\ strays' \subseteq 0 .. Len(work')
      BY <3>1, <3>2 DEF Typed, TypeOK
    <3> QED BY <2>1, <2>2, <3>1, <3>3, <3>4, <3>5 DEF TypeOK
  <2>4. Places'
    BY <1>1, <2>1 DEF Start, Typed, Places
  <2>5. Directories'
    BY <1>1, <2>2 DEF Start, Typed, Directories
  <2> QED BY <2>3, <2>4, <2>5 DEF Typed
<1>2. ASSUME SelectPhase PROVE Typed'
  <2>1. PICK p \in NextPhase :
          /\ phase' = p /\ count' = count + 1 /\ written' = 0
          /\ IF Promotable(p) # {}
               THEN LET t == runs[p][Newest(Promotable(p))].tree IN
                    /\ pc' = "record" /\ verdict' = "done" /\ tree' = t
                    /\ plan' = [plan EXCEPT ![p] = "completed"]
                    /\ kept' = {r \in kept : r.phase # p} \cup
                                 {[phase |-> p, status |-> "done", tree |-> t, at |-> count + 1]}
                    /\ UNCHANGED report
               ELSE /\ pc' = "attempt" /\ report' = "running"
                    /\ plan' = [plan EXCEPT ![p] = "running"]
                    /\ kept' = {r \in kept : r.phase # p}
                    /\ UNCHANGED <<verdict, tree>>
    BY <1>2 DEF SelectPhase
  <2>2. /\ p \in Phase /\ pc = "select" /\ count < MaxPhases /\ count \in Nat
        /\ UNCHANGED <<phaseFiles, outside, runs, work, run, seen, blocked>>
    BY <1>2, <2>1 DEF SelectPhase, NextPhase, Typed, TypeOK
  <2>3. CASE Promotable(p) # {}
    <3> DEFINE t == runs[p][Newest(Promotable(p))].tree
               r0 == [phase |-> p, status |-> "done", tree |-> t, at |-> count + 1]
    <3>1. t \in 1 .. Len(work)
      <4>1. Newest(Promotable(p)) \in Promotable(p)
        BY <2>2, <2>3, PromotableFacts DEF Typed, Section
      <4> QED BY <2>2, <4>1 DEF Typed, Directories, Section, Promotable
    <3> HIDE DEF t
    <3>2. /\ pc' = "record" /\ verdict' = "done" /\ tree' = t
          /\ plan' = [plan EXCEPT ![p] = "completed"]
          /\ kept' = {r \in kept : r.phase # p} \cup {r0}
          /\ UNCHANGED report
      BY <2>1, <2>3 DEF t
    <3>3. kept' \subseteq Record
      BY <2>2, <3>1, <3>2 DEF Typed, TypeOK, Record, Trees
    <3>4. TypeOK'
      BY <2>1, <2>2, <3>1, <3>2, <3>3 DEF Typed, TypeOK, PlanStatus, phaseFiles, outside
    <3>5. Places'
      BY <2>1, <2>2, <3>2 DEF Typed, Places, TypeOK
    <3>6. Directories'
      BY <2>1, <2>2, <3>1, <3>2 DEF Typed, Directories, phaseFiles, Checkout
    <3> QED BY <3>4, <3>5, <3>6 DEF Typed
  <2>4. CASE Promotable(p) = {}
    <3>1. /\ pc' = "attempt" /\ report' = "running"
          /\ plan' = [plan EXCEPT ![p] = "running"]
          /\ kept' \subseteq kept
          /\ UNCHANGED <<verdict, tree>>
      BY <2>1, <2>4
    <3>2. TypeOK'
      BY <2>1, <2>2, <3>1 DEF Typed, TypeOK, PlanStatus, phaseFiles, outside
    <3>3. Places'
      BY <2>1, <2>2, <3>1 DEF Typed, Places, TypeOK
    <3>4. Directories'
      BY <2>1, <2>2, <3>1 DEF Typed, Directories, phaseFiles
    <3> QED BY <3>2, <3>3, <3>4 DEF Typed
  <2> QED BY <2>3, <2>4
<1>3. ASSUME BeginAttempt \/ BeginFinal PROVE Typed'
  <2> DEFINE t == AttemptTree(Interrupted(phase).run)
  <2>1. BegunIn(t)
    BY <1>3, AttemptBegins
  <2> HIDE DEF t
  <2>2. /\ pc' = "working" /\ count' \in Nat /\ seen' \in BOOLEAN
        /\ phase' = phase /\ phase \in Section
        /\ phase = Final \/ count' <= MaxPhases
        /\ UNCHANGED <<plan, kept, phase, verdict, written, blocked, phaseFiles, outside, report>>
    <3>1. CASE BeginAttempt
      BY <3>1 DEF BeginAttempt, Typed, TypeOK, Places, Section
    <3>2. CASE BeginFinal
      BY <3>2 DEF BeginFinal, Typed, TypeOK, Places, Section
    <3> QED BY <1>3, <3>1, <3>2
  <2>3. t \in 1 .. Len(work')
    BY <2>1 DEF BegunIn
  <2>4. TypeOK'
    BY SMTT(60), <2>1, <2>2 DEF BegunIn, Typed, TypeOK, Section, phaseFiles, outside
  <2>5. Places'
    <3>1. \A p \in Phase : plan[p] = "running" => p = phase
      BY <1>3 DEF Typed, Places, BeginAttempt, BeginFinal
    <3> QED BY <2>1, <2>2, <3>1 DEF BegunIn, Begun, Places
  <2>6. Directories'
    <3>1. \A u \in Section : \A i \in DOMAIN runs'[u] : runs'[u][i].tree \in 1 .. Len(work')
      <4> SUFFICES ASSUME NEW u \in Section, NEW i \in DOMAIN runs'[u]
                   PROVE  runs'[u][i].tree \in 1 .. Len(work')
        OBVIOUS
      <4>1. CASE u = phase /\ i = run'
        BY <2>1, <2>3, <4>1 DEF BegunIn, Begun
      <4>2. CASE ~(u = phase /\ i = run')
        <5>1. i \in DOMAIN runs[u] /\ runs'[u][i] = runs[u][i]
          BY <2>1, <4>2 DEF BegunIn
        <5>2. runs[u][i].tree \in 1 .. Len(work)
          BY <5>1 DEF Typed, Directories
        <5> QED BY <2>1, <5>1, <5>2 DEF BegunIn
      <4> QED BY <4>1, <4>2
    <3>2. 0 .. Len(work) \subseteq 0 .. Len(work')
      BY <2>1 DEF BegunIn
    <3> QED BY <2>2, <3>1, <3>2 DEF Typed, Directories, phaseFiles
  <2> QED BY <2>4, <2>5, <2>6 DEF Typed
<1>4. ASSUME NEW outcome \in Outcomes, JudgeAttempt(outcome) \/ JudgeFinal(outcome) PROVE Typed'
  <2>1. EndedWith(outcome)
    BY <1>4, AttemptEnds DEF JudgeAttempt, JudgeFinal
  <2>2. pc = "working" /\ UNCHANGED <<kept, phase, run, tree, seen, count, phaseFiles, outside,
          report>>
    BY <1>4 DEF JudgeAttempt, JudgeFinal
  <2>3. /\ pc' \in {"attempt", "prove", "verify", "handover"}
        /\ pc' \in {"attempt", "prove"} => phase \in Phase
        /\ pc' \in {"verify", "handover"} => phase = Final
        /\ blocked' \in BOOLEAN /\ verdict' \in {"done", "blocked"} /\ written' \in 0 .. MaxRepairs
        /\ plan' \in [Phase -> PlanStatus]
        /\ \A p \in Phase : plan'[p] = "running" => pc' = "attempt" /\ p = phase
    <3>1. CASE JudgeAttempt(outcome)
      <4>1. phase \in Phase /\ plan \in [Phase -> PlanStatus] /\ pc = "working"
        BY <3>1 DEF JudgeAttempt, Typed, TypeOK
      <4>2. /\ plan' \in [Phase -> PlanStatus]
            /\ \A p \in Phase : plan'[p] = "running" => pc' = "attempt" /\ p = phase
        BY <3>1, <4>1 DEF JudgeAttempt, Typed, Places, PlanStatus
      <4>3. pc' \in {"attempt", "prove"} /\ blocked' \in BOOLEAN /\ written' \in 0 .. MaxRepairs
        BY <3>1 DEF JudgeAttempt, Typed, TypeOK
      <4> QED BY <3>1, <4>1, <4>2, <4>3 DEF JudgeAttempt
    <3>2. CASE JudgeFinal(outcome)
      BY <3>2 DEF JudgeFinal, Typed, TypeOK, Places, PlanStatus
    <3> QED BY <1>4, <3>1, <3>2
  <2>4. TypeOK'
    BY SMTT(60), <2>1, <2>2, <2>3 DEF EndedWith, Typed, TypeOK, Section, phaseFiles, outside
  <2>5. Places'
    BY <2>2, <2>3 DEF Typed, Places
  <2>6. Directories'
    <3>1. tree # Checkout
      BY <2>2 DEF Typed, Places, Directories, TypeOK, Section, Checkout
    <3>2. \A s \in Section : \A i \in DOMAIN runs'[s] : runs'[s][i].tree \in 1 .. Len(work')
      <4>1. runs[phase][run].tree = tree
        BY <2>2 DEF Typed, Places
      <4>2. \A s \in Section : /\ DOMAIN runs'[s] = DOMAIN runs[s]
                               /\ \A i \in DOMAIN runs[s] : runs'[s][i].tree = runs[s][i].tree
        BY <2>1, <4>1 DEF EndedWith
      <4>3. Len(work') = Len(work)
        BY <2>1 DEF EndedWith
      <4> QED BY <4>2, <4>3 DEF Typed, Directories
    <3>3. UNCHANGED <<record, kept>> /\ Len(work') = Len(work)
      BY <2>1, <2>2 DEF EndedWith, phaseFiles
    <3>4. pc' \in {"prove", "record"} /\ verdict' = "done" => tree' # Checkout
      BY <2>2, <3>1
    <3>5. /\ \A p \in Phase : /\ record'[p].tree \in 0 .. Len(work')
                              /\ record'[p].status = "done" => record'[p].tree # Checkout
          /\ \A r \in kept' : /\ r.tree \in 0 .. Len(work') /\ r.at <= MaxPhases
                              /\ r.status = "done" => r.tree # Checkout
      BY <3>3 DEF Typed, Directories
    <3> QED BY <3>2, <3>4, <3>5 DEF Directories
  <2> QED BY <2>4, <2>5, <2>6 DEF Typed
<1>5. ASSUME LeaveLoop PROVE Typed'
  <2>1. TypeOK'
    BY SMTT(60), <1>5 DEF LeaveLoop, Typed, TypeOK, Places, PlanStatus, memory, phaseFiles, outside
  <2>2. Places'
    BY <1>5 DEF LeaveLoop, Typed, TypeOK, Places, memory, phaseFiles, outside
  <2>3. Directories'
    BY <1>5 DEF LeaveLoop, Typed, TypeOK, Places, Directories, memory, phaseFiles, outside
  <2> QED BY <2>1, <2>2, <2>3 DEF Typed
<1>6. ASSUME RefuseAttempt PROVE Typed'
  <2>1. TypeOK'
    BY SMTT(60), <1>6 DEF RefuseAttempt, Typed, TypeOK, Places, PlanStatus, memory, phaseFiles,
       outside
  <2>2. Places'
    BY <1>6 DEF RefuseAttempt, Typed, TypeOK, Places, memory, phaseFiles, outside
  <2>3. Directories'
    BY <1>6 DEF RefuseAttempt, Typed, TypeOK, Places, Directories, memory, phaseFiles, outside
  <2> QED BY <2>1, <2>2, <2>3 DEF Typed
<1>7. ASSUME TooManyAttempts PROVE Typed'
  <2>1. TypeOK'
    BY SMTT(60), <1>7 DEF TooManyAttempts, Down, Typed, TypeOK, Places, PlanStatus, memory,
       phaseFiles, outside
  <2>2. Places'
    BY <1>7 DEF TooManyAttempts, Down, Typed, TypeOK, Places, memory, phaseFiles, outside
  <2>3. Directories'
    BY <1>7 DEF TooManyAttempts, Down, Typed, TypeOK, Places, Directories, memory, phaseFiles,
       outside
  <2> QED BY <2>1, <2>2, <2>3 DEF Typed
<1>8. ASSUME ProvePhase PROVE Typed'
  <2>1. TypeOK'
    <3>1. /\ verdict' \in {"done", "blocked"} /\ blocked' \in BOOLEAN
          /\ plan' \in [Phase -> PlanStatus]
          /\ proof' \in [Phase -> {"none", "empty", "evidence"}]
      BY <1>8 DEF ProvePhase, Typed, TypeOK, PlanStatus
    <3>2. /\ phase \in Phase /\ tree \in Nat /\ count \in Nat
          /\ kept' = kept \cup {[phase |-> phase, status |-> verdict', tree |-> tree, at |-> count]}
      BY <1>8 DEF ProvePhase, Remembers, Typed, TypeOK, Places
    <3>3. kept' \subseteq Record
      BY <3>1, <3>2 DEF Typed, TypeOK, Record, Trees
    <3> QED BY <1>8, <3>1, <3>3 DEF ProvePhase, Typed, TypeOK, outside
  <2>2. Places'
    BY <1>8 DEF ProvePhase, Remembers, Record, Typed, TypeOK, Places, memory, phaseFiles, outside
  <2>3. Directories'
    BY <1>8 DEF ProvePhase, Remembers, Record, Typed, TypeOK, Places, Directories, memory,
       phaseFiles, outside
  <2> QED BY <2>1, <2>2, <2>3 DEF Typed
<1>9. ASSUME WriteRecord PROVE Typed'
  <2>1. TypeOK'
    <3>1. record' \in [Phase -> [status : {"none", "done", "blocked"}, tree : Trees]]
      <4>1. /\ phase \in Phase
            /\ [status |-> verdict, tree |-> tree] \in
                 [status : {"none", "done", "blocked"}, tree : Trees]
        BY <1>9 DEF WriteRecord, Typed, TypeOK, Places, Trees
      <4> QED BY <1>9, <4>1 DEF WriteRecord, Typed, TypeOK
    <3> QED BY <1>9, <3>1 DEF WriteRecord, Typed, TypeOK, memory, outside
  <2>2. Places'
    BY <1>9 DEF WriteRecord, Typed, TypeOK, Places, memory, phaseFiles, outside
  <2>3. Directories'
    BY <1>9 DEF WriteRecord, Typed, TypeOK, Places, Directories, memory, phaseFiles, outside
  <2> QED BY <2>1, <2>2, <2>3 DEF Typed
<1>10. ASSUME SavePlan PROVE Typed'
  <2>1. TypeOK'
    <3>1. stored' \in [Phase -> PlanStatus \ {"running"}]
      BY <1>10 DEF SavePlan, Typed, TypeOK, Places
    <3>2. pc' \in {"select", "verify"} /\ phase' \in Phase \cup {Final} /\ count' \in Nat /\
            blocked' \in BOOLEAN
      <4>1. CASE verdict = "done"
        BY <1>10, <4>1 DEF SavePlan, Typed, TypeOK
      <4>2. CASE verdict # "done"
        BY <1>10, <4>2 DEF SavePlan
      <4> QED BY <4>1, <4>2
    <3>3. /\ report' = "running"
          /\ UNCHANGED <<plan, kept, run, verdict, tree, seen, written, record, proof, contract,
               outside, runs, work>>
      BY <1>10 DEF SavePlan
    <3> QED BY <3>1, <3>2, <3>3 DEF Typed, TypeOK, outside
  <2>2. Places'
    BY <1>10 DEF SavePlan, Typed, TypeOK, Places, memory, phaseFiles, outside
  <2>3. Directories'
    BY <1>10 DEF SavePlan, Typed, TypeOK, Places, Directories, memory, phaseFiles, outside
  <2> QED BY <2>1, <2>2, <2>3 DEF Typed
<1>11. ASSUME RefuseFinal PROVE Typed'
  <2>1. TypeOK'
    BY SMTT(60), <1>11 DEF RefuseFinal, Typed, TypeOK, Places, PlanStatus, memory, phaseFiles,
       outside
  <2>2. Places'
    BY <1>11 DEF RefuseFinal, Typed, TypeOK, Places, memory, phaseFiles, outside
  <2>3. Directories'
    BY <1>11 DEF RefuseFinal, Typed, TypeOK, Places, Directories, memory, phaseFiles, outside
  <2> QED BY <2>1, <2>2, <2>3 DEF Typed
<1>12. ASSUME HandOver PROVE Typed'
  <2>1. TypeOK'
    BY SMTT(60), <1>12 DEF HandOver, Typed, TypeOK, Places, PlanStatus, memory, phaseFiles, outside
  <2>2. Places'
    BY <1>12 DEF HandOver, Typed, TypeOK, Places, memory, phaseFiles, outside
  <2>3. Directories'
    BY <1>12 DEF HandOver, Typed, TypeOK, Places, Directories, memory, phaseFiles, outside
  <2> QED BY <2>1, <2>2, <2>3 DEF Typed
<1>13. ASSUME Aftermath, pc' = "down" \/ pc' = pc, UNCHANGED <<memory, phaseFiles, locked,
              built, starts, report, work>>, strays' \subseteq strays \cup {tree}
       PROVE  Typed'
  <2>0. strays' \subseteq 0 .. Len(work)
    BY <1>13 DEF Typed, TypeOK
  <2>1. TypeOK'
    BY SMTT(60), <1>13, <2>0 DEF Aftermath, Typed, TypeOK, Section, memory, phaseFiles
  <2>2. Places'
    BY <1>13 DEF Aftermath, Typed, TypeOK, Places, Section, memory
  <2>3. Directories'
    <3>1. \A u \in Section : \A i \in DOMAIN runs'[u] : runs'[u][i].tree \in 1 .. Len(work')
      <4> SUFFICES ASSUME NEW u \in Section, NEW i \in DOMAIN runs'[u]
                   PROVE  runs'[u][i].tree \in 1 .. Len(work')
        OBVIOUS
      <4>1. i \in DOMAIN runs[u] /\ runs'[u][i].tree = runs[u][i].tree
        BY <1>13 DEF Aftermath
      <4>2. runs[u][i].tree \in 1 .. Len(work) /\ work' = work
        BY <1>13, <4>1 DEF Typed, Directories
      <4> QED BY <4>1, <4>2
    <3> QED BY <1>13, <3>1 DEF Typed, Directories, memory, phaseFiles
  <2> QED BY <2>1, <2>2, <2>3 DEF Typed
<1>14. ASSUME pc' = "down" \/ pc' = pc, UNCHANGED <<memory, phaseFiles, outside, report, work,
              runs>>
       PROVE  Typed'
  <2>1. TypeOK'
    BY SMTT(60), <1>14 DEF Typed, TypeOK, memory, phaseFiles, outside
  <2>2. Places'
    BY <1>14 DEF Typed, TypeOK, Places, memory
  <2>3. Directories'
    BY <1>14 DEF Typed, Directories, memory, phaseFiles
  <2> QED BY <2>1, <2>2, <2>3 DEF Typed
<1>15. CASE Crash
  <2>1. CASE pc = "working"
    BY <1>13, <1>15, <2>1, LeftBehind DEF Crash, Down
  <2>2. CASE pc # "working"
    BY <1>14, <1>15, <2>2 DEF Crash, Down, outside
  <2> QED BY <2>1, <2>2
<1>16. CASE WorkerEnds \/ MarkStopped
  BY <1>13, <1>16, LeftBehind DEF WorkerEnds, MarkStopped, outside
<1>17. CASE UNCHANGED vars
  BY <1>14, <1>17 DEF vars, memory, phaseFiles, outside
<1> QED
  BY <1>1, <1>2, <1>3, <1>4, <1>5, <1>6, <1>7, <1>8, <1>9, <1>10, <1>11, <1>12, <1>15, <1>16, <1>17
     DEF Next, Invocation

\* What the executor remembers, its files, its run directories and the
\* worktrees are of their types.
THEOREM RoadmapIsTyped == Spec => []TypeOK
<1>1. Init => Typed
  BY InitIsTyped
<1>2. Typed /\ [Next]_vars => Typed'
  BY TypedStep
<1>3. Typed => TypeOK
  BY DEF Typed
<1> QED BY <1>1, <1>2, <1>3, PTL DEF Spec

-----------------------------------------------------------------------------
(***************************************************************************)
(* The phases are accepted in order.  What the directories say of a phase  *)
(* (a promotable attempt, a done record, a completed phase of the stored   *)
(* plan) and what the executor remembers of it agree at every step, also   *)
(* when only some of the files were written before a crash.                *)
(***************************************************************************)
InOrder(plans) ==
  \A p, q \in Phase : q < p /\ plans[p] = "completed" => plans[q] = "completed"

AcceptedInOrder ==
  /\ \A p \in Accepted : Promotable(p) # {} /\ \A q \in Phase : q < p => q \in Accepted
  /\ InOrder(plan)
  /\ pc # "down" => \A p \in Phase : plan[p] = "completed" =>
       p \in Accepted \/ (p = phase /\ pc \in {"prove", "record"} /\ verdict = "done")
  /\ stored # <<>> =>
       InOrder(stored) /\ \A p \in Phase : stored[p] = "completed" => p \in Accepted

\* A blocked phase of a run without goal lock has a record, which puts it
\* back in the queue of the next invocation.
LegacyBlocks ==
  ~locked =>
    /\ stored # <<>> => \A p \in Phase : stored[p] = "blocked" => record[p].status # "none"
    /\ \/ pc \in {"select", "attempt", "working", "prove", "record", "save"}
       \/ pc = "verify" /\ ~blocked
       => \A p \in Phase : plan[p] = "blocked" =>
           p = phase /\ pc \in {"prove", "record", "save"} /\ verdict = "blocked"

\* The phase in hand.
InHand ==
  /\ pc \in {"attempt", "working", "prove", "record", "save"} /\ phase # Final =>
       \A q \in Phase : q < phase => plan[q] = "completed"
  /\ pc \in {"attempt", "working"} /\ phase # Final => Promotable(phase) = {}
  /\ pc = "prove" => phase \notin Accepted
  /\ pc = "record" /\ verdict = "blocked" => phase \notin Accepted
  /\ pc \in {"prove", "record"} /\ verdict = "done" => Promotable(phase) # {}
  /\ pc \in {"prove", "record", "save"} => ((plan[phase] = "completed") <=> (verdict = "done"))
  /\ pc = "save" => record[phase].status = verdict

Order == AcceptedInOrder /\ LegacyBlocks /\ InHand

LEMMA PromotableAfter ==
  ASSUME Typed
  PROVE  /\ Aftermath => \A s \in Section : Promotable(s)' = Promotable(s)
         /\ \A t : BegunIn(t) => \A s \in Section :
              Promotable(s)' \subseteq Promotable(s) /\
                (s # phase => Promotable(s)' = Promotable(s))
         /\ \A outcome \in Outcomes : pc = "working" /\ EndedWith(outcome) =>
              \A s \in Section : Promotable(s)' =
                Promotable(s) \cup IF s = phase /\ outcome = "promotable" THEN {run} ELSE {}
<1>1. Aftermath => \A s \in Section : Promotable(s)' = Promotable(s)
  BY DEF Aftermath, Promotable
<1>2. ASSUME NEW t, BegunIn(t), NEW s \in Section
      PROVE  Promotable(s)' \subseteq Promotable(s) /\ (s # phase => Promotable(s)' = Promotable(s))
  BY <1>2 DEF BegunIn, Begun, Promotable
<1>3. ASSUME NEW outcome \in Outcomes, pc = "working", EndedWith(outcome), NEW s \in Section
      PROVE  Promotable(s)' =
               Promotable(s) \cup IF s = phase /\ outcome = "promotable" THEN {run} ELSE {}
  <2>1. run \in DOMAIN runs[phase] /\ runs[phase][run].result = "none"
    BY <1>3 DEF Typed, Places
  <2>2. /\ DOMAIN runs'[s] = DOMAIN runs[s]
        /\ \A i \in DOMAIN runs[s] : s # phase \/ i # run => runs'[s][i] = runs[s][i]
        /\ runs'[phase][run].result = outcome
    BY <1>3 DEF EndedWith
  <2>3. CASE s = phase /\ outcome = "promotable"
    BY <2>1, <2>2, <2>3 DEF Promotable
  <2>4. CASE ~(s = phase /\ outcome = "promotable")
    BY <2>1, <2>2, <2>4 DEF Promotable
  <2> QED BY <2>3, <2>4
<1> QED BY <1>1, <1>2, <1>3

\* The phases before the next one are completed.
LEMMA NextIsFirst ==
  ASSUME Typed, Order, pc = "select", NEW p \in NextPhase
  PROVE  \A q \in Phase : q < p => plan[q] = "completed"
<1>1. p \in Phase /\ Ready(p) /\ \A q \in Phase : Ready(q) => p <= q
  BY DEF NextPhase
<1> SUFFICES ASSUME NEW q \in Phase, q < p PROVE plan[q] = "completed"
  OBVIOUS
<1>2. CASE locked
  <2>1. p - 1 \in Phase /\ plan[p - 1] = "completed"
    BY <1>1, <1>2, Constants DEF Ready, Phase
  <2>2. q < p - 1 \/ q = p - 1
    BY <1>1, Constants DEF Phase
  <2> QED BY <2>1, <2>2 DEF Order, AcceptedInOrder, InOrder
<1>3. CASE ~locked
  <2>1. ~Ready(q)
    BY <1>1, Constants DEF Phase
  <2>2. plan[q] \in PlanStatus /\ plan[q] # "pending"
    BY <1>3, <2>1 DEF Ready, Typed, TypeOK
  <2>3. plan[q] # "blocked" /\ plan[q] # "running"
    BY <1>3 DEF Order, LegacyBlocks, Typed, Places
  <2> QED BY <2>2, <2>3 DEF PlanStatus
<1> QED BY <1>2, <1>3

LEMMA InitInOrder == Init => Order
<1> SUFFICES ASSUME Init PROVE Order
  OBVIOUS
<1>1. Accepted = {} /\ \A p \in Phase : plan[p] = "pending"
  BY DEF Init, Accepted, NoRecord, Unplanned
<1> QED BY <1>1 DEF Init, Order, AcceptedInOrder, LegacyBlocks, InHand, InOrder

LEMMA OrderStep == Typed /\ Order /\ [Next]_vars => Order'
<1> SUFFICES ASSUME Typed, Order, [Next]_vars PROVE Order'
  OBVIOUS
<1> USE Constants
<1>0. /\ \A p \in Phase : Promotable(p) # {} \/ p \notin Accepted
      /\ Phase \subseteq Section /\ Final \notin Phase /\ Accepted \subseteq Phase
  BY DEF Order, AcceptedInOrder, Section, Accepted
<1>1. ASSUME NEW goal \in Revisions, Start(goal) PROVE Order'
  <2>1. Accepted' = Accepted /\ \A p \in Phase : Promotable(p)' = Promotable(p)
    BY <1>1 DEF Start, Accepted, Promotable
  <2>2. ASSUME Resumable
        PROVE  /\ \A p \in Phase : SyncedPlan[p] = "completed" => p \in Accepted
               /\ InOrder(SyncedPlan)
               /\ ~locked => \A p \in Phase : SyncedPlan[p] # "blocked"
    <3>1. stored # <<>>
      BY <2>2 DEF Resumable
    <3>2. CASE locked
      <4>1. \A p \in Phase : SyncedPlan[p] = stored[p]
        BY <3>2, LoadedFacts DEF SyncedPlan
      <4> QED BY <3>1, <3>2, <4>1 DEF Order, AcceptedInOrder, InOrder
    <3>3. CASE ~locked
      <4> DEFINE Status(p) == {r.status : r \in {x \in LoadedRecords : x.phase = p}}
      <4>1. \A p \in Phase : Status(p) \subseteq {record[p].status}
        BY LoadedFacts
      <4>2. \A p \in Phase : record[p].status # "none" => record[p].status \in Status(p)
        BY <3>3, LoadedFacts
      <4>3. \A p \in Phase : SyncedPlan[p] = CASE "done" \in Status(p) -> "completed"
                                               [] "blocked" \in Status(p) -> "pending"
                                               [] OTHER -> stored[p]
        BY DEF SyncedPlan
      <4> HIDE DEF Status
      <4>4. \A p \in Phase : SyncedPlan[p] = "completed" => p \in Accepted
        <5> SUFFICES ASSUME NEW p \in Phase, SyncedPlan[p] = "completed", p \notin Accepted
                     PROVE  FALSE
          OBVIOUS
        <5>1. record[p].status # "done"
          BY DEF Accepted
        <5>2. stored[p] = "completed"
          BY <4>1, <4>3, <5>1
        <5> QED BY <3>1, <5>2 DEF Order, AcceptedInOrder
      <4>5. \A p \in Accepted : SyncedPlan[p] = "completed"
        <5> SUFFICES ASSUME NEW p \in Phase, record[p].status = "done"
                     PROVE  SyncedPlan[p] = "completed"
          BY DEF Accepted
        <5>1. "done" \in Status(p)
          BY <4>2
        <5> QED BY <4>1, <4>3, <5>1
      <4>6. InOrder(SyncedPlan)
        BY <4>4, <4>5 DEF InOrder, Order, AcceptedInOrder
      <4>7. \A p \in Phase : SyncedPlan[p] # "blocked"
        <5> SUFFICES ASSUME NEW p \in Phase, SyncedPlan[p] = "blocked" PROVE FALSE
          OBVIOUS
        <5>1. stored[p] = "blocked" /\ "done" \notin Status(p) /\ "blocked" \notin Status(p)
          BY <4>3
        <5>2. record[p].status \in {"done", "blocked"}
          BY <3>1, <3>3, <5>1 DEF Order, LegacyBlocks, Typed, TypeOK
        <5> QED BY <4>2, <5>1, <5>2
      <4> QED BY <4>4, <4>6, <4>7
    <3> QED BY <3>2, <3>3
  <2>3. /\ \A p \in Phase : plan'[p] = "completed" => p \in Accepted
        /\ InOrder(plan')
        /\ ~locked => \A p \in Phase : plan'[p] # "blocked"
    <3>1. CASE Resumable
      BY <1>1, <2>2, <3>1 DEF Start
    <3>2. CASE ~Resumable
      <4>1. \A p \in Phase : plan'[p] = "pending"
        BY <1>1, <3>2 DEF Start, Unplanned
      <4> QED BY <4>1 DEF InOrder
    <3> QED BY <3>1, <3>2
  <2>4. AcceptedInOrder'
    BY <1>0, <1>1, <2>1, <2>3 DEF Start, Order, AcceptedInOrder, InOrder
  <2>5. LegacyBlocks'
    BY <1>1, <2>3 DEF Start, LegacyBlocks
  <2>6. InHand'
    BY <1>1 DEF Start, InHand
  <2> QED BY <2>4, <2>5, <2>6 DEF Order
<1>2. ASSUME SelectPhase PROVE Order'
  <2>1. PICK p \in NextPhase :
          /\ phase' = p
          /\ IF Promotable(p) # {}
               THEN /\ pc' = "record" /\ verdict' = "done"
                    /\ plan' = [plan EXCEPT ![p] = "completed"]
               ELSE /\ pc' = "attempt"
                    /\ plan' = [plan EXCEPT ![p] = "running"]
    BY <1>2 DEF SelectPhase
  <2>2. /\ p \in Phase /\ plan[p] = "pending" /\ pc = "select"
        /\ \A q \in Phase : q < p => plan[q] = "completed"
    BY <1>2, <2>1, NextIsFirst DEF SelectPhase, NextPhase, Ready
  <2>3. /\ Accepted' = Accepted /\ \A q \in Phase : Promotable(q)' = Promotable(q)
        /\ stored' = stored /\ record' = record /\ locked' = locked
    BY <1>2 DEF SelectPhase, Accepted, Promotable, phaseFiles, outside
  <2>4. plan' \in [Phase -> PlanStatus] /\ \A q \in Phase : q # p => plan'[q] = plan[q]
    BY <2>1, <2>2 DEF Typed, TypeOK, PlanStatus
  <2>5. \A q \in Phase : plan[q] = "completed" => q \in Accepted
    BY <2>2 DEF Order, AcceptedInOrder
  <2>6. InOrder(plan')
    <3>1. \A q \in Phase : p < q => plan[q] # "completed"
      BY <2>2 DEF Order, AcceptedInOrder, InOrder
    <3> QED BY <2>2, <2>4, <3>1 DEF Order, AcceptedInOrder, InOrder, Phase
  <2>7. AcceptedInOrder'
    <3>1. \A q \in Phase : plan'[q] = "completed" =>
            q \in Accepted \/ (q = phase' /\ pc' = "record" /\ verdict' = "done")
      BY <2>1, <2>2, <2>4, <2>5 DEF Typed, TypeOK
    <3> QED BY <1>0, <2>3, <2>6, <3>1 DEF Order, AcceptedInOrder, InOrder
  <2>8. LegacyBlocks'
    <3>1. ~locked => \A q \in Phase : plan'[q] # "blocked"
      BY <2>1, <2>2, <2>4 DEF Order, LegacyBlocks, Typed, TypeOK
    <3> QED BY <2>3, <3>1 DEF Order, LegacyBlocks
  <2>9. InHand'
    <3>1. \A q \in Phase : q < p => plan'[q] = "completed"
      BY <2>2, <2>4 DEF Phase
    <3>2. (plan'[p] = "completed") <=> Promotable(p) # {}
      BY <2>1, <2>2 DEF Typed, TypeOK
    <3> QED BY <2>1, <2>2, <2>3, <3>1, <3>2 DEF InHand
  <2> QED BY <2>7, <2>8, <2>9 DEF Order
<1>3. ASSUME BeginAttempt \/ BeginFinal PROVE Order'
  <2>1. PICK t : BegunIn(t)
    BY <1>3, AttemptBegins
  <2>2. /\ pc \in {"attempt", "verify"} /\ pc' = "working"
        /\ UNCHANGED <<plan, phase, verdict, stored, record, locked>>
        /\ phase \in Section /\ (pc = "attempt" \/ phase = Final)
    BY <1>3 DEF BeginAttempt, BeginFinal, phaseFiles, outside, Typed, TypeOK, Places, Section
  <2>3. Accepted' = Accepted
    BY <2>2 DEF Accepted
  <2>4. \A p \in Phase : Promotable(p)' = Promotable(p)
    <3>1. \A p \in Phase : Promotable(p)' \subseteq Promotable(p)
                           /\ (p # phase => Promotable(p)' = Promotable(p))
      BY <1>0, <2>1, PromotableAfter
    <3>2. phase \in Phase => Promotable(phase) = {}
      BY <2>2 DEF Order, InHand
    <3> QED BY <3>1, <3>2
  <2>5. AcceptedInOrder'
    BY <1>0, <2>2, <2>3, <2>4 DEF Order, AcceptedInOrder, InOrder
  <2>6. LegacyBlocks'
    <3>1. pc = "verify" => ~blocked
      BY <1>3 DEF BeginAttempt, BeginFinal
    <3> QED BY <2>2, <3>1 DEF Order, LegacyBlocks
  <2>7. InHand'
    BY <2>2, <2>3, <2>4 DEF Order, InHand, Section
  <2> QED BY <2>5, <2>6, <2>7 DEF Order
<1>4. ASSUME NEW outcome \in Outcomes, JudgeAttempt(outcome) PROVE Order'
  <2>1. EndedWith(outcome) /\ pc = "working" /\ phase \in Phase
    BY <1>4, AttemptEnds DEF JudgeAttempt, Typed, TypeOK
  <2>2. /\ pc' \in {"attempt", "prove"} /\ (outcome = "promotable" => pc' = "prove")
        /\ (pc' = "prove" => blocked' = (outcome # "promotable"))
        /\ verdict' = IF outcome = "promotable" THEN "done" ELSE "blocked"
        /\ UNCHANGED <<phase, stored, record, locked>>
        /\ plan' = [plan EXCEPT ![phase] = IF outcome = "promotable" THEN "completed"
                                           ELSE IF pc' = "attempt" THEN @ ELSE "blocked"]
    BY <1>4 DEF JudgeAttempt, phaseFiles, outside
  <2>3. Accepted' = Accepted
    BY <2>2 DEF Accepted
  <2>4. \A p \in Phase : Promotable(p)' =
          Promotable(p) \cup IF p = phase /\ outcome = "promotable" THEN {run} ELSE {}
    BY <1>0, <2>1, PromotableAfter
  <2>5. /\ phase \notin Accepted /\ plan[phase] # "completed" /\ Promotable(phase) = {}
        /\ \A q \in Phase : q < phase => plan[q] = "completed"
        /\ \A q \in Phase : plan[q] = "completed" => q \in Accepted
    BY <1>0, <2>1 DEF Order, AcceptedInOrder, InHand
  <2>6. plan' \in [Phase -> PlanStatus] /\ \A q \in Phase : q # phase => plan'[q] = plan[q]
    BY <2>1, <2>2 DEF Typed, TypeOK, PlanStatus
  <2>7. plan'[phase] = "completed" <=> outcome = "promotable"
    BY <2>1, <2>2, <2>5 DEF Typed, TypeOK
  <2>8. InOrder(plan')
    BY <2>1, <2>5, <2>6 DEF InOrder, Order, AcceptedInOrder, Phase
  <2>9. AcceptedInOrder'
    BY <1>0, <2>1, <2>2, <2>3, <2>4, <2>5, <2>6, <2>7, <2>8 DEF Order, AcceptedInOrder, InOrder
  <2>10. LegacyBlocks'
    <3>1. ~locked => plan[phase] # "blocked" /\ \A q \in Phase : q # phase => plan[q] # "blocked"
      BY <2>1 DEF Order, LegacyBlocks
    <3> QED BY <2>1, <2>2, <2>6, <2>7, <3>1 DEF Order, LegacyBlocks, Typed, TypeOK
  <2>11. InHand'
    BY <1>0, <2>1, <2>2, <2>3, <2>4, <2>5, <2>6, <2>7 DEF InHand, Phase
  <2> QED BY <2>9, <2>10, <2>11 DEF Order
<1>5. ASSUME NEW outcome \in Outcomes, JudgeFinal(outcome) PROVE Order'
  <2>1. EndedWith(outcome) /\ pc = "working" /\ phase = Final
    BY <1>5, AttemptEnds DEF JudgeFinal
  <2>2. /\ pc' \in {"verify", "handover"} /\ pc # "down"
        /\ UNCHANGED <<plan, phase, stored, record, locked>>
    BY <1>5 DEF JudgeFinal, phaseFiles, outside
  <2>3. Accepted' = Accepted /\ \A p \in Phase : Promotable(p)' = Promotable(p)
    <3>1. \A p \in Phase : Promotable(p)' = Promotable(p) \cup {}
      BY <1>0, <2>1, PromotableAfter
    <3> QED BY <2>2, <3>1 DEF Accepted
  <2>4. AcceptedInOrder'
    BY <1>0, <2>1, <2>2, <2>3 DEF Order, AcceptedInOrder, InOrder
  <2>5. LegacyBlocks'
    BY <2>1, <2>2 DEF Order, LegacyBlocks
  <2>6. InHand'
    BY <2>2 DEF InHand
  <2> QED BY <2>4, <2>5, <2>6 DEF Order
<1>6. ASSUME LeaveLoop \/ RefuseFinal \/ HandOver \/ TooManyAttempts PROVE Order'
  <2>1. /\ pc # "down" /\ pc \notin {"prove", "record"} /\ pc' \in {"verify", "handover", "down"}
        /\ UNCHANGED <<plan, stored, record, locked, runs>>
        /\ (pc' = "verify" => pc = "select")
    BY <1>6 DEF LeaveLoop, RefuseFinal, HandOver, TooManyAttempts, Down, memory, phaseFiles, outside
  <2>2. Accepted' = Accepted /\ \A p \in Phase : Promotable(p)' = Promotable(p)
    BY <2>1 DEF Accepted, Promotable
  <2>3. AcceptedInOrder'
    BY <1>0, <2>1, <2>2 DEF Order, AcceptedInOrder, InOrder
  <2>4. LegacyBlocks'
    BY <2>1 DEF Order, LegacyBlocks
  <2>5. InHand'
    BY <2>1 DEF InHand
  <2> QED BY <2>3, <2>4, <2>5 DEF Order
<1>7. ASSUME RefuseAttempt PROVE Order'
  <2>1. /\ pc = "attempt" /\ phase \in Phase /\ pc' = "prove" /\ verdict' = "blocked"
        /\ plan' = [plan EXCEPT ![phase] = "blocked"]
        /\ UNCHANGED <<phase, stored, record, locked, runs>>
    BY <1>7 DEF RefuseAttempt, Typed, Places, phaseFiles, outside
  <2>2. Accepted' = Accepted /\ \A p \in Phase : Promotable(p)' = Promotable(p)
    BY <2>1 DEF Accepted, Promotable
  <2>3. /\ phase \notin Accepted
        /\ \A q \in Phase : q < phase => plan[q] = "completed"
        /\ \A q \in Phase : plan[q] = "completed" => q \in Accepted
    BY <1>0, <2>1 DEF Order, AcceptedInOrder, InHand
  <2>4. /\ plan'[phase] = "blocked" /\ \A q \in Phase : q # phase => plan'[q] = plan[q]
    BY <2>1 DEF Typed, TypeOK
  <2>5. InOrder(plan')
    BY <2>1, <2>3, <2>4 DEF InOrder, Order, AcceptedInOrder
  <2>6. AcceptedInOrder'
    BY <1>0, <2>1, <2>2, <2>3, <2>4, <2>5 DEF Order, AcceptedInOrder, InOrder
  <2>7. LegacyBlocks'
    BY <2>1, <2>4 DEF Order, LegacyBlocks
  <2>8. InHand'
    BY <2>1, <2>2, <2>3, <2>4 DEF InHand, Phase
  <2> QED BY <2>6, <2>7, <2>8 DEF Order
<1>8. ASSUME ProvePhase PROVE Order'
  <2>1. /\ pc = "prove" /\ phase \in Phase /\ pc' = "record"
        /\ UNCHANGED <<phase, stored, record, locked, runs>>
        /\ \/ UNCHANGED <<plan, verdict>>
           \/ /\ verdict' = "blocked" /\ locked
              /\ plan' = [plan EXCEPT ![phase] = "blocked"]
    BY <1>8 DEF ProvePhase, Typed, TypeOK, Places, outside
  <2>2. Accepted' = Accepted /\ \A p \in Phase : Promotable(p)' = Promotable(p)
    BY <2>1 DEF Accepted, Promotable
  <2>3. /\ phase \notin Accepted
        /\ \A q \in Phase : q < phase => plan[q] = "completed"
        /\ \A q \in Phase : plan[q] = "completed" => q \in Accepted \/ q = phase
        /\ (plan[phase] = "completed" <=> verdict = "done")
        /\ (verdict = "done" => Promotable(phase) # {})
    BY <1>0, <2>1 DEF Order, AcceptedInOrder, InHand
  <2>4. /\ \A q \in Phase : q # phase => plan'[q] = plan[q]
        /\ (plan'[phase] = "completed" <=> verdict' = "done")
        /\ (verdict' = "done" => verdict = "done")
    BY <2>1, <2>3 DEF Typed, TypeOK
  <2>5. InOrder(plan')
    <3>1. \A q \in Phase : phase < q => plan[q] # "completed"
      BY <1>0, <2>1, <2>3 DEF Order, AcceptedInOrder, Phase
    <3> QED BY <2>1, <2>3, <2>4, <3>1 DEF InOrder, Order, AcceptedInOrder, Phase
  <2>6. AcceptedInOrder'
    BY <1>0, <2>1, <2>2, <2>3, <2>4, <2>5 DEF Order, AcceptedInOrder, InOrder
  <2>7. LegacyBlocks'
    BY <2>1, <2>4 DEF Order, LegacyBlocks
  <2>8. InHand'
    BY <2>1, <2>2, <2>3, <2>4 DEF InHand, Phase
  <2> QED BY <2>6, <2>7, <2>8 DEF Order
<1>9. ASSUME WriteRecord PROVE Order'
  <2>1. /\ pc = "record" /\ phase \in Phase /\ pc' = "save"
        /\ record' = [record EXCEPT ![phase] = [status |-> verdict, tree |-> tree]]
        /\ UNCHANGED <<plan, verdict, phase, stored, locked, runs>>
        /\ verdict \in {"done", "blocked"}
    BY <1>9 DEF WriteRecord, Typed, TypeOK, Places, memory, outside
  <2>2. /\ record'[phase].status = verdict
        /\ \A p \in Phase : p # phase => record'[p] = record[p]
    BY <2>1 DEF Typed, TypeOK
  <2>3. /\ Accepted' = Accepted \cup IF verdict = "done" THEN {phase} ELSE {}
        /\ \A p \in Phase : Promotable(p)' = Promotable(p)
    <3>1. verdict = "blocked" => phase \notin Accepted
      BY <2>1 DEF Order, InHand
    <3> QED BY <2>1, <2>2, <3>1 DEF Accepted, Promotable
  <2>4. /\ \A q \in Phase : q < phase => q \in Accepted
        /\ verdict = "done" => Promotable(phase) # {}
        /\ (plan[phase] = "completed" <=> verdict = "done")
    <3>1. \A q \in Phase : q < phase => plan[q] = "completed" /\ q # phase
      BY <1>0, <2>1 DEF Order, InHand, Phase
    <3> QED BY <2>1, <3>1 DEF Order, AcceptedInOrder, InHand
  <2>5. AcceptedInOrder'
    BY <1>0, <2>1, <2>3, <2>4 DEF Order, AcceptedInOrder, InOrder
  <2>6. LegacyBlocks'
    BY <2>1, <2>2 DEF Order, LegacyBlocks
  <2>7. InHand'
    BY <2>1, <2>2, <2>4 DEF Order, InHand
  <2> QED BY <2>5, <2>6, <2>7 DEF Order
<1>10. ASSUME SavePlan PROVE Order'
  <2>1. /\ pc = "save" /\ phase \in Phase /\ stored' = plan
        /\ UNCHANGED <<plan, record, locked, runs, verdict>>
        /\ \/ verdict = "done" /\ pc' = "select"
           \/ verdict = "blocked" /\ pc' = "verify" /\ blocked' = TRUE
    BY <1>10 DEF SavePlan, Typed, TypeOK, Places, outside
  <2>2. Accepted' = Accepted /\ \A p \in Phase : Promotable(p)' = Promotable(p)
    BY <2>1 DEF Accepted, Promotable
  <2>3. AcceptedInOrder'
    BY <1>0, <2>1, <2>2 DEF Order, AcceptedInOrder, InOrder
  <2>4. LegacyBlocks'
    <3>1. ~locked => \A p \in Phase : plan[p] = "blocked" =>
            p = phase /\ verdict = "blocked" /\ record[p].status = "blocked"
      BY <2>1 DEF Order, LegacyBlocks, InHand
    <3> QED BY <2>1, <3>1 DEF LegacyBlocks
  <2>5. InHand'
    BY <2>1 DEF InHand
  <2> QED BY <2>3, <2>4, <2>5 DEF Order
<1>11. ASSUME \/ Aftermath
              \/ UNCHANGED runs,
              \/ pc' = "down" /\ pc # "down"
              \/ pc' = pc,
              UNCHANGED <<memory, stored, record, locked>>
       PROVE  Order'
  <2>1. UNCHANGED <<plan, phase, verdict, blocked, stored, record, locked>>
    BY <1>11 DEF memory
  <2>2. Accepted' = Accepted
    BY <2>1 DEF Accepted
  <2>3. \A p \in Phase : Promotable(p)' = Promotable(p)
    BY <1>0, <1>11, PromotableAfter DEF Promotable
  <2>4. AcceptedInOrder'
    BY <1>0, <1>11, <2>1, <2>2, <2>3 DEF Order, AcceptedInOrder, InOrder
  <2>5. LegacyBlocks'
    <3>1. pc' = "down" \/ (pc' = pc /\ (pc' = "verify" /\ ~blocked' <=> pc = "verify" /\ ~blocked))
      BY <1>11, <2>1
    <3>2. CASE pc' = "down"
      BY <2>1, <3>2 DEF Order, LegacyBlocks
    <3>3. CASE pc' = pc
      BY <2>1, <3>1, <3>3 DEF Order, LegacyBlocks
    <3> QED BY <3>1, <3>2, <3>3
  <2>6. InHand'
    <3>1. pc' # "down" => pc' = pc
      BY <1>11
    <3>2. pc \in {"prove", "record", "attempt", "working", "save"} /\ phase # Final =>
            phase \in Phase
      BY DEF Typed, TypeOK
    <3> QED BY <2>1, <2>2, <2>3, <3>1, <3>2 DEF Order, InHand, Typed, Places
  <2> QED BY <2>4, <2>5, <2>6 DEF Order
<1>12. CASE Crash
  <2>1. CASE pc = "working"
    BY <1>11, <1>12, <2>1, LeftBehind DEF Crash, Down, phaseFiles, outside
  <2>2. CASE pc # "working"
    BY <1>11, <1>12, <2>2 DEF Crash, Down, phaseFiles, outside
  <2> QED BY <2>1, <2>2
<1>13. CASE WorkerEnds \/ MarkStopped
  BY <1>11, <1>13, LeftBehind DEF WorkerEnds, MarkStopped, phaseFiles, outside
<1>14. CASE UNCHANGED vars
  BY <1>11, <1>14 DEF vars, memory, phaseFiles, outside
<1> QED
  BY <1>1, <1>2, <1>3, <1>4, <1>5, <1>6, <1>7, <1>8, <1>9, <1>10, <1>12, <1>13, <1>14
     DEF Next, Invocation

\* A step accepts the next phase, delivers, reopens or leaves the delivery.
LEMMA DeliveryStep ==
  ASSUME Typed, Order, [Next]_vars
  PROVE  [Delivery!Accept \/ Delivery!Deliver \/ Delivery!Reopen]_<<Accepted, report = "done">>
<1> DEFINE Steps == [Delivery!Accept \/ Delivery!Deliver \/ Delivery!Reopen]_<<Accepted,
      report = "done">>
<1>0. \A p \in Accepted : p \in Phase /\ \A q \in Phase : q < p => q \in Accepted
  BY DEF Order, AcceptedInOrder, Accepted
<1>1. ASSUME WriteRecord PROVE Steps
  <2>1. /\ pc = "record" /\ phase \in Phase /\ report' = report
        /\ record' = [record EXCEPT ![phase] = [status |-> verdict, tree |-> tree]]
        /\ verdict \in {"done", "blocked"}
    BY <1>1 DEF WriteRecord, Typed, TypeOK, Places
  <2>2. /\ record'[phase].status = verdict
        /\ \A p \in Phase : p # phase => record'[p] = record[p]
    BY <2>1 DEF Typed, TypeOK
  <2>3. CASE verdict = "blocked" \/ phase \in Accepted
    <3>1. verdict = "blocked" => phase \notin Accepted
      BY <2>1 DEF Order, InHand
    <3>2. Accepted' = Accepted
      BY <2>1, <2>2, <2>3, <3>1 DEF Accepted
    <3> QED BY <2>1, <3>2
  <2>4. CASE verdict = "done" /\ phase \notin Accepted
    <3>1. Accepted' = Accepted \cup {phase}
      BY <2>1, <2>2, <2>4 DEF Accepted
    <3>2. \A q \in Phase : q < phase => q \in Accepted
      BY <2>1, Constants DEF Order, AcceptedInOrder, InHand, Phase
    <3>3. 1 .. phase - 1 = Accepted
      <4>1. \A q \in Accepted : q < phase
        BY <1>0, <2>1, <2>4, Constants DEF Phase
      <4>2. \A q \in 1 .. phase - 1 : q \in Phase /\ q < phase
        BY <2>1, Constants DEF Phase
      <4>3. \A q \in Accepted : q \in 1 .. phase - 1
        BY <1>0, <2>1, <4>1, Constants DEF Phase
      <4> QED BY <3>2, <4>2, <4>3
    <3> QED BY <2>1, <3>1, <3>3 DEF Delivery!Accept, Phase
  <2> QED BY <2>1, <2>3, <2>4
<1>2. ASSUME UNCHANGED record, report' = "done" => report = "done" PROVE Steps
  <2>1. Accepted' = Accepted
    BY <1>2 DEF Accepted
  <2> QED BY <1>2, <2>1 DEF Delivery!Reopen
<1>3. ASSUME HandOver PROVE Steps
  <2>1. UNCHANGED <<record, plan>> /\ pc = "handover" /\ (report' = "done" => AllRecorded)
    BY <1>3 DEF HandOver, memory, phaseFiles
  <2>2. Accepted' = Accepted
    BY <2>1 DEF Accepted
  <2>3. CASE report' = "done"
    <3>1. Accepted = 1 .. Phases
      <4>1. \A p \in Phase : p \in Accepted
        BY <2>1, <2>3 DEF AllRecorded, Order, AcceptedInOrder
      <4> QED BY <4>1 DEF Accepted, Phase
    <3> QED BY <2>2, <2>3, <3>1 DEF Delivery!Deliver
  <2>4. CASE report' # "done"
    BY <1>2, <2>1, <2>4
  <2> QED BY <2>3, <2>4
<1>4. CASE \E goal \in Revisions : Start(goal)
  BY <1>2, <1>4 DEF Start
<1>5. CASE SelectPhase \/ LeaveLoop \/ BeginAttempt \/ RefuseAttempt \/ TooManyAttempts
  BY <1>2, <1>5 DEF SelectPhase, LeaveLoop, BeginAttempt, RefuseAttempt, TooManyAttempts, phaseFiles
<1>6. CASE \E outcome \in Outcomes : JudgeAttempt(outcome) \/ JudgeFinal(outcome)
  BY <1>2, <1>6 DEF JudgeAttempt, JudgeFinal, phaseFiles
<1>7. CASE ProvePhase \/ SavePlan \/ BeginFinal \/ RefuseFinal
  BY <1>2, <1>7 DEF ProvePhase, SavePlan, BeginFinal, RefuseFinal, phaseFiles
<1>8. CASE Crash \/ WorkerEnds \/ MarkStopped
  BY <1>2, <1>8 DEF Crash, WorkerEnds, MarkStopped, phaseFiles
<1>9. CASE UNCHANGED vars
  BY <1>2, <1>9 DEF vars
<1> QED BY <1>1, <1>3, <1>4, <1>5, <1>6, <1>7, <1>8, <1>9 DEF Next, Invocation

\* The executor, its files and its crashes implement the delivery of the
\* phases in order: each is accepted once, after the ones before it, stays
\* accepted, and nothing is handed over before all are.
THEOREM DeliveryIsImplemented == Spec => ImplementsDelivery
<1>1. Init => Typed /\ Order
  BY InitIsTyped, InitInOrder
<1>2. Typed /\ Order /\ [Next]_vars => Typed' /\ Order'
  BY TypedStep, OrderStep
<1>3. Init => Delivery!Init
  BY DEF Init, Delivery!Init, Accepted, NoRecord
<1>4. Typed /\ Order /\ [Next]_vars =>
        [Delivery!Accept \/ Delivery!Deliver \/ Delivery!Reopen]_<<Accepted, report = "done">>
  BY DeliveryStep
<1> QED BY <1>1, <1>2, <1>3, <1>4, PTL DEF Spec, ImplementsDelivery, Delivery!Spec

-----------------------------------------------------------------------------
(***************************************************************************)
(* Every phase is built on the ones before it.  The trees of the attempts  *)
(* of a phase hold the work of the earlier phases, and what the executor   *)
(* remembers leads it to such a tree, except in one case: a goal-locked    *)
(* run that goes on after its first phase was completed has forgotten the  *)
(* records (module RoadmapProperties, ContinuesInAcceptedWorktree).  Then  *)
(* it never hands over, because the first phase has no record again.       *)
(***************************************************************************)
HoldsTo(trees, t, p) == t \in 1 .. Len(trees) /\ \A q \in Phase : q <= p => q \in trees[t]

TreesAreWhole ==
  /\ \A p \in Phase : \A i \in DOMAIN runs[p] :
       /\ HoldsTo(work, runs[p][i].tree, p - 1)
       /\ runs[p][i].result = "promotable" => HoldsTo(work, runs[p][i].tree, p)
  /\ \A i \in DOMAIN runs[Final] : HoldsTo(work, runs[Final][i].tree, Phases)
  /\ \A p \in Accepted : HoldsTo(work, record[p].tree, p)

MemoryIsWhole ==
  /\ \A r \in Done : HoldsTo(work, r.tree, r.phase) /\ plan[r.phase] = "completed"
  /\ \A r, s \in Done : r.at >= s.at => r.phase >= s.phase
  /\ pc \in {"select", "record", "save"} => \A r \in Done : r.at <= count
  /\ pc \in {"attempt", "working", "prove"} /\ phase # Final =>
       \A r \in Done : r.at < count /\ r.phase < phase
  /\ \A p \in Phase : plan[p] = "completed" =>
       (pc = "prove" /\ p = phase) \/ \E r \in Done : r.phase = p
  /\ pc \in {"prove", "record"} /\ verdict = "done" => HoldsTo(work, tree, phase)
  /\ pc \in {"select", "attempt", "working", "prove", "record", "save"} =>
       \A p \in Phase : plan[p] = "blocked" =>
         p = phase /\ pc \in {"prove", "record", "save"} /\ verdict = "blocked"
  /\ (pc = "verify" /\ ~blocked) \/ (pc = "working" /\ phase = Final) =>
       \A p \in Phase : plan[p] = "completed"

Torn ==
  /\ locked /\ stored # <<>> /\ stored[1] = "completed" /\ report # "done"
  /\ pc # "down" =>
       /\ plan[1] = "completed" /\ \A r \in kept : r.phase # 1
       /\ pc \in {"attempt", "working", "prove", "record", "save"} => phase # 1

Whole == TreesAreWhole /\ (pc # "down" => MemoryIsWhole)

LEMMA FirstPhase == 1 \in Phase
BY Constants DEF Phase

\* Work is added to a tree, never taken away.
LEMMA WorkStays ==
  ASSUME Typed,
         \/ \E t : BegunIn(t)
         \/ \E outcome \in Outcomes : EndedWith(outcome)
         \/ work' = work
  PROVE  \A t, p : HoldsTo(work, t, p) => HoldsTo(work', t, p)
<1> SUFFICES ASSUME NEW t, NEW p, HoldsTo(work, t, p) PROVE HoldsTo(work', t, p)
  OBVIOUS
<1>1. CASE \E u : BegunIn(u)
  BY <1>1 DEF BegunIn, HoldsTo
<1>2. CASE \E outcome \in Outcomes : EndedWith(outcome)
  BY <1>2 DEF EndedWith, HoldsTo
<1>3. CASE work' = work
  BY <1>3
<1> QED BY <1>1, <1>2, <1>3

\* The tree in which an attempt begins holds the work of the phases before it.
LEMMA AttemptTreeIsWhole ==
  ASSUME Typed, Order, TreesAreWhole, MemoryIsWhole, BeginAttempt \/ BeginFinal
  PROVE  HoldsTo(work', AttemptTree(Interrupted(phase).run),
                 IF phase = Final THEN Phases ELSE phase - 1)
<1> DEFINE b == Interrupted(phase).run
           t == AttemptTree(b)
           last == IF phase = Final THEN Phases ELSE phase - 1
<1>1. /\ phase \in Section /\ b \in DOMAIN runs[phase] \cup {0} /\ BegunIn(t)
      /\ \A u, p : HoldsTo(work, u, p) => HoldsTo(work', u, p)
  BY InterruptedFacts, AttemptBegins, WorkStays DEF Typed, TypeOK, Section
<1>5. /\ phase = Final => pc = "verify" /\ ~blocked
      /\ phase # Final => pc = "attempt" /\ phase \in Phase
  <2>1. CASE BeginAttempt
    BY <2>1, Constants DEF BeginAttempt, Typed, Places
  <2>2. CASE BeginFinal
    BY <2>2 DEF BeginFinal, Typed, Places
  <2> QED BY <2>1, <2>2
<1>2. CASE b # 0
  <2>1. t = runs[phase][b].tree /\ b \in DOMAIN runs[phase]
    BY <1>1, <1>2 DEF AttemptTree
  <2>2. HoldsTo(work, t, last)
    BY <1>1, <2>1 DEF TreesAreWhole, Section
  <2> QED BY <1>1, <2>2
<1>3. CASE b = 0 /\ Done # {}
  <2>1. PICK r \in Done : RepositoryPath = r.tree /\ \A q \in Done : r.at >= q.at
    BY <1>3, RepositoryPathFacts DEF Typed
  <2>2. t = r.tree
    BY <1>3, <2>1 DEF AttemptTree, Typed, Directories, Done
  <2>3. HoldsTo(work, t, r.phase) /\ r.phase \in Phase
    BY <2>2 DEF MemoryIsWhole, Done, Typed, TypeOK, Record
  <2>4. last \in Phase => r.phase >= last
    <3> SUFFICES ASSUME last \in Phase PROVE r.phase >= last
      OBVIOUS
    <3>1. plan[last] = "completed"
      <4>1. CASE phase = Final
        BY <1>5, <4>1 DEF MemoryIsWhole
      <4>2. CASE phase # Final
        BY <1>5, <4>2, Constants DEF Order, InHand, Phase
      <4> QED BY <4>1, <4>2
    <3>2. PICK q \in Done : q.phase = last
      BY <3>1 DEF MemoryIsWhole, BeginAttempt, BeginFinal
    <3> QED BY <2>1, <3>2 DEF MemoryIsWhole
  <2>5. last \in Nat /\ (last \in Phase \/ last = 0)
    BY <1>1, Constants DEF Section, Phase
  <2> HIDE DEF last
  <2>6. HoldsTo(work, t, last)
    <3>1. \A q \in Phase : q <= last => q <= r.phase
      BY <2>3, <2>4, <2>5, Constants DEF Phase
    <3> QED BY <2>3, <3>1 DEF HoldsTo
  <2> QED BY <1>1, <2>6 DEF last
<1>4. CASE b = 0 /\ Done = {}
  <2>1. \A p \in Phase : plan[p] # "completed"
    BY <1>4 DEF MemoryIsWhole, BeginAttempt, BeginFinal
  <2>2. phase # Final
    BY <1>5, <2>1, FirstPhase DEF MemoryIsWhole
  <2>3. phase = 1
    <3>1. phase \in Phase /\ pc = "attempt"
      BY <1>1, <2>2 DEF Section, BeginAttempt, BeginFinal, Typed, Places
    <3>2. ~(1 < phase)
      BY <2>1, <3>1, <2>2, FirstPhase DEF Order, InHand
    <3> QED BY <3>1, <3>2 DEF Phase
  <2>4. t \in 1 .. Len(work')
    BY <1>1 DEF BegunIn
  <2> QED BY <2>2, <2>3, <2>4, Constants DEF HoldsTo, Phase, Final
<1> QED BY <1>1, <1>2, <1>3, <1>4

LEMMA TreesStep ==
  ASSUME Typed, Order, Whole, [Next]_vars
  PROVE  TreesAreWhole'
<1> USE Constants
<1>1. ASSUME BeginAttempt \/ BeginFinal PROVE TreesAreWhole'
  <2> DEFINE t == AttemptTree(Interrupted(phase).run)
  <2>1. /\ BegunIn(t) /\ \A u, p : HoldsTo(work, u, p) => HoldsTo(work', u, p)
        /\ record' = record /\ pc # "down"
    BY <1>1, AttemptBegins, WorkStays DEF BeginAttempt, BeginFinal, phaseFiles
  <2>2. HoldsTo(work', t, IF phase = Final THEN Phases ELSE phase - 1)
    BY <1>1, <2>1, AttemptTreeIsWhole DEF Whole
  <2> HIDE DEF t
  <2>3. \A u \in Section : \A i \in DOMAIN runs'[u] :
          \/ u = phase /\ runs'[u][i].tree = t /\ runs'[u][i].result = "none"
          \/ i \in DOMAIN runs[u] /\ runs'[u][i] = runs[u][i]
    BY <2>1 DEF BegunIn, Begun
  <2>4. ASSUME NEW p \in Phase, NEW i \in DOMAIN runs'[p]
        PROVE  /\ HoldsTo(work', runs'[p][i].tree, p - 1)
               /\ runs'[p][i].result = "promotable" => HoldsTo(work', runs'[p][i].tree, p)
    BY <2>1, <2>2, <2>3, <2>4 DEF Whole, TreesAreWhole, Section
  <2>5. \A i \in DOMAIN runs'[Final] : HoldsTo(work', runs'[Final][i].tree, Phases)
    BY <2>1, <2>2, <2>3 DEF Whole, TreesAreWhole, Section
  <2>6. \A p \in Accepted' : HoldsTo(work', record'[p].tree, p)
    BY <2>1 DEF Whole, TreesAreWhole, Accepted
  <2> QED BY <2>4, <2>5, <2>6 DEF TreesAreWhole
<1>2. ASSUME NEW outcome \in Outcomes, JudgeAttempt(outcome) \/ JudgeFinal(outcome)
      PROVE  TreesAreWhole'
  <2>1. /\ EndedWith(outcome) /\ \A u, p : HoldsTo(work, u, p) => HoldsTo(work', u, p)
        /\ record' = record /\ pc = "working"
    BY <1>2, AttemptEnds, WorkStays DEF JudgeAttempt, JudgeFinal, phaseFiles
  <2>2. /\ phase \in Section /\ run \in DOMAIN runs[phase] /\ runs[phase][run].tree = tree
        /\ tree \in 1 .. Len(work)
    BY <2>1 DEF Typed, TypeOK, Places, Directories, Section
  <2>3. \A u \in Section : \A i \in DOMAIN runs'[u] :
          /\ i \in DOMAIN runs[u] /\ runs'[u][i].tree = runs[u][i].tree
          /\ (u # phase \/ i # run) => runs'[u][i].result = runs[u][i].result
    BY <2>1, <2>2 DEF EndedWith
  <2>4. ASSUME NEW p \in Phase, NEW i \in DOMAIN runs'[p]
        PROVE  /\ HoldsTo(work', runs'[p][i].tree, p - 1)
               /\ runs'[p][i].result = "promotable" => HoldsTo(work', runs'[p][i].tree, p)
    <3>1. HoldsTo(work', runs'[p][i].tree, p - 1)
      BY <2>1, <2>3, <2>4 DEF Whole, TreesAreWhole, Section
    <3>2. CASE p = phase /\ i = run
      <4>0. runs'[p][i].tree = tree /\ runs'[p][i].result = outcome
        BY <2>1, <3>2 DEF EndedWith
      <4> SUFFICES ASSUME outcome = "promotable" PROVE HoldsTo(work', tree, p)
        BY <3>1, <4>0
      <4>1. phase \in work'[tree] /\ phase # Final
        BY <2>1, <2>2, <3>2 DEF EndedWith
      <4>2. HoldsTo(work', tree, p - 1)
        BY <3>1, <4>0
      <4>3. \A q \in Phase : q <= p => q <= p - 1 \/ q = p
        BY DEF Phase
      <4> QED BY <3>2, <4>1, <4>2, <4>3 DEF HoldsTo
    <3>3. CASE ~(p = phase /\ i = run)
      BY <2>1, <2>3, <2>4, <3>3 DEF Whole, TreesAreWhole, Section
    <3> QED BY <3>1, <3>2, <3>3
  <2>5. \A i \in DOMAIN runs'[Final] : HoldsTo(work', runs'[Final][i].tree, Phases)
    BY <2>1, <2>3 DEF Whole, TreesAreWhole, Section
  <2>6. \A p \in Accepted' : HoldsTo(work', record'[p].tree, p)
    BY <2>1 DEF Whole, TreesAreWhole, Accepted
  <2> QED BY <2>4, <2>5, <2>6 DEF TreesAreWhole
<1>3. ASSUME UNCHANGED <<work, record>>, Aftermath \/ UNCHANGED runs PROVE TreesAreWhole'
  <2>1. \A u \in Section : \A i \in DOMAIN runs'[u] :
          /\ i \in DOMAIN runs[u] /\ runs'[u][i].tree = runs[u][i].tree
          /\ runs'[u][i].result = runs[u][i].result
    BY <1>3 DEF Aftermath
  <2>2. Accepted' = Accepted
    BY <1>3 DEF Accepted
  <2> QED BY <1>3, <2>1, <2>2 DEF Whole, TreesAreWhole, Section
<1>4. ASSUME WriteRecord PROVE TreesAreWhole'
  <2>1. /\ pc = "record" /\ phase \in Phase
        /\ record' = [record EXCEPT ![phase] = [status |-> verdict, tree |-> tree]]
        /\ UNCHANGED <<runs, work>>
    BY <1>4 DEF WriteRecord, Typed, TypeOK, Places
  <2>2. ASSUME NEW p \in Accepted' PROVE HoldsTo(work, record'[p].tree, p)
    <3>1. p \in Phase /\ record'[p].status = "done"
      BY <2>2 DEF Accepted
    <3>2. CASE p = phase
      BY <2>1, <3>1, <3>2 DEF Whole, MemoryIsWhole, Typed, TypeOK
    <3>3. CASE p # phase
      BY <2>1, <3>1, <3>3 DEF Whole, TreesAreWhole, Accepted, Typed, TypeOK
    <3> QED BY <3>2, <3>3
  <2> QED BY <2>1, <2>2 DEF Whole, TreesAreWhole
<1>5. CASE \E goal \in Revisions : Start(goal)
  BY <1>3, <1>5 DEF Start
<1>6. CASE SelectPhase \/ LeaveLoop \/ RefuseAttempt \/ TooManyAttempts
  BY <1>3, <1>6 DEF SelectPhase, LeaveLoop, RefuseAttempt, TooManyAttempts, phaseFiles
<1>7. CASE ProvePhase \/ SavePlan \/ RefuseFinal \/ HandOver
  BY <1>3, <1>7 DEF ProvePhase, SavePlan, RefuseFinal, HandOver, phaseFiles
<1>8. CASE Crash \/ WorkerEnds \/ MarkStopped
  BY <1>3, <1>8, LeftBehind DEF Crash, WorkerEnds, MarkStopped, phaseFiles
<1>9. CASE UNCHANGED vars
  BY <1>3, <1>9 DEF vars
<1> QED BY <1>1, <1>2, <1>4, <1>5, <1>6, <1>7, <1>8, <1>9 DEF Next, Invocation

LEMMA TornStep ==
  ASSUME Typed, Order, Torn, [Next]_vars
  PROVE  Torn'
<1> USE Constants, FirstPhase
<1>1. /\ stored \in [Phase -> PlanStatus \ {"running"}] /\ plan \in [Phase -> PlanStatus]
      /\ phase \in Phase \cup {Final}
  BY DEF Torn, Typed, TypeOK
<1>2. ASSUME NEW goal \in Revisions, Start(goal) PROVE Torn'
  <2>1. Resumable /\ LoadedRecords = {}
    BY LoadedFacts DEF Torn, Resumable
  <2>2. SyncedPlan = stored
    BY <1>1, <2>1 DEF SyncedPlan
  <2>3. plan' = stored /\ stored' = stored /\ kept' = {} /\ phase' = Final /\ locked' = locked
    BY <1>2, <2>1, <2>2 DEF Start
  <2>4. report' # "done" /\ pc' \in {"select", "down"}
    BY <1>2, <2>1 DEF Start
  <2> QED BY <2>3, <2>4 DEF Torn
<1>3. ASSUME SelectPhase PROVE Torn'
  <2>1. PICK p \in NextPhase :
          /\ phase' = p
          /\ plan' \in {[plan EXCEPT ![p] = "completed"], [plan EXCEPT ![p] = "running"]}
          /\ \A r \in kept' : r \in kept \/ r.phase = p
          /\ report' \in {report, "running"}
    BY <1>3 DEF SelectPhase
  <2>2. p # 1 /\ pc = "select" /\ UNCHANGED <<stored, locked>> /\ p \in Phase
    BY <1>3, <2>1 DEF SelectPhase, NextPhase, Ready, Torn, phaseFiles, outside
  <2>3. plan'[1] = "completed"
    BY <1>1, <2>1, <2>2 DEF Torn
  <2> QED BY <2>1, <2>2, <2>3 DEF Torn
<1>4. ASSUME pc # "down", UNCHANGED <<locked, stored>>, report' # "done",
             \/ UNCHANGED <<plan, kept, phase>>
             \/ /\ phase \in Phase /\ phase # 1 /\ phase' = phase
                /\ \E status \in PlanStatus : plan' = [plan EXCEPT ![phase] = status]
                /\ \A r \in kept' : r \in kept \/ r.phase = phase,
             pc' \in {"attempt", "working", "prove", "record", "save"} =>
               pc \in {"attempt", "working", "prove", "record", "save", "verify"}
               /\ (pc = "verify" => phase' = Final)
      PROVE  Torn'
  <2>1. plan'[1] = "completed"
    BY <1>1, <1>4 DEF Torn
  <2>2. \A r \in kept' : r.phase # 1
    BY <1>4 DEF Torn
  <2>3. pc' \in {"attempt", "working", "prove", "record", "save"} => phase' # 1
    BY <1>4 DEF Torn
  <2> QED BY <1>4, <2>1, <2>2, <2>3 DEF Torn
<1>5. CASE LeaveLoop \/ TooManyAttempts \/ RefuseFinal
  BY <1>5 DEF LeaveLoop, TooManyAttempts, RefuseFinal, Down, memory, phaseFiles, outside, Torn
<1>6. CASE BeginAttempt \/ BeginFinal
  <2>1. BeginFinal => phase = Final
    BY DEF BeginFinal, Typed, Places
  <2> QED BY <1>4, <1>6, <2>1 DEF BeginAttempt, BeginFinal, phaseFiles, outside, Torn
<1>7. CASE RefuseAttempt
  <2>1. phase \in Phase /\ phase # 1
    BY <1>7 DEF RefuseAttempt, Typed, Places, Torn
  <2> QED BY <1>4, <1>7, <2>1 DEF RefuseAttempt, phaseFiles, outside, Torn, PlanStatus
<1>8. CASE \E outcome \in Outcomes : JudgeAttempt(outcome)
  <2>1. PICK outcome \in Outcomes : JudgeAttempt(outcome)
    BY <1>8
  <2>2. phase \in Phase /\ phase # 1
    BY <1>1, <2>1 DEF JudgeAttempt, Torn
  <2>3. \E status \in PlanStatus : plan' = [plan EXCEPT ![phase] = status]
    <3> DEFINE status == IF outcome = "promotable" THEN "completed"
                         ELSE IF pc' = "attempt" THEN plan[phase] ELSE "blocked"
    <3>1. plan' = [plan EXCEPT ![phase] = status]
      BY <2>1 DEF JudgeAttempt
    <3>2. status \in PlanStatus
      BY <1>1, <2>2 DEF PlanStatus
    <3> QED BY <3>1, <3>2
  <2> QED BY <1>4, <2>1, <2>2, <2>3 DEF JudgeAttempt, phaseFiles, outside, Torn
<1>9. CASE \E outcome \in Outcomes : JudgeFinal(outcome)
  BY <1>4, <1>9 DEF JudgeFinal, phaseFiles, outside, Torn
<1>10. CASE ProvePhase
  <2>1. /\ pc = "prove" /\ pc' = "record" /\ phase \in Phase /\ phase # 1
        /\ UNCHANGED <<phase, stored, locked, report>>
    BY <1>10 DEF ProvePhase, Typed, Places, Torn, outside
  <2>2. plan' \in {plan, [plan EXCEPT ![phase] = "blocked"]}
    BY <1>10 DEF ProvePhase
  <2>3. \A r \in kept' : r \in kept \/ r.phase = phase
    BY <1>10 DEF ProvePhase, Remembers
  <2>4. plan'[1] = "completed"
    BY <1>1, <2>1, <2>2 DEF Torn
  <2> QED BY <2>1, <2>3, <2>4 DEF Torn
<1>11. CASE WriteRecord
  BY <1>4, <1>11 DEF WriteRecord, memory, outside, Torn
<1>12. CASE SavePlan
  <2>1. /\ stored' = plan /\ plan' = plan /\ kept' = kept /\ locked' = locked /\ report' = "running"
        /\ pc = "save" /\ pc' \in {"select", "verify"}
    BY <1>12 DEF SavePlan, outside
  <2>2. stored' # <<>>
    <3>1. DOMAIN plan = Phase
      BY <1>1
    <3> QED BY <2>1, <3>1
  <2> QED BY <2>1, <2>2 DEF Torn
<1>13. CASE HandOver
  <2>1. ~AllRecorded
    BY <1>13 DEF AllRecorded, Torn, HandOver
  <2> QED BY <1>13, <2>1 DEF HandOver, Torn, memory, phaseFiles, outside
<1>14. CASE Crash \/ WorkerEnds \/ MarkStopped
  BY <1>14 DEF Crash, Down, WorkerEnds, MarkStopped, memory, phaseFiles, outside, Torn
<1>15. CASE UNCHANGED vars
  BY <1>15 DEF vars, Torn
<1> QED
  BY <1>2, <1>3, <1>5, <1>6, <1>7, <1>8, <1>9, <1>10, <1>11, <1>12, <1>13, <1>14, <1>15
     DEF Next, Invocation

\* When no phase is ready, none is left.
LEMMA NoneIsLeft ==
  ASSUME Typed, pc = "select", \A p \in Phase : plan[p] # "blocked", NextPhase = {}
  PROVE  \A p \in Phase : plan[p] = "completed"
<1> USE Constants
<1>1. \A p \in Phase : plan[p] \in {"pending", "completed"}
  BY DEF Typed, TypeOK, Places, PlanStatus
<1> DEFINE Left == {p \in Phase : plan[p] = "pending"}
<1>2. ASSUME Left # {} PROVE FALSE
  <2>1. PICK p \in Left : \A q \in Left : p <= q
    BY <1>2, SmallestExists
  <2>2. p > 1 => p - 1 \in Phase /\ p - 1 \notin Left
    BY <2>1 DEF Phase
  <2>3. Ready(p)
    BY <1>1, <2>1, <2>2 DEF Ready
  <2>4. \A q \in Phase : Ready(q) => p <= q
    BY <2>1 DEF Ready
  <2> QED BY <2>1, <2>3, <2>4 DEF NextPhase
<1> QED BY <1>1, <1>2

LEMMA MemoryStarts ==
  ASSUME Typed, Order, Whole, NEW goal \in Revisions, Start(goal)
  PROVE  MemoryIsWhole' \/ Torn'
<1> USE Constants
<1>1. /\ UNCHANGED <<locked, record, runs, work>> /\ count' = 0 /\ phase' = Final
      /\ verdict' = "blocked" /\ pc' \in {"select", "down"} /\ stored' = plan'
      /\ kept' = IF Resumable THEN LoadedRecords ELSE {}
      /\ plan' = IF Resumable THEN SyncedPlan ELSE Unplanned
  BY DEF Start
<1>2. CASE locked /\ Resumable
  <2>1. LoadedRecords = {}
    BY <1>2, LoadedFacts
  <2>2. /\ stored \in [Phase -> PlanStatus \ {"running"}]
        /\ \E p \in Phase : stored[p] = "completed"
    BY <1>2, <2>1 DEF Resumable, Typed, TypeOK
  <2>3. stored[1] = "completed"
    BY <1>2, <2>2, FirstPhase DEF Order, AcceptedInOrder, InOrder, Resumable, Phase
  <2>4. plan' = stored
    BY <1>1, <1>2, <2>1, <2>2 DEF SyncedPlan
  <2>5. report' # "done"
    BY <1>2 DEF Start, Resumable
  <2>6. Torn'
    BY <1>1, <1>2, <2>1, <2>3, <2>4, <2>5 DEF Torn, Resumable
  <2> QED BY <2>6
<1>3. CASE ~locked /\ Resumable
  <2>1. /\ Done' = {r \in LoadedRecords : r.status = "done"}
        /\ \A r \in Done' : /\ r.phase \in Accepted /\ r.at = r.phase - Phases /\ r.at <= 0
                            /\ r.tree = record[r.phase].tree /\ r.phase \in Nat
        /\ \A p \in Accepted : \E r \in Done' : r.phase = p
    <3>1. Done' = {r \in LoadedRecords : r.status = "done"}
      BY <1>1, <1>3 DEF Done
    <3>2. \A r \in LoadedRecords : /\ r.phase \in Phase /\ r.at = r.phase - Phases /\ r.at <= 0
                                   /\ r.tree = record[r.phase].tree
                                   /\ r.status = record[r.phase].status
      BY LoadedFacts
    <3>3. \A p \in Accepted : \E r \in LoadedRecords : r.phase = p
      BY <1>3, LoadedFacts DEF Accepted
    <3>4. \A r \in Done' : r.phase \in Accepted
      BY <3>1, <3>2 DEF Accepted
    <3>5. \A p \in Accepted : \E r \in Done' : r.phase = p
      BY <3>1, <3>2, <3>3 DEF Accepted
    <3> QED BY <3>1, <3>2, <3>4, <3>5
  <2>2. \A p \in Phase : /\ p \in Accepted => plan'[p] = "completed"
                         /\ plan'[p] = "completed" => p \in Accepted
                         /\ plan'[p] # "blocked"
    <3> SUFFICES ASSUME NEW p \in Phase
                 PROVE  /\ p \in Accepted => plan'[p] = "completed"
                        /\ plan'[p] = "completed" => p \in Accepted
                        /\ plan'[p] # "blocked"
      OBVIOUS
    <3> DEFINE Status == {r.status : r \in {x \in LoadedRecords : x.phase = p}}
    <3>1. /\ Status \subseteq {record[p].status}
          /\ record[p].status # "none" => record[p].status \in Status
      BY <1>3, LoadedFacts
    <3>2. plan'[p] = CASE "done" \in Status -> "completed"
                       [] "blocked" \in Status -> "pending"
                       [] OTHER -> stored[p]
      BY <1>1, <1>3 DEF SyncedPlan
    <3> HIDE DEF Status
    <3>3. record[p].status \in {"none", "done", "blocked"}
      BY DEF Typed, TypeOK
    <3>4. CASE record[p].status = "done"
      BY <3>1, <3>2, <3>4 DEF Accepted
    <3>5. CASE record[p].status = "blocked"
      BY <3>1, <3>2, <3>5 DEF Accepted
    <3>6. CASE record[p].status = "none"
      <4>1. plan'[p] = stored[p] /\ p \notin Accepted
        BY <3>1, <3>2, <3>6 DEF Accepted
      <4> QED BY <1>3, <3>6, <4>1 DEF Order, AcceptedInOrder, LegacyBlocks, Resumable
    <3> QED BY <3>3, <3>4, <3>5, <3>6
  <2>3. \A r \in Done' : HoldsTo(work', r.tree, r.phase) /\ plan'[r.phase] = "completed"
    BY <1>1, <2>1, <2>2 DEF Whole, TreesAreWhole, Accepted
  <2>4. \A r, s \in Done' : r.at >= s.at => r.phase >= s.phase
    BY <2>1
  <2>5. \A p \in Phase : plan'[p] = "completed" => \E r \in Done' : r.phase = p
    BY <2>1, <2>2
  <2>6. \A r \in Done' : r.at <= count'
    BY <1>1, <2>1
  <2> QED BY <1>1, <2>2, <2>3, <2>4, <2>5, <2>6 DEF MemoryIsWhole
<1>4. CASE ~Resumable
  <2>1. Done' = {} /\ \A p \in Phase : plan'[p] = "pending"
    BY <1>1, <1>4 DEF Done, Unplanned
  <2> QED BY <1>1, <2>1 DEF MemoryIsWhole
<1> QED BY <1>2, <1>3, <1>4

LEMMA SelectedIsWhole ==
  ASSUME Typed, Order, Whole, SelectPhase
  PROVE  MemoryIsWhole'
<1> USE Constants
<1>1. PICK p \in NextPhase :
        /\ phase' = p /\ count' = count + 1
        /\ IF Promotable(p) # {}
             THEN LET t == runs[p][Newest(Promotable(p))].tree IN
                  /\ pc' = "record" /\ verdict' = "done" /\ tree' = t
                  /\ plan' = [plan EXCEPT ![p] = "completed"]
                  /\ kept' = {r \in kept : r.phase # p} \cup
                               {[phase |-> p, status |-> "done", tree |-> t, at |-> count + 1]}
             ELSE /\ pc' = "attempt"
                  /\ plan' = [plan EXCEPT ![p] = "running"]
                  /\ kept' = {r \in kept : r.phase # p}
  BY DEF SelectPhase
<1>2. /\ p \in Phase /\ pc = "select" /\ work' = work /\ count \in Nat
      /\ plan[p] = "pending" /\ MemoryIsWhole
  BY <1>1 DEF SelectPhase, NextPhase, Ready, Whole, Typed, TypeOK
<1>3. /\ plan' \in [Phase -> PlanStatus]
      /\ \A q \in Phase : q # p => plan'[q] = plan[q]
  BY <1>1, <1>2 DEF Typed, TypeOK, PlanStatus
<1>4. \A r \in Done : r.phase \in Phase /\ r.at \in Int /\ r.at <= count /\ r.phase < p /\
        r.phase # p
  <2> SUFFICES ASSUME NEW r \in Done
               PROVE  r.phase \in Phase /\ r.at \in Int /\ r.at <= count /\ r.phase < p /\
                        r.phase # p
    OBVIOUS
  <2>1. r.phase \in Phase /\ r.at \in Int /\ plan[r.phase] = "completed" /\ r.at <= count
    BY <1>2 DEF Done, Typed, TypeOK, Record, MemoryIsWhole
  <2>2. ~(p < r.phase) /\ r.phase # p
    BY <1>2, <2>1 DEF Order, AcceptedInOrder, InOrder
  <2> QED BY <1>2, <2>1, <2>2 DEF Phase
<1>5. \A q \in Phase : plan[q] # "blocked"
  BY <1>2 DEF MemoryIsWhole
<1>6. CASE Promotable(p) # {}
  <2> DEFINE t == runs[p][Newest(Promotable(p))].tree
             r0 == [phase |-> p, status |-> "done", tree |-> t, at |-> count + 1]
  <2>1. HoldsTo(work, t, p)
    <3>1. Newest(Promotable(p)) \in Promotable(p)
      BY <1>2, <1>6, PromotableFacts DEF Typed, Section
    <3> QED BY <1>2, <3>1 DEF Promotable, Whole, TreesAreWhole
  <2> HIDE DEF t
  <2>2. /\ pc' = "record" /\ verdict' = "done" /\ tree' = t
        /\ plan' = [plan EXCEPT ![p] = "completed"]
        /\ kept' = {r \in kept : r.phase # p} \cup {r0}
    BY <1>1, <1>6 DEF t
  <2>3. /\ r0.phase = p /\ r0.at = count + 1 /\ r0.tree = t /\ r0.status = "done"
    OBVIOUS
  <2> HIDE DEF r0
  <2>4. Done' = Done \cup {r0}
    BY <1>4, <2>2, <2>3 DEF Done
  <2>5. plan'[p] = "completed"
    BY <1>2, <2>2 DEF Typed, TypeOK
  <2>6. \A r \in Done' : HoldsTo(work', r.tree, r.phase) /\ plan'[r.phase] = "completed"
    BY <1>2, <1>3, <1>4, <2>1, <2>3, <2>4, <2>5 DEF MemoryIsWhole
  <2>7. \A r, s \in Done' : r.at >= s.at => r.phase >= s.phase
    <3>1. \A r, s \in Done : r.at >= s.at => r.phase >= s.phase
      BY <1>2 DEF MemoryIsWhole
    <3> QED BY <1>2, <1>4, <2>3, <2>4, <3>1 DEF Phase
  <2>8. \A r \in Done' : r.at <= count'
    BY <1>1, <1>2, <1>4, <2>3, <2>4
  <2>9. \A q \in Phase : plan'[q] = "completed" => \E r \in Done' : r.phase = q
    BY <1>2, <1>3, <2>3, <2>4 DEF MemoryIsWhole
  <2>10. \A q \in Phase : plan'[q] # "blocked"
    BY <1>3, <1>5, <2>5
  <2> QED BY <1>1, <1>2, <2>1, <2>2, <2>6, <2>7, <2>8, <2>9, <2>10 DEF MemoryIsWhole
<1>7. CASE Promotable(p) = {}
  <2>1. /\ pc' = "attempt" /\ plan' = [plan EXCEPT ![p] = "running"]
        /\ kept' = {r \in kept : r.phase # p}
    BY <1>1, <1>7
  <2>2. Done' = Done
    BY <1>4, <2>1 DEF Done
  <2>3. plan'[p] = "running"
    BY <1>2, <2>1 DEF Typed, TypeOK
  <2>4. \A r \in Done' : HoldsTo(work', r.tree, r.phase) /\ plan'[r.phase] = "completed"
    BY <1>2, <1>3, <1>4, <2>2 DEF MemoryIsWhole
  <2>5. \A r \in Done' : r.at < count' /\ r.phase < phase'
    BY <1>1, <1>2, <1>4, <2>2
  <2>6. \A q \in Phase : plan'[q] = "completed" => \E r \in Done' : r.phase = q
    BY <1>2, <1>3, <2>2, <2>3 DEF MemoryIsWhole
  <2>7. \A q \in Phase : plan'[q] # "blocked"
    BY <1>3, <1>5, <2>3
  <2> QED BY <1>2, <2>1, <2>2, <2>4, <2>5, <2>6, <2>7 DEF MemoryIsWhole
<1> QED BY <1>6, <1>7

LEMMA MemoryStep ==
  ASSUME Typed, Order, Whole, [Next]_vars, pc' # "down"
  PROVE  MemoryIsWhole' \/ Torn'
<1> USE Constants
<1>0. /\ \A r \in Done : r.phase \in Phase /\ r.at \in Int
      /\ count \in Nat /\ plan \in [Phase -> PlanStatus] /\ Phase \subseteq Nat
  BY DEF Done, Typed, TypeOK, Record
<1>1. ASSUME LeaveLoop PROVE MemoryIsWhole'
  <2>1. /\ pc = "select" /\ pc' = "verify" /\ blocked' = (NextPhase # {}) /\ MemoryIsWhole
        /\ UNCHANGED <<plan, kept, work>>
    BY <1>1 DEF LeaveLoop, Whole
  <2>2. ~blocked' => \A p \in Phase : plan[p] = "completed"
    <3>1. \A p \in Phase : plan[p] # "blocked"
      BY <2>1 DEF MemoryIsWhole
    <3> QED BY <2>1, <3>1, NoneIsLeft
  <2>3. Done' = Done
    BY <2>1 DEF Done
  <2> QED BY <2>1, <2>2, <2>3 DEF MemoryIsWhole
<1>2. ASSUME BeginAttempt \/ BeginFinal PROVE MemoryIsWhole'
  <2>1. /\ UNCHANGED <<plan, kept, phase>> /\ pc' = "working" /\ MemoryIsWhole
        /\ \/ pc = "attempt" /\ phase \in Phase /\ count' = count
           \/ pc = "verify" /\ ~blocked /\ phase = Final
    BY <1>2 DEF BeginAttempt, BeginFinal, Whole, Typed, Places
  <2>2. \A t, p : HoldsTo(work, t, p) => HoldsTo(work', t, p)
    BY <1>2, AttemptBegins, WorkStays
  <2>3. Done' = Done
    BY <2>1 DEF Done
  <2> QED BY <2>1, <2>2, <2>3 DEF MemoryIsWhole
<1>3. ASSUME RefuseAttempt PROVE MemoryIsWhole'
  <2>1. /\ pc = "attempt" /\ phase \in Phase /\ pc' = "prove" /\ verdict' = "blocked"
        /\ plan' = [plan EXCEPT ![phase] = "blocked"] /\ MemoryIsWhole
        /\ UNCHANGED <<kept, phase, count, work>>
    BY <1>3 DEF RefuseAttempt, Whole, Typed, Places
  <2>2. Done' = Done /\ plan[phase] # "completed"
    BY <2>1 DEF Done, Order, AcceptedInOrder, InHand
  <2>3. plan'[phase] = "blocked" /\ \A q \in Phase : q # phase => plan'[q] = plan[q]
    BY <1>0, <2>1
  <2> QED BY <1>0, <2>1, <2>2, <2>3 DEF MemoryIsWhole
<1>4. ASSUME NEW outcome \in Outcomes, JudgeAttempt(outcome) PROVE MemoryIsWhole'
  <2>1. /\ EndedWith(outcome) /\ pc = "working" /\ phase \in Phase /\ phase # Final
        /\ MemoryIsWhole
        /\ \A t, p : HoldsTo(work, t, p) => HoldsTo(work', t, p)
    BY <1>0, <1>4, AttemptEnds, WorkStays DEF JudgeAttempt, Typed, TypeOK, Whole
  <2>2. /\ pc' \in {"attempt", "prove"} /\ (outcome = "promotable" => pc' = "prove")
        /\ verdict' = IF outcome = "promotable" THEN "done" ELSE "blocked"
        /\ UNCHANGED <<kept, phase, count, tree, run>>
        /\ plan' = [plan EXCEPT ![phase] = IF outcome = "promotable" THEN "completed"
                                           ELSE IF pc' = "attempt" THEN @ ELSE "blocked"]
    BY <1>4 DEF JudgeAttempt
  <2>3. Done' = Done /\ plan[phase] # "completed" /\ plan[phase] # "blocked"
    BY <2>1, <2>2 DEF Done, Order, AcceptedInOrder, InHand, MemoryIsWhole
  <2>4. /\ plan'[phase] = IF outcome = "promotable" THEN "completed"
                          ELSE IF pc' = "attempt" THEN plan[phase] ELSE "blocked"
        /\ \A q \in Phase : q # phase => plan'[q] = plan[q]
    BY <1>0, <2>1, <2>2
  <2>5. verdict' = "done" => HoldsTo(work', tree', phase')
    <3> SUFFICES ASSUME outcome = "promotable" PROVE HoldsTo(work', tree, phase)
      BY <2>2
    <3>1. TreesAreWhole'
      BY TreesStep
    <3>2. /\ run \in DOMAIN runs'[phase] /\ runs'[phase][run].result = "promotable"
          /\ runs'[phase][run].tree = tree
      BY <2>1 DEF EndedWith, Typed, Places, Section
    <3> QED BY <2>1, <3>1, <3>2 DEF TreesAreWhole
  <2>6. \A r \in Done' : HoldsTo(work', r.tree, r.phase) /\ plan'[r.phase] = "completed"
    BY <1>0, <2>1, <2>3, <2>4 DEF MemoryIsWhole
  <2>7. \A p \in Phase : plan'[p] = "completed" =>
          (pc' = "prove" /\ p = phase') \/ \E r \in Done' : r.phase = p
    BY <2>1, <2>2, <2>3, <2>4 DEF MemoryIsWhole
  <2>8. \A p \in Phase : plan'[p] = "blocked" =>
          p = phase' /\ pc' = "prove" /\ verdict' = "blocked"
    BY <2>1, <2>2, <2>3, <2>4 DEF MemoryIsWhole
  <2> QED BY <2>1, <2>2, <2>3, <2>5, <2>6, <2>7, <2>8 DEF MemoryIsWhole
<1>5. ASSUME NEW outcome \in Outcomes, JudgeFinal(outcome) PROVE MemoryIsWhole'
  <2>1. /\ pc = "working" /\ phase = Final /\ MemoryIsWhole /\ pc' \in {"verify", "handover"}
        /\ UNCHANGED <<plan, kept, phase>>
        /\ \A t, p : HoldsTo(work, t, p) => HoldsTo(work', t, p)
    BY <1>5, AttemptEnds, WorkStays DEF JudgeFinal, Whole
  <2>2. Done' = Done
    BY <2>1 DEF Done
  <2> QED BY <2>1, <2>2 DEF MemoryIsWhole
<1>6. ASSUME ProvePhase PROVE MemoryIsWhole'
  <2>1. /\ pc = "prove" /\ phase \in Phase /\ pc' = "record" /\ MemoryIsWhole
        /\ UNCHANGED <<phase, tree, count, work>>
        /\ \/ UNCHANGED <<plan, verdict>>
           \/ /\ verdict' = "blocked" /\ verdict = "done"
              /\ plan' = [plan EXCEPT ![phase] = "blocked"]
    BY <1>6 DEF ProvePhase, Typed, TypeOK, Places, Whole
  <2> DEFINE r0 == [phase |-> phase, status |-> verdict', tree |-> tree, at |-> count]
  <2>2. kept' = kept \cup {r0}
    BY <1>6 DEF ProvePhase, Remembers
  <2>3. r0.phase = phase /\ r0.status = verdict' /\ r0.tree = tree /\ r0.at = count
    OBVIOUS
  <2> HIDE DEF r0
  <2>4. Done' = Done \cup IF verdict' = "done" THEN {r0} ELSE {}
    BY <2>2, <2>3 DEF Done
  <2>5. \A r \in Done : r.phase < phase /\ r.at < count /\ r.phase # phase
    BY <1>0, <2>1 DEF MemoryIsWhole
  <2>6. /\ \A q \in Phase : q # phase => plan'[q] = plan[q]
        /\ (plan'[phase] = "completed") <=> verdict' = "done"
        /\ plan'[phase] = "blocked" => verdict' = "blocked"
        /\ verdict' = "done" => verdict = "done"
    BY <1>0, <2>1 DEF Order, InHand, Typed, TypeOK, MemoryIsWhole
  <2>7. \A r \in Done : HoldsTo(work', r.tree, r.phase) /\ plan'[r.phase] = "completed"
    BY <1>0, <2>1, <2>5, <2>6 DEF MemoryIsWhole
  <2>8. verdict' = "done" => HoldsTo(work', tree', phase')
    BY <2>1, <2>6 DEF MemoryIsWhole
  <2>9. \A r \in Done' : HoldsTo(work', r.tree, r.phase) /\ plan'[r.phase] = "completed"
    BY <2>1, <2>3, <2>4, <2>6, <2>7, <2>8
  <2>10. \A r, q \in Done' : r.at >= q.at => r.phase >= q.phase
    <3>1. \A r, q \in Done : r.at >= q.at => r.phase >= q.phase
      BY <2>1 DEF MemoryIsWhole
    <3>2. phase \in Int /\ \A p \in Phase : p \in Int
      BY <2>1 DEF Phase
    <3>3. count \in Int
      BY <1>0
    <3>4. \A r \in Done : r.phase \in Int /\ r.at \in Int
      BY <1>0, <3>2
    <3> QED BY <2>3, <2>4, <2>5, <3>1, <3>2, <3>3, <3>4
  <2>11. \A r \in Done' : r.at <= count'
    BY <1>0, <2>1, <2>3, <2>4, <2>5
  <2>12. \A p \in Phase : plan'[p] = "completed" => \E r \in Done' : r.phase = p
    BY <2>1, <2>3, <2>4, <2>6 DEF MemoryIsWhole
  <2>13. \A p \in Phase : plan'[p] = "blocked" => p = phase' /\ verdict' = "blocked"
    BY <2>1, <2>6 DEF MemoryIsWhole
  <2> QED BY <2>1, <2>8, <2>9, <2>10, <2>11, <2>12, <2>13 DEF MemoryIsWhole
<1>7. ASSUME WriteRecord PROVE MemoryIsWhole'
  <2>1. /\ pc = "record" /\ pc' = "save" /\ MemoryIsWhole
        /\ UNCHANGED <<plan, kept, verdict, phase, count, work>>
    BY <1>7 DEF WriteRecord, memory, Whole
  <2>2. Done' = Done
    BY <2>1 DEF Done
  <2> QED BY <2>1, <2>2 DEF MemoryIsWhole
<1>8. ASSUME SavePlan PROVE MemoryIsWhole'
  <2>1. /\ pc = "save" /\ MemoryIsWhole /\ UNCHANGED <<plan, kept, verdict, work>>
        /\ \/ verdict = "done" /\ pc' = "select" /\ count' = count
           \/ pc' = "verify" /\ blocked' = TRUE
    BY <1>8 DEF SavePlan, Whole
  <2>2. Done' = Done
    BY <2>1 DEF Done
  <2> QED BY <2>1, <2>2 DEF MemoryIsWhole
<1>9. ASSUME RefuseFinal PROVE MemoryIsWhole'
  <2>1. pc = "verify" /\ pc' = "handover" /\ MemoryIsWhole /\ UNCHANGED <<plan, kept, work>>
    BY <1>9 DEF RefuseFinal, Whole
  <2>2. Done' = Done
    BY <2>1 DEF Done
  <2> QED BY <2>1, <2>2 DEF MemoryIsWhole
<1>10. ASSUME UNCHANGED <<pc, memory, work>> PROVE MemoryIsWhole'
  <2>1. MemoryIsWhole /\ UNCHANGED <<pc, plan, kept, phase, count, verdict, tree, blocked, work>>
    BY <1>10 DEF memory, Whole
  <2>2. Done' = Done
    BY <2>1 DEF Done
  <2> QED BY <2>1, <2>2 DEF MemoryIsWhole
<1>11. CASE WorkerEnds \/ MarkStopped \/ UNCHANGED vars
  BY <1>10, <1>11 DEF WorkerEnds, MarkStopped, vars, memory
<1>12. ~(TooManyAttempts \/ HandOver \/ Crash)
  BY DEF TooManyAttempts, HandOver, Crash, Down
<1> QED
  BY <1>1, <1>2, <1>3, <1>4, <1>5, <1>6, <1>7, <1>8, <1>9, <1>11, <1>12, MemoryStarts,
     SelectedIsWhole
     DEF Next, Invocation

\* What is handed over was promoted, and the next invocation starts over.
Handed ==
  /\ pc = "handover" /\ verdict = "done" => Promotable(Final) # {}
  /\ report = "done" =>
       /\ Accepted = Phase /\ Promotable(Final) # {} /\ (locked => ProofsHold)
       /\ pc \in {"down", "select", "record", "save"}
       /\ pc = "select" => count = 0 /\ \A p \in Phase : plan[p] = "pending"
       /\ pc = "record" => verdict = "done"

LEMMA HandedStep == Typed /\ Order /\ Handed /\ [Next]_vars => Handed'
<1> SUFFICES ASSUME Typed, Order, Handed, [Next]_vars PROVE Handed'
  OBVIOUS
<1> USE Constants, FirstPhase
<1>1. Final \in Section /\ Section = Phase \cup {Final}
  BY DEF Section
<1>2. ASSUME report' # "done", pc' # "handover" \/ verdict' # "done" PROVE Handed'
  BY <1>2 DEF Handed
<1>3. ASSUME NEW goal \in Revisions, Start(goal) PROVE Handed'
  <2>1. CASE report' = "done"
    <3>1. /\ report = "done" /\ ~Resumable /\ pc' \in {"down", "select"} /\ count' = 0
          /\ plan' = Unplanned /\ UNCHANGED <<locked, proof, runs, record>>
      BY <1>3, <2>1 DEF Start, Resumable
    <3>2. Accepted' = Accepted /\ Promotable(Final)' = Promotable(Final) /\ ProofsHold' = ProofsHold
      BY <3>1 DEF Accepted, Promotable, ProofsHold
    <3> QED BY <3>1, <3>2 DEF Handed, Unplanned
  <2>2. CASE report' # "done"
    BY <1>3, <2>2 DEF Start, Handed
  <2> QED BY <2>1, <2>2
<1>4. ASSUME SelectPhase PROVE Handed'
  <2>1. /\ pc = "select" /\ UNCHANGED <<locked, proof, runs, record>>
        /\ \/ pc' = "record" /\ verdict' = "done" /\ report' = report
           \/ pc' = "attempt" /\ report' = "running"
    BY <1>4 DEF SelectPhase, phaseFiles, outside
  <2>2. Accepted' = Accepted /\ Promotable(Final)' = Promotable(Final) /\ ProofsHold' = ProofsHold
    BY <2>1 DEF Accepted, Promotable, ProofsHold
  <2> QED BY <2>1, <2>2 DEF Handed
<1>5. ASSUME LeaveLoop PROVE Handed'
  <2>1. pc = "select" /\ pc' = "verify" /\ report' = report /\
          (count >= MaxPhases \/ NextPhase = {})
    BY <1>5 DEF LeaveLoop
  <2>2. report # "done"
    <3> SUFFICES ASSUME report = "done" PROVE FALSE
      OBVIOUS
    <3>1. count = 0 /\ \A p \in Phase : plan[p] = "pending"
      BY <2>1 DEF Handed
    <3>2. 1 \in NextPhase
      BY <3>1 DEF NextPhase, Ready, Phase
    <3> QED BY <2>1, <3>1, <3>2
  <2> QED BY <1>2, <2>1, <2>2
<1>6. CASE BeginAttempt \/ BeginFinal
  BY <1>2, <1>6 DEF BeginAttempt, BeginFinal, Handed
<1>7. CASE RefuseAttempt \/ TooManyAttempts
  BY <1>2, <1>7 DEF RefuseAttempt, TooManyAttempts, Down, Handed
<1>8. CASE RefuseFinal
  BY <1>2, <1>8 DEF RefuseFinal, Handed
<1>9. CASE \E outcome \in Outcomes : JudgeAttempt(outcome)
  BY <1>2, <1>9 DEF JudgeAttempt, Handed
<1>10. ASSUME NEW outcome \in Outcomes, JudgeFinal(outcome) PROVE Handed'
  <2>1. /\ EndedWith(outcome) /\ pc = "working" /\ phase = Final /\ report' = report
        /\ pc' \in {"verify", "handover"}
        /\ verdict' = IF outcome = "promotable" THEN "done" ELSE "blocked"
    BY <1>10, AttemptEnds DEF JudgeFinal
  <2>2. verdict' = "done" => Promotable(Final)' # {}
    <3>1. Promotable(Final)' = Promotable(Final) \cup IF outcome = "promotable" THEN {run} ELSE {}
      BY <1>1, <2>1, PromotableAfter
    <3> QED BY <2>1, <3>1
  <2> QED BY <2>1, <2>2 DEF Handed
<1>11. CASE ProvePhase
  BY <1>2, <1>11 DEF ProvePhase, Handed
<1>12. ASSUME WriteRecord PROVE Handed'
  <2>1. /\ pc = "record" /\ pc' = "save" /\ phase \in Phase
        /\ record' = [record EXCEPT ![phase] = [status |-> verdict, tree |-> tree]]
        /\ UNCHANGED <<locked, proof, runs, report, verdict>>
    BY <1>12 DEF WriteRecord, memory, outside, Typed, Places
  <2>2. CASE report = "done"
    <3>1. \A p \in Phase : record'[p].status = "done"
      BY <2>1, <2>2 DEF Handed, Accepted, Typed, TypeOK
    <3>2. Accepted' = Phase /\ Promotable(Final)' = Promotable(Final) /\ ProofsHold' = ProofsHold
      BY <2>1, <3>1 DEF Accepted, Promotable, ProofsHold
    <3> QED BY <2>1, <3>2 DEF Handed
  <2>3. CASE report # "done"
    BY <1>2, <2>1, <2>3
  <2> QED BY <2>2, <2>3
<1>13. CASE SavePlan
  BY <1>2, <1>13 DEF SavePlan
<1>14. ASSUME HandOver PROVE Handed'
  <2>1. /\ pc = "handover" /\ pc' = "down"
        /\ UNCHANGED <<locked, proof, runs, record, plan>>
        /\ report' = "done" => verdict = "done" /\ AllRecorded /\ (locked => ProofsHold)
    BY <1>14 DEF HandOver, memory, phaseFiles, outside
  <2>2. Accepted' = Accepted /\ Promotable(Final)' = Promotable(Final) /\ ProofsHold' = ProofsHold
    BY <2>1 DEF Accepted, Promotable, ProofsHold
  <2>3. AllRecorded => Accepted = Phase
    BY <2>1 DEF AllRecorded, Order, AcceptedInOrder, Accepted
  <2> QED BY <2>1, <2>2, <2>3 DEF Handed
<1>15. ASSUME UNCHANGED <<memory, record, proof, locked, report>>, pc' = "down" \/ pc' = pc,
              Aftermath \/ UNCHANGED runs
       PROVE  Handed'
  <2>1. UNCHANGED <<plan, count, verdict, record, proof, locked, report>>
    BY <1>15 DEF memory
  <2>2. Promotable(Final)' = Promotable(Final)
    BY <1>1, <1>15, PromotableAfter DEF Promotable
  <2>3. Accepted' = Accepted /\ ProofsHold' = ProofsHold
    BY <2>1 DEF Accepted, ProofsHold
  <2>4. pc' = "down" \/ pc' = pc
    BY <1>15
  <2> QED BY <2>1, <2>2, <2>3, <2>4 DEF Handed
<1>16. CASE Crash \/ WorkerEnds \/ MarkStopped
  BY <1>15, <1>16, LeftBehind DEF Crash, Down, WorkerEnds, MarkStopped, phaseFiles, outside
<1>17. CASE UNCHANGED vars
  BY <1>15, <1>17 DEF vars, memory
<1> QED
  BY <1>3, <1>4, <1>5, <1>6, <1>7, <1>8, <1>9, <1>10, <1>11, <1>12, <1>13, <1>14, <1>16, <1>17
     DEF Next, Invocation

LEMMA InitIsWhole == Init => Whole /\ Handed
<1> SUFFICES ASSUME Init PROVE Whole /\ Handed
  OBVIOUS
<1>1. Accepted = {} /\ pc = "down" /\ report = "none" /\ \A s \in Section : runs[s] = <<>>
  BY DEF Init, Accepted, NoRecord, Section
<1> QED BY <1>1 DEF Whole, TreesAreWhole, Handed, Section

LEMMA WholeStep == Typed /\ Order /\ (Whole \/ Torn) /\ [Next]_vars => Whole' \/ Torn'
BY TreesStep, MemoryStep, TornStep DEF Whole

LEMMA WholeAlways == Spec => [](Typed /\ Order /\ (Whole \/ Torn) /\ Handed)
<1>1. Init => Typed /\ Order /\ (Whole \/ Torn) /\ Handed
  BY InitIsTyped, InitInOrder, InitIsWhole
<1>2. Typed /\ Order /\ (Whole \/ Torn) /\ Handed /\ [Next]_vars =>
        Typed' /\ Order' /\ (Whole \/ Torn)' /\ Handed'
  BY TypedStep, OrderStep, WholeStep, HandedStep
<1> QED BY <1>1, <1>2, PTL DEF Spec

\* A run that is reported done has every phase accepted, and its final
\* verification was promoted in a worktree with the work of all of them.
THEOREM DeliveredIsWhole == Spec => []DeliveredWhole
<1>1. ASSUME Typed, Whole \/ Torn, Handed PROVE DeliveredWhole
  <2> SUFFICES ASSUME report = "done"
               PROVE  /\ Accepted = Phase
                      /\ \E i \in DOMAIN runs[Final] : /\ runs[Final][i].result = "promotable"
                                                       /\ Phase = WorkIn(runs[Final][i].tree)
                      /\ locked => ProofsHold
    BY DEF DeliveredWhole
  <2>1. /\ Accepted = Phase /\ (locked => ProofsHold) /\ Whole
        /\ Promotable(Final) # {}
    BY <1>1 DEF Handed, Torn
  <2>2. PICK i \in DOMAIN runs[Final] : runs[Final][i].result = "promotable"
    BY <2>1 DEF Promotable
  <2> DEFINE t == runs[Final][i].tree
  <2>3. t \in 1 .. Len(work) /\ \A q \in Phase : q <= Phases => q \in work[t]
    BY <2>1, <2>2 DEF Whole, TreesAreWhole, HoldsTo
  <2>4. work[t] \subseteq Phase
    <3>1. work \in Seq(SUBSET Phase)
      BY <1>1 DEF Typed, TypeOK
    <3>2. work[t] \in SUBSET Phase
      BY <2>3, <3>1, ElementOfSeq
    <3> QED BY <3>2
  <2>5. Phase \subseteq work[t]
    BY <2>3, Constants DEF Phase
  <2>6. Phase = WorkIn(t)
    <3>1. t # Checkout /\ work[t] = Phase
      BY <2>3, <2>4, <2>5 DEF Checkout
    <3> HIDE DEF t
    <3> QED BY <3>1 DEF WorkIn
  <2> QED BY <2>1, <2>2, <2>6
<1> QED BY <1>1, WholeAlways, PTL

\* Without goal lock an attempt runs in a worktree with the work of every
\* accepted phase.
THEOREM LegacyAttemptsBuildOn == Spec => []LegacyBuildsOnAccepted
<1>1. ASSUME Typed, Order, Whole \/ Torn PROVE LegacyBuildsOnAccepted
  <2> SUFFICES ASSUME pc = "working", ~locked, NEW p \in Accepted, p # phase
               PROVE  p \in WorkIn(tree)
    BY DEF LegacyBuildsOnAccepted
  <2>1. /\ TreesAreWhole /\ run \in DOMAIN runs[phase] /\ runs[phase][run].tree = tree
        /\ phase \in Phase \cup {Final} /\ p \in Phase
    BY <1>1 DEF Whole, Torn, Typed, Places, TypeOK, Accepted
  <2>2. CASE phase = Final
    BY <2>1, <2>2, Constants DEF TreesAreWhole, HoldsTo, WorkIn, Checkout, Phase
  <2>3. CASE phase \in Phase
    <3>1. phase \notin Accepted
      BY <1>1, <2>3, Constants DEF Order, AcceptedInOrder, InHand
    <3>2. ~(phase < p)
      BY <1>1, <2>3, <3>1 DEF Order, AcceptedInOrder
    <3>3. p <= phase - 1
      BY <2>1, <2>3, <3>2 DEF Phase
    <3> QED BY <2>1, <2>3, <3>3 DEF TreesAreWhole, HoldsTo, WorkIn, Checkout
  <2> QED BY <2>1, <2>2, <2>3
<1> QED BY <1>1, WholeAlways, PTL

-----------------------------------------------------------------------------
(***************************************************************************)
(* Workers that outlive their executor.  A live worker belongs to the      *)
(* newest attempt of the first phase that is not accepted, or of the final *)
(* verification, which works in no tree of a phase before all are.         *)
(***************************************************************************)
Live(s) == {i \in DOMAIN runs[s] : runs[s][i].worker = "live"}

OneLive ==
  /\ \A s \in Section : \A i \in Live(s) :
       /\ ~runs[s][i].marked /\ runs[s][i].state = "active"
       /\ \A j \in Candidates(s) : j <= i
       /\ s # Final => Promotable(s) = {} /\ \A q \in Phase : q < s => q \in Accepted
  /\ pc = "working" => run \in Live(phase)

\* Workers only end, and the attempts that may be resumed grow fewer.
Ending ==
  \A u \in Section :
    /\ Live(u)' \subseteq Live(u) /\ Candidates(u)' \subseteq Candidates(u)
    /\ \A i \in Live(u)' : ~runs'[u][i].marked /\ runs'[u][i].state = "active"

LEMMA LiveAreCandidates ==
  ASSUME OneLive, NEW s \in Section, NEW i \in Live(s)
  PROVE  i \in Candidates(s)
BY DEF OneLive, Live, Candidates

LEMMA LiveIsAlone ==
  ASSUME Typed, OneLive, NEW s \in Section, NEW i \in Live(s), NEW j \in Live(s)
  PROVE  i = j
<1>1. i \in Candidates(s) /\ j \in Candidates(s)
  BY LiveAreCandidates
<1>2. i <= j /\ j <= i
  BY <1>1 DEF OneLive
<1>3. i \in Nat /\ j \in Nat
  <2>1. runs[s] \in Seq(RunDir)
    BY DEF Typed, TypeOK, Section
  <2> QED BY <2>1 DEF Live
<1> QED BY <1>2, <1>3

LEMMA WorkersEnd ==
  ASSUME Typed, OneLive,
         \/ Crash /\ pc = "working"
         \/ WorkerEnds
         \/ MarkStopped
         \/ \E outcome \in Outcomes : JudgeAttempt(outcome) \/ JudgeFinal(outcome)
  PROVE  Ending /\ (pc' = "working" => run' \in Live(phase)')
<1>0. /\ runs \in [Section -> Seq(RunDir)]
      /\ pc = "working" => /\ phase \in Section /\ run \in Live(phase) /\ run \in Candidates(phase)
                           /\ run \in DOMAIN runs[phase]
  <2>1. pc = "working" => phase \in Section /\ run \in Live(phase)
    BY DEF Typed, TypeOK, Section, OneLive
  <2> QED BY <2>1, LiveAreCandidates DEF Typed, TypeOK, Section, Live
<1>1. ASSUME NEW s \in Section, NEW i \in DOMAIN runs[s], NEW x \in RunDir,
             runs' = [runs EXCEPT ![s][i] = x],
             x.worker = "live" => /\ runs[s][i].worker = "live"
                                  /\ ~x.marked /\ x.state = "active",
             ~x.marked /\ x.state # "absent" => i \in Candidates(s)
      PROVE  Ending
  <2>1. \A u \in Section :
          /\ DOMAIN runs'[u] = DOMAIN runs[u]
          /\ \A j \in DOMAIN runs[u] :
               runs'[u][j] = IF u = s /\ j = i THEN x ELSE runs[u][j]
    BY <1>0, <1>1, EntryChanges
  <2> SUFFICES ASSUME NEW u \in Section
               PROVE  /\ Live(u)' \subseteq Live(u) /\ Candidates(u)' \subseteq Candidates(u)
                      /\ \A j \in Live(u)' : ~runs'[u][j].marked /\ runs'[u][j].state = "active"
    BY DEF Ending
  <2>2. Live(u)' \subseteq Live(u)
    BY <1>1, <2>1 DEF Live
  <2>3. Candidates(u)' \subseteq Candidates(u)
    BY <1>1, <2>1 DEF Candidates
  <2>4. ASSUME NEW j \in Live(u)' PROVE ~runs'[u][j].marked /\ runs'[u][j].state = "active"
    <3>1. j \in DOMAIN runs[u] /\ j \in Live(u)
      BY <2>1, <2>2, <2>4 DEF Live
    <3>2. CASE u = s /\ j = i
      <4>1. runs'[u][j] = x /\ x.worker = "live"
        BY <2>1, <2>4, <3>1, <3>2 DEF Live
      <4> QED BY <1>1, <4>1
    <3>3. CASE ~(u = s /\ j = i)
      <4>1. runs'[u][j] = runs[u][j]
        BY <2>1, <3>1, <3>3
      <4> QED BY <3>1, <4>1 DEF OneLive
    <3> QED BY <3>2, <3>3
  <2> QED BY <2>2, <2>3, <2>4
<1>2. CASE Crash /\ pc = "working"
  <2>1. PICK state \in {"absent", "active", "idle"}, worker \in RunDirWorkers :
          /\ (state = "active") = (worker # "none")
          /\ runs' = [runs EXCEPT ![phase][run] = [@ EXCEPT !.state = state, !.worker = worker]]
    BY <1>2 DEF Crash
  <2> DEFINE x == [runs[phase][run] EXCEPT !.state = state, !.worker = worker]
  <2>2. runs' = [runs EXCEPT ![phase][run] = x]
    BY <2>1
  <2>3. runs[phase][run] \in RunDir
    BY <1>0, <1>2, EntryType DEF Typed
  <2>4. x \in RunDir /\ x.state = state /\ x.worker = worker /\ x.marked = runs[phase][run].marked
    BY <2>3 DEF RunDir
  <2>5. runs[phase][run].worker = "live" /\ ~runs[phase][run].marked
    BY <1>0, <1>2 DEF OneLive, Live
  <2>6. x.worker = "live" => x.state = "active"
    BY <2>1, <2>4
  <2> HIDE DEF x
  <2>7. Ending
    BY <1>0, <1>1, <1>2, <2>2, <2>4, <2>5, <2>6
  <2>8. pc' = "down"
    BY <1>2 DEF Crash, Down
  <2> QED BY <2>7, <2>8
<1>3. CASE WorkerEnds /\ runs' # runs
  <2>1. PICK s \in Section, worker \in {"lost", "lostDebug"} : \E i \in DOMAIN runs[s] :
          /\ runs[s][i].worker = "live" /\ ~(pc = "working" /\ s = phase /\ i = run)
          /\ runs' = [runs EXCEPT ![s][i].worker = worker]
    BY <1>3 DEF WorkerEnds, Section
  <2>2. PICK i \in DOMAIN runs[s] :
          /\ runs[s][i].worker = "live" /\ ~(pc = "working" /\ s = phase /\ i = run)
          /\ runs' = [runs EXCEPT ![s][i].worker = worker]
    BY <2>1
  <2> DEFINE x == [runs[s][i] EXCEPT !.worker = worker]
  <2>3. runs' = [runs EXCEPT ![s][i] = x]
    BY <2>2
  <2>4. runs[s][i] \in RunDir
    BY <2>2, EntryType DEF Typed
  <2>5. x \in RunDir /\ x.worker = worker /\ worker # "live"
    BY <2>4 DEF RunDir, RunDirWorkers
  <2>6. i \in Candidates(s)
    BY <2>2, LiveAreCandidates DEF Live
  <2> HIDE DEF x
  <2>7. Ending
    BY <1>1, <2>3, <2>5, <2>6
  <2>8. pc = "working" => run \in Live(phase)'
    <3> SUFFICES ASSUME pc = "working" PROVE run \in Live(phase)'
      OBVIOUS
    <3>1. phase' = phase
      BY <1>3 DEF WorkerEnds, memory
    <3>2. runs'[phase][run] = runs[phase][run] /\ DOMAIN runs'[phase] = DOMAIN runs[phase]
      BY <1>0, <2>2, <2>3, <2>5, EntryChanges
    <3> QED BY <1>0, <3>1, <3>2 DEF Live
  <2>9. pc' = pc /\ UNCHANGED <<run, phase>>
    BY <1>3 DEF WorkerEnds, memory
  <2> QED BY <2>7, <2>8, <2>9
<1>4. CASE MarkStopped
  <2>1. PICK s \in Section : \E i \in DOMAIN runs[s] :
          /\ runs[s][i].worker # "live" /\ runs' = [runs EXCEPT ![s][i].marked = TRUE]
    BY <1>4 DEF MarkStopped, Section
  <2>2. PICK i \in DOMAIN runs[s] :
          /\ runs[s][i].worker # "live" /\ runs' = [runs EXCEPT ![s][i].marked = TRUE]
    BY <2>1
  <2> DEFINE x == [runs[s][i] EXCEPT !.marked = TRUE]
  <2>3. runs' = [runs EXCEPT ![s][i] = x]
    BY <2>2
  <2>4. runs[s][i] \in RunDir
    BY <2>2, EntryType DEF Typed
  <2>5. x \in RunDir /\ x.worker = runs[s][i].worker /\ x.marked = TRUE
    BY <2>4 DEF RunDir
  <2> HIDE DEF x
  <2>6. x.worker # "live" /\ x.marked
    BY <2>2, <2>5
  <2>7. Ending
    BY <1>1, <2>3, <2>5, <2>6
  <2>8. pc = "working" => run \in Live(phase)'
    <3> SUFFICES ASSUME pc = "working" PROVE run \in Live(phase)'
      OBVIOUS
    <3>1. phase' = phase
      BY <1>4 DEF MarkStopped, memory
    <3>2. ~(s = phase /\ i = run)
      BY <1>0, <2>2 DEF Live
    <3>3. runs'[phase][run] = runs[phase][run] /\ DOMAIN runs'[phase] = DOMAIN runs[phase]
      BY <1>0, <2>3, <2>5, <3>2, EntryChanges
    <3> QED BY <1>0, <3>1, <3>3 DEF Live
  <2>9. pc' = pc /\ UNCHANGED <<run, phase>>
    BY <1>4 DEF MarkStopped, memory
  <2> QED BY <2>7, <2>8, <2>9
<1>5. CASE \E outcome \in Outcomes : JudgeAttempt(outcome) \/ JudgeFinal(outcome)
  <2>1. PICK outcome \in Outcomes : JudgeAttempt(outcome) \/ JudgeFinal(outcome)
    BY <1>5
  <2>2. /\ pc = "working" /\ Answered(outcome) /\ EndedWith(outcome)
        /\ pc' # "working"
    BY <2>1, AttemptEnds DEF JudgeAttempt, JudgeFinal
  <2>3. \A u \in Section : \A i \in DOMAIN runs'[u] :
          \/ u = phase /\ i = run /\ runs'[u][i].worker = "none"
          \/ i \in DOMAIN runs[u] /\ runs'[u][i] = runs[u][i]
    BY <2>2 DEF EndedWith
  <2>4. Ending
    BY <1>0, <2>2, <2>3 DEF Ending, Live, Candidates, OneLive
  <2> QED BY <2>2, <2>4
<1>6. CASE WorkerEnds /\ runs' = runs
  <2>1. pc' = pc /\ UNCHANGED <<run, phase, runs>>
    BY <1>6 DEF WorkerEnds, memory
  <2> QED BY <1>0, <2>1 DEF Ending, Live, Candidates, OneLive
<1> QED BY <1>2, <1>3, <1>4, <1>5, <1>6

\* No attempt is begun beside a live one of the same phase.
LEMMA NoneIsLive ==
  ASSUME Typed, OneLive, BeginAttempt \/ BeginFinal
  PROVE  Live(phase) = {}
<1>1. phase \in Section /\ Interrupted(phase).mode # "live"
  BY DEF Typed, TypeOK, Section, BeginAttempt, BeginFinal, Places
<1> SUFFICES ASSUME NEW i \in Live(phase) PROVE FALSE
  OBVIOUS
<1>2. /\ i \in Candidates(phase) /\ runs[phase][i].state = "active"
      /\ runs[phase][i].worker = "live" /\ \A j \in Candidates(phase) : j <= i
  BY <1>1, LiveAreCandidates DEF OneLive, Live
<1> QED BY <1>1, <1>2, InterruptedFacts DEF Typed

\* The attempt that begins is the newest of its phase.
LEMMA BegunIsNewest ==
  ASSUME Typed, Order, OneLive, BeginAttempt \/ BeginFinal
  PROVE  \A j \in Candidates(phase)' : j <= run'
<1>1. phase \in Section /\ runs \in [Section -> Seq(RunDir)] /\ phase' = phase
  BY DEF Typed, TypeOK, Section, BeginAttempt, BeginFinal
<1>2. PICK t : BegunIn(t)
  BY AttemptBegins
<1>3. \A j \in Candidates(phase)' : j = run' \/ j \in Candidates(phase)
  BY <1>1, <1>2 DEF BegunIn, Candidates
<1>4. DOMAIN runs[phase] = 1 .. Len(runs[phase]) /\ Len(runs[phase]) \in Nat
  BY <1>1
<1>5. \A j \in Candidates(phase) : j \in Nat /\ j <= Len(runs[phase])
  BY <1>4 DEF Candidates
<1>6. CASE run' = Len(runs[phase]) + 1
  BY <1>3, <1>4, <1>5, <1>6
<1>7. CASE BeginAttempt
  <2>1. phase \notin Accepted /\ phase \in Phase
    BY <1>7, Constants DEF BeginAttempt, Typed, Places, Order, AcceptedInOrder, InHand
  <2>2. run' = Len(runs[phase]) + 1
    BY <1>7, <2>1 DEF BeginAttempt, Accepted
  <2> QED BY <1>6, <2>2
<1>8. CASE BeginFinal /\ run' # Len(runs[phase]) + 1
  <2>1. phase = Final /\ run' = Interrupted(Final).run /\ run' # 0
    BY <1>8 DEF BeginFinal, Typed, Places
  <2>2. \A j \in Candidates(phase) : j <= run'
    BY <1>1, <2>1, InterruptedFacts DEF Typed
  <2>3. run' \in Nat
    BY <1>1, <1>4, <2>1, InterruptedFacts DEF Typed
  <2> QED BY <1>3, <2>2, <2>3
<1> QED BY <1>6, <1>7, <1>8

LEMMA LiveStep == Typed /\ Order /\ OneLive /\ [Next]_vars => OneLive'
<1> SUFFICES ASSUME Typed, Order, OneLive, [Next]_vars PROVE OneLive'
  OBVIOUS
<1> USE Constants
<1>1. ASSUME BeginAttempt \/ BeginFinal PROVE OneLive'
  <2>1. PICK t : BegunIn(t)
    BY <1>1, AttemptBegins
  <2>2. /\ phase \in Section /\ phase' = phase /\ record' = record /\ pc' = "working"
        /\ phase # Final => pc = "attempt" /\ phase \in Phase
    BY <1>1 DEF BeginAttempt, BeginFinal, Typed, TypeOK, Places, Section, phaseFiles
  <2>3. \A u \in Section : \A i \in DOMAIN runs'[u] :
          \/ u = phase /\ i = run' /\ runs'[u][i] = Begun(t)
          \/ i \in DOMAIN runs[u] /\ runs'[u][i] = runs[u][i]
    BY <2>1 DEF BegunIn
  <2>4. \A u \in Section : u # phase => DOMAIN runs'[u] = DOMAIN runs[u]
    BY <2>1, <2>3 DEF BegunIn
  <2>5. run' \in Live(phase)' /\ Live(phase)' \subseteq {run'}
    <3>1. \A i \in Live(phase)' : i = run'
      BY <1>1, <2>2, <2>3, NoneIsLive DEF Live
    <3>2. run' \in DOMAIN runs'[phase] /\ runs'[phase][run'].worker = "live"
      BY <2>1 DEF BegunIn, Begun
    <3> QED BY <2>2, <3>1, <3>2 DEF Live
  <2>6. Accepted' = Accepted /\ \A u \in Section : Promotable(u)' \subseteq Promotable(u)
    BY <2>1, <2>2, PromotableAfter DEF Accepted
  <2>7. ASSUME NEW u \in Section, NEW i \in Live(u)'
        PROVE  /\ ~runs'[u][i].marked /\ runs'[u][i].state = "active"
               /\ \A j \in Candidates(u)' : j <= i
               /\ u # Final => Promotable(u)' = {} /\ \A q \in Phase : q < u => q \in Accepted'
    <3>1. CASE u = phase
      <4>1. i = run' /\ runs'[u][i] = Begun(t)
        BY <2>1, <2>2, <2>5, <2>7, <3>1 DEF BegunIn
      <4>2. \A j \in Candidates(u)' : j <= i
        BY <1>1, <2>2, <3>1, <4>1, BegunIsNewest
      <4>3. u # Final => Promotable(u)' = {} /\ \A q \in Phase : q < u => q \in Accepted
        BY <2>2, <2>6, <3>1 DEF Order, AcceptedInOrder, InHand
      <4> QED BY <2>6, <4>1, <4>2, <4>3 DEF Begun
    <3>2. CASE u # phase
      <4>1. i \in Live(u) /\ runs'[u][i] = runs[u][i]
        BY <2>3, <2>7, <3>2 DEF Live
      <4>2. Candidates(u)' = Candidates(u)
        BY <2>3, <2>4, <3>2 DEF Candidates
      <4> QED BY <2>6, <4>1, <4>2 DEF OneLive
    <3> QED BY <3>1, <3>2
  <2> QED BY <2>2, <2>5, <2>7 DEF OneLive
<1>2. ASSUME Ending, \A u \in Section : Live(u)' # {} => Promotable(u)' = Promotable(u),
             Accepted' = Accepted, pc' = "working" => run' \in Live(phase)'
      PROVE  OneLive'
  BY <1>2 DEF Ending, OneLive
<1>3. ASSUME UNCHANGED runs, Accepted \subseteq Accepted',
             pc' # "working" \/ UNCHANGED <<pc, run, phase>>
      PROVE  OneLive'
  <2>1. \A u \in Section : /\ Live(u)' = Live(u) /\ Candidates(u)' = Candidates(u)
                           /\ Promotable(u)' = Promotable(u)
    BY <1>3 DEF Live, Candidates, Promotable
  <2>2. pc' = "working" => run' \in Live(phase)'
    BY <1>3 DEF OneLive, Live
  <2> QED BY <1>3, <2>1, <2>2 DEF OneLive
<1>4. ASSUME (Crash /\ pc = "working") \/ WorkerEnds \/ MarkStopped PROVE OneLive'
  <2>1. Ending /\ (pc' = "working" => run' \in Live(phase)') /\ Aftermath
    BY <1>4, WorkersEnd, LeftBehind
  <2>2. \A u \in Section : Promotable(u)' = Promotable(u)
    BY <2>1, PromotableAfter
  <2>3. Accepted' = Accepted
    BY <1>4 DEF Crash, WorkerEnds, MarkStopped, phaseFiles, Accepted
  <2> QED BY <1>2, <2>1, <2>2, <2>3
<1>5. ASSUME NEW outcome \in Outcomes, JudgeAttempt(outcome) \/ JudgeFinal(outcome) PROVE OneLive'
  <2>1. /\ Ending /\ (pc' = "working" => run' \in Live(phase)') /\ EndedWith(outcome)
        /\ pc = "working" /\ phase \in Section /\ Accepted' = Accepted
    BY <1>5, WorkersEnd, AttemptEnds
       DEF JudgeAttempt, JudgeFinal, phaseFiles, Accepted, Typed, TypeOK, Section
  <2>2. Live(phase)' = {}
    <3> SUFFICES ASSUME NEW i \in {j \in DOMAIN runs'[phase] : runs'[phase][j].worker = "live"}
                 PROVE  FALSE
      BY <1>5 DEF Live, JudgeAttempt, JudgeFinal
    <3>1. i # run /\ i \in Live(phase)
      BY <2>1 DEF EndedWith, Live
    <3> QED BY <2>1, <3>1, LiveIsAlone DEF OneLive
  <2>3. \A u \in Section : u # phase => Promotable(u)' = Promotable(u)
    <3>1. \A u \in Section : u # phase => Promotable(u)' = Promotable(u) \cup {}
      BY <2>1, PromotableAfter
    <3> QED BY <3>1
  <2> QED BY <1>2, <1>5, <2>1, <2>2, <2>3 DEF JudgeAttempt, JudgeFinal
<1>6. CASE WriteRecord
  <2>1. Accepted \subseteq Accepted'
    BY <1>6 DEF WriteRecord, Accepted, Order, InHand, Typed, TypeOK, Places
  <2> QED BY <1>3, <1>6, <2>1 DEF WriteRecord
<1>7. ASSUME UNCHANGED <<runs, record>>, pc' # "working" \/ UNCHANGED <<pc, run, phase>>
      PROVE  OneLive'
  BY <1>3, <1>7 DEF Accepted
<1>8. CASE \E goal \in Revisions : Start(goal)
  BY <1>7, <1>8 DEF Start
<1>9. CASE SelectPhase \/ LeaveLoop \/ RefuseAttempt \/ TooManyAttempts
  BY <1>7, <1>9 DEF SelectPhase, LeaveLoop, RefuseAttempt, TooManyAttempts, Down, phaseFiles
<1>10. CASE ProvePhase \/ SavePlan \/ RefuseFinal \/ HandOver
  BY <1>7, <1>10 DEF ProvePhase, SavePlan, RefuseFinal, HandOver, phaseFiles
<1>11. CASE Crash /\ pc # "working"
  BY <1>7, <1>11 DEF Crash, Down, phaseFiles
<1>12. CASE UNCHANGED vars
  BY <1>7, <1>12 DEF vars
<1> QED
  BY <1>1, <1>4, <1>5, <1>6, <1>8, <1>9, <1>10, <1>11, <1>12 DEF Next, Invocation

\* A blocked phase of a goal-locked run stops the phases after it, so that an
\* invocation that finds one accepts no phase, and a final verification
\* before all phases are accepted has no tree of a phase to begin in.
StopsThere(plans) == \A p, q \in Phase : q < p /\ plans[p] = "blocked" => plans[q] = "completed"

Stuck ==
  /\ locked => StopsThere(plan) /\ (stored # <<>> => StopsThere(stored))
  /\ pc \in {"attempt", "working", "prove", "record", "save"} /\ phase # Final =>
       \A p \in Phase : plan[p] = "blocked" =>
         p = phase /\ pc \in {"prove", "record", "save"} /\ verdict = "blocked"
  /\ pc = "select" /\ (\E p \in Phase : plan[p] = "blocked") => Done = {}
  /\ (pc = "verify" /\ ~blocked) \/ (pc = "working" /\ phase = Final) =>
       Done = {} \/ \A p \in Phase : plan[p] = "completed"

LEMMA StuckStep == Typed /\ Order /\ Stuck /\ [Next]_vars => Stuck'
<1> SUFFICES ASSUME Typed, Order, Stuck, [Next]_vars PROVE Stuck'
  OBVIOUS
<1> USE Constants
<1>0. plan \in [Phase -> PlanStatus] /\ \A p \in Phase : p \in Int
  BY DEF Typed, TypeOK, Phase
<1>1. ASSUME NEW goal \in Revisions, Start(goal) PROVE Stuck'
  <2>1. /\ phase' = Final /\ pc' \in {"select", "down"} /\ stored' = plan' /\ locked' = locked
        /\ plan' = IF Resumable THEN SyncedPlan ELSE Unplanned
        /\ kept' = IF Resumable THEN LoadedRecords ELSE {}
    BY <1>1 DEF Start
  <2>2. CASE locked /\ Resumable
    <3>1. LoadedRecords = {}
      BY <2>2, LoadedFacts
    <3>2. SyncedPlan = stored /\ stored # <<>>
      BY <2>2, <3>1 DEF SyncedPlan, Resumable, Typed, TypeOK
    <3>3. Done' = {}
      BY <2>1, <3>1 DEF Done
    <3> QED BY <2>1, <2>2, <3>2, <3>3 DEF Stuck
  <2>3. CASE ~Resumable
    <3>1. Done' = {} /\ \A p \in Phase : plan'[p] = "pending"
      BY <2>1, <2>3 DEF Done, Unplanned
    <3> QED BY <2>1, <3>1 DEF Stuck, StopsThere
  <2>4. CASE ~locked /\ Resumable
    <3>1. pc' = "select" => \A p \in Phase : plan'[p] # "blocked"
      BY <2>1, <2>4, OrderStep DEF Order, LegacyBlocks
    <3> QED BY <2>1, <2>4, <3>1 DEF Stuck
  <2> QED BY <2>2, <2>3, <2>4
<1>2. ASSUME SelectPhase PROVE Stuck'
  <2>1. PICK p \in NextPhase :
          /\ phase' = p /\ pc' \in {"attempt", "record"}
          /\ plan' \in {[plan EXCEPT ![p] = "completed"], [plan EXCEPT ![p] = "running"]}
    BY <1>2 DEF SelectPhase
  <2>2. /\ p \in Phase /\ Ready(p) /\ pc = "select" /\ UNCHANGED <<locked, stored>>
        /\ \A q \in Phase : q < p => plan[q] = "completed"
    BY <1>2, <2>1, NextIsFirst DEF SelectPhase, NextPhase, phaseFiles, outside
  <2>3. \A q \in Phase : plan[q] # "blocked"
    <3> SUFFICES ASSUME NEW q \in Phase, plan[q] = "blocked" PROVE FALSE
      OBVIOUS
    <3>1. locked
      BY <2>2 DEF Order, LegacyBlocks
    <3>2. plan[p] = "pending"
      BY <2>2 DEF Ready
    <3>3. ~(p < q) /\ p # q
      BY <2>2, <3>1, <3>2 DEF Stuck, StopsThere
    <3>4. ~(q < p)
      BY <2>2
    <3> QED BY <1>0, <2>2, <3>3, <3>4
  <2>4. \A q \in Phase : plan'[q] # "blocked"
    BY <1>0, <2>1, <2>2, <2>3
  <2> QED BY <2>1, <2>2, <2>4 DEF Stuck, StopsThere
<1>3. ASSUME LeaveLoop PROVE Stuck'
  <2>1. /\ pc = "select" /\ pc' = "verify" /\ blocked' = (NextPhase # {})
        /\ UNCHANGED <<plan, kept, stored, locked>>
    BY <1>3 DEF LeaveLoop, phaseFiles, outside
  <2>2. ~blocked' => Done = {} \/ \A p \in Phase : plan[p] = "completed"
    BY <2>1, NoneIsLeft DEF Stuck
  <2>3. Done' = Done
    BY <2>1 DEF Done
  <2> QED BY <2>1, <2>2, <2>3 DEF Stuck, StopsThere
<1>4. ASSUME phase \in Phase, phase # Final, phase' = phase, UNCHANGED <<locked, stored>>,
             pc \in {"attempt", "working", "prove"},
             pc' \in {"attempt", "prove", "record"},
             \/ plan' = plan
             \/ plan' = [plan EXCEPT ![phase] = "completed"]
             \/ /\ plan' = [plan EXCEPT ![phase] = "blocked"]
                /\ verdict' = "blocked" /\ pc' # "attempt",
             pc = "prove" => pc' = "record" /\ verdict' \in {verdict, "blocked"}
      PROVE  Stuck'
  <2>1. \A q \in Phase : q # phase => plan'[q] = plan[q] /\ plan[q] # "blocked"
    BY <1>0, <1>4 DEF Stuck
  <2>2. \A q \in Phase : q < phase => plan[q] = "completed" /\ q # phase
    BY <1>0, <1>4 DEF Order, InHand
  <2>3. locked => StopsThere(plan')
    BY <1>0, <2>1, <2>2 DEF StopsThere
  <2>4. plan'[phase] = "blocked" => pc' \in {"prove", "record"} /\ verdict' = "blocked"
    <3>1. CASE plan' = plan
      BY <1>4, <3>1 DEF Stuck
    <3>2. CASE plan' # plan
      BY <1>0, <1>4, <3>2
    <3> QED BY <3>1, <3>2
  <2> QED BY <1>4, <2>1, <2>3, <2>4 DEF Stuck, StopsThere
<1>5. CASE BeginAttempt
  BY <1>5 DEF BeginAttempt, phaseFiles, outside, Stuck, StopsThere, Typed, Places
<1>6. CASE BeginFinal
  <2>1. phase = Final /\ Done' = Done
    BY <1>6 DEF BeginFinal, Typed, Places, Done
  <2> QED BY <1>6, <2>1 DEF BeginFinal, phaseFiles, outside, Stuck, StopsThere
<1>7. CASE RefuseAttempt
  BY <1>4, <1>7 DEF RefuseAttempt, phaseFiles, outside, Typed, Places
<1>8. ASSUME NEW outcome \in Outcomes, JudgeAttempt(outcome) PROVE Stuck'
  <2>1. /\ pc = "working" /\ phase \in Phase /\ phase # Final /\ phase' = phase
        /\ UNCHANGED <<locked, stored>> /\ pc' \in {"attempt", "prove"}
        /\ verdict' = IF outcome = "promotable" THEN "done" ELSE "blocked"
        /\ outcome = "promotable" => pc' = "prove"
        /\ plan' = [plan EXCEPT ![phase] = IF outcome = "promotable" THEN "completed"
                                           ELSE IF pc' = "attempt" THEN @ ELSE "blocked"]
    BY <1>8 DEF JudgeAttempt, phaseFiles, outside, Typed, TypeOK
  <2>2. \/ plan' = plan
        \/ plan' = [plan EXCEPT ![phase] = "completed"]
        \/ /\ plan' = [plan EXCEPT ![phase] = "blocked"]
           /\ verdict' = "blocked" /\ pc' # "attempt"
    BY <1>0, <2>1
  <2> QED BY <1>4, <2>1, <2>2
<1>9. CASE \E outcome \in Outcomes : JudgeFinal(outcome)
  <2>1. /\ pc = "working" /\ phase = Final /\ pc' \in {"verify", "handover"}
        /\ UNCHANGED <<plan, stored, locked, kept>>
    BY <1>9 DEF JudgeFinal, phaseFiles, outside
  <2>2. Done' = Done
    BY <2>1 DEF Done
  <2> QED BY <2>1, <2>2 DEF Stuck, StopsThere
<1>10. CASE ProvePhase
  <2>1. /\ pc = "prove" /\ pc' = "record" /\ phase \in Phase /\ phase' = phase
        /\ UNCHANGED <<locked, stored>>
        /\ \/ plan' = plan /\ verdict' = verdict
           \/ plan' = [plan EXCEPT ![phase] = "blocked"] /\ verdict' = "blocked"
    BY <1>10 DEF ProvePhase, Typed, Places, outside
  <2> QED BY <1>4, <2>1
<1>11. CASE WriteRecord
  <2>1. /\ pc = "record" /\ pc' = "save" /\ UNCHANGED <<plan, phase, verdict, stored, locked>>
    BY <1>11 DEF WriteRecord, memory, outside
  <2> QED BY <2>1 DEF Stuck, StopsThere
<1>12. CASE SavePlan
  <2>1. /\ pc = "save" /\ phase \in Phase /\ stored' = plan /\ UNCHANGED <<plan, locked>>
        /\ \/ verdict = "done" /\ pc' = "select"
           \/ pc' = "verify" /\ blocked' = TRUE
    BY <1>12 DEF SavePlan, outside, Typed, Places
  <2>2. pc' = "select" => \A p \in Phase : plan[p] # "blocked"
    BY <2>1 DEF Stuck
  <2> QED BY <2>1, <2>2 DEF Stuck, StopsThere
<1>13. CASE RefuseFinal \/ HandOver \/ TooManyAttempts \/ Crash
  <2>1. pc' \in {"handover", "down"} /\ UNCHANGED <<plan, stored, locked>>
    BY <1>13 DEF RefuseFinal, HandOver, TooManyAttempts, Crash, Down, memory, phaseFiles, outside
  <2> QED BY <2>1 DEF Stuck, StopsThere
<1>14. CASE WorkerEnds \/ MarkStopped \/ UNCHANGED vars
  <2>1. UNCHANGED <<pc, plan, stored, locked, kept, phase, verdict, blocked>>
    BY <1>14 DEF WorkerEnds, MarkStopped, vars, memory, phaseFiles, outside
  <2>2. Done' = Done
    BY <2>1 DEF Done
  <2> QED BY <2>1, <2>2 DEF Stuck, StopsThere
<1> QED
  BY <1>1, <1>2, <1>3, <1>5, <1>6, <1>7, <1>8, <1>9, <1>10, <1>11, <1>12, <1>13, <1>14
     DEF Next, Invocation

\* What is remembered of a phase names a tree of its attempts, and the final
\* verification has trees of its own until all phases are accepted.
TreesOf(s) == {runs[s][i].tree : i \in DOMAIN runs[s]}

Apart ==
  /\ \A p \in Accepted : record[p].tree \in TreesOf(p)
  /\ \A r \in Done : r.tree \in TreesOf(r.phase)
  /\ pc \in {"prove", "record"} /\ verdict = "done" => tree \in TreesOf(phase)
  /\ Accepted # Phase => \A p \in Phase : TreesOf(p) \cap TreesOf(Final) = {}

\* A worker that goes on or stops leaves every attempt in its tree.
LEMMA SameTrees ==
  ASSUME Aftermath
  PROVE  \A u \in Section : TreesOf(u)' = TreesOf(u)
<1>1. \A u \in Section : /\ DOMAIN runs'[u] = DOMAIN runs[u]
                         /\ \A i \in DOMAIN runs[u] : runs'[u][i].tree = runs[u][i].tree
  BY DEF Aftermath
<1> QED BY <1>1 DEF TreesOf

\* An attempt adds its tree to the trees of its phase.
LEMMA TreesAfter ==
  ASSUME Typed, Order, BeginAttempt \/ BeginFinal
  PROVE  /\ \A u \in Section : u # phase => TreesOf(u)' = TreesOf(u)
         /\ TreesOf(phase)' \subseteq TreesOf(phase) \cup {AttemptTree(Interrupted(phase).run)}
         /\ phase # Final => TreesOf(phase) \subseteq TreesOf(phase)'
<1> DEFINE t == AttemptTree(Interrupted(phase).run)
<1>1. phase \in Section /\ phase' = phase /\ BegunIn(t) /\ runs \in [Section -> Seq(RunDir)]
  BY AttemptBegins DEF Typed, TypeOK, Section, BeginAttempt, BeginFinal
<1> HIDE DEF t
<1>2. \A u \in Section : \A i \in DOMAIN runs'[u] :
        \/ u = phase /\ i = run' /\ runs'[u][i].tree = t
        \/ i \in DOMAIN runs[u] /\ runs'[u][i] = runs[u][i]
  BY <1>1 DEF BegunIn, Begun
<1>3. \A u \in Section : DOMAIN runs[u] \subseteq DOMAIN runs'[u]
  BY <1>1 DEF BegunIn
<1>4. \A u \in Section : u # phase => TreesOf(u)' = TreesOf(u)
  BY <1>2, <1>3 DEF TreesOf
<1>5. TreesOf(phase)' \subseteq TreesOf(phase) \cup {t}
  BY <1>1, <1>2 DEF TreesOf
<1>6. phase # Final => TreesOf(phase) \subseteq TreesOf(phase)'
  <2> SUFFICES ASSUME phase # Final PROVE TreesOf(phase) \subseteq TreesOf(phase)'
    OBVIOUS
  <2>1. BeginAttempt /\ phase \in Phase /\ phase \notin Accepted
    BY <1>1, Constants DEF BeginAttempt, BeginFinal, Typed, Places, Section,
                           Order, AcceptedInOrder, InHand
  <2>2. run' = Len(runs[phase]) + 1
    BY <2>1 DEF BeginAttempt, Accepted
  <2>3. run' \notin DOMAIN runs[phase]
    BY <1>1, <2>2
  <2> QED BY <1>1, <1>2, <1>3, <2>3 DEF TreesOf
<1> QED BY <1>4, <1>5, <1>6 DEF t

LEMMA ApartStep == Typed /\ Order /\ Stuck /\ Apart /\ [Next]_vars => Apart'
<1> SUFFICES ASSUME Typed, Order, Stuck, Apart, [Next]_vars PROVE Apart'
  OBVIOUS
<1> USE Constants
<1>0. /\ Section = Phase \cup {Final} /\ Accepted \subseteq Phase
      /\ \A s \in Section : TreesOf(s) \subseteq 1 .. Len(work)
      /\ \A r \in Done : r.phase \in Phase /\ r \in kept
  <2>1. Section = Phase \cup {Final} /\ Accepted \subseteq Phase
    BY DEF Section, Accepted
  <2>2. \A s \in Section : TreesOf(s) \subseteq 1 .. Len(work)
    BY DEF TreesOf, Typed, Directories
  <2>3. \A r \in Done : r.phase \in Phase /\ r \in kept
    BY DEF Typed, Done, TypeOK, Record
  <2> QED BY <2>1, <2>2, <2>3
<1>1. ASSUME BeginAttempt \/ BeginFinal PROVE Apart'
  <2> DEFINE t == AttemptTree(Interrupted(phase).run)
  <2>1. /\ phase \in Section /\ phase' = phase /\ pc' = "working"
        /\ UNCHANGED <<record, kept>>
        /\ \/ pc = "attempt" /\ phase \in Phase
           \/ pc = "verify" /\ ~blocked /\ phase = Final
    BY <1>1 DEF Typed, TypeOK, Section, Places, BeginAttempt, BeginFinal, phaseFiles
  <2>2. /\ Accepted' = Accepted /\ Done' = Done
        /\ \A u \in Section : u # phase => TreesOf(u)' = TreesOf(u)
        /\ TreesOf(phase)' \subseteq TreesOf(phase) \cup {t}
        /\ \A p \in Phase : TreesOf(p) \subseteq TreesOf(p)'
    BY <1>0, <1>1, <2>1, TreesAfter DEF Accepted, Done
  <2>3. Interrupted(phase).run \in DOMAIN runs[phase] \cup {0}
    BY <2>1, InterruptedFacts DEF Typed
  <2>4. \/ t \in TreesOf(phase)
        \/ \E r \in Done : t = r.tree
        \/ t = Len(work) + 1
    <3>1. CASE Interrupted(phase).run # 0
      BY <2>3, <3>1 DEF AttemptTree, TreesOf
    <3>2. CASE Interrupted(phase).run = 0
      BY <3>2, RepositoryPathFacts DEF AttemptTree, Typed
    <3> QED BY <3>1, <3>2
  <2> HIDE DEF t
  <2>5. Accepted # Phase => \A p \in Phase : TreesOf(p)' \cap TreesOf(Final)' = {}
    <3> SUFFICES ASSUME Accepted # Phase, NEW p \in Phase, NEW u \in TreesOf(p)',
                        u \in TreesOf(Final)'
                 PROVE  FALSE
      OBVIOUS
    <3>1. \A q \in Phase : TreesOf(q) \cap TreesOf(Final) = {}
      BY DEF Apart
    <3>2. Len(work) \in Nat /\ \A s \in Section : Len(work) + 1 \notin TreesOf(s)
      BY <1>0 DEF Typed, TypeOK
    <3>3. CASE phase \in Phase
      <4>1. t \notin TreesOf(Final)
        BY <1>0, <2>4, <3>1, <3>2, <3>3 DEF Apart
      <4>2. u \in TreesOf(Final) /\ u \in TreesOf(p) \cup {t}
        BY <1>0, <2>1, <2>2, <3>3
      <4> QED BY <3>1, <4>1, <4>2
    <3>4. CASE phase = Final
      <4>1. Done = {}
        <5>1. PICK q \in Phase : q \notin Accepted
          BY <1>0
        <5>2. plan[q] # "completed" /\ pc = "verify" /\ ~blocked
          BY <2>1, <3>4, <5>1 DEF Order, AcceptedInOrder
        <5> QED BY <5>2 DEF Stuck
      <4>2. \A q \in Phase : t \notin TreesOf(q)
        BY <1>0, <2>4, <3>1, <3>2, <3>4, <4>1
      <4>3. u \in TreesOf(p) /\ u \in TreesOf(Final) \cup {t}
        BY <1>0, <2>1, <2>2, <3>4
      <4> QED BY <3>1, <4>2, <4>3
    <3> QED BY <2>1, <3>3, <3>4
  <2>6. \A p \in Accepted : record[p].tree \in TreesOf(p)'
    BY <1>0, <2>2 DEF Apart
  <2>7. \A r \in Done : r.tree \in TreesOf(r.phase)'
    BY <1>0, <2>2 DEF Apart
  <2> QED BY <2>1, <2>2, <2>5, <2>6, <2>7 DEF Apart
<1>2. ASSUME \A u \in Section : TreesOf(u)' = TreesOf(u), Accepted \subseteq Accepted',
             \A p \in Accepted' : record'[p].tree \in TreesOf(p),
             \A r \in Done' : r \in Done \/ (r.phase \in Phase /\ r.tree \in TreesOf(r.phase)),
             pc' \in {"prove", "record"} /\ verdict' = "done" =>
               phase' \in Phase /\ tree' \in TreesOf(phase')
      PROVE  Apart'
  <2>1. Accepted' \subseteq Phase
    BY DEF Accepted
  <2>2. Accepted' # Phase => \A p \in Phase : TreesOf(p)' \cap TreesOf(Final)' = {}
    BY <1>0, <1>2, <2>1 DEF Apart
  <2>3. \A r \in Done' : r.tree \in TreesOf(r.phase)'
    BY <1>0, <1>2 DEF Apart
  <2>4. pc' \in {"prove", "record"} /\ verdict' = "done" => tree' \in TreesOf(phase)'
    <3> SUFFICES ASSUME pc' \in {"prove", "record"}, verdict' = "done",
                        NEW p \in Phase, p = phase'
                 PROVE  tree' \in TreesOf(p)'
      BY <1>2
    <3> QED BY <1>0, <1>2
  <2> QED BY <1>0, <1>2, <2>1, <2>2, <2>3, <2>4 DEF Apart
<1>3. ASSUME UNCHANGED record,
             Aftermath \/ UNCHANGED runs \/ \E outcome \in Outcomes : EndedWith(outcome),
             pc = "working" \/ ~\E outcome \in Outcomes : EndedWith(outcome),
             \A r \in Done' : r \in Done \/ (r.phase \in Phase /\ r.tree \in TreesOf(r.phase)),
             pc' \in {"prove", "record"} /\ verdict' = "done" =>
               phase' \in Phase /\ tree' \in TreesOf(phase')
      PROVE  Apart'
  <2>1. \A u \in Section : TreesOf(u)' = TreesOf(u)
    <3>1. CASE Aftermath
      BY <3>1, SameTrees
    <3>2. CASE UNCHANGED runs
      BY <3>2 DEF TreesOf
    <3>3. ASSUME NEW outcome \in Outcomes, EndedWith(outcome)
          PROVE  \A u \in Section : TreesOf(u)' = TreesOf(u)
      <4>1. runs[phase][run].tree = tree
        BY <1>3, <3>3 DEF Typed, Places
      <4>2. \A u \in Section : /\ DOMAIN runs'[u] = DOMAIN runs[u]
                               /\ \A i \in DOMAIN runs[u] : runs'[u][i].tree = runs[u][i].tree
        BY <3>3, <4>1 DEF EndedWith
      <4> QED BY <4>2 DEF TreesOf
    <3> QED BY <1>3, <3>1, <3>2, <3>3
  <2>2. Accepted' = Accepted
    BY <1>3 DEF Accepted
  <2>3. \A p \in Accepted' : record'[p].tree \in TreesOf(p)
    BY <1>3, <2>2 DEF Apart
  <2> QED BY <1>2, <1>3, <2>1, <2>2, <2>3
<1>4. ASSUME NEW goal \in Revisions, Start(goal) PROVE Apart'
  <2>1. /\ UNCHANGED <<record, runs>> /\ pc' \in {"select", "down"}
        /\ kept' = IF Resumable THEN LoadedRecords ELSE {}
    BY <1>4 DEF Start
  <2>2. \A r \in Done' : r.phase \in Phase /\ r.tree \in TreesOf(r.phase)
    <3> SUFFICES ASSUME NEW r \in LoadedRecords, r.status = "done"
                 PROVE  r.phase \in Phase /\ r.tree \in TreesOf(r.phase)
      BY <2>1 DEF Done
    <3>1. r.phase \in Accepted /\ r.tree = record[r.phase].tree
      BY LoadedFacts DEF Accepted
    <3> QED BY <1>0, <3>1 DEF Apart
  <2> QED BY <1>2, <2>1, <2>2 DEF Apart, TreesOf, Accepted
<1>5. ASSUME SelectPhase PROVE Apart'
  <2>1. PICK p \in NextPhase :
          /\ phase' = p
          /\ IF Promotable(p) # {}
               THEN LET t == runs[p][Newest(Promotable(p))].tree IN
                    /\ pc' = "record" /\ tree' = t
                    /\ kept' = {r \in kept : r.phase # p} \cup
                                 {[phase |-> p, status |-> "done", tree |-> t, at |-> count + 1]}
               ELSE pc' = "attempt" /\ kept' = {r \in kept : r.phase # p}
    BY <1>5 DEF SelectPhase
  <2>2. p \in Phase /\ UNCHANGED <<record, runs>> /\ pc = "select"
    BY <1>5, <2>1 DEF SelectPhase, NextPhase, phaseFiles
  <2>3. CASE Promotable(p) = {}
    <3>1. Done' \subseteq Done /\ pc' = "attempt"
      BY <2>1, <2>3 DEF Done
    <3> QED BY <1>2, <2>2, <3>1 DEF Apart, TreesOf, Accepted
  <2>4. CASE Promotable(p) # {}
    <3> DEFINE t == runs[p][Newest(Promotable(p))].tree
               r0 == [phase |-> p, status |-> "done", tree |-> t, at |-> count + 1]
    <3>1. t \in TreesOf(p)
      BY <1>0, <2>2, <2>4, PromotableFacts DEF Typed, TreesOf
    <3> HIDE DEF t
    <3>2. tree' = t /\ kept' \subseteq kept \cup {r0}
      BY <2>1, <2>4 DEF t
    <3>3. r0.phase = p /\ r0.tree = t
      OBVIOUS
    <3> HIDE DEF r0
    <3>4. \A r \in Done' : r \in Done \/ (r.phase \in Phase /\ r.tree \in TreesOf(r.phase))
      BY <2>2, <3>1, <3>2, <3>3 DEF Done
    <3> QED BY <1>2, <2>1, <2>2, <3>1, <3>2, <3>4 DEF Apart, TreesOf, Accepted
  <2> QED BY <2>3, <2>4
<1>6. ASSUME NEW outcome \in Outcomes, JudgeAttempt(outcome) \/ JudgeFinal(outcome) PROVE Apart'
  <2>1. /\ EndedWith(outcome) /\ pc = "working" /\ UNCHANGED <<record, kept, phase, tree>>
        /\ pc' \in {"attempt", "prove", "verify", "handover"}
        /\ pc' = "prove" => phase \in Phase
    BY <1>6, AttemptEnds DEF JudgeAttempt, JudgeFinal, phaseFiles, Typed, TypeOK
  <2>2. tree \in TreesOf(phase)
    BY <2>1 DEF Typed, Places, TreesOf
  <2>3. Done' = Done
    BY <2>1 DEF Done
  <2> QED BY <1>3, <2>1, <2>2, <2>3
<1>7. ASSUME ProvePhase PROVE Apart'
  <2>1. /\ pc = "prove" /\ phase \in Phase /\ UNCHANGED <<record, runs, phase, tree>>
        /\ verdict' \in {verdict, "blocked"}
    BY <1>7 DEF ProvePhase, Typed, Places
  <2> DEFINE r0 == [phase |-> phase, status |-> verdict', tree |-> tree, at |-> count]
  <2>2. kept' = kept \cup {r0}
    BY <1>7 DEF ProvePhase, Remembers
  <2>3. r0.phase = phase /\ r0.status = verdict' /\ r0.tree = tree
    OBVIOUS
  <2> HIDE DEF r0
  <2>4. verdict' = "done" => tree \in TreesOf(phase)
    BY <2>1 DEF Apart
  <2>5. \A r \in Done' : r \in Done \/ (r.phase \in Phase /\ r.tree \in TreesOf(r.phase))
    BY <2>1, <2>2, <2>3, <2>4 DEF Done
  <2> QED BY <1>2, <2>1, <2>4, <2>5 DEF Apart, TreesOf, Accepted
<1>8. ASSUME WriteRecord PROVE Apart'
  <2>1. /\ pc = "record" /\ pc' = "save" /\ phase \in Phase
        /\ record' = [record EXCEPT ![phase] = [status |-> verdict, tree |-> tree]]
        /\ UNCHANGED <<runs, kept>>
    BY <1>8 DEF WriteRecord, memory, Typed, Places
  <2>2. /\ record'[phase].status = verdict /\ record'[phase].tree = tree
        /\ \A p \in Phase : p # phase => record'[p] = record[p]
    BY <2>1 DEF Typed, TypeOK
  <2>3. Accepted \subseteq Accepted'
    BY <2>1, <2>2 DEF Accepted, Order, InHand, Typed, TypeOK
  <2>4. \A p \in Accepted' : record'[p].tree \in TreesOf(p)
    BY <2>1, <2>2 DEF Accepted, Apart
  <2>5. Done' = Done /\ \A u \in Section : TreesOf(u)' = TreesOf(u)
    BY <2>1 DEF Done, TreesOf
  <2> QED BY <1>2, <2>1, <2>3, <2>4, <2>5
<1>9. ASSUME UNCHANGED <<record, kept>>, Aftermath \/ UNCHANGED runs,
             (pc' = pc /\ UNCHANGED <<verdict, phase, tree>>) \/ pc' \notin {"record"},
             pc' = "prove" =>
               verdict' = "blocked" \/ (pc' = pc /\ UNCHANGED <<verdict, phase, tree>>)
      PROVE  Apart'
  <2>1. \A u \in Section : TreesOf(u)' = TreesOf(u)
    <3>1. CASE Aftermath
      BY <3>1, SameTrees
    <3>2. CASE UNCHANGED runs
      BY <3>2 DEF TreesOf
    <3> QED BY <1>9, <3>1, <3>2
  <2>2. Done' = Done /\ Accepted' = Accepted
    BY <1>9 DEF Done, Accepted
  <2>3. pc' \in {"prove", "record"} /\ verdict' = "done" => phase' \in Phase /\
          tree' \in TreesOf(phase')
    BY <1>9 DEF Apart, Typed, Places
  <2>4. \A p \in Accepted' : record'[p].tree \in TreesOf(p)
    BY <1>9, <2>2 DEF Apart
  <2> QED BY <1>2, <2>1, <2>2, <2>3, <2>4
<1>10. CASE LeaveLoop \/ RefuseAttempt \/ TooManyAttempts
  BY <1>9, <1>10 DEF LeaveLoop, RefuseAttempt, TooManyAttempts, Down, memory, phaseFiles
<1>11. CASE SavePlan \/ RefuseFinal \/ HandOver
  BY <1>9, <1>11 DEF SavePlan, RefuseFinal, HandOver, memory, phaseFiles
<1>12. CASE Crash \/ WorkerEnds \/ MarkStopped
  BY <1>9, <1>12, LeftBehind DEF Crash, Down, WorkerEnds, MarkStopped, memory, phaseFiles
<1>13. CASE UNCHANGED vars
  BY <1>9, <1>13 DEF vars
<1> QED
  BY <1>1, <1>4, <1>5, <1>6, <1>7, <1>8, <1>10, <1>11, <1>12, <1>13 DEF Next, Invocation

\* Whatever crashes and restarts, two workers are at work in one worktree only if one of
\* them is a stray, left by a crash behind a lifecycle file that does not show it
\* (worker_lifecycle.py writes timed_out and cancelled before it ends the process):
\* selection starts no attempt where a worker is at work that its files show.
THEOREM WorkersKeepApart == Spec => []OneWorkerPerTree
<1> DEFINE Inv == Typed /\ Order /\ OneLive /\ Stuck /\ Apart
<1>1. Init => Inv
  <2> SUFFICES ASSUME Init PROVE OneLive /\ Stuck /\ Apart
    BY InitIsTyped, InitInOrder
  <2>1. /\ Accepted = {} /\ pc = "down" /\ kept = {} /\ stored = <<>>
        /\ \A p \in Phase : plan[p] = "pending"
        /\ \A s \in Section : runs[s] = <<>>
    BY DEF Init, Accepted, NoRecord, Section, Unplanned
  <2>2. \A s \in Section : Live(s) = {} /\ TreesOf(s) = {}
    BY <2>1 DEF Live, TreesOf
  <2> QED BY <2>1, <2>2 DEF OneLive, Stuck, StopsThere, Apart, Done, Section
<1>2. Inv /\ [Next]_vars => Inv'
  BY TypedStep, OrderStep, LiveStep, StuckStep, ApartStep
<1>3. ASSUME Typed, Order, OneLive, Apart,
             NEW r \in Section, NEW s \in Section,
             NEW i \in DOMAIN runs[r], NEW j \in DOMAIN runs[s],
             runs[r][i].worker = "live", runs[s][j].worker = "live",
             runs[r][i].tree = runs[s][j].tree
      PROVE  r = s /\ i = j
  <2>1. i \in Live(r) /\ j \in Live(s)
    BY <1>3 DEF Live
  <2>2. CASE r = s
    BY <1>3, <2>1, <2>2, LiveIsAlone
  <2>3. CASE r # s /\ r \in Phase /\ s \in Phase
    <3>1. \A p \in Section, k \in Nat : p \in Phase /\ k \in Live(p) => p \notin Accepted
      BY <1>3, Constants DEF OneLive, Order, AcceptedInOrder
    <3>2. i \in Nat /\ j \in Nat
      BY <1>3 DEF Typed, TypeOK, Section
    <3>3. r \notin Accepted /\ s \notin Accepted
      BY <2>1, <2>3, <3>1, <3>2
    <3>4. (r < s => r \in Accepted) /\ (s < r => s \in Accepted)
      BY <1>3, <2>1, <2>3, Constants DEF OneLive
    <3> QED BY <2>3, <3>3, <3>4 DEF Phase
  <2>4. ASSUME NEW p \in Phase, NEW k \in Live(p), NEW l \in Live(Final)
        PROVE  runs[p][k].tree # runs[Final][l].tree
    <3>1. p \notin Accepted
      BY <1>3, <2>4, Constants DEF OneLive, Order, AcceptedInOrder, Section
    <3>2. TreesOf(p) \cap TreesOf(Final) = {}
      BY <1>3, <3>1 DEF Apart
    <3>3. runs[p][k].tree \in TreesOf(p) /\ runs[Final][l].tree \in TreesOf(Final)
      BY DEF TreesOf, Live
    <3> QED BY <3>2, <3>3
  <2> QED BY <1>3, <2>1, <2>2, <2>3, <2>4 DEF Section
<1>4. Inv => OneWorkerPerTree
  <2> SUFFICES ASSUME Inv, NEW v \in AtWork, NEW w \in AtWork,
                      v.tree = w.tree, v.of # <<>>, w.of # <<>>
               PROVE  v = w
    BY DEF OneWorkerPerTree
  <2>1. \A x \in AtWork : x.of # <<>> =>
          \E s \in Section : \E i \in DOMAIN runs[s] :
            x = [tree |-> runs[s][i].tree, of |-> <<s, i>>] /\ runs[s][i].worker = "live"
    BY DEF AtWork, Section
  <2>2. PICK r \in Section : \E i \in DOMAIN runs[r] :
          v = [tree |-> runs[r][i].tree, of |-> <<r, i>>] /\ runs[r][i].worker = "live"
    BY <2>1
  <2>3. PICK i \in DOMAIN runs[r] :
          v = [tree |-> runs[r][i].tree, of |-> <<r, i>>] /\ runs[r][i].worker = "live"
    BY <2>2
  <2>4. PICK s \in Section : \E j \in DOMAIN runs[s] :
          w = [tree |-> runs[s][j].tree, of |-> <<s, j>>] /\ runs[s][j].worker = "live"
    BY <2>1
  <2>5. PICK j \in DOMAIN runs[s] :
          w = [tree |-> runs[s][j].tree, of |-> <<s, j>>] /\ runs[s][j].worker = "live"
    BY <2>4
  <2>6. runs[r][i].tree = runs[s][j].tree
    BY <2>3, <2>5
  <2>7. r = s /\ i = j
    BY <1>3, <2>3, <2>5, <2>6
  <2> QED BY <2>3, <2>5, <2>7
<1> QED BY <1>1, <1>2, <1>4, PTL DEF Spec
================================================================================
