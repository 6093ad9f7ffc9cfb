--------------------------- MODULE WorkerTaskProofs ---------------------------
(***************************************************************************)
(* Proofs about workers in one worktree, for every set of files, every     *)
(* number of executions and edits: what a lifecycle file says of the       *)
(* processes, and what an execution leaves in the worktree.                *)
(***************************************************************************)
EXTENDS WorkerTaskProperties, TLAPS

\* An execution has a number.
Typed ==
  /\ TypeOK
  /\ pc # "idle" => n \in Executions
  /\ n = 0 => result = "none"

\* No worker of an execution runs before it is launched.
NoneAhead ==
  /\ \A p \in procs : p.of <= n
  /\ pc = "launch" => \A p \in procs : p.of # n

\* The lifecycle file of an execution that has not been launched says that it runs.
LifecycleInvariant ==
  Typed /\ NoneAhead /\ EndedIsGone /\ (pc = "launch" => file.status = "running")

\* The worker staged an edit that git checkout brings back.
Staged(f) == work[f] = index[f] /\ ~Untouched(f)

\* A snapshot that git answered for tells every file as it was.
SnapshotIsBase ==
  pc # "idle" /\ "before" \notin blind =>
    \A f \in Files : IF f \in DOMAIN snapshot THEN snapshot[f] = base[f] ELSE base[f] = Checkout[f]

\* A file that is not as it was is about to be restored, allowed, or staged.
ScopeIsKept ==
  blind = {} =>
    /\ pc = "launch" => \A f \in Files : Kept(f)
    /\ pc = "restore" =>
         \A f \in Files :
           f \in changed \/ Kept(f) \/ (result = "boundary" /\ f \in Allowed[n])
    /\ pc = "report" => \A f \in Files \ Allowed[n] : Kept(f)
    /\ pc = "idle" /\ n > 0 /\ result # "crashed" =>
         \A f \in Files :
           \/ Kept(f) \/ Staged(f)
           \/ result \notin {"timedOut", "cancelled"} /\ f \in Allowed[n]

\* The same of files that an earlier task had changed, wherever git fails after the worker:
\* they are in the snapshot.
Earlier == {f \in Files : base[f] # Checkout[f]}
EarlierIsKept ==
  "before" \notin blind =>
    /\ pc = "launch" => \A f \in Earlier : Kept(f)
    /\ pc = "restore" =>
         \A f \in Earlier :
           f \in FromSnapshot \/ Kept(f) \/ (result = "boundary" /\ f \in Allowed[n])
    /\ pc = "report" => \A f \in Earlier \ Allowed[n] : Kept(f)
    /\ Returned => \A f \in Earlier : Kept(f) \/ (~WasStopped /\ f \in Allowed[n])

WorktreeInvariant == LifecycleInvariant /\ SnapshotIsBase /\ ScopeIsKept /\ EarlierIsKept

-----------------------------------------------------------------------------
LEMMA ContentFacts ==
  /\ Len(Allowed) \in Nat /\ {0, Absent, Late, Before} \subseteq Contents
  /\ \A k \in Executions : k \in Contents /\ k \in Nat \ {0} /\ Allowed[k] \subseteq Files
  /\ Checkout \in [Files -> Contents]
BY WorkerAssumption DEF Contents, Absent, Late, Before, Executions, Checkout

LEMMA Nothing == DOMAIN <<>> = {} /\ 0 \in 0 .. MaxGrace
BY WorkerAssumption

LEMMA InitialType == Init => Typed
<1> SUFFICES ASSUME Init PROVE Typed
  OBVIOUS
<1>1. DOMAIN snapshot \subseteq Files /\ \A f \in DOMAIN snapshot : snapshot[f] \in Contents
  BY Nothing DEF Init
<1>2. work \in [Files -> Contents] /\ index = Checkout /\ base = work
  BY ContentFacts DEF Init
<1>3. \A image \in {work, index, base} : image \in [Files -> Contents]
  BY <1>2, ContentFacts
<1> QED BY <1>1, <1>3, Nothing, ContentFacts DEF Init, Typed, TypeOK, NoFile, Results

LEMMA FinishType ==
  ASSUME NEW outcome \in Results, Finish(outcome)
  PROVE  /\ pc' = "idle" /\ result' \in Results
         /\ DOMAIN snapshot' \subseteq Files
         /\ \A f \in DOMAIN snapshot' : snapshot'[f] \in Contents
         /\ changed' \subseteq Files /\ watch' = Unwatched
         /\ late' \in BOOLEAN /\ grace' \in 0 .. MaxGrace
BY Nothing DEF Finish

LEMMA TypeStep == Typed /\ [Next]_vars => Typed'
<1> SUFFICES ASSUME Typed, [Next]_vars PROVE Typed'
  OBVIOUS
<1> USE ContentFacts, WorkerAssumption DEF Typed, TypeOK, Failing, vars, memory, worktree, history
<1>1. CASE Begin
  <2>1. n' \in Executions
    BY <1>1 DEF Begin, Executions
  <2>2. PICK status \in GitAnswers : snapshot' = [f \in status |-> work[f]]
    BY <1>1 DEF Begin
  <2>3. status \subseteq Files
    BY <2>2 DEF GitAnswers, Status
  <2> QED BY <1>1, <2>1, <2>2, <2>3, Nothing DEF Begin, NoFile, Results
<1>2. CASE Launch
  <2>1. n \in Executions
    BY <1>2 DEF Launch
  <2>2. Worker(n) \in Process
    BY <2>1 DEF Worker, Process
  <2> QED BY <1>2, <2>2 DEF Launch
<1>3. CASE LaunchFails
  <2>1. "notLaunched" \in Results
    BY DEF Results
  <2>2. Finish("notLaunched")
    BY <1>3 DEF LaunchFails
  <2> QED BY <1>3, <2>1, <2>2, FinishType DEF LaunchFails
<1>4. CASE Extend
  <2>1. grace' \in 0 .. MaxGrace
    BY <1>4 DEF Extend
  <2> QED BY <1>4, <2>1 DEF Extend
<1>5. CASE WorkerEnded
  BY <1>5 DEF WorkerEnded
<1>6. CASE TimeOut
  BY <1>6 DEF TimeOut, Stopped, Results
<1>7. CASE Cancel
  BY <1>7 DEF Cancel, Stopped, Results
<1>8. CASE Terminate
  BY <1>8 DEF Terminate
<1>9. CASE Kill
  BY <1>9 DEF Kill
<1>10. CASE Drained
  BY <1>10 DEF Drained
<1>11. CASE Rollback
  BY <1>11 DEF Rollback, GitAnswers, Status, Changed
<1>12. CASE Audit
  BY <1>12 DEF Audit, GitAnswers, Status, Changed, OutOfScope, Results
<1>13. CASE Restore
  <2>1. \A f \in Files : Restored(f) \in Contents
    BY DEF Restored
  <2>2. work' \in [Files -> Contents] /\ blind' \subseteq {"before", "after"}
    BY <1>13, <2>1 DEF Restore
  <2>3. Finish(result)
    BY <1>13 DEF Restore
  <2> QED BY <1>13, <2>2, <2>3, FinishType DEF Restore
<1>14. CASE Report
  <2>1. PICK output \in Outputs, exited \in {0, 1} : Finish(Classified(output, exited))
    BY <1>14 DEF Report
  <2>2. Classified(output, exited) \in Results
    BY DEF Classified, Outputs, CliFailures, Results
  <2> QED BY <1>14, <2>1, <2>2, FinishType DEF Report
<1>15. CASE Deadline
  BY <1>15 DEF Deadline
<1>16. CASE Crash
  <2>1. "crashed" \in Results
    BY DEF Results
  <2>2. Finish("crashed")
    BY <1>16 DEF Crash
  <2> QED BY <1>16, <2>1, <2>2, FinishType DEF Crash
<1>17. CASE Spawn
  BY <1>17 DEF Spawn, Process
<1>18. CASE Exit
  BY <1>18 DEF Exit
<1>19. CASE Write
  BY <1>19 DEF Write, Edit, Watched, Process
<1>20. CASE Delete
  BY <1>20 DEF Delete, Edit, Watched
<1>21. CASE Stage
  BY <1>21 DEF Stage, Edit
<1>23. CASE RestoreRaises
  <2>1. \A f \in Files : Restored(f) \in Contents
    BY DEF Restored
  <2>2. work' \in [Files -> Contents] /\ "raised" \in Results
    BY <1>23, <2>1 DEF RestoreRaises, Results
  <2>3. Finish("raised")
    BY <1>23 DEF RestoreRaises
  <2> QED BY <1>23, <2>2, <2>3, FinishType DEF RestoreRaises
<1>22. CASE UNCHANGED vars
  BY <1>22
<1> QED
  BY <1>1, <1>2, <1>3, <1>4, <1>5, <1>6, <1>7, <1>8, <1>9, <1>10, <1>11, <1>12, <1>13, <1>14,
     <1>15, <1>16, <1>17, <1>18, <1>19, <1>20, <1>21, <1>22, <1>23 DEF Next, Adapter, Environment

LEMMA LifecycleStep == LifecycleInvariant /\ [Next]_vars => LifecycleInvariant'
<1> SUFFICES ASSUME LifecycleInvariant, [Next]_vars PROVE LifecycleInvariant'
  OBVIOUS
<1>0. Typed'
  BY TypeStep DEF LifecycleInvariant
<1> USE <1>0 DEF LifecycleInvariant, NoneAhead, EndedIsGone, Worker, Group,
                 vars, memory, worktree, history
<1>1. CASE Begin
  BY <1>1 DEF Begin, NoFile, Typed, TypeOK, Process, Executions
<1>2. CASE Launch
  BY <1>2 DEF Launch, Typed, TypeOK, Process, Executions
<1>3. CASE LaunchFails
  BY <1>3 DEF LaunchFails, Finish
<1>4. CASE Extend
  BY <1>4 DEF Extend
<1>5. CASE WorkerEnded
  BY <1>5 DEF WorkerEnded
<1>6. CASE TimeOut
  BY <1>6 DEF TimeOut, Stopped
<1>7. CASE Cancel
  BY <1>7 DEF Cancel, Stopped
<1>8. CASE Terminate
  <2>1. PICK terminated \in BOOLEAN :
          /\ procs' = IF terminated THEN procs \ Group(n) ELSE procs
          /\ file' = [file EXCEPT !.cleanup = ~terminated]
    BY <1>8 DEF Terminate
  <2>2. CASE terminated
    <3>1. /\ \A p \in procs' : ~(p.of = n /\ p.kind # "daemon")
          /\ procs' \subseteq procs /\ n' = n /\ pc' = "kill"
      BY <1>8, <2>1, <2>2 DEF Terminate
    <3>2. Worker(n) \notin procs' /\ Group(n)' = {}
      BY <3>1
    <3> QED BY <3>1, <3>2
  <2>3. CASE ~terminated
    <3>1. file'.cleanup /\ procs' = procs
      BY <2>1, <2>3, <1>0 DEF Typed, TypeOK
    <3> QED BY <1>8, <3>1 DEF Terminate
  <2> QED BY <2>2, <2>3
<1>9. CASE Kill
  BY <1>9 DEF Kill
<1>10. CASE Drained
  BY <1>10 DEF Drained
<1>11. CASE Rollback
  BY <1>11 DEF Rollback
<1>12. CASE Audit
  BY <1>12 DEF Audit
<1>13. CASE Restore
  BY <1>13 DEF Restore, Finish
<1>14. CASE Report
  BY <1>14 DEF Report, Finish
<1>15. CASE Deadline
  BY <1>15 DEF Deadline
<1>16. CASE Crash
  BY <1>16 DEF Crash, Finish
<1>17. CASE Spawn
  BY <1>17 DEF Spawn
<1>18. CASE Exit
  BY <1>18 DEF Exit
<1>19. CASE Write
  BY <1>19 DEF Write
<1>20. CASE Delete
  BY <1>20 DEF Delete
<1>21. CASE Stage
  BY <1>21 DEF Stage
<1>23. CASE RestoreRaises
  BY <1>23 DEF RestoreRaises, Finish
<1>22. CASE UNCHANGED vars
  BY <1>22
<1> QED
  BY <1>1, <1>2, <1>3, <1>4, <1>5, <1>6, <1>7, <1>8, <1>9, <1>10, <1>11, <1>12, <1>13, <1>14,
     <1>15, <1>16, <1>17, <1>18, <1>19, <1>20, <1>21, <1>22, <1>23 DEF Next, Adapter, Environment

LEMMA SnapshotStep == WorktreeInvariant /\ [Next]_vars => SnapshotIsBase'
<1> SUFFICES ASSUME WorktreeInvariant, [Next]_vars PROVE SnapshotIsBase'
  OBVIOUS
<1> USE DEF WorktreeInvariant, SnapshotIsBase, Failing, vars, memory, worktree, history
<1>1. CASE Begin
  <2> SUFFICES ASSUME "before" \notin blind', NEW f \in Files
               PROVE  IF f \in DOMAIN snapshot' THEN snapshot'[f] = base'[f]
                      ELSE base'[f] = Checkout[f]
    BY <1>1 DEF Begin
  <2>1. snapshot' = [g \in Status |-> work[g]] /\ base' = work
    BY <1>1 DEF Begin, Failing
  <2>2. f \notin Status => work[f] = Checkout[f]
    BY DEF Status
  <2> QED BY <2>1, <2>2
<1>2. CASE Launch
  BY <1>2 DEF Launch
<1>3. CASE LaunchFails
  BY <1>3 DEF LaunchFails, Finish
<1>4. CASE Extend
  BY <1>4 DEF Extend
<1>5. CASE WorkerEnded
  BY <1>5 DEF WorkerEnded
<1>6. CASE TimeOut
  BY <1>6 DEF TimeOut, Stopped
<1>7. CASE Cancel
  BY <1>7 DEF Cancel, Stopped
<1>8. CASE Terminate
  BY <1>8 DEF Terminate
<1>9. CASE Kill
  BY <1>9 DEF Kill
<1>10. CASE Drained
  BY <1>10 DEF Drained
<1>11. CASE Rollback
  BY <1>11 DEF Rollback
<1>12. CASE Audit
  BY <1>12 DEF Audit
<1>13. CASE Restore
  BY <1>13 DEF Restore, Finish
<1>14. CASE Report
  BY <1>14 DEF Report, Finish
<1>15. CASE Deadline
  BY <1>15 DEF Deadline
<1>16. CASE Crash
  BY <1>16 DEF Crash, Finish
<1>17. CASE Spawn
  BY <1>17 DEF Spawn
<1>18. CASE Exit
  BY <1>18 DEF Exit
<1>19. CASE Write
  BY <1>19 DEF Write
<1>20. CASE Delete
  BY <1>20 DEF Delete
<1>21. CASE Stage
  BY <1>21 DEF Stage
<1>23. CASE RestoreRaises
  BY <1>23 DEF RestoreRaises, Finish
<1>22. CASE UNCHANGED vars
  BY <1>22
<1> QED
  BY <1>1, <1>2, <1>3, <1>4, <1>5, <1>6, <1>7, <1>8, <1>9, <1>10, <1>11, <1>12, <1>13, <1>14,
     <1>15, <1>16, <1>17, <1>18, <1>19, <1>20, <1>21, <1>22, <1>23 DEF Next, Adapter, Environment

LEMMA UnchangedIsBase ==
  ASSUME SnapshotIsBase, pc # "idle", "before" \notin blind, NEW f \in Files,
         f \notin Changed(Status)
  PROVE  work[f] = base[f]
BY DEF SnapshotIsBase, Changed, Status

LEMMA RestoredIsBase ==
  ASSUME SnapshotIsBase, pc # "idle", "before" \notin blind, NEW f \in Files
  PROVE  Restored(f) = base[f] \/ (Restored(f) = index[f] /\ ~Untouched(f))
BY DEF SnapshotIsBase, Restored, Untouched

LEMMA ScopeStep == WorktreeInvariant /\ [Next]_vars => ScopeIsKept'
<1> SUFFICES ASSUME WorktreeInvariant, [Next]_vars PROVE ScopeIsKept'
  OBVIOUS
<1>0. Typed /\ NoneAhead /\ Executions \subseteq Nat
  BY ContentFacts DEF WorktreeInvariant, LifecycleInvariant
<1> USE <1>0 DEF WorktreeInvariant, ScopeIsKept, Kept, Staged, Untouched, Failing, vars, memory,
        worktree, history
<1>1. CASE Begin
  BY <1>1 DEF Begin, GitAnswers, Status
<1>2. CASE Launch
  BY <1>2 DEF Launch
<1>3. CASE LaunchFails
  BY <1>3 DEF LaunchFails, Finish
<1>4. CASE Extend
  BY <1>4 DEF Extend
<1>5. CASE WorkerEnded
  BY <1>5 DEF WorkerEnded
<1>6. CASE TimeOut
  BY <1>6 DEF TimeOut, Stopped
<1>7. CASE Cancel
  BY <1>7 DEF Cancel, Stopped
<1>8. CASE Terminate
  BY <1>8 DEF Terminate
<1>9. CASE Kill
  BY <1>9 DEF Kill
<1>10. CASE Drained
  BY <1>10 DEF Drained
<1>11. CASE Rollback
  <2> SUFFICES ASSUME blind' = {}, NEW f \in Files PROVE f \in changed' \/ Kept(f)'
    BY <1>11 DEF Rollback
  <2>1. changed' = Changed(Status) /\ blind = {} /\ work' = work /\ base' = base
    BY <1>11 DEF Rollback
  <2> QED BY <1>11, <2>1, UnchangedIsBase DEF Rollback
<1>12. CASE Audit
  <2> SUFFICES ASSUME blind' = {} PROVE ScopeIsKept'
    OBVIOUS
  <2> DEFINE violation == OutOfScope(Changed(Status))
  <2>1. /\ changed' = violation /\ blind = {} /\ UNCHANGED <<work, base, n>>
        /\ pc' = IF violation = {} THEN "report" ELSE "restore"
        /\ violation # {} => result' = "boundary"
    BY <1>12 DEF Audit
  <2>2. \A f \in Files \ Allowed[n] : f \in violation \/ Kept(f)
    BY <1>12, <2>1, UnchangedIsBase DEF Audit, OutOfScope
  <2> HIDE DEF violation
  <2> QED BY <2>1, <2>2
<1>13. CASE Restore
  <2> SUFFICES ASSUME blind' = {}, NEW f \in Files, pc' = "idle", n > 0
               PROVE  \/ Kept(f)' \/ Staged(f)'
                      \/ result' \notin {"timedOut", "cancelled"} /\ f \in Allowed[n]
    BY <1>13 DEF Restore, Finish
  <2>0. PICK unlisted \in SUBSET FromGit, checkedOut \in BOOLEAN :
          LET stale == IF checkedOut THEN {} ELSE FromGit \ unlisted IN
          /\ work' = [g \in Files |->
                        CASE g \in unlisted -> Absent
                          [] g \in changed \ (unlisted \cup stale) -> Restored(g)
                          [] OTHER -> work[g]]
          /\ blind' = blind \cup Failing(unlisted \cup stale # {}, "after")
    BY <1>13 DEF Restore
  <2> DEFINE stale == IF checkedOut THEN {} ELSE FromGit \ unlisted
  <2>4. unlisted = {} /\ stale = {} /\ blind = {}
    BY <2>0
  <2>1. /\ work'[f] = IF f \in changed THEN Restored(f) ELSE work[f]
        /\ UNCHANGED <<base, index, result>>
    BY <1>13, <2>0, <2>4 DEF Restore, Finish
  <2>2. Restored(f) = base[f] \/ (Restored(f) = index[f] /\ ~Untouched(f))
    BY <1>13, RestoredIsBase DEF Restore
  <2>3. f \in changed \/ Kept(f) \/ (result = "boundary" /\ f \in Allowed[n])
    BY <1>13 DEF Restore
  <2> QED BY <2>1, <2>2, <2>3
<1>14. CASE Report
  BY <1>14 DEF Report, Finish, Classified, Outputs, CliFailures
<1>15. CASE Deadline
  BY <1>15 DEF Deadline
<1>16. CASE Crash
  BY <1>16 DEF Crash, Finish
<1>17. CASE Spawn
  BY <1>17 DEF Spawn
<1>18. CASE Exit
  BY <1>18 DEF Exit
<1>19. CASE Write
  BY <1>19 DEF Write, Edit, Watched, Typed, TypeOK, NoneAhead
<1>20. CASE Delete
  BY <1>20 DEF Delete, Edit, Watched, NoneAhead, Worker
<1>21. CASE Stage
  BY <1>21 DEF Stage, Edit, Typed, TypeOK, NoneAhead
<1>23. CASE RestoreRaises
  BY <1>23 DEF RestoreRaises, Finish
<1>22. CASE UNCHANGED vars
  BY <1>22
<1> QED
  BY <1>1, <1>2, <1>3, <1>4, <1>5, <1>6, <1>7, <1>8, <1>9, <1>10, <1>11, <1>12, <1>13, <1>14,
     <1>15, <1>16, <1>17, <1>18, <1>19, <1>20, <1>21, <1>22, <1>23 DEF Next, Adapter, Environment

LEMMA EarlierIsInSnapshot ==
  ASSUME SnapshotIsBase, pc # "idle", "before" \notin blind, NEW f \in Earlier
  PROVE  f \in DOMAIN snapshot /\ Restored(f) = base[f]
BY DEF SnapshotIsBase, Earlier, Restored

LEMMA EarlierStep == WorktreeInvariant /\ [Next]_vars => EarlierIsKept'
<1> SUFFICES ASSUME WorktreeInvariant, [Next]_vars PROVE EarlierIsKept'
  OBVIOUS
<1>0. Typed /\ NoneAhead /\ Executions \subseteq Nat
  BY ContentFacts DEF WorktreeInvariant, LifecycleInvariant
<1> USE <1>0 DEF WorktreeInvariant, EarlierIsKept, Earlier, Kept, Returned, WasStopped,
        Failing, FromSnapshot, vars, memory, worktree, history
<1>1. CASE Begin
  BY <1>1 DEF Begin
<1>2. CASE Launch
  BY <1>2 DEF Launch
<1>3. CASE LaunchFails
  BY <1>3 DEF LaunchFails, Finish
<1>4. CASE Extend
  BY <1>4 DEF Extend
<1>5. CASE WorkerEnded
  BY <1>5 DEF WorkerEnded
<1>6. CASE TimeOut
  BY <1>6 DEF TimeOut, Stopped
<1>7. CASE Cancel
  BY <1>7 DEF Cancel, Stopped
<1>8. CASE Terminate
  BY <1>8 DEF Terminate
<1>9. CASE Kill
  BY <1>9 DEF Kill
<1>10. CASE Drained
  BY <1>10 DEF Drained
<1>11. CASE Rollback
  <2> SUFFICES ASSUME "before" \notin blind', NEW f \in Earlier
               PROVE  f \in changed' \cap DOMAIN snapshot \/ Kept(f)
    BY <1>11 DEF Rollback
  <2>1. PICK status \in GitAnswers : changed' = Changed(status)
    BY <1>11 DEF Rollback
  <2>2. f \in DOMAIN snapshot /\ snapshot[f] = base[f]
    BY <1>11, EarlierIsInSnapshot DEF Rollback, Restored
  <2> QED BY <2>1, <2>2 DEF Changed
<1>12. CASE Audit
  <2> SUFFICES ASSUME "before" \notin blind' PROVE EarlierIsKept'
    OBVIOUS
  <2>1. PICK status \in GitAnswers :
          LET violation == OutOfScope(Changed(status)) IN
          /\ changed' = violation
          /\ pc' = IF violation = {} THEN "report" ELSE "restore"
          /\ result' = IF violation = {} THEN result ELSE "boundary"
    BY <1>12 DEF Audit
  <2> DEFINE violation == OutOfScope(Changed(status))
  <2>2. ASSUME NEW f \in Earlier \ Allowed[n]
        PROVE  f \in violation \cap DOMAIN snapshot \/ Kept(f)
    <3>1. f \in DOMAIN snapshot /\ snapshot[f] = base[f]
      BY <1>12, EarlierIsInSnapshot DEF Audit, Restored
    <3> QED BY <3>1 DEF OutOfScope, Changed
  <2>3. /\ changed' = violation /\ UNCHANGED <<work, base, n, snapshot>>
        /\ pc' = IF violation = {} THEN "report" ELSE "restore"
        /\ violation # {} => result' = "boundary"
    BY <1>12, <2>1 DEF Audit
  <2> HIDE DEF violation
  <2> QED BY <2>2, <2>3
<1>13. CASE Restore
  <2> SUFFICES ASSUME "before" \notin blind', NEW f \in Earlier
               PROVE  Kept(f)' \/ (~WasStopped' /\ f \in Allowed[n])
    BY <1>13 DEF Restore, Finish
  <2>0. PICK unlisted \in SUBSET FromGit, checkedOut \in BOOLEAN :
          LET stale == IF checkedOut THEN {} ELSE FromGit \ unlisted IN
          work' = [g \in Files |->
                     CASE g \in unlisted -> Absent
                       [] g \in changed \ (unlisted \cup stale) -> Restored(g)
                       [] OTHER -> work[g]]
    BY <1>13 DEF Restore
  <2>1. UNCHANGED <<base, result, n>> /\ "before" \notin blind
    BY <1>13 DEF Restore, Finish
  <2>2. f \in DOMAIN snapshot /\ Restored(f) = base[f] /\ f \notin FromGit
    BY <1>13, <2>1, EarlierIsInSnapshot DEF Restore, FromGit
  <2>3. work'[f] = IF f \in changed THEN base[f] ELSE work[f]
    BY <2>0, <2>2
  <2>4. f \in changed \/ Kept(f) \/ (result = "boundary" /\ f \in Allowed[n])
    BY <1>13, <2>1 DEF Restore
  <2> QED BY <2>1, <2>3, <2>4
<1>14. CASE Report
  BY <1>14 DEF Report, Finish, Classified, Outputs, CliFailures
<1>15. CASE Deadline
  BY <1>15 DEF Deadline
<1>16. CASE Crash
  BY <1>16 DEF Crash, Finish
<1>17. CASE Spawn
  BY <1>17 DEF Spawn
<1>18. CASE Exit
  BY <1>18 DEF Exit
<1>19. CASE Write
  BY <1>19 DEF Write, Edit, Watched, Typed, TypeOK, NoneAhead
<1>20. CASE Delete
  BY <1>20 DEF Delete, Edit, Watched, NoneAhead, Worker
<1>21. CASE Stage
  BY <1>21 DEF Stage, Edit, Typed, TypeOK, NoneAhead
<1>22. CASE UNCHANGED vars
  BY <1>22
<1>23. CASE RestoreRaises
  <2> SUFFICES ASSUME "before" \notin blind', NEW f \in Earlier
               PROVE  Kept(f)' \/ (~WasStopped' /\ f \in Allowed[n])
    BY <1>23 DEF RestoreRaises, Finish
  <2>0. PICK reached \in SUBSET FromGit :
          work' = [g \in Files |->
                     IF g \in FromSnapshot \cup reached THEN Restored(g) ELSE work[g]]
    BY <1>23 DEF RestoreRaises
  <2>1. UNCHANGED <<base, n>> /\ result' = "raised" /\ "before" \notin blind
    BY <1>23 DEF RestoreRaises, Finish
  <2>2. f \in DOMAIN snapshot /\ Restored(f) = base[f] /\ f \notin FromGit
    BY <1>23, <2>1, EarlierIsInSnapshot DEF RestoreRaises, FromGit
  <2>3. work'[f] = IF f \in changed THEN base[f] ELSE work[f]
    BY <2>0, <2>2
  <2>4. f \in changed \/ Kept(f) \/ (result = "boundary" /\ f \in Allowed[n])
    BY <1>23, <2>1 DEF RestoreRaises
  <2> QED BY <2>1, <2>3, <2>4
<1> QED
  BY <1>1, <1>2, <1>3, <1>4, <1>5, <1>6, <1>7, <1>8, <1>9, <1>10, <1>11, <1>12, <1>13, <1>14,
     <1>15, <1>16, <1>17, <1>18, <1>19, <1>20, <1>21, <1>22, <1>23 DEF Next, Adapter, Environment

LEMMA WorktreeHolds == Spec => []WorktreeInvariant
<1>1. Init => WorktreeInvariant
  BY InitialType DEF Init, WorktreeInvariant, LifecycleInvariant, NoneAhead, EndedIsGone,
                     SnapshotIsBase, ScopeIsKept, EarlierIsKept, Earlier, Returned, NoFile
<1>2. WorktreeInvariant /\ [Next]_vars => WorktreeInvariant'
  BY LifecycleStep, SnapshotStep, ScopeStep, EarlierStep DEF WorktreeInvariant
<1> QED BY <1>1, <1>2, PTL DEF Spec

\* Every variable of the adapter, its lifecycle file and the worktree has its type.
THEOREM WorkerIsTyped == Spec => []TypeOK
<1>1. WorktreeInvariant => TypeOK
  BY DEF WorktreeInvariant, LifecycleInvariant, Typed
<1> QED BY <1>1, WorktreeHolds, PTL

\* A lifecycle file that reports an end and asks for no cleanup is right, wherever the
\* adapter died (WorkerLifecycleRecorder, terminate_process_tree).
THEOREM EndedWorkersAreGone == Spec => []EndedIsGone
<1>1. WorktreeInvariant => EndedIsGone
  BY DEF WorktreeInvariant, LifecycleInvariant
<1> QED BY <1>1, WorktreeHolds, PTL

\* While git does what it is asked, what a worker may not change is as it was, and a stopped
\* worker leaves nothing, however its edits, those of its descendants and git add fall
\* between the snapshot, the audit and the rollback; and wherever git fails after the worker,
\* the edits of earlier tasks are kept (_audit_file_boundaries, _rollback_files).
THEOREM WorktreesAreRestored == Spec => []WorktreeIsRestored
<1>1. WorktreeInvariant => WorktreeIsRestored
  <2> SUFFICES ASSUME WorktreeInvariant PROVE WorktreeIsRestored
    OBVIOUS
  <2>1. Typed /\ (n > 0 \/ n = 0)
    BY ContentFacts DEF WorktreeInvariant, LifecycleInvariant, Typed, TypeOK
  <2>2. BoundaryHolds /\ StoppedLeavesNothing
    BY <2>1 DEF WorktreeInvariant, BoundaryHolds, StoppedLeavesNothing, Returned, WasStopped,
                ScopeIsKept, Kept, Staged, Typed
  <2>3. EarlierEditsSurvive
    BY DEF WorktreeInvariant, EarlierEditsSurvive, EarlierIsKept, Earlier
  <2> QED BY <2>2, <2>3 DEF WorktreeIsRestored
<1> QED BY <1>1, WorktreeHolds, PTL
=============================================================================
