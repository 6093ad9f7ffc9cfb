------------------------------- MODULE JobProofs -------------------------------
(***************************************************************************)
(* Proofs about the asynchronous runs of a project: their types for any    *)
(* number of clients, runs, control requests and crashes; and, with one    *)
(* request at a time, that workers do not overlap and that a run marked as *)
(* handed over is.                                                         *)
(***************************************************************************)
EXTENDS JobProperties, WellFoundedInduction, TLAPS

-----------------------------------------------------------------------------
(* Types. *)

\* Where a thread has no run yet, or none any more.
Unnumbered == {"new", "idle", "scan", "number", "ended"}

Numbered(x) == x.at \notin Unnumbered => x.run \in Run

TypeInvariant == TypeOK /\ \A t \in Thread : Numbered(thread[t])

\* Only thread t moves.
Moves(t) ==
  /\ thread' \in [Thread -> ThreadState]
  /\ \A u \in Thread \ {t} : thread'[u] = thread[u]

LEMMA ThreadFacts ==
  /\ Client \subseteq Thread /\ Worker \subseteq Thread /\ Worker = Run
  /\ 0 \notin Run /\ Run \subseteq Nat /\ Client \cap Worker = {}
  /\ MaxRuns \in Nat /\ MaxRuns >= 1 /\ MaxControls \in Nat /\ MaxCrashes \in Nat
BY JobAssumption DEF Thread, Worker, Run

LEMMA FreshFacts ==
  ASSUME NEW p \in Places
  PROVE  /\ Fresh(p) \in ThreadState
         /\ Fresh(p).at = p /\ Fresh(p).then = p /\ Fresh(p).run = 0 /\ Fresh(p).source = 0
         /\ Fresh(p).kind = "start" /\ Fresh(p).copy = Absent
BY DEF Fresh, ThreadState, Places, ProjectStatus, Startable, JobFile, JobStatus, Absent,
       Verdicts

\* What is written to a job file is one.
LEMMA JobFacts ==
  /\ Absent \in JobFile /\ Queued \in JobFile
  /\ Queued.status = "queued" /\ Absent.status = "absent"
  /\ \A j \in JobFile : /\ j.status \in JobStatus
                        /\ \A s \in JobStatus :
                             /\ [j EXCEPT !.status = s] \in JobFile
                             /\ [j EXCEPT !.result = TRUE, !.status = s] \in JobFile
                        /\ [j EXCEPT !.pause = TRUE] \in JobFile
                        /\ [j EXCEPT !.pause = FALSE] \in JobFile
                        /\ [j EXCEPT !.stop = TRUE] \in JobFile
                        /\ [j EXCEPT !.result = TRUE] \in JobFile
BY DEF JobFile, JobStatus, Absent, Queued, Active, Verdicts

\* A thread goes on at a place.
LEMMA GoesFacts ==
  ASSUME TypeOK, NEW t \in Thread, NEW p \in Places, Goes(t, p)
  PROVE  /\ Moves(t)
         /\ thread'[t] = [thread[t] EXCEPT !.at = p]
         /\ thread'[t].at = p /\ thread'[t].then = thread[t].then
         /\ thread'[t].run = thread[t].run /\ thread'[t].source = thread[t].source
         /\ thread'[t].copy = thread[t].copy
<1>1. thread[t] \in ThreadState
  BY DEF TypeOK
<1>2. /\ [thread[t] EXCEPT !.at = p] \in ThreadState
      /\ LET x == [thread[t] EXCEPT !.at = p] IN
         /\ x.at = p /\ x.then = thread[t].then /\ x.run = thread[t].run
         /\ x.source = thread[t].source /\ x.copy = thread[t].copy
  <2>1. \A x \in ThreadState : [x EXCEPT !.at = p] \in ThreadState
    BY DEF ThreadState
  <2>2. \A x \in ThreadState : LET y == [x EXCEPT !.at = p] IN
            /\ y.at = p /\ y.then = x.then /\ y.run = x.run
            /\ y.source = x.source /\ y.copy = x.copy
    BY DEF ThreadState
  <2> QED BY <1>1, <2>1, <2>2
<1>3. thread' = [thread EXCEPT ![t] = [thread[t] EXCEPT !.at = p]]
  BY DEF Goes
<1> QED BY <1>2, <1>3 DEF Moves, TypeOK

\* A thread starts to save a job.
LEMMA SavesFacts ==
  ASSUME TypeOK, NEW t \in Thread, NEW j \in JobFile, NEW p \in Places, Saves(t, j, p)
  PROVE  /\ Moves(t)
         /\ thread'[t].at = "check" /\ thread'[t].then = p /\ thread'[t].copy = j
         /\ thread'[t].run = thread[t].run /\ thread'[t].source = thread[t].source
<1>1. thread[t] \in ThreadState /\ "check" \in Places
  BY DEF TypeOK, Places
<1> DEFINE Saved(x) == [x EXCEPT !.at = "check", !.copy = j, !.then = p]
<1>2. \A x \in ThreadState :
        /\ Saved(x) \in ThreadState
        /\ Saved(x).at = "check" /\ Saved(x).then = p /\ Saved(x).copy = j
        /\ Saved(x).run = x.run /\ Saved(x).source = x.source
  BY <1>1 DEF ThreadState
<1>3. thread' = [thread EXCEPT ![t] = Saved(thread[t])]
  BY DEF Saves
<1> HIDE DEF Saved
<1> QED BY <1>1, <1>2, <1>3 DEF Moves, TypeOK

\* A thread is given a record.
LEMMA PutFacts ==
  ASSUME TypeOK, NEW t \in Thread, NEW x \in ThreadState, thread' = [thread EXCEPT ![t] = x]
  PROVE  Moves(t) /\ thread'[t] = x
BY DEF Moves, TypeOK

\* What a thread with a run reads.
LEMMA ReadFacts ==
  ASSUME TypeInvariant, NEW t \in Thread
  PROVE  /\ thread[t] \in ThreadState /\ thread[t].at \in Places /\ thread[t].then \in Places
         /\ thread[t].run \in Run \cup {0} /\ thread[t].source \in Run \cup {0}
         /\ thread[t].copy \in JobFile /\ thread[t].result \in Verdicts
         /\ thread[t].at \notin Unnumbered =>
              thread[t].run \in Run /\ job[thread[t].run] \in JobFile
         /\ \A r \in Run : job[r] \in JobFile
         /\ Verdict(t) \in {"paused", "done", "blocked"}
<1>1. thread[t] \in ThreadState /\ job \in [Run -> JobFile] /\ Numbered(thread[t])
  BY DEF TypeInvariant, TypeOK
<1>2. thread[t].result \in Verdicts
  BY <1>1 DEF ThreadState
<1>3. Verdict(t) \in {"paused", "done", "blocked"}
  BY <1>2 DEF Verdict, Verdicts
<1> QED BY <1>1, <1>2, <1>3 DEF ThreadState, Numbered

LEMMA TypedStep ==
  ASSUME TypeInvariant, NEW t \in Thread, Moves(t), Numbered(thread'[t]),
         job' \in [Run -> JobFile], paused' \subseteq Run, project' \in ProjectStatus,
         runs' \in 0 .. MaxRuns, controls' \in 0 .. MaxControls, crashes' \in 0 .. MaxCrashes
  PROVE  TypeInvariant'
BY DEF TypeInvariant, TypeOK, Moves

-----------------------------------------------------------------------------
(* What each operation does to its thread. *)

LEMMA PreserveFacts ==
  ASSUME TypeInvariant, NEW t \in Thread, Preserve(t)
  PROVE  /\ Moves(t) /\ thread[t].at = "check" /\ thread'[t].at = "write"
         /\ thread'[t].then = thread[t].then
         /\ thread'[t].run = thread[t].run /\ thread'[t].source = thread[t].source
         /\ \/ thread'[t].copy = thread[t].copy
            \/ /\ job[thread[t].run].status = "resumed"
               /\ thread'[t].copy.status = "resumed"
<1> DEFINE old == thread[t]
           now == job[old.run]
           keep == now.status = "resumed" /\ old.copy.status # "failed"
           kept == [old.copy EXCEPT !.status = "resumed",
                                    !.result = old.copy.result \/ now.result]
           copy == IF keep THEN kept ELSE old.copy
           x == [old EXCEPT !.at = "write", !.copy = copy]
<1>1. /\ old \in ThreadState /\ old.at = "check" /\ old.copy \in JobFile
      /\ old.run \in Run /\ now \in JobFile
  BY ReadFacts DEF Preserve, Unnumbered
<1>2. kept \in JobFile /\ kept.status = "resumed"
  <2>1. \A j, k \in JobFile : LET y == [j EXCEPT !.status = "resumed",
          !.result = j.result \/ k.result]
                              IN  y \in JobFile /\ y.status = "resumed"
    BY DEF JobFile, JobStatus
  <2> QED BY <1>1, <2>1
<1> HIDE DEF kept
<1>3. copy \in JobFile /\ (copy = old.copy \/ (now.status = "resumed" /\ copy.status = "resumed"))
  <2>1. CASE keep
    BY <1>2, <2>1
  <2>2. CASE ~keep
    BY <1>1, <2>2
  <2> QED BY <2>1, <2>2
<1>4. thread' = [thread EXCEPT ![t] = x]
  <2>1. thread' = [thread EXCEPT ![t].at = "write", ![t].copy = copy]
    BY DEF Preserve, kept
  <2> HIDE DEF copy
  <2> QED BY <2>1
<1> HIDE DEF copy
<1>5. /\ x \in ThreadState /\ x.at = "write" /\ x.copy = copy
      /\ x.then = old.then /\ x.run = old.run /\ x.source = old.source
  <2>1. \A y \in ThreadState, j \in JobFile : LET z == [y EXCEPT !.at = "write", !.copy = j] IN
          /\ z \in ThreadState /\ z.at = "write" /\ z.copy = j
          /\ z.then = y.then /\ z.run = y.run /\ z.source = y.source
    <3>1. "write" \in Places
      BY DEF Places
    <3> QED BY <3>1 DEF ThreadState
  <2> QED BY <1>1, <1>3, <2>1
<1> HIDE DEF x
<1>6. Moves(t) /\ thread'[t] = x
  BY <1>4, <1>5, PutFacts DEF TypeInvariant
<1> QED BY <1>1, <1>3, <1>5, <1>6

LEMMA ReplaceFacts ==
  ASSUME TypeInvariant, NEW t \in Thread, Replace(t)
  PROVE  /\ Moves(t) /\ thread[t].at = "write" /\ thread'[t].at = thread[t].then
         /\ thread'[t].then = thread[t].then /\ thread'[t].copy = thread[t].copy
         /\ thread'[t].run = thread[t].run /\ thread'[t].source = thread[t].source
         /\ thread[t].run \in Run /\ job' \in [Run -> JobFile]
         /\ job'[thread[t].run] = thread[t].copy
         /\ \A r \in Run \ {thread[t].run} : job'[r] = job[r]
<1>1. /\ thread[t].then \in Places /\ thread[t].run \in Run /\ thread[t].copy \in JobFile
      /\ thread[t].at = "write"
  BY ReadFacts DEF Replace, Unnumbered
<1>2. job \in [Run -> JobFile] /\ job' = [job EXCEPT ![thread[t].run] = thread[t].copy]
  BY DEF TypeInvariant, TypeOK, Replace
<1>3. Goes(t, thread[t].then)
  BY DEF Replace
<1> QED BY <1>1, <1>2, <1>3, GoesFacts DEF TypeInvariant

\* A client turns to a new request.
LEMMA StartFacts ==
  ASSUME TypeInvariant, NEW c \in Client, NEW r \in Run \cup {0}, Start(c, r)
  PROVE  /\ Moves(c) /\ thread[c].at = "idle" /\ thread'[c].at = "scan"
         /\ thread'[c].run = 0 /\ thread'[c].source = r
         /\ r \in Created \cup {0}
<1> DEFINE x == [Fresh("scan") EXCEPT !.source = r, !.seen = project]
<1>1. Fresh("scan") \in ThreadState /\ Fresh("scan").at = "scan" /\ Fresh("scan").run = 0
  BY FreshFacts DEF Places
<1>2. x \in ThreadState /\ x.at = "scan" /\ x.run = 0 /\ x.source = r
  <2>1. \A y \in ThreadState, p \in ProjectStatus :
          LET z == [y EXCEPT !.source = r, !.seen = p] IN
          z \in ThreadState /\ z.at = y.at /\ z.run = y.run /\ z.source = r
    BY DEF ThreadState
  <2>2. project \in ProjectStatus
    BY DEF TypeInvariant, TypeOK
  <2> QED BY <1>1, <2>1, <2>2
<1>3. thread' = [thread EXCEPT ![c] = x]
  BY DEF Start
<1> HIDE DEF x
<1>4. c \in Thread
  BY ThreadFacts
<1> QED BY <1>2, <1>3, <1>4, PutFacts DEF TypeInvariant, Start

LEMMA NumberFacts ==
  ASSUME TypeInvariant, NEW c \in Client, Number(c)
  PROVE  /\ Moves(c) /\ thread[c].at = "number" /\ thread'[c].at = "check"
         /\ thread'[c].then = "announce" /\ thread'[c].run = NextRun
         /\ thread'[c].source = thread[c].source /\ thread'[c].copy = Queued
         /\ NextRun \in Run
<1> DEFINE Given(x) ==
      [x EXCEPT !.at = "check", !.then = "announce", !.run = NextRun, !.copy = Queued]
<1>1. NextRun \in Run /\ c \in Thread /\ thread[c] \in ThreadState
  BY ThreadFacts DEF Number, TypeInvariant, TypeOK
<1> HIDE DEF NextRun
<1>2. \A x \in ThreadState :
        /\ Given(x) \in ThreadState
        /\ Given(x).at = "check" /\ Given(x).then = "announce" /\ Given(x).run = NextRun
        /\ Given(x).source = x.source /\ Given(x).copy = Queued
  <2>1. "check" \in Places /\ "announce" \in Places /\ Queued \in JobFile
    BY JobFacts DEF Places
  <2> QED BY <1>1, <2>1 DEF ThreadState
<1>3. thread' = [thread EXCEPT ![c] = Given(thread[c])]
  BY DEF Number
<1> HIDE DEF Given
<1>4. Moves(c) /\ thread'[c] = Given(thread[c])
  BY <1>1, <1>2, <1>3, PutFacts DEF TypeInvariant
<1>5. thread[c].at = "number"
  BY DEF Number
<1> QED BY <1>1, <1>2, <1>4, <1>5

\* pause_run, stop_run and resume_run begin alike: they save a control.
Asks(r, j, p) == [Fresh("check") EXCEPT !.then = p, !.run = r, !.copy = j]

LEMMA ControlFacts ==
  ASSUME TypeInvariant, NEW c \in Client, NEW r \in Run, NEW j \in JobFile,
         NEW p \in Places,
         thread' = [thread EXCEPT ![c] = Asks(r, j, p)]
  PROVE  /\ Moves(c) /\ thread'[c].at = "check" /\ thread'[c].then = p
         /\ thread'[c].run = r /\ thread'[c].source = 0 /\ thread'[c].copy = j
<1>1. /\ Fresh("check") \in ThreadState /\ Fresh("check").at = "check"
      /\ Fresh("check").source = 0 /\ c \in Thread
  BY FreshFacts, ThreadFacts DEF Places
<1>2. \A x \in ThreadState : LET y == [x EXCEPT !.then = p, !.run = r, !.copy = j] IN
        y \in ThreadState /\ y.at = x.at /\ y.then = p /\ y.run = r
        /\ y.source = x.source /\ y.copy = j
  BY DEF ThreadState
<1>3. LET y == Asks(r, j, p) IN
        y \in ThreadState /\ y.at = "check" /\ y.then = p /\ y.run = r
        /\ y.source = 0 /\ y.copy = j
  BY <1>1, <1>2 DEF Asks
<1>4. Moves(c) /\ thread'[c] = Asks(r, j, p)
  BY <1>1, <1>3, PutFacts DEF TypeInvariant
<1> QED BY <1>3, <1>4

LEMMA RequestPauseFacts ==
  ASSUME TypeInvariant, NEW c \in Client, NEW r \in Run, RequestPause(c, r)
  PROVE  /\ Moves(c) /\ thread[c].at = "idle" /\ thread'[c].at = "check"
         /\ thread'[c].then = "idle"
         /\ thread'[c].run = r /\ thread'[c].source = 0 /\ r \in Created
         /\ thread'[c].copy.status = job[r].status
         /\ thread'[c].copy.pause = TRUE
<1> DEFINE j == [job[r] EXCEPT !.pause = TRUE]
<1>1. job[r] \in JobFile /\ "idle" \in Places
  BY DEF TypeInvariant, TypeOK, Places
<1>2. j \in JobFile
  BY <1>1, JobFacts
<1>3. /\ thread[c].at = "idle" /\ r \in Created
      /\ thread' = [thread EXCEPT ![c] = Asks(r, j, "idle")]
  BY DEF RequestPause, Asks
<1>4. \A k \in JobFile : LET l == [k EXCEPT !.pause = TRUE] IN
        l.status = k.status /\ l.pause = TRUE
  BY DEF JobFile
<1>5. j.status = job[r].status /\ j.pause = TRUE
  BY <1>1, <1>4
<1> HIDE DEF j
<1>6. /\ Moves(c) /\ thread'[c].at = "check" /\ thread'[c].then = "idle"
      /\ thread'[c].run = r /\ thread'[c].source = 0 /\ thread'[c].copy = j
  <2>1. \A k \in JobFile, p \in Places :
          thread' = [thread EXCEPT ![c] = Asks(r, k, p)] =>
            /\ Moves(c) /\ thread'[c].at = "check" /\ thread'[c].then = p
            /\ thread'[c].run = r /\ thread'[c].source = 0 /\ thread'[c].copy = k
    BY ControlFacts
  <2> QED BY <1>1, <1>2, <1>3, <2>1
<1> QED BY <1>3, <1>5, <1>6

LEMMA RequestStopFacts ==
  ASSUME TypeInvariant, NEW c \in Client, NEW r \in Run, RequestStop(c, r)
  PROVE  /\ Moves(c) /\ thread[c].at = "idle" /\ thread'[c].at = "check"
         /\ thread'[c].then = "idle"
         /\ thread'[c].run = r /\ thread'[c].source = 0 /\ r \in Created
         /\ thread'[c].copy.status = job[r].status
         /\ thread'[c].copy.pause = job[r].pause
<1> DEFINE j == [job[r] EXCEPT !.stop = TRUE]
<1>1. job[r] \in JobFile /\ "idle" \in Places
  BY DEF TypeInvariant, TypeOK, Places
<1>2. j \in JobFile
  BY <1>1, JobFacts
<1>3. /\ thread[c].at = "idle" /\ r \in Created
      /\ thread' = [thread EXCEPT ![c] = Asks(r, j, "idle")]
  BY DEF RequestStop, Asks
<1>4. \A k \in JobFile : LET l == [k EXCEPT !.stop = TRUE] IN
        l.status = k.status /\ l.pause = k.pause
  BY DEF JobFile
<1>5. j.status = job[r].status /\ j.pause = job[r].pause
  BY <1>1, <1>4
<1> HIDE DEF j
<1>6. /\ Moves(c) /\ thread'[c].at = "check" /\ thread'[c].then = "idle"
      /\ thread'[c].run = r /\ thread'[c].source = 0 /\ thread'[c].copy = j
  <2>1. \A k \in JobFile, p \in Places :
          thread' = [thread EXCEPT ![c] = Asks(r, k, p)] =>
            /\ Moves(c) /\ thread'[c].at = "check" /\ thread'[c].then = p
            /\ thread'[c].run = r /\ thread'[c].source = 0 /\ thread'[c].copy = k
    BY ControlFacts
  <2> QED BY <1>1, <1>2, <1>3, <2>1
<1> QED BY <1>3, <1>5, <1>6

LEMMA RequestResumeFacts ==
  ASSUME TypeInvariant, NEW c \in Client, NEW r \in Run, RequestResume(c, r)
  PROVE  /\ Moves(c) /\ thread[c].at = "idle" /\ thread'[c].at = "check"
         /\ thread'[c].then = "resume"
         /\ thread'[c].run = r /\ thread'[c].source = 0 /\ r \in Created
         /\ thread'[c].copy.status = job[r].status
<1> DEFINE j == [job[r] EXCEPT !.pause = FALSE]
<1>1. job[r] \in JobFile /\ "resume" \in Places
  BY DEF TypeInvariant, TypeOK, Places
<1>2. j \in JobFile
  BY <1>1, JobFacts
<1>3. /\ thread[c].at = "idle" /\ r \in Created
      /\ thread' = [thread EXCEPT ![c] = Asks(r, j, "resume")]
  BY DEF RequestResume, Asks
<1>4. \A k \in JobFile : LET l == [k EXCEPT !.pause = FALSE] IN
        l.status = k.status
  BY DEF JobFile
<1>5. j.status = job[r].status
  BY <1>1, <1>4
<1> HIDE DEF j
<1>6. /\ Moves(c) /\ thread'[c].at = "check" /\ thread'[c].then = "resume"
      /\ thread'[c].run = r /\ thread'[c].source = 0 /\ thread'[c].copy = j
  <2>1. \A k \in JobFile, p \in Places :
          thread' = [thread EXCEPT ![c] = Asks(r, k, p)] =>
            /\ Moves(c) /\ thread'[c].at = "check" /\ thread'[c].then = p
            /\ thread'[c].run = r /\ thread'[c].source = 0 /\ thread'[c].copy = k
    BY ControlFacts
  <2> QED BY <1>1, <1>2, <1>3, <2>1
<1> QED BY <1>3, <1>5, <1>6

\* What the three requests about an existing run have in common.
LEMMA AskFacts ==
  ASSUME TypeInvariant, NEW c \in Client, NEW r \in Run,
         RequestPause(c, r) \/ RequestStop(c, r) \/ RequestResume(c, r)
  PROVE  /\ Moves(c) /\ thread[c].at = "idle" /\ thread'[c].at = "check"
         /\ thread'[c].then \in {"idle", "resume"}
         /\ thread'[c].run = r /\ thread'[c].source = 0 /\ r \in Created
         /\ thread'[c].copy.status = job[r].status
         /\ \/ thread'[c].copy.pause = TRUE
            \/ thread'[c].copy.pause = job[r].pause
            \/ thread'[c].then = "resume"
         /\ job' = job /\ crashes' = crashes
         /\ runs' = runs + 1 \/ (runs' = runs /\ thread'[c].then = "idle")
<1>1. CASE RequestPause(c, r)
  <2>1. job' = job /\ crashes' = crashes /\ runs' = runs
    BY <1>1 DEF RequestPause
  <2> QED BY <1>1, <2>1, RequestPauseFacts
<1>2. CASE RequestStop(c, r)
  <2>1. job' = job /\ crashes' = crashes /\ runs' = runs
    BY <1>2 DEF RequestStop
  <2> QED BY <1>2, <2>1, RequestStopFacts
<1>3. CASE RequestResume(c, r)
  <2>1. job' = job /\ crashes' = crashes /\ runs' = runs + 1
    BY <1>3 DEF RequestResume
  <2> QED BY <1>3, <2>1, RequestResumeFacts
<1> QED BY <1>1, <1>2, <1>3

\* A paused run is handed over, any other left alone.
LEMMA ResumeFacts ==
  ASSUME TypeInvariant, NEW c \in Client, Resume(c)
  PROVE  /\ Moves(c) /\ thread[c].at = "resume"
         /\ thread'[c].run = thread[c].run /\ thread'[c].source = thread[c].source
         /\ \/ /\ thread[c].copy.status = "paused"
               /\ thread'[c].at = "check" /\ thread'[c].then = "handoff"
               /\ thread'[c].copy.status = "resumed"
            \/ thread[c].copy.status # "paused" /\ thread'[c].at = "idle"
<1>1. /\ c \in Thread /\ thread[c].copy \in JobFile /\ "idle" \in Places /\ "handoff" \in Places
      /\ TypeOK
  BY ThreadFacts, ReadFacts DEF Places, TypeInvariant
<1> DEFINE j == [thread[c].copy EXCEPT !.status = "resumed"]
<1>2. j \in JobFile /\ j.status = "resumed"
  <2>1. \A k \in JobFile : [k EXCEPT !.status = "resumed"].status = "resumed"
    BY DEF JobFile
  <2> QED BY <1>1, <2>1, JobFacts DEF JobStatus
<1>3. CASE thread[c].copy.status = "paused"
  <2>1. Saves(c, j, "handoff")
    BY <1>3 DEF Resume
  <2> HIDE DEF j
  <2> QED BY <1>1, <1>2, <1>3, <2>1, SavesFacts DEF Resume
<1>4. CASE thread[c].copy.status # "paused"
  <2>1. Goes(c, "idle")
    BY <1>4 DEF Resume
  <2> QED BY <1>1, <1>4, <2>1, GoesFacts DEF Resume
<1> QED BY <1>3, <1>4

LEMMA HandOffFacts ==
  ASSUME TypeInvariant, NEW c \in Client, HandOff(c)
  PROVE  /\ Moves(c) /\ thread[c].at = "handoff" /\ thread'[c].at = "number"
         /\ thread'[c].run = thread[c].run /\ thread'[c].source = thread[c].run
         /\ thread[c].run \in Run
<1> DEFINE Hand(x) == [x EXCEPT !.at = "number", !.kind = "resume", !.source = x.run]
<1>1. c \in Thread /\ thread[c] \in ThreadState /\ thread[c].at = "handoff"
      /\ thread[c].run \in Run
  BY ThreadFacts, ReadFacts DEF HandOff, Unnumbered
<1>2. \A x \in ThreadState :
        /\ Hand(x) \in ThreadState /\ Hand(x).at = "number"
        /\ Hand(x).run = x.run /\ Hand(x).source = x.run
  <2>1. "number" \in Places
    BY DEF Places
  <2> QED BY <2>1 DEF ThreadState
<1>3. thread' = [thread EXCEPT ![c] = Hand(thread[c])]
  BY DEF HandOff
<1> HIDE DEF Hand
<1> QED BY <1>1, <1>2, <1>3, PutFacts DEF TypeInvariant

\* The worker thread that starts next.
NextWorker ==
  CHOOSE v \in Worker : thread[v].at = "new" /\ \A u \in Worker : u < v => thread[u].at # "new"

Begins(x) ==
  [Fresh("begin") EXCEPT !.run = x.run, !.source = x.source, !.kind = x.kind]

LEMMA AnnounceFacts ==
  ASSUME TypeInvariant, NEW c \in Client, Announce(c)
  PROVE  /\ thread[c].at = "announce" /\ thread[c].run \in Run
         /\ thread' \in [Thread -> ThreadState]
         /\ Begins(thread[c]).at = "begin" /\ Begins(thread[c]).run = thread[c].run
         /\ Begins(thread[c]).source = thread[c].source
         /\ Fresh("idle").at = "idle" /\ Fresh("idle").run = 0 /\ Fresh("idle").source = 0
         /\ \A t \in Thread : thread'[t] = IF t = NextWorker THEN Begins(thread[c])
                                           ELSE IF t = c THEN Fresh("idle") ELSE thread[t]
<1>1. /\ thread[c].at = "announce" /\ thread[c].run \in Run /\ c \in Thread
      /\ thread[c] \in ThreadState
  BY ThreadFacts, ReadFacts DEF Announce, Unnumbered
<1>2. /\ Fresh("idle") \in ThreadState /\ Fresh("idle").at = "idle" /\ Fresh("idle").run = 0
      /\ Fresh("idle").source = 0
      /\ Fresh("begin") \in ThreadState /\ Fresh("begin").at = "begin"
  BY FreshFacts DEF Places
<1>3. \A x, y \in ThreadState :
        LET z == [x EXCEPT !.run = y.run, !.source = y.source, !.kind = y.kind] IN
        z \in ThreadState /\ z.at = x.at /\ z.run = y.run /\ z.source = y.source
  BY DEF ThreadState
<1>4. /\ Begins(thread[c]) \in ThreadState
      /\ Begins(thread[c]).at = "begin" /\ Begins(thread[c]).run = thread[c].run
      /\ Begins(thread[c]).source = thread[c].source
  BY <1>1, <1>2, <1>3 DEF Begins
<1>5. thread' = [thread EXCEPT ![c] = Fresh("idle"), ![NextWorker] = Begins(thread[c])]
  BY DEF Announce, NextWorker, Begins
<1>6. thread \in [Thread -> ThreadState]
  BY DEF TypeInvariant, TypeOK
<1>7. \A t \in Thread : thread'[t] = IF t = NextWorker THEN Begins(thread[c])
                                    ELSE IF t = c THEN Fresh("idle") ELSE thread[t]
  BY <1>1, <1>5, <1>6
<1>8. thread' \in [Thread -> ThreadState]
  BY <1>2, <1>4, <1>5, <1>6
<1> QED BY <1>1, <1>2, <1>4, <1>7, <1>8

LEMMA CrashFacts ==
  ASSUME TypeInvariant, ServerCrash
  PROVE  /\ thread' \in [Thread -> ThreadState]
         /\ \A c \in Client : thread'[c] = Fresh("idle")
         /\ Fresh("idle").at = "idle" /\ Fresh("idle").run = 0 /\ Fresh("idle").source = 0
         /\ \A w \in Worker :
              IF thread[w].at = "new" THEN thread'[w] = thread[w]
              ELSE /\ thread'[w].at = "ended" /\ thread'[w].run = thread[w].run
                   /\ thread'[w].source = thread[w].source
<1>1. /\ Fresh("idle") \in ThreadState /\ Fresh("idle").at = "idle" /\ Fresh("idle").run = 0
      /\ Fresh("idle").source = 0
      /\ Fresh("ended") \in ThreadState /\ Fresh("ended").at = "ended"
  BY FreshFacts DEF Places
<1>2. \A x, y \in ThreadState :
        LET z == [x EXCEPT !.run = y.run, !.source = y.source, !.kind = y.kind] IN
        z \in ThreadState /\ z.at = x.at /\ z.run = y.run /\ z.source = y.source
  BY DEF ThreadState
<1>3. \A x \in ThreadState : /\ Ended(x) \in ThreadState /\ Ended(x).at = "ended"
                             /\ Ended(x).run = x.run /\ Ended(x).source = x.source
  BY <1>1, <1>2 DEF Ended
<1>4. thread \in [Thread -> ThreadState]
  BY DEF TypeInvariant, TypeOK
<1>5. \A t \in Thread : thread'[t] = IF t \in Client THEN Fresh("idle")
                                     ELSE IF thread[t].at = "new" THEN thread[t]
                                     ELSE Ended(thread[t])
  BY DEF ServerCrash
<1>6. \A t \in Thread : thread'[t] \in ThreadState
  BY <1>1, <1>3, <1>4, <1>5
<1>7. thread' \in [Thread -> ThreadState]
  BY <1>6 DEF ServerCrash
<1>8. \A w \in Worker : w \in Thread /\ w \notin Client
  BY ThreadFacts
<1> QED BY <1>1, <1>3, <1>4, <1>5, <1>7, <1>8, ThreadFacts

\* A worker returns from its run, or ends.
LEMMA ReturnsFacts ==
  ASSUME TypeInvariant, NEW w \in Worker, NEW v \in Verdicts, Returns(w, v)
  PROVE  /\ Moves(w) /\ thread'[w].at = "finish"
         /\ thread'[w].run = thread[w].run /\ thread'[w].source = thread[w].source
<1> DEFINE Turned(x) == [x EXCEPT !.at = "finish", !.result = v]
<1>1. w \in Thread /\ thread[w] \in ThreadState
  BY ThreadFacts, ReadFacts
<1>2. \A x \in ThreadState : /\ Turned(x) \in ThreadState /\ Turned(x).at = "finish"
                             /\ Turned(x).run = x.run /\ Turned(x).source = x.source
  <2>1. "finish" \in Places
    BY DEF Places
  <2> QED BY <2>1 DEF ThreadState
<1>3. thread' = [thread EXCEPT ![w] = Turned(thread[w])]
  BY DEF Returns
<1> HIDE DEF Turned
<1>4. Moves(w) /\ thread'[w] = Turned(thread[w])
  BY <1>1, <1>2, <1>3, PutFacts DEF TypeInvariant
<1> QED BY <1>1, <1>2, <1>4

LEMMA EndedFacts ==
  ASSUME TypeInvariant, NEW w \in Worker, thread' = [thread EXCEPT ![w] = Ended(@)]
  PROVE  /\ Moves(w) /\ thread'[w].at = "ended"
         /\ thread'[w].run = thread[w].run /\ thread'[w].source = thread[w].source
<1>1. w \in Thread /\ thread[w] \in ThreadState
  BY ThreadFacts, ReadFacts
<1>2. Fresh("ended") \in ThreadState /\ Fresh("ended").at = "ended"
  BY FreshFacts DEF Places
<1>3. \A x, y \in ThreadState :
        LET z == [x EXCEPT !.run = y.run, !.source = y.source, !.kind = y.kind] IN
        z \in ThreadState /\ z.at = x.at /\ z.run = y.run /\ z.source = y.source
  BY DEF ThreadState
<1>4. \A x \in ThreadState : /\ Ended(x) \in ThreadState /\ Ended(x).at = "ended"
                             /\ Ended(x).run = x.run /\ Ended(x).source = x.source
  BY <1>2, <1>3 DEF Ended
<1>5. thread' = [thread EXCEPT ![w] = Ended(thread[w])]
  OBVIOUS
<1>6. Moves(w) /\ thread'[w] = Ended(thread[w])
  BY <1>1, <1>4, <1>5, PutFacts DEF TypeInvariant
<1> QED BY <1>1, <1>4, <1>6

\* The moves of a worker thread: from which place to which, and what it saves there.
WorkerMove(w) ==
  LET from == thread[w].at
      to   == thread'[w]
      j    == job[thread[w].run]
      Stores(then) == to.at = "check" /\ to.then = then
  IN
  \/ from = "begin" /\ Stores("prepare") /\ to.copy.status = "running"
  \/ from \in {"prepare", "working"} /\ to.at = "boundary"
  \/ from = "boundary" /\ to.at = "working"
  \/ from = "boundary" /\ Stores("pausing") /\ to.copy.status = "paused" /\ to.copy.pause
  \/ from \in {"boundary", "pausing", "working"} /\ to.at = "finish"
  \/ from \in {"prepare", "boundary"} /\ to.at = "raised"
  \/ from = "finish" /\ to.at = "result"
  \/ from = "finish" /\ Stores("settle") /\ j.status = "resumed" /\ to.copy.status = "resumed"
  \/ /\ from = "result" /\ Stores("settle")
     /\ \/ to.copy.status \in {"paused", "done", "blocked"}
        \/ /\ to.copy.status = "resumed"
           /\ j.status = "resumed" \/ (j.status = "paused" /\ ~j.pause)
  \/ from = "raised" /\ Stores("failing") /\ to.copy.status = "failed"
  \/ from \in {"settle", "failing"} /\ to.at = "ended"

LEMMA WorkFacts ==
  ASSUME TypeInvariant, NEW w \in Worker, Work(w)
  PROVE  /\ Moves(w) /\ thread'[w].run = thread[w].run /\ thread'[w].source = thread[w].source
         /\ thread[w].at \notin Unnumbered
         /\ WorkerMove(w)
         /\ job' = job /\ paused' \subseteq Run /\ project' \in ProjectStatus
         /\ UNCHANGED <<runs, controls, crashes>>
<1> DEFINE r == thread[w].run
           j == job[r]
<1>0. /\ w \in Thread /\ thread[w].run \in Run \cup {0} /\ TypeOK
      /\ paused \subseteq Run /\ project \in ProjectStatus
      /\ Verdict(w) \in {"paused", "done", "blocked"}
  BY ThreadFacts, ReadFacts DEF TypeInvariant, TypeOK
<1>1. thread[w].at \notin Unnumbered => thread[w].run \in Run /\ job[thread[w].run] \in JobFile
  BY <1>0, ReadFacts
<1>2. /\ {"prepare", "boundary", "working", "raised", "result", "pausing", "settle", "failing"}
           \subseteq Places
      /\ {"paused", "done", "blocked", "resumed", "failed", "running"} \subseteq JobStatus
      /\ {"paused", "done", "blocked", "failed"} \subseteq ProjectStatus
      /\ "blocked" \in Verdicts
  BY DEF Places, JobStatus, Active, Verdicts, ProjectStatus, Startable
<1>3. \A k \in JobFile : \A s \in JobStatus :
        LET l == [k EXCEPT !.status = s]
            m == [k EXCEPT !.result = TRUE, !.status = s]
            n == [k EXCEPT !.result = TRUE]
        IN  /\ l \in JobFile /\ l.status = s /\ l.pause = k.pause
            /\ m \in JobFile /\ m.status = s /\ m.pause = k.pause
            /\ n \in JobFile /\ n.status = k.status
  BY JobFacts DEF JobFile
<1>4. CASE Begin(w)
  <2> DEFINE l == [j EXCEPT !.status = "running"]
  <2>1. thread[w].at = "begin" /\ Saves(w, l, "prepare") /\ UNCHANGED <<job, paused, project,
          runs, controls, crashes>>
    BY <1>4 DEF Begin
  <2>2. l \in JobFile /\ l.status = "running"
    BY <1>1, <1>2, <1>3, <2>1 DEF Unnumbered
  <2> HIDE DEF l
  <2>3. /\ Moves(w) /\ thread'[w].at = "check" /\ thread'[w].then = "prepare"
        /\ thread'[w].copy = l
        /\ thread'[w].run = thread[w].run /\ thread'[w].source = thread[w].source
    BY <1>0, <1>2, <2>1, <2>2, SavesFacts
  <2> QED BY <1>0, <2>1, <2>2, <2>3 DEF WorkerMove, Unnumbered
<1>5. CASE PrepareRun(w)
  <2>1. /\ thread[w].at = "prepare" /\ Goes(w, "boundary")
        /\ paused' \in {paused, paused \cup {thread[w].run}}
        /\ UNCHANGED <<job, project, runs, controls, crashes>>
    BY <1>5 DEF PrepareRun
  <2>2. thread[w].run \in Run
    BY <1>1, <2>1 DEF Unnumbered
  <2> QED BY <1>0, <1>2, <2>1, <2>2, GoesFacts DEF WorkerMove, Unnumbered
<1>6. CASE Boundary(w)
  <2>0. thread[w].at = "boundary" /\ UNCHANGED <<job, paused, project, runs, controls, crashes>>
    BY <1>6 DEF Boundary
  <2>1. CASE Returns(w, "blocked")
    BY <1>0, <1>2, <2>0, <2>1, ReturnsFacts DEF WorkerMove, Unnumbered
  <2>2. CASE j.pause /\ Saves(w, [j EXCEPT !.status = "paused"], "pausing")
    <3> DEFINE l == [j EXCEPT !.status = "paused"]
    <3>1. l \in JobFile /\ l.status = "paused" /\ l.pause
      <4>1. l \in JobFile /\ l.status = "paused" /\ l.pause = j.pause
        BY <1>1, <1>2, <1>3, <2>0 DEF Unnumbered
      <4> QED BY <2>2, <4>1
    <3>2. Saves(w, l, "pausing")
      BY <2>2
    <3> HIDE DEF l
    <3>3. /\ Moves(w) /\ thread'[w].at = "check" /\ thread'[w].then = "pausing"
          /\ thread'[w].copy = l
          /\ thread'[w].run = thread[w].run /\ thread'[w].source = thread[w].source
      BY <1>0, <1>2, <3>1, <3>2, SavesFacts
    <3> QED BY <1>0, <2>0, <3>1, <3>3 DEF WorkerMove, Unnumbered
  <2>3. CASE Goes(w, "working")
    BY <1>0, <1>2, <2>0, <2>3, GoesFacts DEF WorkerMove, Unnumbered
  <2> QED BY <1>6, <2>1, <2>2, <2>3 DEF Boundary
<1>7. CASE Paused(w)
  <2>1. /\ thread[w].at = "pausing" /\ Returns(w, "blocked")
        /\ paused' = paused \cup {thread[w].run}
        /\ UNCHANGED <<job, project, runs, controls, crashes>>
    BY <1>7 DEF Paused
  <2>2. thread[w].run \in Run
    BY <1>1, <2>1 DEF Unnumbered
  <2> QED BY <1>0, <1>2, <2>1, <2>2, ReturnsFacts DEF WorkerMove, Unnumbered
<1>8. CASE TaskEnds(w)
  <2>1. /\ thread[w].at = "working" /\ Goes(w, "boundary")
        /\ UNCHANGED <<job, paused, project, runs, controls, crashes>>
    BY <1>8 DEF TaskEnds
  <2> QED BY <1>0, <1>2, <2>1, GoesFacts DEF WorkerMove, Unnumbered
<1>9. CASE Cancel(w)
  <2>1. /\ thread[w].at = "working" /\ Returns(w, "blocked")
        /\ UNCHANGED <<job, paused, project, runs, controls, crashes>>
    BY <1>9 DEF Cancel
  <2> QED BY <1>0, <1>2, <2>1, ReturnsFacts DEF WorkerMove, Unnumbered
<1>10. CASE Finish(w)
  <2>0. thread[w].at = "finish" /\ UNCHANGED <<job, paused, project, runs, controls, crashes>>
    BY <1>10 DEF Finish
  <2>1. CASE j.status = "resumed" /\ Saves(w, [j EXCEPT !.result = TRUE], "settle")
    <3> DEFINE l == [j EXCEPT !.result = TRUE]
    <3>1. l \in JobFile /\ l.status = "resumed"
      BY <1>1, <1>2, <1>3, <2>0, <2>1 DEF Unnumbered
    <3>2. Saves(w, l, "settle")
      BY <2>1
    <3> HIDE DEF l
    <3>3. /\ Moves(w) /\ thread'[w].at = "check" /\ thread'[w].then = "settle"
          /\ thread'[w].copy = l
          /\ thread'[w].run = thread[w].run /\ thread'[w].source = thread[w].source
      BY <1>0, <1>2, <3>1, <3>2, SavesFacts
    <3> QED BY <1>0, <2>0, <2>1, <3>1, <3>3 DEF WorkerMove, Unnumbered
  <2>2. CASE Goes(w, "result")
    BY <1>0, <1>2, <2>0, <2>2, GoesFacts DEF WorkerMove, Unnumbered
  <2> QED BY <1>10, <2>1, <2>2 DEF Finish
<1>11. CASE SetResult(w)
  <2> DEFINE handed == Verdict(w) = "paused" /\ ~j.pause /\ j.status \in {"paused", "resumed"}
             s == IF handed THEN "resumed" ELSE Verdict(w)
             l == [j EXCEPT !.result = TRUE, !.status = s]
  <2>1. /\ thread[w].at = "result" /\ Saves(w, l, "settle")
        /\ UNCHANGED <<job, paused, project, runs, controls, crashes>>
    BY <1>11 DEF SetResult
  <2>2. \/ s \in {"paused", "done", "blocked"}
        \/ s = "resumed" /\ (j.status = "resumed" \/ (j.status = "paused" /\ ~j.pause))
    BY <1>0
  <2>3. s \in JobStatus
    BY <1>2, <2>2
  <2> HIDE DEF s
  <2>4. l \in JobFile /\ l.status = s
    BY <1>1, <1>3, <2>1, <2>3 DEF Unnumbered
  <2> HIDE DEF l
  <2>5. /\ Moves(w) /\ thread'[w].at = "check" /\ thread'[w].then = "settle"
        /\ thread'[w].copy = l
        /\ thread'[w].run = thread[w].run /\ thread'[w].source = thread[w].source
    BY <1>0, <1>2, <2>1, <2>4, SavesFacts
  <2> QED BY <1>0, <2>1, <2>2, <2>4, <2>5 DEF WorkerMove, Unnumbered
<1>12. CASE Settle(w)
  <2>1. /\ thread[w].at = "settle" /\ project' = Verdict(w)
        /\ thread' = [thread EXCEPT ![w] = Ended(@)]
        /\ UNCHANGED <<job, paused, runs, controls, crashes>>
    BY <1>12 DEF Settle
  <2> QED BY <1>0, <1>2, <2>1, EndedFacts DEF WorkerMove, Unnumbered
<1>13. CASE Raised(w)
  <2> DEFINE l == [j EXCEPT !.status = "failed"]
  <2>1. /\ thread[w].at = "raised" /\ Saves(w, l, "failing")
        /\ UNCHANGED <<job, paused, project, runs, controls, crashes>>
    BY <1>13 DEF Raised
  <2>2. l \in JobFile /\ l.status = "failed"
    BY <1>1, <1>2, <1>3, <2>1 DEF Unnumbered
  <2> HIDE DEF l
  <2>3. /\ Moves(w) /\ thread'[w].at = "check" /\ thread'[w].then = "failing"
        /\ thread'[w].copy = l
        /\ thread'[w].run = thread[w].run /\ thread'[w].source = thread[w].source
    BY <1>0, <1>2, <2>1, <2>2, SavesFacts
  <2> QED BY <1>0, <2>1, <2>2, <2>3 DEF WorkerMove, Unnumbered
<1>14. CASE Failing(w)
  <2>1. /\ thread[w].at = "failing" /\ project' = "failed"
        /\ thread' = [thread EXCEPT ![w] = Ended(@)]
        /\ UNCHANGED <<job, paused, runs, controls, crashes>>
    BY <1>14 DEF Failing
  <2> QED BY <1>0, <1>2, <2>1, EndedFacts DEF WorkerMove, Unnumbered
<1>15. CASE RunRaises(w)
  <2>1. /\ thread[w].at \in {"prepare", "boundary"} /\ Goes(w, "raised")
        /\ UNCHANGED <<job, paused, project, runs, controls, crashes>>
    BY <1>15 DEF RunRaises
  <2> QED BY <1>0, <1>2, <2>1, GoesFacts DEF WorkerMove, Unnumbered
<1>16. CASE \E v \in Verdicts : RunReturns(w, v)
  <2>1. PICK v \in Verdicts : RunReturns(w, v)
    BY <1>16
  <2>2. /\ thread[w].at = "boundary" /\ Returns(w, v)
        /\ UNCHANGED <<job, paused, project, runs, controls, crashes>>
    BY <2>1 DEF RunReturns
  <2> QED BY <1>0, <2>2, ReturnsFacts DEF WorkerMove, Unnumbered
<1> QED
  BY <1>4, <1>5, <1>6, <1>7, <1>8, <1>9, <1>10, <1>11, <1>12, <1>13, <1>14, <1>15, <1>16
     DEF Work

-----------------------------------------------------------------------------
(* Types hold. *)

LEMMA ScanFacts ==
  ASSUME TypeInvariant, NEW c \in Client, Scan(c)
  PROVE  /\ Moves(c) /\ thread[c].at = "scan"
         /\ thread'[c].run = thread[c].run /\ thread'[c].source = thread[c].source
         /\ project' \in ProjectStatus
         /\ UNCHANGED <<job, paused, runs, controls, crashes>>
         /\ \/ thread'[c].at = "idle"
            \/ thread'[c].at = "number" /\ \A r \in Run : job[r].status \notin Active
<1>1. /\ c \in Thread /\ TypeOK /\ "idle" \in Places /\ "number" \in Places
      /\ thread[c].at = "scan" /\ UNCHANGED <<job, paused, runs, controls, crashes>>
  BY ThreadFacts DEF TypeInvariant, Places, Scan
<1>2. project' \in ProjectStatus
  BY <1>1 DEF Scan, TypeOK, ProjectStatus, Startable
<1>3. CASE \E r \in Run : job[r].status \in Active
  <2>1. Goes(c, "idle")
    BY <1>3 DEF Scan
  <2> QED BY <1>1, <1>2, <2>1, GoesFacts
<1>4. CASE ~ \E r \in Run : job[r].status \in Active
  <2>1. Goes(c, "number")
    BY <1>4 DEF Scan
  <2> QED BY <1>1, <1>2, <1>4, <2>1, GoesFacts
<1> QED BY <1>3, <1>4

LEMMA TypeStep == TypeInvariant /\ [Next]_vars => TypeInvariant'
<1> SUFFICES ASSUME TypeInvariant, [Next]_vars PROVE TypeInvariant'
  OBVIOUS
<1>0. /\ job \in [Run -> JobFile] /\ paused \subseteq Run /\ project \in ProjectStatus
      /\ thread \in [Thread -> ThreadState]
      /\ runs \in 0 .. MaxRuns /\ controls \in 0 .. MaxControls /\ crashes \in 0 .. MaxCrashes
      /\ \A t \in Thread : Numbered(thread[t])
  BY DEF TypeInvariant, TypeOK
<1>a. /\ "planned" \in ProjectStatus /\ "running" \in ProjectStatus
      /\ runs < MaxRuns => runs + 1 \in 0 .. MaxRuns
      /\ controls < MaxControls => controls + 1 \in 0 .. MaxControls
      /\ crashes < MaxCrashes => crashes + 1 \in 0 .. MaxCrashes
  BY <1>0, ThreadFacts DEF ProjectStatus, Startable
<1>b. \A c \in Client : c \in Thread
  BY ThreadFacts
<1>1. ASSUME NEW c \in Client, Scan(c) PROVE TypeInvariant'
  <2>1. Numbered(thread'[c])
    BY <1>1, ScanFacts DEF Numbered, Unnumbered
  <2> QED BY <1>0, <1>b, <1>1, <2>1, ScanFacts, TypedStep
<1>2. ASSUME NEW c \in Client, Number(c) PROVE TypeInvariant'
  <2>1. Moves(c) /\ Numbered(thread'[c])
    BY <1>2, NumberFacts DEF Numbered
  <2> QED BY <1>0, <1>b, <1>2, <2>1, TypedStep DEF Number
<1>3. ASSUME NEW c \in Client, Announce(c) PROVE TypeInvariant'
  <2>1. \A t \in Thread : Numbered(thread'[t])
    BY <1>0, <1>3, AnnounceFacts DEF Numbered, Unnumbered
  <2>2. /\ thread' \in [Thread -> ThreadState] /\ project' = "running"
        /\ UNCHANGED <<job, paused, runs, controls, crashes>>
    BY <1>3, AnnounceFacts DEF Announce
  <2> QED BY <1>0, <1>a, <2>1, <2>2 DEF TypeInvariant, TypeOK
<1>4. ASSUME NEW c \in Client, Resume(c) PROVE TypeInvariant'
  <2>1. thread[c].run \in Run
    BY <1>b, <1>4, ReadFacts, ResumeFacts DEF Unnumbered
  <2>2. Moves(c) /\ Numbered(thread'[c])
    BY <1>4, <2>1, ResumeFacts DEF Numbered, Unnumbered
  <2> QED BY <1>0, <1>b, <1>4, <2>2, TypedStep DEF Resume
<1>5. ASSUME NEW c \in Client, HandOff(c) PROVE TypeInvariant'
  <2>1. Moves(c) /\ Numbered(thread'[c])
    BY <1>5, HandOffFacts DEF Numbered, Unnumbered
  <2> QED BY <1>0, <1>a, <1>b, <1>5, <2>1, TypedStep DEF HandOff
<1>6. ASSUME NEW c \in Client, RequestPlan(c) PROVE TypeInvariant'
  BY <1>0, <1>a, <1>6 DEF RequestPlan, TypeInvariant, TypeOK
<1>7. ASSUME NEW c \in Client, NEW r \in Run \cup {0}, Start(c, r) PROVE TypeInvariant'
  <2>1. Moves(c) /\ Numbered(thread'[c])
    BY <1>7, StartFacts DEF Numbered, Unnumbered
  <2> QED BY <1>0, <1>a, <1>b, <1>7, <2>1, TypedStep DEF Start
<1>8. ASSUME NEW c \in Client, NEW r \in Run, RequestPause(c, r) PROVE TypeInvariant'
  <2>1. Moves(c) /\ Numbered(thread'[c])
    BY <1>8, RequestPauseFacts DEF Numbered
  <2> QED BY <1>0, <1>a, <1>b, <1>8, <2>1, TypedStep DEF RequestPause
<1>9. ASSUME NEW c \in Client, NEW r \in Run, RequestStop(c, r) PROVE TypeInvariant'
  <2>1. Moves(c) /\ Numbered(thread'[c])
    BY <1>9, RequestStopFacts DEF Numbered
  <2> QED BY <1>0, <1>a, <1>b, <1>9, <2>1, TypedStep DEF RequestStop
<1>10. ASSUME NEW c \in Client, NEW r \in Run, RequestResume(c, r) PROVE TypeInvariant'
  <2>1. Moves(c) /\ Numbered(thread'[c])
    BY <1>10, RequestResumeFacts DEF Numbered
  <2> QED BY <1>0, <1>a, <1>b, <1>10, <2>1, TypedStep DEF RequestResume
<1>11. ASSUME NEW w \in Worker, Work(w) PROVE TypeInvariant'
  <2>1. w \in Thread
    BY ThreadFacts
  <2>2. thread[w].run \in Run
    BY <1>11, <2>1, ReadFacts, WorkFacts
  <2>3. Moves(w) /\ Numbered(thread'[w])
    BY <1>11, <2>2, WorkFacts DEF Numbered
  <2> QED BY <1>0, <1>11, <2>1, <2>3, WorkFacts, TypedStep
<1>12. ASSUME NEW t \in Thread, Preserve(t) PROVE TypeInvariant'
  <2>1. thread[t].run \in Run
    BY <1>12, ReadFacts, PreserveFacts DEF Unnumbered
  <2>2. Moves(t) /\ Numbered(thread'[t])
    BY <1>12, <2>1, PreserveFacts DEF Numbered
  <2> QED BY <1>0, <1>12, <2>2, TypedStep DEF Preserve
<1>13. ASSUME NEW t \in Thread, Replace(t) PROVE TypeInvariant'
  <2>1. Moves(t) /\ Numbered(thread'[t])
    BY <1>13, ReplaceFacts DEF Numbered
  <2> QED BY <1>0, <1>13, <2>1, ReplaceFacts, TypedStep DEF Replace
<1>14. CASE ServerCrash
  <2>1. \A t \in Thread : Numbered(thread'[t])
    BY <1>0, <1>14, CrashFacts DEF Numbered, Unnumbered, Thread
  <2>2. /\ thread' \in [Thread -> ThreadState] /\ crashes' \in 0 .. MaxCrashes
        /\ UNCHANGED <<job, paused, project, runs, controls>>
    BY <1>a, <1>14, CrashFacts DEF ServerCrash
  <2> QED BY <1>0, <2>1, <2>2 DEF TypeInvariant, TypeOK
<1>15. CASE UNCHANGED vars
  BY <1>0, <1>15 DEF vars, TypeInvariant, TypeOK
<1> QED
  BY <1>1, <1>2, <1>3, <1>4, <1>5, <1>6, <1>7, <1>8, <1>9, <1>10, <1>11, <1>12, <1>13,
     <1>14, <1>15 DEF Next, Request, Serve, Saving

LEMMA TypeStart == Init => TypeInvariant
<1> SUFFICES ASSUME Init PROVE TypeInvariant
  OBVIOUS
<1>1. Fresh("idle") \in ThreadState /\ Fresh("new") \in ThreadState
      /\ Fresh("idle").at = "idle" /\ Fresh("new").at = "new"
  BY FreshFacts DEF Places
<1>2. thread \in [Thread -> ThreadState] /\ \A t \in Thread : Numbered(thread[t])
  BY <1>1 DEF Init, Numbered, Unnumbered
<1>3. job \in [Run -> JobFile] /\ project \in ProjectStatus
  BY JobFacts DEF Init, ProjectStatus, Startable
<1> QED BY <1>2, <1>3, ThreadFacts DEF Init, TypeInvariant, TypeOK

\* Job files, project file and threads are well-formed, for any number of clients, runs,
\* control requests and crashes (RunJob).
THEOREM JobsAreTyped == Spec => []TypeOK
<1>1. TypeInvariant => TypeOK
  BY DEF TypeInvariant
<1> QED BY <1>1, TypeStart, TypeStep, PTL DEF Spec

-----------------------------------------------------------------------------
(* One request at a time.  A worker is started for a run of its own, whose   *)
(* number nothing else has used; a run that is paused or over has no worker  *)
(* that goes on; and who marks a run as handed over answers for it.          *)

OneClient == \A c, d \in Client : c = d

\* A worker that executes its run, or is about to.
Busy(x) == x.at \in Executing \/ Storing(x, "prepare")

\* A worker whose answer is in, or will be stored as it is.
Decided(x) ==
  x.at \in {"settle", "failing", "ended"} \/ Storing(x, "settle") \/ Storing(x, "failing")

\* A request that may still start a worker.
Reserves(x) ==
  \/ x.at \in {"scan", "number", "announce", "resume", "handoff"}
  \/ x.at \in {"check", "write"} /\ x.then \in {"announce", "resume", "handoff"}

\* Nobody executes run r, in the threads f.
Quiet(f, r) == \A w \in Worker : f[w].run = r => ~Busy(f[w])

Undecided(f, r) == \E w \in Worker : f[w].run = r /\ ~Decided(f[w])

Handed(f, r) ==
  \/ \E w \in Worker : f[w].source = r
  \/ \E c \in Client : Hands(f[c], r)

\* Worker threads start in order, and one is left for a request that may need it.
Slots ==
  \E k \in Nat :
    /\ k <= runs
    /\ \A w \in Worker : thread[w].at = "new" <=> w > k
    /\ \A c \in Client : Reserves(thread[c]) => k < runs

ClientRole(x) ==
  /\ x.at \in {"idle", "scan", "number", "announce", "resume", "handoff", "check", "write"}
  /\ x.at \in {"check", "write"} => x.then \in {"announce", "idle", "resume", "handoff"}

WorkerRole(x) ==
  /\ x.at \notin {"idle", "scan", "number", "announce", "resume", "handoff"}
  /\ x.at \in {"check", "write"} => x.then \in {"prepare", "pausing", "settle", "failing"}
  /\ x.at = "new" => x.run = 0 /\ x.source = 0
  /\ x.at # "new" => x.run \in Created

\* Every worker has a run of its own, which exists.
Apart == \A u, w \in Worker : thread[u].at # "new" /\ thread[u].run = thread[w].run => u = w

\* What a thread holds agrees with the job files.
Holds(x) ==
  /\ x.source \in Created \cup {0}
  /\ x.at \in {"check", "write"} => x.copy.status # "absent"
  /\ x.at \in {"resume", "handoff"} => x.run \in Created
  /\ x.at \in {"check", "write"} /\ x.then # "announce" => x.run \in Created
  /\ Storing(x, "announce") => x.run \in Run \ Created /\ x.copy = Queued

\* A run that was just created is nobody's yet.
IsNew(r) ==
  /\ job[r] = Queued
  /\ \A t \in Thread : thread[t].source # r
  /\ \A w \in Worker : thread[w].run # r

Owned ==
  /\ \A c \in Client : ClientRole(thread[c])
  /\ \A w \in Worker : WorkerRole(thread[w])
  /\ Apart
  /\ \A t \in Thread : Holds(thread[t])
  /\ \A c \in Client : thread[c].at = "announce" => IsNew(thread[c].run)

Fresher == {"absent", "queued", "running"}

\* What says that a run does not go on is right: x is a thread of f.
Stills(f, x) ==
  /\ x.at \in {"check", "write", "resume"} /\ x.copy.status \notin Fresher => Quiet(f, x.run)
  /\ x.at = "handoff" \/ Storing(x, "handoff") => Quiet(f, x.run)
  /\ x.at \in {"number", "announce"} \/ Storing(x, "announce") =>
       x.source = 0 \/ Quiet(f, x.source)

QuietInvariant ==
  /\ \A r \in Run : job[r].status \notin Fresher => Quiet(thread, r)
  /\ \A t \in Thread : Stills(thread, thread[t])
  /\ \A w \in Worker : thread[w].source = 0 \/ Quiet(thread, thread[w].source)

\* What says that a run is handed over is right, and so is what lets its worker say so.
Tells(f, x) ==
  /\ x.at \in {"check", "write"} /\ x.copy.status = "resumed" => Handed(f, x.run)
  /\ /\ x.at \in {"check", "write"} /\ x.then # "resume"
     /\ x.copy.status = "paused" /\ ~x.copy.pause /\ Undecided(f, x.run)
     => Handed(f, x.run)

HandedInvariant ==
  crashes = 0 =>
    /\ \A r \in Run : job[r].status = "resumed" => Handed(thread, r)
    /\ \A r \in Run : /\ job[r].status = "paused" /\ ~job[r].pause
                      /\ Undecided(thread, r)
                      => Handed(thread, r)
    /\ \A t \in Thread : Tells(thread, thread[t])

JobInvariant == TypeInvariant /\ Slots /\ Owned /\ QuietInvariant /\ HandedInvariant

LEMMA LargestExists ==
  ASSUME NEW T, T \subseteq Run, T # {}
  PROVE  \E x \in T : \A y \in T : x >= y
<1> DEFINE D == {MaxRuns - y : y \in T}
<1>1. D \subseteq Nat /\ D # {}
  <2>1. MaxRuns \in Nat /\ \A y \in T : y \in 1 .. MaxRuns
    BY ThreadFacts DEF Run
  <2>2. \A y \in T : MaxRuns - y \in Nat
    BY <2>1
  <2>3. D # {}
    OBVIOUS
  <2> QED BY <2>2, <2>3
<1>2. \E x \in D : \A y \in D : <<y, x>> \notin OpToRel(<, Nat)
  <2> HIDE DEF D
  <2> QED BY <1>1, NatLessThanWellFounded, WFMin
<1>3. \A x, y \in Nat : y < x => <<y, x>> \in OpToRel(<, Nat)
  BY DEF OpToRel
<1>4. PICK x \in D : \A y \in D : <<y, x>> \notin OpToRel(<, Nat)
  BY <1>2
<1>5. \A y \in D : ~ (y < x)
  <2> HIDE DEF D
  <2> QED BY Zenon, <1>1, <1>3, <1>4
<1>6. PICK z \in T : x = MaxRuns - z
  BY <1>4
<1>7. \A y \in T : z >= y
  <2> SUFFICES ASSUME NEW y \in T PROVE z >= y
    OBVIOUS
  <2>1. MaxRuns - y \in D
    OBVIOUS
  <2>2. ~ (MaxRuns - y < MaxRuns - z)
    BY <1>5, <1>6, <2>1
  <2>3. y \in Nat /\ z \in Nat
    BY ThreadFacts
  <2> QED BY <2>2, <2>3, ThreadFacts
<1> QED BY <1>7

\* next_run_id gives a number that no run has.
LEMMA NextRunIsFree == NextRun \notin Created
<1>1. Created \subseteq Run
  BY DEF Created
<1>2. CASE Created = {}
  BY <1>2
<1>3. CASE Created # {}
  <2>1. \E x \in Created : \A y \in Created : x >= y
    BY <1>1, <1>3, LargestExists
  <2>2. LastRun \in Created /\ \A y \in Created : LastRun >= y
    BY <1>3, <2>1 DEF LastRun
  <2>3. LastRun \in Nat
    BY <1>1, <2>2, ThreadFacts
  <2> QED BY <2>2, <2>3 DEF NextRun
<1> QED BY <1>2, <1>3

\* There is a worker thread left for a request that needs one.
LEMMA NextWorkerIsNew ==
  ASSUME TypeInvariant, Slots, NEW c \in Client, Reserves(thread[c])
  PROVE  /\ NextWorker \in Worker /\ thread[NextWorker].at = "new"
         /\ \A u \in Worker : u < NextWorker => thread[u].at # "new"
<1>1. PICK k \in Nat : /\ k <= runs
                       /\ \A w \in Worker : thread[w].at = "new" <=> w > k
                       /\ \A d \in Client : Reserves(thread[d]) => k < runs
  BY DEF Slots
<1>2. runs \in 0 .. MaxRuns /\ MaxRuns \in Nat
  BY ThreadFacts DEF TypeInvariant, TypeOK
<1>3. k < runs
  BY <1>1
<1>4. k + 1 \in Worker
  BY <1>2, <1>3 DEF Worker
<1>5. thread[k + 1].at = "new" /\ \A u \in Worker : u < k + 1 => thread[u].at # "new"
  BY <1>1, <1>4 DEF Worker
<1> QED BY <1>4, <1>5 DEF NextWorker

LEMMA SlotsKept ==
  ASSUME Slots, runs \in Nat, runs' \in {runs, runs + 1},
         \A w \in Worker : thread'[w].at = "new" <=> thread[w].at = "new",
         \A c \in Client : Reserves(thread'[c]) => Reserves(thread[c]) \/ runs' = runs + 1
  PROVE  Slots'
<1>1. PICK k \in Nat : /\ k <= runs
                       /\ \A w \in Worker : thread[w].at = "new" <=> w > k
                       /\ \A c \in Client : Reserves(thread[c]) => k < runs
  BY DEF Slots
<1>2. /\ k <= runs'
      /\ \A w \in Worker : thread'[w].at = "new" <=> w > k
      /\ \A c \in Client : Reserves(thread'[c]) => k < runs'
  <2>1. k <= runs' /\ (k < runs => k < runs') /\ (runs' = runs + 1 => k < runs')
    BY <1>1
  <2> QED BY <1>1, <2>1
<1> QED BY <1>2 DEF Slots, Reserves

-----------------------------------------------------------------------------
(* Every run has its worker. *)

LEMMA SameCreated == ASSUME job' = job PROVE Created' = Created
BY DEF Created

LEMMA ClientKeepsOwned ==
  ASSUME OneClient, Owned, NEW c \in Client, Moves(c), job' = job,
         ClientRole(thread'[c]), Holds(thread'[c]), thread'[c].at # "announce"
  PROVE  Owned'
<1>1. /\ \A w \in Worker : thread'[w] = thread[w]
      /\ \A d \in Client : d = c
      /\ Created' = Created
  BY ThreadFacts, SameCreated DEF Moves, OneClient
<1>2. \A d \in Client : ClientRole(thread'[d])
  BY <1>1
<1>3. \A w \in Worker : WorkerRole(thread[w])'
  BY <1>1 DEF Owned, WorkerRole
<1>4. Apart'
  BY <1>1 DEF Owned, Apart
<1>5. \A t \in Thread : Holds(thread[t])'
  BY <1>1 DEF Owned, Holds, Thread, Storing
<1>6. \A d \in Client : thread'[d].at # "announce"
  BY <1>1
<1> QED BY <1>2, <1>3, <1>4, <1>5, <1>6 DEF Owned, ClientRole

LEMMA WorkerKeepsOwned ==
  ASSUME Owned, NEW w \in Worker, Moves(w), job' = job,
         thread[w].at # "new", thread'[w].at # "new", WorkerRole(thread'[w]), Holds(thread'[w]),
         thread'[w].run = thread[w].run, thread'[w].source = thread[w].source
  PROVE  Owned'
<1>1. /\ \A d \in Client : thread'[d] = thread[d]
      /\ \A u \in Worker : u # w => thread'[u] = thread[u]
      /\ \A t \in Thread : thread'[t].run = thread[t].run /\ thread'[t].source = thread[t].source
      /\ Created' = Created
  BY ThreadFacts, SameCreated DEF Moves
<1>2. \A d \in Client : ClientRole(thread'[d])
  BY <1>1 DEF Owned
<1>3. \A u \in Worker : WorkerRole(thread[u])'
  <2> SUFFICES ASSUME NEW u \in Worker PROVE WorkerRole(thread[u])'
    OBVIOUS
  <2>1. CASE u = w
    BY <1>1, <2>1 DEF WorkerRole
  <2>2. CASE u # w
    BY <1>1, <2>2 DEF Owned, WorkerRole
  <2> QED BY <2>1, <2>2
<1>4. Apart'
  BY <1>1, ThreadFacts DEF Owned, Apart
<1>5. \A t \in Thread : Holds(thread[t])'
  <2> SUFFICES ASSUME NEW t \in Thread PROVE Holds(thread[t])'
    OBVIOUS
  <2>1. CASE t = w
    BY <1>1, <2>1 DEF Holds, Storing
  <2>2. CASE t # w
    BY <1>1, <2>2 DEF Owned, Holds, Storing, Moves
  <2> QED BY <2>1, <2>2
<1>6. \A d \in Client : thread'[d].at = "announce" => IsNew(thread[d].run)'
  BY <1>1, ThreadFacts DEF Owned, IsNew
<1> QED BY <1>2, <1>3, <1>4, <1>5, <1>6 DEF Owned, ClientRole

LEMMA OwnedStep ==
  ASSUME OneClient, TypeInvariant, Slots, Owned, [Next]_vars
  PROVE  Slots' /\ Owned'
<1>0. /\ runs \in Nat /\ job \in [Run -> JobFile]
      /\ \A c \in Client : c \in Thread /\ ClientRole(thread[c]) /\ Holds(thread[c])
      /\ \A w \in Worker : w \in Thread /\ WorkerRole(thread[w]) /\ Holds(thread[w])
      /\ \A c \in Client : c \notin Worker
  BY ThreadFacts DEF TypeInvariant, TypeOK, Owned
<1>a. ASSUME NEW c \in Client, Moves(c), runs' = runs,
             Reserves(thread'[c]) => Reserves(thread[c])
      PROVE  Slots'
  BY <1>0, <1>a, SlotsKept, ThreadFacts DEF Moves, OneClient
<1>b. ASSUME NEW c \in Client, Moves(c), runs' = runs + 1
      PROVE  Slots'
  BY <1>0, <1>b, SlotsKept, ThreadFacts DEF Moves
<1>c. ASSUME NEW w \in Worker, Moves(w), runs' = runs,
             thread[w].at # "new", thread'[w].at # "new"
      PROVE  Slots'
  BY <1>0, <1>c, SlotsKept, ThreadFacts DEF Moves
<1>1. ASSUME NEW c \in Client, Scan(c) PROVE Slots' /\ Owned'
  <2>1. ClientRole(thread'[c]) /\ Holds(thread'[c])
    BY <1>0, <1>1, ScanFacts DEF ClientRole, Holds, Storing
  <2>2. /\ Moves(c) /\ runs' = runs /\ job' = job /\ thread'[c].at # "announce"
        /\ Reserves(thread[c])
    BY <1>1, ScanFacts DEF Reserves
  <2> QED BY <1>a, <2>1, <2>2, ClientKeepsOwned
<1>2. ASSUME NEW c \in Client, Number(c) PROVE Slots' /\ Owned'
  <2>1. ClientRole(thread'[c]) /\ Holds(thread'[c])
    <3>1. /\ NextRun \in Run \ Created /\ thread[c].source \in Created \cup {0}
          /\ Queued.status = "queued"
      BY <1>0, <1>2, NumberFacts, NextRunIsFree, JobFacts DEF Holds
    <3> QED BY <1>2, <3>1, NumberFacts DEF ClientRole, Holds, Storing
  <2>2. /\ Moves(c) /\ runs' = runs /\ job' = job /\ thread'[c].at # "announce"
        /\ Reserves(thread[c])
    BY <1>2, NumberFacts DEF Number, Reserves
  <2> QED BY <1>a, <2>1, <2>2, ClientKeepsOwned
<1>3. ASSUME NEW c \in Client, Announce(c) PROVE Slots' /\ Owned'
  <2> DEFINE n == NextWorker
             x == thread[c]
  <2>0. x.at = "announce" /\ x.run \in Run /\ IsNew(x.run) /\ job' = job /\ runs' = runs
    BY <1>3, AnnounceFacts DEF Owned, Announce
  <2>1. /\ n \in Worker /\ thread[n].at = "new" /\ n # c
        /\ \A u \in Worker : u < n => thread[u].at # "new"
    BY <1>0, <2>0, NextWorkerIsNew DEF Reserves
  <2>2. /\ thread'[n].at = "begin" /\ thread'[n].run = x.run /\ thread'[n].source = x.source
        /\ thread'[c].at = "idle" /\ thread'[c].run = 0 /\ thread'[c].source = 0
        /\ \A w \in Worker \ {n} : thread'[w] = thread[w]
    BY <1>0, <1>3, <2>1, AnnounceFacts
  <2>3. Created' = Created /\ x.run \in Created
    BY <2>0, SameCreated, JobFacts DEF IsNew, Created
  <2>4. \A d \in Client : d = c
    BY DEF OneClient
  <2> HIDE DEF n
  <2>5. Slots'
    <3>1. PICK k \in Nat : /\ k <= runs
                           /\ \A w \in Worker : thread[w].at = "new" <=> w > k
                           /\ \A d \in Client : Reserves(thread[d]) => k < runs
      BY DEF Slots
    <3>2. k < runs /\ runs <= MaxRuns /\ runs \in Nat /\ MaxRuns \in Nat
      BY <2>0, <3>1, ThreadFacts DEF Reserves, TypeInvariant, TypeOK
    <3>3. n = k + 1
      <4>1. n > k /\ n \in Nat /\ k + 1 \in Worker
        BY <2>1, <3>1, <3>2 DEF Worker
      <4>2. thread[k + 1].at = "new"
        BY <3>1, <4>1
      <4>3. ~ (k + 1 < n)
        BY <2>1, <4>1, <4>2
      <4> QED BY <4>1, <4>3
    <3>4. \A w \in Worker : thread'[w].at = "new" <=> w > k + 1
      <4> SUFFICES ASSUME NEW w \in Worker PROVE thread'[w].at = "new" <=> w > k + 1
        OBVIOUS
      <4>1. w \in Nat
        BY DEF Worker
      <4>2. CASE w = n
        BY <2>2, <3>3, <4>1, <4>2
      <4>3. CASE w # n
        BY <2>2, <3>1, <3>3, <4>1, <4>3
      <4> QED BY <4>2, <4>3
    <3>5. \A d \in Client : ~Reserves(thread'[d])
      BY <2>2, <2>4 DEF Reserves
    <3>6. k + 1 \in Nat /\ k + 1 <= runs'
      BY <2>0, <3>2
    <3> QED BY <3>4, <3>5, <3>6 DEF Slots, Reserves
  <2>6. \A d \in Client : ClientRole(thread'[d]) /\ thread'[d].at # "announce"
    BY <2>2, <2>4 DEF ClientRole
  <2>7. \A w \in Worker : WorkerRole(thread[w])'
    <3> SUFFICES ASSUME NEW w \in Worker PROVE WorkerRole(thread[w])'
      OBVIOUS
    <3>1. CASE w = n
      BY <2>2, <2>3, <3>1 DEF WorkerRole
    <3>2. CASE w # n
      BY <1>0, <2>2, <2>3, <3>2 DEF WorkerRole
    <3> QED BY <3>1, <3>2
  <2>8. Apart'
    <3> SUFFICES ASSUME NEW u \in Worker, NEW w \in Worker,
                        thread'[u].at # "new", thread'[u].run = thread'[w].run
                 PROVE  u = w
      BY DEF Apart
    <3>1. \A v \in Worker \ {n} : thread'[v].run # x.run
      BY <2>0, <2>2 DEF IsNew
    <3>2. CASE u = n \/ w = n
      BY <2>2, <3>1, <3>2
    <3>3. CASE u # n /\ w # n
      BY <2>2, <3>3 DEF Owned, Apart
    <3> QED BY <3>2, <3>3
  <2>9. \A t \in Thread : Holds(thread[t])'
    <3> SUFFICES ASSUME NEW t \in Thread PROVE Holds(thread[t])'
      OBVIOUS
    <3>1. CASE t = c
      BY <2>2, <3>1 DEF Holds, Storing
    <3>2. CASE t = n
      <4>1. x.source \in Created \cup {0}
        BY <1>0 DEF Holds
      <4> QED BY <2>2, <2>3, <3>2, <4>1 DEF Holds, Storing
    <3>3. CASE t # c /\ t # n
      <4>1. t \in Worker \ {n}
        BY <2>4, <3>3 DEF Thread
      <4> QED BY <1>0, <2>2, <2>3, <4>1 DEF Holds, Storing
    <3> QED BY <3>1, <3>2, <3>3
  <2> QED BY <2>5, <2>6, <2>7, <2>8, <2>9 DEF Owned, ClientRole
<1>4. ASSUME NEW c \in Client, Resume(c) PROVE Slots' /\ Owned'
  <2>1. ClientRole(thread'[c]) /\ Holds(thread'[c])
    BY <1>0, <1>4, ResumeFacts DEF ClientRole, Holds, Storing
  <2>2. /\ Moves(c) /\ runs' = runs /\ job' = job /\ thread'[c].at # "announce"
        /\ Reserves(thread[c])
    BY <1>4, ResumeFacts DEF Resume, Reserves
  <2> QED BY <1>a, <2>1, <2>2, ClientKeepsOwned
<1>5. ASSUME NEW c \in Client, HandOff(c) PROVE Slots' /\ Owned'
  <2>1. ClientRole(thread'[c]) /\ Holds(thread'[c])
    BY <1>0, <1>5, HandOffFacts DEF ClientRole, Holds, Storing
  <2>2. /\ Moves(c) /\ runs' = runs /\ job' = job /\ thread'[c].at # "announce"
        /\ Reserves(thread[c])
    BY <1>5, HandOffFacts DEF HandOff, Reserves
  <2> QED BY <1>a, <2>1, <2>2, ClientKeepsOwned
<1>6. ASSUME NEW c \in Client, RequestPlan(c) PROVE Slots' /\ Owned'
  <2>1. thread' = thread /\ job' = job /\ runs' = runs
    BY <1>6 DEF RequestPlan
  <2> QED BY <2>1 DEF Slots, Owned, Reserves, ClientRole, WorkerRole, Apart, Holds, Storing,
                      IsNew, Created
<1>7. ASSUME NEW c \in Client, NEW r \in Run \cup {0}, Start(c, r) PROVE Slots' /\ Owned'
  <2>1. ClientRole(thread'[c]) /\ Holds(thread'[c])
    BY <1>7, StartFacts DEF ClientRole, Holds, Storing
  <2>2. Moves(c) /\ runs' = runs + 1 /\ job' = job /\ thread'[c].at # "announce"
    BY <1>7, StartFacts DEF Start
  <2> QED BY <1>b, <2>1, <2>2, ClientKeepsOwned
<1>8. ASSUME NEW c \in Client, NEW r \in Run,
             RequestPause(c, r) \/ RequestStop(c, r) \/ RequestResume(c, r)
      PROVE  Slots' /\ Owned'
  <2>1. /\ Moves(c) /\ thread'[c].at = "check" /\ thread'[c].then \in {"idle", "resume"}
        /\ thread'[c].run = r /\ thread'[c].source = 0 /\ r \in Created
        /\ thread'[c].copy.status = job[r].status
        /\ job' = job
        /\ runs' = runs + 1 \/ (runs' = runs /\ thread'[c].then = "idle")
    BY <1>8, AskFacts
  <2>2. ClientRole(thread'[c]) /\ Holds(thread'[c])
    BY <2>1 DEF ClientRole, Holds, Storing, Created
  <2>3. Slots'
    BY <1>a, <1>b, <2>1 DEF Reserves
  <2> QED BY <2>1, <2>2, <2>3, ClientKeepsOwned
<1>9. ASSUME NEW w \in Worker, Work(w) PROVE Slots' /\ Owned'
  <2>1. /\ Moves(w) /\ thread'[w].run = thread[w].run /\ thread'[w].source = thread[w].source
        /\ thread[w].at # "new" /\ job' = job /\ runs' = runs /\ WorkerMove(w)
    BY <1>9, WorkFacts DEF Unnumbered
  <2>2. thread'[w].at # "new" /\ WorkerRole(thread'[w])
    BY <1>0, <2>1 DEF WorkerRole, WorkerMove
  <2>3. Holds(thread'[w])
    BY <1>0, <2>1 DEF Holds, WorkerRole, WorkerMove, Storing
  <2> QED BY <1>c, <2>1, <2>2, <2>3, WorkerKeepsOwned
<1>10. ASSUME NEW t \in Thread, Preserve(t) PROVE Slots' /\ Owned'
  <2>0. /\ Moves(t) /\ thread[t].at = "check" /\ thread'[t].at = "write"
        /\ thread'[t].then = thread[t].then
        /\ thread'[t].run = thread[t].run /\ thread'[t].source = thread[t].source
        /\ \/ thread'[t].copy = thread[t].copy
           \/ job[thread[t].run].status = "resumed" /\ thread'[t].copy.status = "resumed"
        /\ job' = job /\ runs' = runs
    BY <1>10, PreserveFacts DEF Preserve
  <2>1. Holds(thread'[t])
    <3>1. Storing(thread[t], "announce") => job[thread[t].run].status = "absent"
      BY <1>0 DEF Owned, Holds, Created
    <3> QED BY <2>0, <3>1 DEF Owned, Holds, Storing
  <2>2. CASE t \in Client
    BY <1>0, <1>a, <2>0, <2>1, <2>2, ClientKeepsOwned DEF ClientRole, Reserves
  <2>3. CASE t \in Worker
    BY <1>0, <1>c, <2>0, <2>1, <2>3, WorkerKeepsOwned DEF WorkerRole
  <2> QED BY <2>2, <2>3 DEF Thread
<1>11. ASSUME NEW t \in Thread, Replace(t) PROVE Slots' /\ Owned'
  <2> DEFINE x == thread[t]
  <2>0. /\ Moves(t) /\ x.at = "write" /\ thread'[t].at = x.then
        /\ thread'[t].then = x.then /\ thread'[t].copy = x.copy
        /\ thread'[t].run = x.run /\ thread'[t].source = x.source
        /\ x.run \in Run /\ job'[x.run] = x.copy
        /\ \A r \in Run \ {x.run} : job'[r] = job[r]
        /\ runs' = runs
    BY <1>11, ReplaceFacts DEF Replace
  <2>1. /\ x.copy.status # "absent" /\ Created' = Created \cup {x.run}
        /\ x.then # "announce" => x.run \in Created
        /\ x.then = "announce" => x.run \notin Created /\ x.copy = Queued
    BY <2>0 DEF Owned, Holds, Storing, Created
  <2> HIDE DEF x
  <2>2. CASE t \in Worker
    <3>1. x.then \in {"prepare", "pausing", "settle", "failing"} /\ x.run \in Created
      BY <1>0, <2>0, <2>2 DEF WorkerRole, x
    <3>2. Created' = Created
      BY <2>1, <3>1
    <3>3. \A u \in Thread : u # t => thread'[u] = thread[u]
      BY <2>0 DEF Moves
    <3>4. \A u \in Thread : thread'[u].run = thread[u].run /\ thread'[u].source = thread[u].source
      BY <2>0, <3>3 DEF x
    <3>5. \A u \in Worker : WorkerRole(thread[u])' /\
            (thread'[u].at = "new" <=> thread[u].at = "new")
      <4> SUFFICES ASSUME NEW u \in Worker
                   PROVE  WorkerRole(thread[u])' /\ (thread'[u].at = "new" <=> thread[u].at = "new")
        OBVIOUS
      <4>1. CASE u = t
        BY <2>0, <3>1, <3>2, <4>1 DEF WorkerRole, x
      <4>2. CASE u # t
        BY <1>0, <3>2, <3>3, <4>2 DEF WorkerRole
      <4> QED BY <4>1, <4>2
    <3>6. Apart'
      BY <1>0, <3>4, <3>5 DEF Owned, Apart
    <3>7. \A u \in Thread : Holds(thread[u])'
      <4> SUFFICES ASSUME NEW u \in Thread PROVE Holds(thread[u])'
        OBVIOUS
      <4>1. CASE u = t
        BY <1>0, <2>0, <2>2, <3>1, <3>2, <4>1 DEF Holds, Storing, x
      <4>2. CASE u # t
        BY <3>2, <3>3, <4>2 DEF Owned, Holds, Storing
      <4> QED BY <4>1, <4>2
    <3>8. \A d \in Client : thread'[d] = thread[d]
      BY <1>0, <2>2, <3>3
    <3>9. \A d \in Client : thread'[d].at = "announce" => IsNew(thread[d].run)'
      <4> SUFFICES ASSUME NEW d \in Client, thread'[d].at = "announce"
                   PROVE  IsNew(thread[d].run)'
        OBVIOUS
      <4>1. IsNew(thread[d].run) /\ thread[d].run \in Run
        BY <1>0, <3>8, ReadFacts DEF Owned, Unnumbered
      <4>2. x.run # thread[d].run
        BY <2>2, <4>1 DEF IsNew, x
      <4> QED BY <1>0, <2>0, <3>4, <3>8, <4>1, <4>2 DEF IsNew
    <3>10. Slots'
      BY <1>0, <1>c, <2>0, <2>2, <3>1 DEF x
    <3> QED BY <1>0, <3>5, <3>6, <3>7, <3>8, <3>9, <3>10 DEF Owned, ClientRole
  <2>3. CASE t \in Client
    <3>1. x.then \in {"announce", "idle", "resume", "handoff"} /\ \A d \in Client : d = t
      BY <1>0, <2>0, <2>3 DEF ClientRole, x, OneClient
    <3>2. \A w \in Worker : thread'[w] = thread[w]
      BY <1>0, <2>0, <2>3 DEF Moves
    <3>3. Slots'
      <4>1. Reserves(thread'[t]) => Reserves(thread[t])
        BY <2>0, <3>1 DEF Reserves, x
      <4> QED BY <1>a, <2>0, <2>3, <4>1
    <3>4. ClientRole(thread'[t])
      BY <2>0, <3>1 DEF ClientRole
    <3>5. \A w \in Worker : WorkerRole(thread[w])'
      BY <1>0, <2>1, <3>2 DEF WorkerRole
    <3>6. Apart'
      BY <3>2 DEF Owned, Apart
    <3>7. \A u \in Thread : Holds(thread[u])'
      <4> SUFFICES ASSUME NEW u \in Thread PROVE Holds(thread[u])'
        OBVIOUS
      <4>1. CASE u = t
        <5>1. x.source \in Created \cup {0}
          BY <1>0, <2>3 DEF Holds, x
        <5> QED BY <2>0, <2>1, <3>1, <4>1, <5>1 DEF Holds, Storing
      <4>2. CASE u # t
        <5>1. u \in Worker
          BY <3>1, <4>2 DEF Thread
        <5>2. thread[u].at \in {"check", "write"} => thread[u].then # "announce"
          BY <1>0, <5>1 DEF WorkerRole
        <5> QED BY <1>0, <2>1, <3>2, <5>1, <5>2 DEF Holds, Storing
      <4> QED BY <4>1, <4>2
    <3>8. thread'[t].at = "announce" => IsNew(thread[t].run)'
      <4> SUFFICES ASSUME x.then = "announce" PROVE IsNew(thread[t].run)'
        BY <2>0
      <4>1. x.run \notin Created /\ x.copy = Queued /\ x.run # 0
        BY <2>0, <2>1, ThreadFacts
      <4>2. \A u \in Thread : thread'[u].source # x.run
        <5>1. \A u \in Thread : thread[u].source # x.run
          BY <4>1 DEF Owned, Holds
        <5> QED BY <2>0, <5>1 DEF Moves, x
      <4>3. \A w \in Worker : thread'[w].run # x.run
        BY <1>0, <3>2, <4>1 DEF WorkerRole
      <4> QED BY <2>0, <4>1, <4>2, <4>3 DEF IsNew
    <3> QED BY <3>1, <3>3, <3>4, <3>5, <3>6, <3>7, <3>8 DEF Owned, ClientRole
  <2> QED BY <2>2, <2>3 DEF Thread
<1>12. CASE ServerCrash
  <2>0. /\ \A c \in Client : thread'[c].at = "idle" /\ thread'[c].source = 0
        /\ \A w \in Worker : IF thread[w].at = "new" THEN thread'[w] = thread[w]
                             ELSE /\ thread'[w].at = "ended" /\ thread'[w].run = thread[w].run
                                  /\ thread'[w].source = thread[w].source
        /\ job' = job /\ runs' = runs
    BY <1>12, CrashFacts DEF ServerCrash
  <2>1. Created' = Created
    BY <2>0, SameCreated
  <2>2. Slots'
    BY <1>0, <2>0, SlotsKept DEF Reserves
  <2>3. \A c \in Client : ClientRole(thread'[c]) /\ thread'[c].at # "announce"
    BY <2>0 DEF ClientRole
  <2>4. \A w \in Worker : WorkerRole(thread[w])'
    BY <1>0, <2>0, <2>1 DEF WorkerRole
  <2>5. Apart'
    BY <2>0 DEF Owned, Apart
  <2>6. \A c \in Client : Holds(thread[c])'
    BY <2>0 DEF Holds, Storing
  <2>7. \A w \in Worker : Holds(thread[w])'
    BY <1>0, <2>0, <2>1 DEF Holds, Storing
  <2> QED BY <2>2, <2>3, <2>4, <2>5, <2>6, <2>7 DEF Owned, ClientRole, Thread
<1>13. CASE UNCHANGED vars
  BY <1>13 DEF vars, Slots, Owned, Reserves, ClientRole, WorkerRole, Apart, Holds, Storing,
               IsNew, Created
<1> QED
  BY <1>1, <1>2, <1>3, <1>4, <1>5, <1>6, <1>7, <1>8, <1>9, <1>10, <1>11, <1>12, <1>13
     DEF Next, Request, Serve, Saving

-----------------------------------------------------------------------------
(* A run that does not go on has no busy worker. *)

\* A step that makes no worker busy.
Calms ==
  \A w \in Worker : Busy(thread'[w]) => Busy(thread[w]) /\ thread'[w].run = thread[w].run

LEMMA QuietKept == ASSUME Calms PROVE \A r : Quiet(thread, r) => Quiet(thread', r)
BY DEF Calms, Quiet

\* The worker of a run is not busy when it says so itself.
LEMMA QuietOwn ==
  ASSUME Owned', NEW w \in Worker, thread'[w].at # "new", ~Busy(thread'[w])
  PROVE  Quiet(thread', thread'[w].run)
BY DEF Owned, Apart, Quiet

\* A step of one thread that writes no job.
LEMMA QuietMove ==
  ASSUME QuietInvariant, NEW t \in Thread, Moves(t), job' = job, Calms,
         Stills(thread', thread'[t]), t \in Worker => thread'[t].source = thread[t].source
  PROVE  QuietInvariant'
<1>1. \A r \in Run : job'[r].status \notin Fresher => Quiet(thread', r)
  BY QuietKept DEF QuietInvariant
<1>2. ASSUME NEW u \in Thread, u # t PROVE Stills(thread', thread'[u])
  <2>1. thread'[u] = thread[u] /\ Stills(thread, thread[u])
    BY <1>2 DEF Moves, QuietInvariant
  <2> QED BY <2>1, QuietKept DEF Stills
<1>3. ASSUME NEW w \in Worker PROVE thread'[w].source = 0 \/ Quiet(thread', thread'[w].source)
  <2>1. thread'[w].source = thread[w].source
    BY ThreadFacts DEF Moves
  <2>2. thread[w].source = 0 \/ Quiet(thread, thread[w].source)
    BY DEF QuietInvariant
  <2> QED BY <2>1, <2>2, QuietKept
<1>4. \A u \in Thread : Stills(thread', thread'[u])
  BY <1>2
<1> QED BY <1>1, <1>3, <1>4 DEF QuietInvariant

\* A request makes no worker busy.
LEMMA ClientCalms ==
  ASSUME NEW c \in Client, Moves(c)
  PROVE  Calms /\ \A w \in Worker : thread'[w] = thread[w]
BY ThreadFacts DEF Calms, Moves

LEMMA QuietStep ==
  ASSUME OneClient, TypeInvariant, Slots, Owned, Owned', QuietInvariant, [Next]_vars
  PROVE  QuietInvariant'
<1>0. /\ \A c \in Client : /\ c \in Thread /\ c \notin Worker
                           /\ ClientRole(thread[c]) /\ Holds(thread[c])
                           /\ Stills(thread, thread[c])
      /\ \A w \in Worker : /\ w \in Thread /\ WorkerRole(thread[w]) /\ Holds(thread[w])
                           /\ Stills(thread, thread[w])
      /\ \A r \in Run : job[r].status \notin Fresher => Quiet(thread, r)
  BY ThreadFacts DEF Owned, QuietInvariant
<1>a. ASSUME NEW c \in Client, Moves(c), job' = job, Stills(thread', thread'[c])
      PROVE  QuietInvariant'
  BY <1>0, <1>a, ClientCalms, QuietMove
<1>b. ASSUME NEW c \in Client, Moves(c)
      PROVE  \A r : Quiet(thread, r) => Quiet(thread', r)
  BY <1>b, ClientCalms, QuietKept
<1>1. ASSUME NEW c \in Client, Scan(c) PROVE QuietInvariant'
  <2> DEFINE s == thread[c].source
  <2>1. /\ Moves(c) /\ job' = job /\ thread'[c].source = s
        /\ \/ thread'[c].at = "idle"
           \/ thread'[c].at = "number" /\ \A r \in Run : job[r].status \notin Active
    BY <1>1, ScanFacts
  <2>2. CASE thread'[c].at = "idle"
    BY <1>a, <2>1, <2>2 DEF Stills, Storing
  <2>3. CASE thread'[c].at = "number" /\ \A r \in Run : job[r].status \notin Active
    <3>1. s = 0 \/ (s \in Run /\ job[s].status \notin Fresher)
      BY <1>0, <2>3 DEF Holds, Created, Active, Fresher
    <3>2. s = 0 \/ Quiet(thread', s)
      BY <1>0, <1>b, <2>1, <3>1
    <3> QED BY <1>a, <2>1, <2>3, <3>2 DEF Stills, Storing
  <2> QED BY <2>1, <2>2, <2>3
<1>2. ASSUME NEW c \in Client, Number(c) PROVE QuietInvariant'
  <2>1. /\ Moves(c) /\ job' = job /\ thread[c].at = "number" /\ thread'[c].at = "check"
        /\ thread'[c].then = "announce" /\ thread'[c].source = thread[c].source
        /\ thread'[c].copy.status = "queued"
    BY <1>2, NumberFacts, JobFacts DEF Number
  <2>2. thread'[c].source = 0 \/ Quiet(thread', thread'[c].source)
    BY <1>0, <1>b, <2>1 DEF Stills
  <2> QED BY <1>a, <2>1, <2>2 DEF Stills, Storing, Fresher
<1>3. ASSUME NEW c \in Client, Announce(c) PROVE QuietInvariant'
  <2> DEFINE n == NextWorker
             x == thread[c]
  <2>0. x.at = "announce" /\ x.run \in Run /\ IsNew(x.run) /\ job' = job
    BY <1>3, AnnounceFacts DEF Owned, Announce
  <2>1. n \in Worker /\ n # c
    BY <1>0, <2>0, NextWorkerIsNew DEF Reserves
  <2>2. /\ thread'[n].at = "begin" /\ thread'[n].run = x.run /\ thread'[n].source = x.source
        /\ thread'[c].at = "idle"
        /\ \A w \in Worker \ {n} : thread'[w] = thread[w]
        /\ \A d \in Client : d = c
    BY <1>0, <1>3, <2>1, AnnounceFacts DEF OneClient
  <2> HIDE DEF n
  <2>3. \A r : r # x.run /\ Quiet(thread, r) => Quiet(thread', r)
    BY <2>2 DEF Quiet
  <2>4. /\ job[x.run].status = "queued" /\ \A t \in Thread : thread[t].source # x.run
        /\ \A w \in Worker : thread[w].run # x.run
    BY <2>0, JobFacts DEF IsNew
  <2>5. \A r \in Run : job'[r].status \notin Fresher => Quiet(thread', r)
    BY <1>0, <2>0, <2>3, <2>4 DEF Fresher
  <2>6. \A t \in Thread : Stills(thread', thread'[t])
    <3> SUFFICES ASSUME NEW t \in Thread PROVE Stills(thread', thread'[t])
      OBVIOUS
    <3>1. CASE t = c \/ t = n
      BY <2>2, <3>1 DEF Stills, Storing
    <3>2. CASE t # c /\ t # n
      <4>1. t \in Worker \ {n} /\ thread'[t] = thread[t]
        BY <2>2, <3>2 DEF Thread
      <4> QED BY <1>0, <2>3, <2>4, <4>1 DEF Stills
    <3> QED BY <3>1, <3>2
  <2>7. ASSUME NEW w \in Worker
        PROVE  thread'[w].source = 0 \/ Quiet(thread', thread'[w].source)
    <3>1. CASE w = n
      <4>1. x.source = 0 \/ Quiet(thread, x.source)
        BY <1>0, <2>0 DEF Stills
      <4>2. x.source # x.run
        BY <1>0, <2>4
      <4> QED BY <2>2, <2>3, <3>1, <4>1, <4>2
    <3>2. CASE w # n
      <4>1. thread'[w] = thread[w] /\ thread[w].source # x.run
        BY <1>0, <2>2, <2>4, <3>2
      <4> QED BY <2>3, <4>1 DEF QuietInvariant
    <3> QED BY <3>1, <3>2
  <2> QED BY <2>5, <2>6, <2>7 DEF QuietInvariant
<1>4. ASSUME NEW c \in Client, Resume(c) PROVE QuietInvariant'
  <2>1. /\ Moves(c) /\ job' = job /\ thread[c].at = "resume"
        /\ thread'[c].run = thread[c].run
        /\ \/ /\ thread[c].copy.status = "paused"
              /\ thread'[c].at = "check" /\ thread'[c].then = "handoff"
           \/ thread'[c].at = "idle"
    BY <1>4, ResumeFacts DEF Resume
  <2>2. thread[c].copy.status = "paused" => Quiet(thread', thread[c].run)
    BY <1>0, <1>b, <2>1 DEF Stills, Fresher
  <2> QED BY <1>a, <2>1, <2>2 DEF Stills, Storing
<1>5. ASSUME NEW c \in Client, HandOff(c) PROVE QuietInvariant'
  <2>1. /\ Moves(c) /\ job' = job /\ thread[c].at = "handoff" /\ thread'[c].at = "number"
        /\ thread'[c].source = thread[c].run
    BY <1>5, HandOffFacts DEF HandOff
  <2>2. Quiet(thread', thread[c].run)
    BY <1>0, <1>b, <2>1 DEF Stills
  <2> QED BY <1>a, <2>1, <2>2 DEF Stills, Storing
<1>6. ASSUME NEW c \in Client, RequestPlan(c) PROVE QuietInvariant'
  <2>1. thread' = thread /\ job' = job
    BY <1>6 DEF RequestPlan
  <2> QED BY <2>1 DEF QuietInvariant
<1>7. ASSUME NEW c \in Client, NEW r \in Run \cup {0}, Start(c, r) PROVE QuietInvariant'
  <2>1. Moves(c) /\ job' = job /\ thread'[c].at = "scan"
    BY <1>7, StartFacts DEF Start
  <2> QED BY <1>a, <2>1 DEF Stills, Storing
<1>8. ASSUME NEW c \in Client, NEW r \in Run,
             RequestPause(c, r) \/ RequestStop(c, r) \/ RequestResume(c, r)
      PROVE  QuietInvariant'
  <2>1. /\ Moves(c) /\ job' = job
        /\ thread'[c].at = "check" /\ thread'[c].then \in {"idle", "resume"}
        /\ thread'[c].run = r /\ thread'[c].copy.status = job[r].status
    BY <1>8, AskFacts
  <2>2. job[r].status \notin Fresher => Quiet(thread', r)
    BY <1>0, <1>b, <2>1
  <2> QED BY <1>a, <2>1, <2>2 DEF Stills, Storing
<1>9. ASSUME NEW w \in Worker, Work(w) PROVE QuietInvariant'
  <2>1. /\ Moves(w) /\ thread'[w].run = thread[w].run /\ thread'[w].source = thread[w].source
        /\ job' = job /\ WorkerMove(w)
    BY <1>9, WorkFacts
  <2>2. Busy(thread'[w]) => Busy(thread[w])
    BY <2>1 DEF Busy, Executing, Storing, WorkerMove
  <2>3. Calms
    BY <2>1, <2>2, ThreadFacts DEF Calms, Moves
  <2>4. Stills(thread', thread'[w])
    <3>1. CASE thread'[w].at = "check"
      <4>1. CASE thread'[w].copy.status \in Fresher
        BY <2>1, <3>1, <4>1 DEF WorkerMove, Stills, Storing
      <4>2. CASE thread'[w].copy.status \notin Fresher
        <5>1. ~Busy(thread'[w])
          BY <2>1, <3>1, <4>2 DEF WorkerMove, Busy, Executing, Storing, Fresher
        <5>2. Quiet(thread', thread'[w].run)
          BY <3>1, <5>1, QuietOwn
        <5> QED BY <2>1, <3>1, <5>2 DEF WorkerMove, Stills, Storing
      <4> QED BY <4>1, <4>2
    <3>2. CASE thread'[w].at # "check"
      BY <2>1, <3>2 DEF WorkerMove, Stills, Storing
    <3> QED BY <3>1, <3>2
  <2> QED BY <1>0, <2>1, <2>3, <2>4, QuietMove
<1>10. ASSUME NEW t \in Thread, Preserve(t) PROVE QuietInvariant'
  <2>0. /\ Moves(t) /\ thread[t].at = "check" /\ thread'[t].at = "write"
        /\ thread'[t].then = thread[t].then
        /\ thread'[t].run = thread[t].run /\ thread'[t].source = thread[t].source
        /\ \/ thread'[t].copy = thread[t].copy
           \/ job[thread[t].run].status = "resumed" /\ thread'[t].copy.status = "resumed"
        /\ job' = job /\ thread[t].run \in Run
    BY <1>10, PreserveFacts, ReadFacts DEF Preserve, Unnumbered
  <2>1. Calms
    BY <2>0, ThreadFacts DEF Calms, Moves, Busy, Executing, Storing
  <2>2. Stills(thread, thread[t])
    BY DEF QuietInvariant
  <2>3. job[thread[t].run].status = "resumed" => Quiet(thread, thread[t].run)
    BY <1>0, <2>0 DEF Fresher
  <2>4. Stills(thread', thread'[t])
    BY <2>0, <2>1, <2>2, <2>3, QuietKept DEF Stills, Storing
  <2> QED BY <2>0, <2>1, <2>4, QuietMove
<1>11. ASSUME NEW t \in Thread, Replace(t) PROVE QuietInvariant'
  <2> DEFINE x == thread[t]
  <2>0. /\ Moves(t) /\ x.at = "write" /\ thread'[t].at = x.then
        /\ thread'[t].then = x.then /\ thread'[t].copy = x.copy
        /\ thread'[t].run = x.run /\ thread'[t].source = x.source
        /\ x.run \in Run /\ job'[x.run] = x.copy
        /\ \A r \in Run \ {x.run} : job'[r] = job[r]
    BY <1>11, ReplaceFacts
  <2>1. Stills(thread, x)
    BY DEF QuietInvariant
  <2>2. /\ t \in Client => x.then \in {"announce", "idle", "resume", "handoff"}
        /\ t \in Worker => x.then \in {"prepare", "pausing", "settle", "failing"}
    BY <1>0, <2>0 DEF ClientRole, WorkerRole
  <2> HIDE DEF x
  <2>3. Calms
    <3> SUFFICES ASSUME NEW w \in Worker, Busy(thread'[w])
                 PROVE  Busy(thread[w]) /\ thread'[w].run = thread[w].run
      BY DEF Calms
    <3>1. CASE w = t
      BY <2>0, <2>2, <3>1 DEF Busy, Executing, Storing, x
    <3>2. CASE w # t
      BY <1>0, <2>0, <3>2 DEF Moves
    <3> QED BY <3>1, <3>2
  <2>4. \A r \in Run : job'[r].status \notin Fresher => Quiet(thread', r)
    <3> SUFFICES ASSUME NEW r \in Run, job'[r].status \notin Fresher PROVE Quiet(thread, r)
      BY <2>3, QuietKept
    <3>1. CASE r = x.run
      BY <2>0, <2>1, <3>1 DEF Stills
    <3>2. CASE r # x.run
      BY <1>0, <2>0, <3>2
    <3> QED BY <3>1, <3>2
  <2>5. Stills(thread', thread'[t])
    <3>1. x.then \in {"announce", "idle", "resume", "handoff", "prepare", "pausing", "settle",
                      "failing"}
      BY <2>2 DEF Thread
    <3> QED BY <2>0, <2>1, <2>3, <3>1, QuietKept DEF Stills, Storing
  <2>6. \A u \in Thread : Stills(thread', thread'[u])
    <3> SUFFICES ASSUME NEW u \in Thread, u # t PROVE Stills(thread', thread'[u])
      BY <2>5
    <3>1. thread'[u] = thread[u] /\ Stills(thread, thread[u])
      BY <2>0 DEF Moves, QuietInvariant
    <3> QED BY <2>3, <3>1, QuietKept DEF Stills
  <2>7. ASSUME NEW w \in Worker
        PROVE  thread'[w].source = 0 \/ Quiet(thread', thread'[w].source)
    <3>1. thread'[w].source = thread[w].source
      BY <1>0, <2>0 DEF Moves, x
    <3>2. thread[w].source = 0 \/ Quiet(thread, thread[w].source)
      BY DEF QuietInvariant
    <3> QED BY <2>3, <3>1, <3>2, QuietKept
  <2> QED BY <2>4, <2>6, <2>7 DEF QuietInvariant
<1>12. CASE ServerCrash
  <2>0. /\ \A c \in Client : thread'[c].at = "idle"
        /\ \A w \in Worker : IF thread[w].at = "new" THEN thread'[w] = thread[w]
                             ELSE /\ thread'[w].at = "ended" /\ thread'[w].run = thread[w].run
                                  /\ thread'[w].source = thread[w].source
        /\ job' = job
    BY <1>12, CrashFacts DEF ServerCrash
  <2>1. Calms
    BY <2>0 DEF Calms, Busy, Executing, Storing
  <2>2. \A t \in Thread : Stills(thread', thread'[t])
    <3> SUFFICES ASSUME NEW t \in Thread PROVE Stills(thread', thread'[t])
      OBVIOUS
    <3>1. thread'[t].at \in {"idle", "new", "ended"}
      BY <2>0 DEF Thread
    <3> QED BY <3>1 DEF Stills, Storing
  <2>3. \A w \in Worker : thread'[w].source = thread[w].source
    BY <2>0
  <2> QED BY <1>0, <2>0, <2>1, <2>2, <2>3, QuietKept DEF QuietInvariant
<1>13. CASE UNCHANGED vars
  BY <1>13 DEF vars, QuietInvariant
<1> QED
  BY <1>1, <1>2, <1>3, <1>4, <1>5, <1>6, <1>7, <1>8, <1>9, <1>10, <1>11, <1>12, <1>13
     DEF Next, Request, Serve, Saving

-----------------------------------------------------------------------------
(* A run that is marked as handed over is. *)

\* A step that forgets no hand-over.
HandsOn == \A r \in Run : Handed(thread, r) => Handed(thread', r)

\* A step after which no worker is to decide that was not before.
Settles == \A r : Undecided(thread', r) => Undecided(thread, r)

LEMMA ClientHands ==
  ASSUME OneClient, NEW c \in Client, Moves(c),
         \A r : Hands(thread[c], r) => Hands(thread'[c], r)
  PROVE  HandsOn /\ Settles
<1>1. \A w \in Worker : thread'[w] = thread[w]
  BY ClientCalms
<1>2. Settles
  BY <1>1 DEF Settles, Undecided
<1>3. HandsOn
  BY <1>1 DEF HandsOn, Handed, OneClient
<1> QED BY <1>2, <1>3

LEMMA WorkerHands ==
  ASSUME NEW w \in Worker, Moves(w), thread'[w].run = thread[w].run,
         thread'[w].source = thread[w].source, Decided(thread[w]) => Decided(thread'[w])
  PROVE  HandsOn /\ Settles
<1>1. \A u \in Worker : /\ thread'[u].run = thread[u].run /\ thread'[u].source = thread[u].source
                        /\ Decided(thread[u]) => Decided(thread'[u])
  BY ThreadFacts DEF Moves
<1>2. \A c \in Client : thread'[c] = thread[c]
  BY ThreadFacts DEF Moves
<1>3. Settles
  BY <1>1 DEF Settles, Undecided
<1>4. HandsOn
  BY <1>1, <1>2 DEF HandsOn, Handed
<1> QED BY <1>3, <1>4

\* What a thread tells stays right.
LEMMA TellsKept ==
  ASSUME TypeInvariant, HandsOn, Settles, NEW t \in Thread, Tells(thread, thread[t])
  PROVE  Tells(thread', thread[t])
<1>1. thread[t].at \in {"check", "write"} => thread[t].run \in Run
  BY ReadFacts DEF Unnumbered
<1> QED BY <1>1 DEF Tells, HandsOn, Settles

\* A step of one thread that writes no job.
LEMMA HandedMove ==
  ASSUME TypeInvariant, HandedInvariant, NEW t \in Thread, Moves(t), job' = job,
         crashes' = crashes, HandsOn, Settles, crashes = 0 => Tells(thread', thread'[t])
  PROVE  HandedInvariant'
<1> SUFFICES ASSUME crashes' = 0
             PROVE  /\ \A r \in Run : job'[r].status = "resumed" => Handed(thread', r)
                    /\ \A r \in Run : /\ job'[r].status = "paused" /\ ~job'[r].pause
                                      /\ Undecided(thread', r)
                                      => Handed(thread', r)
                    /\ \A u \in Thread : Tells(thread', thread'[u])
  BY DEF HandedInvariant
<1>1. \A r \in Run : job'[r].status = "resumed" => Handed(thread', r)
  BY DEF HandedInvariant, HandsOn
<1>2. \A r \in Run : job'[r].status = "paused" /\ ~job'[r].pause /\ Undecided(thread', r)
                       => Handed(thread', r)
  BY DEF HandedInvariant, HandsOn, Settles
<1>3. ASSUME NEW u \in Thread, u # t PROVE Tells(thread', thread'[u])
  <2>1. thread'[u] = thread[u] /\ Tells(thread, thread[u])
    BY <1>3 DEF Moves, HandedInvariant
  <2> QED BY <2>1, TellsKept
<1> QED BY <1>1, <1>2, <1>3

LEMMA HandedStep ==
  ASSUME OneClient, TypeInvariant, Slots, Owned, Owned', HandedInvariant, [Next]_vars
  PROVE  HandedInvariant'
<1>0. /\ \A c \in Client : c \in Thread /\ c \notin Worker /\ ClientRole(thread[c])
      /\ \A w \in Worker : w \in Thread /\ WorkerRole(thread[w])
  BY ThreadFacts DEF Owned
<1>a. ASSUME NEW c \in Client, Moves(c), job' = job, crashes' = crashes,
             \A r : Hands(thread[c], r) => Hands(thread'[c], r),
             crashes = 0 => Tells(thread', thread'[c])
      PROVE  HandedInvariant'
  BY <1>0, <1>a, ClientHands, HandedMove
<1>1. ASSUME NEW c \in Client, Scan(c) PROVE HandedInvariant'
  <2>1. /\ Moves(c) /\ job' = job /\ crashes' = crashes /\ thread[c].at = "scan"
        /\ thread'[c].at \in {"idle", "number"}
    BY <1>1, ScanFacts
  <2> QED BY <1>a, <2>1 DEF Hands, Storing, Tells
<1>2. ASSUME NEW c \in Client, Number(c) PROVE HandedInvariant'
  <2>1. /\ Moves(c) /\ job' = job /\ crashes' = crashes
        /\ thread[c].at = "number" /\ thread'[c].at = "check"
        /\ thread'[c].then = "announce" /\ thread'[c].source = thread[c].source
        /\ thread'[c].copy.status = "queued"
    BY <1>2, NumberFacts, JobFacts DEF Number
  <2> QED BY <1>a, <2>1 DEF Hands, Storing, Tells
<1>3. ASSUME NEW c \in Client, Announce(c) PROVE HandedInvariant'
  <2> DEFINE n == NextWorker
             x == thread[c]
  <2>0. /\ x.at = "announce" /\ x.run \in Run /\ IsNew(x.run) /\ job' = job
        /\ crashes' = crashes
    BY <1>3, AnnounceFacts DEF Owned, Announce
  <2>1. n \in Worker /\ n # c /\ thread[n].at = "new"
    BY <1>0, <2>0, NextWorkerIsNew DEF Reserves
  <2>2. /\ thread'[n].at = "begin" /\ thread'[n].run = x.run /\ thread'[n].source = x.source
        /\ thread'[c].at = "idle"
        /\ \A w \in Worker \ {n} : thread'[w] = thread[w]
        /\ \A d \in Client : d = c
    BY <1>0, <1>3, <2>1, AnnounceFacts DEF OneClient
  <2>3. thread[n].source = 0
    BY <1>0, <2>1 DEF WorkerRole
  <2> HIDE DEF n
  <2>4. HandsOn
    <3> SUFFICES ASSUME NEW r \in Run, Handed(thread, r) PROVE Handed(thread', r)
      BY DEF HandsOn
    <3>1. CASE \E w \in Worker : thread[w].source = r
      <4>1. PICK w \in Worker : thread[w].source = r
        BY <3>1
      <4>2. w # n
        BY <2>3, <4>1, ThreadFacts
      <4> QED BY <2>2, <4>1, <4>2 DEF Handed
    <3>2. CASE Hands(x, r)
      <4>1. x.source = r
        BY <2>0, <3>2 DEF Hands, Storing
      <4> QED BY <2>1, <2>2, <4>1 DEF Handed
    <3> QED BY <2>2, <3>1, <3>2 DEF Handed
  <2>5. \A r : r # x.run /\ Undecided(thread', r) => Undecided(thread, r)
    BY <2>2 DEF Undecided
  <2>6. /\ job[x.run].status = "queued" /\ \A w \in Worker : thread[w].run # x.run
    BY <2>0, JobFacts DEF IsNew
  <2> SUFFICES ASSUME crashes' = 0
               PROVE  /\ \A r \in Run : job'[r].status = "resumed" => Handed(thread', r)
                      /\ \A r \in Run : /\ job'[r].status = "paused" /\ ~job'[r].pause
                                        /\ Undecided(thread', r)
                                        => Handed(thread', r)
                      /\ \A u \in Thread : Tells(thread', thread'[u])
    BY DEF HandedInvariant
  <2>7. \A r \in Run : job'[r].status = "resumed" => Handed(thread', r)
    BY <2>0, <2>4 DEF HandedInvariant, HandsOn
  <2>8. \A r \in Run : job'[r].status = "paused" /\ ~job'[r].pause /\ Undecided(thread', r)
                         => Handed(thread', r)
    BY <2>0, <2>4, <2>5, <2>6 DEF HandedInvariant, HandsOn
  <2>9. ASSUME NEW u \in Thread PROVE Tells(thread', thread'[u])
    <3>1. CASE u = c \/ u = n
      BY <2>2, <3>1 DEF Tells
    <3>2. CASE u # c /\ u # n
      <4>1. u \in Worker \ {n} /\ thread'[u] = thread[u] /\ thread[u].run # x.run
        BY <2>2, <2>6, <3>2 DEF Thread
      <4>2. thread[u].at \in {"check", "write"} => thread[u].run \in Run
        BY ReadFacts DEF Unnumbered
      <4>3. Tells(thread, thread[u])
        BY <2>0 DEF HandedInvariant
      <4> QED BY <2>4, <2>5, <4>1, <4>2, <4>3 DEF Tells, HandsOn
    <3> QED BY <3>1, <3>2
  <2> QED BY <2>7, <2>8, <2>9
<1>4. ASSUME NEW c \in Client, Resume(c) PROVE HandedInvariant'
  <2>1. /\ Moves(c) /\ job' = job /\ crashes' = crashes /\ thread[c].at = "resume"
        /\ thread'[c].run = thread[c].run /\ thread'[c].source = thread[c].source
        /\ \/ /\ thread[c].copy.status = "paused"
              /\ thread'[c].at = "check" /\ thread'[c].then = "handoff"
              /\ thread'[c].copy.status = "resumed"
           \/ thread[c].copy.status # "paused" /\ thread'[c].at = "idle"
    BY <1>4, ResumeFacts DEF Resume
  <2>2. \A r : Hands(thread[c], r) => Hands(thread'[c], r)
    BY <2>1 DEF Hands, Storing
  <2>3. Tells(thread', thread'[c])
    <3>1. thread'[c].at = "check" => Hands(thread'[c], thread'[c].run)
      BY <2>1 DEF Hands, Storing
    <3> QED BY <2>1, <3>1 DEF Tells, Handed
  <2> QED BY <1>a, <2>1, <2>2, <2>3
<1>5. ASSUME NEW c \in Client, HandOff(c) PROVE HandedInvariant'
  <2>1. /\ Moves(c) /\ job' = job /\ crashes' = crashes
        /\ thread[c].at = "handoff" /\ thread'[c].at = "number"
        /\ thread'[c].source = thread[c].run
    BY <1>5, HandOffFacts DEF HandOff
  <2> QED BY <1>a, <2>1 DEF Hands, Storing, Tells
<1>6. ASSUME NEW c \in Client, RequestPlan(c) PROVE HandedInvariant'
  <2>1. thread' = thread /\ job' = job /\ crashes' = crashes
    BY <1>6 DEF RequestPlan
  <2> QED BY <2>1 DEF HandedInvariant
<1>7. ASSUME NEW c \in Client, NEW r \in Run \cup {0}, Start(c, r) PROVE HandedInvariant'
  <2>1. /\ Moves(c) /\ job' = job /\ crashes' = crashes /\ thread[c].at = "idle"
        /\ thread'[c].at = "scan"
    BY <1>7, StartFacts DEF Start
  <2> QED BY <1>a, <2>1 DEF Hands, Storing, Tells
<1>8. ASSUME NEW c \in Client, NEW r \in Run,
             RequestPause(c, r) \/ RequestStop(c, r) \/ RequestResume(c, r)
      PROVE  HandedInvariant'
  <2>1. /\ Moves(c) /\ job' = job /\ crashes' = crashes /\ thread[c].at = "idle"
        /\ thread'[c].at = "check" /\ thread'[c].then \in {"idle", "resume"}
        /\ thread'[c].run = r /\ thread'[c].copy.status = job[r].status
        /\ \/ thread'[c].copy.pause = TRUE
           \/ thread'[c].copy.pause = job[r].pause
           \/ thread'[c].then = "resume"
    BY <1>8, AskFacts
  <2>2. \A s : ~Hands(thread[c], s)
    BY <2>1 DEF Hands, Storing
  <2>3. HandsOn /\ Settles
    BY <2>1, <2>2, ClientHands
  <2>4. crashes = 0 => Tells(thread', thread'[c])
    BY <2>1, <2>3 DEF HandedInvariant, HandsOn, Settles, Tells
  <2> QED BY <1>a, <2>1, <2>2, <2>4
<1>9. ASSUME NEW w \in Worker, Work(w) PROVE HandedInvariant'
  <2> DEFINE r == thread[w].run
  <2>1. /\ Moves(w) /\ thread'[w].run = r /\ thread'[w].source = thread[w].source
        /\ job' = job /\ crashes' = crashes /\ WorkerMove(w) /\ r \in Run
    BY <1>0, <1>9, WorkFacts, ReadFacts
  <2>2. Decided(thread[w]) => Decided(thread'[w])
    BY <2>1 DEF Decided, Storing, WorkerMove
  <2>3. HandsOn /\ Settles
    BY <2>1, <2>2, WorkerHands
  <2>4. Decided(thread'[w]) => ~Undecided(thread', r)
    <3>1. thread'[w].at # "new"
      BY <2>1 DEF WorkerMove
    <3> QED BY <2>1, <3>1 DEF Owned, Apart, Undecided
  <2>5. ASSUME crashes = 0 PROVE Tells(thread', thread'[w])
    <3>1. /\ job[r].status = "resumed" => Handed(thread', r)
          /\ job[r].status = "paused" /\ ~job[r].pause /\ Undecided(thread, r)
               => Handed(thread', r)
      BY <2>1, <2>3, <2>5 DEF HandedInvariant, HandsOn
    <3>2. CASE thread'[w].at # "check"
      BY <2>1, <3>2 DEF WorkerMove, Tells
    <3>3. CASE thread'[w].at = "check" /\ thread'[w].then = "settle"
      <4>1. ~Undecided(thread', r)
        BY <2>4, <3>3 DEF Decided, Storing
      <4>2. thread[w].at = "result" => Undecided(thread, r)
        BY DEF Undecided, Decided, Storing
      <4>3. thread'[w].copy.status = "resumed" => Handed(thread', r)
        BY <2>1, <3>1, <3>3, <4>2 DEF WorkerMove
      <4> QED BY <2>1, <4>1, <4>3 DEF Tells
    <3>4. CASE thread'[w].at = "check" /\ thread'[w].then # "settle"
      BY <2>1, <3>4 DEF WorkerMove, Tells
    <3> QED BY <3>2, <3>3, <3>4
  <2> QED BY <1>0, <2>1, <2>3, <2>5, HandedMove
<1>10. ASSUME NEW t \in Thread, Preserve(t) PROVE HandedInvariant'
  <2>0. /\ Moves(t) /\ thread[t].at = "check" /\ thread'[t].at = "write"
        /\ thread'[t].then = thread[t].then
        /\ thread'[t].run = thread[t].run /\ thread'[t].source = thread[t].source
        /\ \/ thread'[t].copy = thread[t].copy
           \/ job[thread[t].run].status = "resumed" /\ thread'[t].copy.status = "resumed"
        /\ job' = job /\ crashes' = crashes /\ thread[t].run \in Run
    BY <1>10, PreserveFacts, ReadFacts DEF Preserve, Unnumbered
  <2>1. HandsOn /\ Settles
    <3>1. CASE t \in Client
      BY <2>0, <3>1, ClientHands DEF Hands, Storing
    <3>2. CASE t \in Worker
      <4>1. Decided(thread[t]) => Decided(thread'[t])
        BY <2>0 DEF Decided, Storing
      <4> QED BY <2>0, <3>2, <4>1, WorkerHands
    <3> QED BY <3>1, <3>2 DEF Thread
  <2>2. ASSUME crashes = 0 PROVE Tells(thread', thread'[t])
    <3>1. Tells(thread', thread[t])
      BY <2>1, <2>2, TellsKept DEF HandedInvariant
    <3>2. job[thread[t].run].status = "resumed" => Handed(thread', thread[t].run)
      BY <2>0, <2>1, <2>2 DEF HandedInvariant, HandsOn
    <3> QED BY <2>0, <3>1, <3>2 DEF Tells
  <2> QED BY <2>0, <2>1, <2>2, HandedMove
<1>11. ASSUME NEW t \in Thread, Replace(t) PROVE HandedInvariant'
  <2> DEFINE x == thread[t]
  <2>0. /\ Moves(t) /\ x.at = "write" /\ thread'[t].at = x.then
        /\ thread'[t].then = x.then /\ thread'[t].copy = x.copy
        /\ thread'[t].run = x.run /\ thread'[t].source = x.source
        /\ x.run \in Run /\ job'[x.run] = x.copy
        /\ \A r \in Run \ {x.run} : job'[r] = job[r]
        /\ crashes' = crashes
    BY <1>11, ReplaceFacts DEF Replace
  <2>1. /\ t \in Client => x.then \in {"announce", "idle", "resume", "handoff"}
        /\ t \in Worker => x.then \in {"prepare", "pausing", "settle", "failing"}
    BY <1>0, <2>0 DEF ClientRole, WorkerRole
  <2> HIDE DEF x
  <2>2. HandsOn /\ Settles
    <3>1. CASE t \in Client
      <4>1. \A r : Hands(thread[t], r) => Hands(thread'[t], r)
        BY <2>0, <2>1, <3>1 DEF Hands, Storing, x
      <4> QED BY <2>0, <3>1, <4>1, ClientHands
    <3>2. CASE t \in Worker
      <4>1. Decided(thread[t]) => Decided(thread'[t])
        BY <2>0, <2>1, <3>2 DEF Decided, Storing, x
      <4> QED BY <2>0, <3>2, <4>1, WorkerHands DEF x
    <3> QED BY <3>1, <3>2 DEF Thread
  <2> SUFFICES ASSUME crashes' = 0
               PROVE  /\ \A r \in Run : job'[r].status = "resumed" => Handed(thread', r)
                      /\ \A r \in Run : /\ job'[r].status = "paused" /\ ~job'[r].pause
                                        /\ Undecided(thread', r)
                                        => Handed(thread', r)
                      /\ \A u \in Thread : Tells(thread', thread'[u])
    BY DEF HandedInvariant
  <2>3. Tells(thread, x) /\ Tells(thread', x)
    BY <2>0, <2>2, TellsKept DEF HandedInvariant, x
  <2>4. ASSUME NEW r \in Run, job'[r].status = "resumed" PROVE Handed(thread', r)
    <3>1. CASE r = x.run
      BY <2>0, <2>3, <2>4, <3>1 DEF Tells
    <3>2. CASE r # x.run
      BY <2>0, <2>2, <2>4, <3>2 DEF HandedInvariant, HandsOn
    <3> QED BY <3>1, <3>2
  <2>5. ASSUME NEW r \in Run, job'[r].status = "paused", ~job'[r].pause, Undecided(thread', r)
        PROVE  Handed(thread', r)
    <3>1. CASE r = x.run /\ x.then # "resume"
      BY <2>0, <2>3, <2>5, <3>1 DEF Tells
    <3>2. CASE r = x.run /\ x.then = "resume"
      <4>1. t \in Client
        BY <2>1, <3>2 DEF Thread
      <4>2. Hands(thread'[t], r)
        BY <2>0, <2>5, <3>2 DEF Hands
      <4> QED BY <4>1, <4>2 DEF Handed
    <3>3. CASE r # x.run
      BY <2>0, <2>2, <2>5, <3>3 DEF HandedInvariant, HandsOn, Settles
    <3> QED BY <3>1, <3>2, <3>3
  <2>6. ASSUME NEW u \in Thread PROVE Tells(thread', thread'[u])
    <3>1. CASE u = t
      <4>1. thread'[t].at \notin {"check", "write"}
        BY <2>0, <2>1 DEF Thread
      <4> QED BY <3>1, <4>1 DEF Tells
    <3>2. CASE u # t
      <4>1. thread'[u] = thread[u] /\ Tells(thread, thread[u])
        BY <2>0, <3>2 DEF Moves, HandedInvariant
      <4> QED BY <2>2, <4>1, TellsKept
    <3> QED BY <3>1, <3>2
  <2> QED BY <2>4, <2>5, <2>6
<1>12. CASE ServerCrash
  <2>1. crashes' = crashes + 1 /\ crashes \in Nat
    BY <1>12, ThreadFacts DEF ServerCrash, TypeInvariant, TypeOK
  <2>2. crashes' # 0
    BY <2>1
  <2> QED BY <2>2 DEF HandedInvariant
<1>13. CASE UNCHANGED vars
  BY <1>13 DEF vars, HandedInvariant
<1> QED
  BY <1>1, <1>2, <1>3, <1>4, <1>5, <1>6, <1>7, <1>8, <1>9, <1>10, <1>11, <1>12, <1>13
     DEF Next, Request, Serve, Saving

-----------------------------------------------------------------------------
(* The theorems. *)

LEMMA JobStart == OneClient /\ Init => JobInvariant
<1> SUFFICES ASSUME OneClient, Init PROVE JobInvariant
  OBVIOUS
<1>1. TypeInvariant
  BY TypeStart
<1>2. /\ \A c \in Client : thread[c] = Fresh("idle") /\ c \in Thread
      /\ \A w \in Worker : thread[w] = Fresh("new") /\ w \in Thread
      /\ \A r \in Run : job[r] = Absent
      /\ runs = 0
  BY ThreadFacts DEF Init
<1>3. \A p \in {"idle", "new"} : Fresh(p).at = p /\ Fresh(p).run = 0 /\ Fresh(p).source = 0
  BY FreshFacts DEF Places
<1>4. /\ \A c \in Client : thread[c].at = "idle" /\ thread[c].source = 0
      /\ \A w \in Worker : thread[w].at = "new" /\ thread[w].run = 0 /\ thread[w].source = 0
      /\ \A r \in Run : job[r].status = "absent"
  BY <1>2, <1>3, JobFacts
<1>5. \A t \in Thread : thread[t].at \in {"idle", "new"} /\ thread[t].source = 0
  BY <1>4 DEF Thread
<1>6. Slots
  <2>1. \A w \in Worker : w > 0
    BY DEF Worker
  <2> QED BY <1>2, <1>4, <2>1 DEF Slots, Reserves
<1>7. Owned
  BY <1>4, <1>5 DEF Owned, ClientRole, WorkerRole, Apart, Holds, Storing
<1>8. QuietInvariant
  BY <1>4, <1>5 DEF QuietInvariant, Stills, Storing, Fresher
<1>9. HandedInvariant
  BY <1>4, <1>5 DEF HandedInvariant, Tells
<1> QED BY <1>1, <1>6, <1>7, <1>8, <1>9 DEF JobInvariant

LEMMA JobStep == OneClient /\ JobInvariant /\ [Next]_vars => JobInvariant'
<1> SUFFICES ASSUME OneClient, JobInvariant, [Next]_vars PROVE JobInvariant'
  OBVIOUS
<1>1. TypeInvariant /\ Slots /\ Owned /\ QuietInvariant /\ HandedInvariant
  BY DEF JobInvariant
<1>2. TypeInvariant' /\ Slots' /\ Owned'
  BY <1>1, TypeStep, OwnedStep
<1> QED BY <1>1, <1>2, QuietStep, HandedStep DEF JobInvariant

LEMMA JobsStaySound == ASSUME OneClient PROVE Spec => []JobInvariant
<1>1. Init => JobInvariant
  BY JobStart
<1>2. JobInvariant /\ [Next]_vars => JobInvariant'
  BY JobStep
<1> QED BY <1>1, <1>2, PTL DEF Spec

\* With one request at a time, no run directory is ever given to two workers, and a
\* recovery run never works beside the run it recovers: whatever the number of runs,
\* pauses, hand-overs and crashes (next_run_id, active_run, resume_run).
THEOREM WorkersKeepOff == ASSUME OneClient PROVE Spec => []WorkersDoNotOverlap
<1>1. JobInvariant => WorkersDoNotOverlap
  <2> SUFFICES ASSUME JobInvariant PROVE WorkersDoNotOverlap
    OBVIOUS
  <2>1. OneWorkerPerRun
    BY DEF JobInvariant, Owned, Apart, OneWorkerPerRun, Serves
  <2>2. SourceIsQuiet
    BY DEF JobInvariant, QuietInvariant, Quiet, Busy, SourceIsQuiet, Serves, Executes
  <2> QED BY <2>1, <2>2 DEF WorkersDoNotOverlap
<1> QED BY <1>1, JobsStaySound, PTL

\* With one request at a time and no crash, a run that is marked as handed over has its
\* recovery run, or the request that creates it is on its way: whatever the source run
\* returns meanwhile and in whatever order the two write the job file (set_result,
\* resume_run, _preserve_resumed_status).
THEOREM HandOversAreReal == ASSUME OneClient PROVE Spec => []ResumedIsHandedOver
<1>1. JobInvariant => ResumedIsHandedOver
  BY DEF JobInvariant, HandedInvariant, Handed, ResumedIsHandedOver
<1> QED BY <1>1, JobsStaySound, PTL
=============================================================================
