-------------------------- MODULE RoadmapProperties --------------------------
(***************************************************************************)
(* What the full-roadmap executor must keep across crashes, restarts and   *)
(* workers that outlive it.                                                *)
(***************************************************************************)
EXTENDS Roadmap

\* Typing of the executor's memory, its files and the worktrees.
TypeOK ==
  /\ pc \in {"down", "select", "attempt", "working", "prove", "record", "save",
             "verify", "handover"}
  /\ locked \in Modes /\ blocked \in BOOLEAN /\ seen \in BOOLEAN
  /\ plan \in [Phase -> PlanStatus]
  /\ stored = <<>> \/ stored \in [Phase -> PlanStatus \ {"running"}]
  /\ kept \subseteq Record
  /\ phase \in Phase \cup {Final} /\ verdict \in {"done", "blocked"}
  /\ tree \in 0 .. Len(work) /\ written \in 0 .. MaxRepairs /\ count \in Nat
  /\ record \in [Phase -> [status : {"none", "done", "blocked"}, tree : Trees]]
  /\ proof \in [Phase -> {"none", "empty", "evidence"}]
  /\ run \in Nat /\ runs \in [Phase \cup {Final} -> Seq(RunDir)]
  /\ work \in Seq(SUBSET Phase) /\ strays \subseteq 0 .. Len(work)
  /\ {contract, built, starts} \subseteq Nat
  /\ report \in {"none", "running", "blocked", "done"}

\* Without goal lock, an attempt runs in a worktree with the work of every
\* accepted phase: neither a crash nor a repetition makes it start again from
\* the operator's checkout.
LegacyBuildsOnAccepted ==
  pc = "working" /\ ~locked => Accepted \ {phase} \subseteq WorkIn(tree)

\* A run reported done was verified in one worktree with the work of all
\* phases, and of a goal-locked run every edit left evidence.
DeliveredWhole ==
  report = "done" =>
    /\ Accepted = Phase
    /\ \E i \in DOMAIN runs[Final] : /\ runs[Final][i].result = "promotable"
                                     /\ Phase = WorkIn(runs[Final][i].tree)
    /\ locked => ProofsHold

\* The workers at work: those that the files of their attempt show, and strays.
AtWork ==
  LET seenIn(s) == {i \in DOMAIN runs[s] : runs[s][i].worker = "live"}
  IN  (UNION {{[tree |-> runs[s][i].tree, of |-> <<s, i>>] : i \in seenIn(s)} :
                s \in Phase \cup {Final}})
      \cup {[tree |-> t, of |-> <<>>] : t \in strays}

\* Two workers are at work in one worktree only if one of them is a stray: no attempt starts
\* where a worker is at work that its files show, over any crashes and restarts.  A stray
\* is not seen (interrupted_phase_resume_source looks at running records with a live pid
\* only), and the next attempt may start beside it.
OneWorkerPerTree ==
  \A v, w \in AtWork : v.tree = w.tree /\ v # w => <<>> \in {v.of, w.of}

\* Repairs, repeated verification and the phases still to run are bounded: an
\* invocation ends.
InvocationEnds == pc # "down" ~> pc = "down"

\* The executor implements the abstract delivery of phases in order.
Delivery == INSTANCE PhaseDelivery WITH
  accepted <- Accepted, delivered <- report = "done"
ImplementsDelivery == Delivery!Spec

\* phase_repository_path (1050): "Once a phase succeeds in an isolated
\* worktree, later phases must continue in that same worktree instead of
\* starting again from the original checkout."
ContinuesInAcceptedWorktree ==
  pc = "working" => Accepted \ {phase} \subseteq WorkIn(tree)

\* docs/196:61: "an existing goal-locked objective revision cannot be replaced
\* during resume."
GoalIsLocked == pc = "working" /\ locked => contract = built
=============================================================================
