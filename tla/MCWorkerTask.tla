---------------------------- MODULE MCWorkerTask ----------------------------
(* Two executions in one worktree: the second may edit what the first may not. *)
EXTENDS WorkerTaskProperties

CONSTANTS own, other

AllowedFiles == <<{own}, {other}>>
\* A worker with a time-out that cannot be cancelled does what one that is not cancelled does.
WatchKinds ==
  [limited : BOOLEAN, cancellable : BOOLEAN] \ {[limited |-> TRUE, cancellable |-> FALSE]}
=============================================================================
