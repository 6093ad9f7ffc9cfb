SPECIFICATION Spec
CONSTANTS
  T001 = T001
  T002 = T002
  T003 = T003
  T004 = T004
  T005 = T005
  Task <- ForkTask
  Deps <- ForkDeps
  Kind <- ForkKind
  Priority <- ForkPriority
  IdRank <- ForkRank
  MaxAttempts = 2
  MaxIterations = 6
  WorkerOutcomes <- FewOutcomes
  ReleaseOutcomes <- AllReleases
  Scores = {TRUE}
  Controls = {"stop"}
  RepairTargets = {T001}
  Selections <- AnyOrOne
  MaxCrashes = 1
  MaxResumes = 1
  MaxReruns = 1
CHECK_DEADLOCK FALSE
INVARIANTS
  DependenciesHold
  RunInvariant
  BlockersAreLive
  DoneIsWhole
  ReviewCoversWork
