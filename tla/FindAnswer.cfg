SPECIFICATION Spec
CONSTANTS
  T001 = T001
  T002 = T002
  T003 = T003
  T004 = T004
  T005 = T005
  Task <- ShortTask
  Deps <- ShortDeps
  Kind <- ShortKind
  Priority <- ShortPriority
  IdRank <- ShortRank
  MaxAttempts = 2
  MaxIterations = 20
  WorkerOutcomes <- FewOutcomes
  ReleaseOutcomes <- FewReleases
  Scores = {TRUE}
  Controls = {}
  RepairTargets = {}
  Selections <- AnyTask
  MaxCrashes = 1
  MaxResumes = 1
  MaxReruns = 0
CHECK_DEADLOCK FALSE
INVARIANTS
  CompletedByAnAnswer
