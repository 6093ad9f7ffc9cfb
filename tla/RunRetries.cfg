SPECIFICATION FairSpec
CONSTANTS
  T001 = T001
  T002 = T002
  T003 = T003
  T004 = T004
  T005 = T005
  Task <- ShortTask
  Deps <- ShortDeps
  Kind <- ShortKind
  Priority <- ShortPriority
  IdRank <- ShortRank
  MaxAttempts = 3
  MaxIterations = 20
  WorkerOutcomes <- DebugOutcomes
  ReleaseOutcomes <- FewReleases
  Scores = {TRUE}
  Controls = {"stop"}
  RepairTargets = {}
  Selections <- AnyTask
  MaxCrashes = 0
  MaxResumes = 0
  MaxReruns = 0
CHECK_DEADLOCK FALSE
INVARIANTS
  RepairsAreBounded
PROPERTIES
  Ends
