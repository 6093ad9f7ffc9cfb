SPECIFICATION Spec
CONSTANTS
  T001 = T001
  T002 = T002
  T003 = T003
  T004 = T004
  T005 = T005
  Task <- ForkTask
  Deps <- ForkDeps
  Kind <- ForkKind
  Priority <- ForkPriority
  IdRank <- ForkRank
  MaxAttempts = 2
  MaxIterations = 20
  WorkerOutcomes <- MostOutcomes
  ReleaseOutcomes <- FewReleases
  Scores = {TRUE}
  Controls = {"stop", "pause"}
  RepairTargets = {}
  Selections <- AnyTask
  MaxCrashes = 1
  MaxResumes = 2
  MaxReruns = 0
CHECK_DEADLOCK FALSE
INVARIANTS
  TypeOK
  OneInFlight
  StopIsExplained
  AttemptsBounded
PROPERTIES
  FinishedIsFinal
  RecoveryClearsWhatItCan
  DispatchIsCurrent
