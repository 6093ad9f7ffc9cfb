SPECIFICATION Spec
CONSTANTS
  Phases = 2
  Modes = {TRUE}
  Revisions = {1}
  EditPhases = {1}
  MaxRepairs = 0
  MaxPhases = 2
  MaxFinal = 1
  MaxRuns = 2
  MaxStarts = 2
INVARIANT ContinuesInAcceptedWorktree
CHECK_DEADLOCK FALSE
