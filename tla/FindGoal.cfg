SPECIFICATION Spec
CONSTANTS
  Phases = 2
  Modes = {TRUE}
  Revisions = {1, 2}
  EditPhases = {1}
  MaxRepairs = 0
  MaxPhases = 2
  MaxFinal = 1
  MaxRuns = 2
  MaxStarts = 3
INVARIANT GoalIsLocked
CHECK_DEADLOCK FALSE
