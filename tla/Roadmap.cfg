SPECIFICATION Spec
CONSTANTS
  Phases = 3
  Modes = {TRUE, FALSE}
  Revisions = {1}
  EditPhases = {1, 3}
  MaxRepairs = 1
  MaxPhases = 3
  MaxFinal = 2
  MaxRuns = 3
  MaxStarts = 2
INVARIANTS
  TypeOK
  LegacyBuildsOnAccepted
  DeliveredWhole
  
PROPERTIES
  ImplementsDelivery
  InvocationEnds
CHECK_DEADLOCK FALSE
