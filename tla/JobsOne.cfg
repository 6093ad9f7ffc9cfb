SPECIFICATION FairSpec
CONSTANTS
  Client = {c1}
  MaxRuns = 3
  MaxControls = 1
  MaxCrashes = 1
CHECK_DEADLOCK FALSE
INVARIANTS
  TypeOK
  WorkersDoNotOverlap
  ResumedIsHandedOver
PROPERTIES
  StopEnds
