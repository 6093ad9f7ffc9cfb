SPECIFICATION Spec
CONSTANTS
  Clients = {c1}
  MaxIterations = 2
  FirstEvidence <- MCFirst
  LaterEvidence <- MCLater
  MaxRuns = 3
  MaxOwnRuns = 2
  MaxCrashes = 1
INVARIANTS
  TypeOK
  OneRepairPerSource
  VerdictsAgree
CHECK_DEADLOCK FALSE
