SPECIFICATION Spec
CONSTANTS
  Checks = {c1, c2}
  Policies <- AllPolicies
  MaxRevision = 3
  MaxReleases = 2
INVARIANTS
  TypeOK
  CompletedIsTrue
  MergesAreSound
PROPERTIES
  ReleaseEnds
CHECK_DEADLOCK FALSE
