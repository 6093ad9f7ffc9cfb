SPECIFICATION Spec
CONSTANTS
  own = own
  other = other
  Files = {own, other}
  Tracked = {own}
  MaxGrace = 1
  MaxEdits = 2
  Allowed <- AllowedFiles
  Watches <- WatchKinds
INVARIANTS
  TypeOK
  WorktreeIsRestored
  EndedIsGone
PROPERTIES
  ExecutionEnds
CHECK_DEADLOCK FALSE
