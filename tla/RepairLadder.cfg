SPECIFICATION Spec
CONSTANTS
  Findings <- MCFindings
  Signals <- MCSignals
  MaxFailures = 1
INVARIANTS
  TypeOK
  GatesRanLast
PROPERTIES
  PreservedWasRun
  SplitsStay
  QuietRunDelivers
