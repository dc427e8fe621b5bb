CONSTANTS
  Run = {a, b}
  ChunkCount = 2
  MaxFaults = 2
  MaxPrepares = 1
SPECIFICATION Spec
CHECK_DEADLOCK FALSE
INVARIANTS
  RefusedRunsExtractNothing
  SettledRunsAreConsistent
PROPERTIES
  BlockedOnlyByRefusal
  SettlesOrIsBlocked
  ImplementsRunStatus
