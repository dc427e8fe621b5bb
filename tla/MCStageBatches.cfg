CONSTANTS
  BatchCount = 3
  Permits = 2
  MaxAttempts = 2
  Interval = 2
  RowCount = 2
SPECIFICATION Spec
CHECK_DEADLOCK FALSE
INVARIANTS
  CallsFollowPriming
  RowsAreStored
PROPERTIES
  RequestsAreSpaced
  GatherEnds
