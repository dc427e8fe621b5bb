CONSTANTS
  Batch = {x, y}
  SourceCount = 2
  Doc = {d, e}
  Claim <- MCClaim
  MaxReopened = 1
SPECIFICATION Spec
CHECK_DEADLOCK FALSE
INVARIANTS
  CompletedBatchIsFaithful
PROPERTIES
  OneBatchOwnsTheRun
