CONSTANTS
  Expected = {c1, c2}
  Unknown = other
  MaxRetries = 2
  MaxLength = 3
SPECIFICATION RetrySpec
CHECK_DEADLOCK FALSE
INVARIANTS
  ReturnedIsComplete
PROPERTIES
  UndisputedItemsStay
  RetriesNeverLose
