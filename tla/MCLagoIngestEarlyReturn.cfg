CONSTANTS
  NumEvents = 5
  Limit = 2
  MaxRetries = 2
SPECIFICATION Spec
INVARIANTS
  AllBatchesAttempted
CHECK_DEADLOCK FALSE
