CONSTANTS
  NumEvents = 5
  Limit = 2
  MaxRetries = 2
SPECIFICATION Spec
INVARIANTS
  ExhaustedRetriesReported
CHECK_DEADLOCK FALSE
