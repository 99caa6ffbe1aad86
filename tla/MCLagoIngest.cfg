CONSTANTS
  NumEvents = 5
  Limit = 2
  MaxRetries = 2
SPECIFICATION Spec
INVARIANTS
  NoEventPastMalformed
CHECK_DEADLOCK FALSE
