CONSTANTS
  MaxVersion = 4
  MaxKeep = 3
SPECIFICATION Spec
INVARIANTS
  EvictionMatchesReference
CHECK_DEADLOCK FALSE
