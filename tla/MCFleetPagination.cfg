CONSTANTS
  MaxId = 4
  InitCount = 3
  MonitorIds = {1, 2, 3, 4}
  CapiIds = {2}
  UpdatingIds = {2}
  CapiEnabled = TRUE
  StepSize = 2
SPECIFICATION Spec
INVARIANTS
  NoClusterSweptTwice
PROPERTIES
  ScanRefined
CHECK_DEADLOCK FALSE
