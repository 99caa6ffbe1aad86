CONSTANTS
  u1 = u1
  u2 = u2
  n1 = n1
  n2 = n2
  a = a
  b = b
  NoRelease = NoRelease
  Runs <- MCRunsOne
  Clusters <- MCClustersThree
  Monitored <- MCClustersThree
  Namespaces = {n1, n2}
  ClusterNs <- MCClusterNsThree
  Releases = {a, b}
  RelCluster <- MCRelCluster
  RelNs <- MCRelNs
  RevisionsCount = 1
  StepSize = 2
  MaxVersion = 3
  InitLen = {2}
SPECIFICATION Spec
INVARIANTS
  DeletedOnlyIfArchived
  RetainNewest
  SweptReleaseConverged
  EveryMonitoredClusterSwept
PROPERTIES
  RunTerminates
CHECK_DEADLOCK FALSE
