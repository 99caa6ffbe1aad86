CONSTANTS
  u1 = u1
  u2 = u2
  n1 = n1
  n2 = n2
  a = a
  b = b
  NoRelease = NoRelease
  Runs <- MCRunsTwo
  Clusters <- MCClustersTwo
  Monitored = {1}
  Namespaces = {n1}
  ClusterNs <- MCClusterNsTwo
  Releases = {a}
  RelCluster <- MCRelClusterOne
  RelNs <- MCRelNsOne
  RevisionsCount = 1
  StepSize = 1
  MaxVersion = 3
  InitLen = {2}
SPECIFICATION Spec
INVARIANTS
  DeletedOnlyIfArchived
  RetainNewest
  SweptReleaseConverged
PROPERTIES
  RunTerminates
CHECK_DEADLOCK FALSE
