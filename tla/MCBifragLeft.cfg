SPECIFICATION Spec
CONSTANTS
  None = None
  Clusters <- MCClusters
  DiskClusters = 6
  ClusterBytes = 2
  Phases = 2
  Landmarks = 4
  FirstWindow = 1
  WindowFactor = 2
  MaxGapClusters = 3
  MaxClusters = 7
  MaxUnverified = 1
  ContinuationWindow = 2
  RunClusters = 2
  LookaheadClusters = 2
  Budget = 40
INVARIANTS
  AbandonedIsUnverified
