CONSTANTS
  None = None
  EndOfChain = EndOfChain
  NoCluster = NoCluster
  CommonStarts <- Starts
  MaxCandidates = 16
  MaxEntryBytes = 1024
  MaxDepth = 3
  MaxDirClusters = 4
  MaxRecords = 30
  ChunkRecords = 4
  MaxPath = 6
  MaxAttrs = 4
  MaxBytesPerBlock = 4
  Common = {0}
  MaxNeedles = 4
  MaxSamples = 3
  ClusterBytes = 2
  MaxExtentDepth = 2
  Names = {"a", "b"}
  Systems = {"fat", "ntfs", "ext4"}
  MaxOps <- Lengths
  FatSize = 4
  DirSlots = 2
  NtfsRecords = 3
  NtfsBump = {"reuse", "free"}
  JournalSize = 9
  DataBlocks = 2
  Inputs <- MCInputs
  Ids = {i1, i2}
  Texts = {t1, t2}
  Cells = 1
  MaxPages = 4
SPECIFICATION Spec
INVARIANTS
  FatTreeIsListed
  NtfsPathsAreTrue
  DeletedIsLocated
  LiveIsCommitted
  GoneRowsAreRecovered
  DisksAreReadRight
  StructuresAreWhole
  ExtentsAreExact
  SplicesAreSeen
  PrefilterLosesNothing
  RatingFollowsEvidence
SYMMETRY Symmetry
CHECK_DEADLOCK FALSE
