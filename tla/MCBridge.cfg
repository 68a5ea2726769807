SPECIFICATION FairSpec
CONSTANTS
  Transfers <- MCTransfers
  Contents <- MCContents
  Pad = "pad"
  MaxFile = 2
  MaxConnections = 2
  NoFile = NoFile
  NoManifest = NoManifest
CHECK_DEADLOCK FALSE
INVARIANTS
  AckMeansIntact
  ManifestIsTheDirectory
  EndsKeepStep
PROPERTY
  SessionEnds
