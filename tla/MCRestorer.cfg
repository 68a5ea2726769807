SPECIFICATION Spec
CONSTANTS
  None = None
  Wanted <- MCWanted
  Geom <- MCGeom
  Device <- MCDevice
  Chunk = 2
  Unsafe <- MCUnsafe
  Callers <- Everyone
  Homes = {"source", "other"}
  Foreign <- MCForeign
  MaxRuns = 2
  MaxKills = 1
  MaxFaults = 1
  MaxForeign = 1
CHECK_DEADLOCK FALSE
INVARIANT
  ManifestIsTrue
PROPERTY
  OnlyNewFiles
