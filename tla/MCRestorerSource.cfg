SPECIFICATION Spec
CONSTANTS
  None = None
  Wanted <- MCWanted
  Geom <- MCGeom
  Device <- MCDevice
  Chunk = 2
  Unsafe <- MCUnsafe
  Callers <- Everyone
  Homes = {"source", "other"}
  Foreign <- MCForeign
  MaxRuns = 1
  MaxKills = 0
  MaxFaults = 0
  MaxForeign = 0
CHECK_DEADLOCK FALSE
INVARIANT
  SourceIsUntouched
