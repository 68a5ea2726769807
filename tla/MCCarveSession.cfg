SPECIFICATION FairSpec
CONSTANTS
  photo = photo
  other = other
  Sources = {photo, other}
  Hits <- MCHits
  Bad <- MCBad
  RangeStart = 1
  RangeEnd = 9
  BlockBytes = 2
  Overlap = 1
  MaxCandidates = 7
  Suppress = TRUE
  FirstSegment = 4
  MaxSegmentBlocks = 3
  MaxStarts = 2
  MaxKills = 3
  MaxStops = 2
  NoCheckpoint = NoCheckpoint
  NoDevice = NoDevice
INVARIANTS
  CommittedRowsAreTheScan
  CompleteIsWholeScan
  OwnIndexIsAccepted
PROPERTIES
  CommittedWorkIsKept
  ImplementsCarveJob
  EventuallyComplete
  StopIsObeyed
