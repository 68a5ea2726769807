SPECIFICATION FairSpec
CONSTANTS
  card = card
  w1 = w1
  w2 = w2
  Sources = {card}
  Source = card
  Hits <- MCHits
  Bad <- MCBad
  RangeStart = 0
  RangeEnd = 13
  BlockBytes = 2
  Overlap = 1
  MaxCandidates = 9
  Suppress = TRUE
  From = 0
  To = 11
  Threads = {w1, w2}
  MaxPanics = 2
  NoWorker = NoWorker
  NoBlock = NoBlock
CHECK_DEADLOCK FALSE
INVARIANTS
  EveryHitOnce
  BuffersAreConserved
PROPERTY
  ScanEnds
