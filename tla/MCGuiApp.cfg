\* Out of presses and restarts, with the mutex poisoned, nothing is left to do.
CHECK_DEADLOCK FALSE
SPECIFICATION Spec
CONSTANTS
  Filters <- MCFilters
  Scans = {1, 2}
  Modes = {"deep", "carve"}
  MaxFound = 1
  MaxSynthetic = 1
  MaxRestarts = 1
INVARIANTS
  ViewIsDense
  FoundIsListedOnce
  BusyIsItsScans
PROPERTY
  StopSticks
