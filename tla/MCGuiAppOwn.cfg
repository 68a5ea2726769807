CHECK_DEADLOCK FALSE
SPECIFICATION Spec
CONSTANTS
  Filters <- MCFilters
  Scans = {1, 2}
  Modes = {"wizard"}
  MaxFound = 1
  MaxSynthetic = 0
  MaxRestarts = 0
INVARIANT
  OwnResultsOnly
