SPECIFICATION MCSpec
CONSTANTS
  N = 5
  Content <- MCContent
  Dead = {}
  Flaky = {2}
  Options <- OverwritingRuns
  Bytes = {"zero", "fill", "a", "b"}
  MaxRuns = 3
  MaxKills = 1
  NoFile = NoFile
  TornMap = TornMap
  NoRun = NoRun
  Size = 5
  BlockStatuses = {tried, bad, nontried}
  NonTried = nontried
CHECK_DEADLOCK FALSE
INVARIANT
  FinishedMeansCopied
