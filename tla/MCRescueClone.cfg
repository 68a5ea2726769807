SPECIFICATION MCFairSpec
CONSTANTS
  N = 5
  Content <- MCContent
  Dead = {2}
  Flaky = {1, 4}
  Options <- SafeRuns
  Bytes = {"zero", "fill", "a", "b"}
  MaxRuns = 3
  MaxKills = 2
  NoFile = NoFile
  TornMap = TornMap
  NoRun = NoRun
  Size = 5
  BlockStatuses = {tried, bad, nontried}
  NonTried = nontried
CHECK_DEADLOCK FALSE
INVARIANTS
  FinishedIsCopied
  CompleteIsFaithful
  DamageIsLocalised
  BlocksAreTheRuns
  TornFileIsSmaller
PROPERTIES
  StatusOnlyAdvances
  RunEnds
