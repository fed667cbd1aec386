CONSTANTS
  NumImages = 2
  PathOf <- MCTwoCorpora
  PluginName <- MCPluginName
  Requests <- MCOneRequest
  DefaultPlugins <- MCDefault
  MaxRuns = 2
SPECIFICATION Spec
INVARIANTS
  SkippedIsFull
CHECK_DEADLOCK FALSE
