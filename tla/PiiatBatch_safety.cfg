CONSTANTS
  NumImages = 2
  PathOf <- MCTwoCorpora
  PluginName <- MCPluginName
  Requests <- MCRequests
  DefaultPlugins <- MCDefault
  MaxRuns = 2
SPECIFICATION FairSpec
INVARIANTS
  SummaryAddsUp
  VerdictsHold
  ExitZeroMeansSomething
  IdempotentRerun
  OutputOfItsImage
  ExitOneMeansNothing
  ProcessedIsNew
PROPERTIES
  DoneStaysDone
  LedgerSpec
  RunEnds
CHECK_DEADLOCK FALSE
