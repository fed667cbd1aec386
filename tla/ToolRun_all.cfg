CONSTANTS
  Tools <- AllTools
  NumFiles = 2
  MaxRows = 2
SPECIFICATION Spec
INVARIANTS
  ExitZeroMeansDelivered
  OutputHasNoGaps
  EmptyIsNoSuccess
  FatalTwoDeliversTheRest
CHECK_DEADLOCK FALSE
