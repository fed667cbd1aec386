CONSTANTS
  NumLogs = 2
  MaxItems = 3
SPECIFICATION Spec
INVARIANTS
  SidecarIsPrefix
  LossIsReported
  RestIsEmitted
  SidecarComplete
CHECK_DEADLOCK FALSE
