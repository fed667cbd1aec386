CONSTANTS
  NumDbs = 3
  BaseOf <- MCBases
  SidesOf <- MCSides
  MaxRuns = 2
SPECIFICATION Spec
INVARIANTS
  ReadsItsOwn
  CleansUp
CHECK_DEADLOCK FALSE
