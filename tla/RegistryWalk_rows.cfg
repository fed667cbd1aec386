CONSTANTS
  Key <- MCKey
  Name <- MCName
  NumberOf <- MCNumber
  KeyName <- MCKeyName
  Hive <- MCHive
  Roots <- MCRoots
SPECIFICATION Spec
INVARIANTS
  EachRowOnce
  AbsolutePathHolds
  PositionsAreTheLists
CHECK_DEADLOCK FALSE
