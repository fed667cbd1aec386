CONSTANTS
  Stream <- MCOneStream
  Length <- MCLength
  Version <- MCVersion
  Declared <- MCDeclared
  Written <- MCWritten
  Chars <- MCPathLength
  Number <- MCTen
  LinkNumber <- MCTwoLinks
SPECIFICATION Spec
INVARIANTS
  CreatedIsOwn
CHECK_DEADLOCK FALSE
