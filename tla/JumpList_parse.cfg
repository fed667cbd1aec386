CONSTANTS
  Stream <- MCStreams
  Length <- MCLength
  Version <- MCVersion
  Declared <- MCDeclared
  Written <- MCWritten
  Chars <- MCPathLength
  Number <- MCNumber
  LinkNumber <- MCLinks
SPECIFICATION FairSpec
INVARIANTS
  NoOverrun
  NoShortList
  WholeIsParsed
PROPERTIES
  ParseEnds
CHECK_DEADLOCK FALSE
