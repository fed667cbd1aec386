CONSTANTS
  Tools <- AllTools
  NumHives = 2
SPECIFICATION Spec
INVARIANTS
  NothingCarriedOver
  ParsesTheRightFile
  GoreNotesFallback
CHECK_DEADLOCK FALSE
