SPECIFICATION FairSpec
CONSTANTS
  MaxSessions = 3
  Numbers = {0, 1, 2}
  None = None
INVARIANTS
  TypeOK
  OwnGadget
  StealsAtMostOne
PROPERTIES
  DropFreesUdc
CHECK_DEADLOCK FALSE
