SPECIFICATION FairSpec
CONSTANTS
  None = None
  Slots = {0, 1}
  Readers = {0, 1}
  ServedBy <- OwnReader
  MaxSent <- OneKeyTwice
  MaxWire = 1
  JunkTo = {0}
INVARIANTS
  TypeOK
PROPERTIES
  ImplementsMailbox
  Delivered
CHECK_DEADLOCK FALSE
