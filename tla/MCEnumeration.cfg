SPECIFICATION Spec
CONSTANTS
  WLengths <- HostLengths
  Serials <- ShortAndLong
INVARIANTS
  TypeOK
  ChainSound
  FindsWhatIsEnabled
  StringsExist
CHECK_DEADLOCK FALSE
