SPECIFICATION Spec
CONSTANTS
  NumInterfaces = 2
  None = None
  Handles <- SpareHandles
  Fits <- AnyFits
  MaxQueue = 2
  ResetDisables = FALSE
  EnableMayFail = TRUE
  NumEps = 6
  FetchMayFail = TRUE
  HostRequests = {"set_configuration", "get_descriptor", "vendor_out", "class"}
  BusEvents = {"reset", "disconnect", "connect"}
INVARIANTS
  TypeOK
  GuessIsRight
  NotMisdirected
  Answered
CHECK_DEADLOCK FALSE
