SPECIFICATION FairSpec
CONSTANTS
  NumInterfaces = 1
  None = None
  t1 = t1 t2 = t2
  Threads = {t1}
  Handles <- FixedHandles
  Fits <- FixedFits
  MaxQueue = 2
  ResetDisables = TRUE
  EnableMayFail = TRUE
  CloseWakes = TRUE
  HostRequests = {"get_descriptor", "vendor_out", "class", "set_configuration"}
  BusEvents = {"reset", "disconnect", "suspend"}
  FetchErrors = {"EAGAIN", "EINTR"}
INVARIANTS
  Answered
PROPERTIES
  WaitReadyReturns
  ResetForgets
  DropReturns
CHECK_DEADLOCK FALSE
