SPECIFICATION Spec
CONSTANTS
  NumInterfaces = 1
  None = None
  t1 = t1 t2 = t2
  Threads = {t1}
  Handles <- FixedHandles
  Fits <- FixedFits
  MaxQueue = 2
  ResetDisables = FALSE
  EnableMayFail = FALSE
  CloseWakes = FALSE
  HostRequests = {"set_configuration", "get_descriptor"}
  BusEvents = {"reset"}
  FetchErrors = {"EAGAIN", "EINTR"}
INVARIANTS
  ExitsOnlyWhenClosed
CHECK_DEADLOCK FALSE
