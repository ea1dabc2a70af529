SPECIFICATION Spec
CONSTANTS
  NumInterfaces = 2
  None = None
  t1 = t1 t2 = t2
  Threads = {t1, t2}
  Handles <- PooledHandles
  Fits <- PooledFits
  MaxQueue = 2
  ResetDisables = FALSE
  EnableMayFail = TRUE
  CloseWakes = FALSE
  HostRequests = {"set_configuration", "get_descriptor"}
  BusEvents = {"reset"}
  FetchErrors = {"EAGAIN", "EINTR"}
SYMMETRY ThreadSymmetry
PROPERTIES
  ImplementsLink
INVARIANTS
  TypeOK
  TablePublished
  OneReader
  NoSharedHandle
  NotMisdirected
CHECK_DEADLOCK FALSE
