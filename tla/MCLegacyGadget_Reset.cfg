SPECIFICATION FairSpec
CONSTANTS
  NumInterfaces = 2
  None = None
  Handles <- ExactHandles
  Fits <- FixedFits
  MaxQueue = 2
  ResetDisables = FALSE
  EnableMayFail = FALSE
  NumEps = 6
  FetchMayFail = FALSE
  HostRequests = {"set_configuration"}
  BusEvents = {"reset"}
PROPERTIES
  ResetDisablesAll
CHECK_DEADLOCK FALSE
