SPECIFICATION Spec
CONSTANTS
  None = None
  HostSlots = {0, 1}
  Packets <- AllPackets
  NumArgs = {0, 2, 257}
  SlotArgs <- SomeSlots
  RawData <- SomeData
  States <- SomeStates
  DemoArgs = {None, 2, 5}
  Given = Given
  Udcs = {1, 2}
  TickPeriod = 2
  MaxPerTick <- PerTick
INVARIANTS
  AutoDetects
CHECK_DEADLOCK FALSE
