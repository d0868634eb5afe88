SPECIFICATION FairSpec
CONSTANTS
  BufferCount = 2
  LastFrame = 2
  MaxInput = 1
  Devices = 1
  MaxPrepared = 2
  VtMaySwitch = TRUE
  DriverMayReject = FALSE
  MayFail = {}
PROPERTY WaitEndsInFlip
\* main() returns.
CHECK_DEADLOCK FALSE
