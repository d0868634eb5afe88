SPECIFICATION FairSpec
CONSTANTS
  BufferCount = 2
  LastFrame = 2
  MaxInput = 2
  Devices = 1
  MaxPrepared = 2
  VtMaySwitch = FALSE
  DriverMayReject = FALSE
  MayFail = {"write", "record", "map", "submit", "wait", "idle"}
INVARIANT ChainAlive
PROPERTY FramesKeepComing
PROPERTY CtrlCStops
\* main() returns.
CHECK_DEADLOCK FALSE
