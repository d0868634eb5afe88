SPECIFICATION Spec
CONSTANTS
  BufferCount = 3
  LastFrame = 2
  MaxInput = 2
  Devices = 1
  MaxPrepared = 2
  VtMaySwitch = TRUE
  DriverMayReject = TRUE
  MayFail = {"write", "record", "map", "submit", "wait", "idle"}
INVARIANT TypeOK
INVARIANT FlipInv
INVARIANT OneFlipInFlight
INVARIANT RendererOwnsBuffer
INVARIANT NoTearing
INVARIANT CommitsPopulated
INVARIANT HandlerDataAlive
INVARIANT TeardownComplete
PROPERTY ShownInOrder
\* main() returns.
CHECK_DEADLOCK FALSE
