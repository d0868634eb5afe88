SPECIFICATION Spec
CONSTANTS
  BufferCount = 3
  MaxPlanes = 3
  OpenFds = {0, 1, 2, 3}
  OtherHandles = {6}
INVARIANTS
  TypeOK
  FbUsesOwnHandle
  CreatedComplete
  FbRemovedFirst
  NothingLeft
CHECK_DEADLOCK FALSE
