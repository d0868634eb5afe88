SPECIFICATION Spec
CONSTANTS
  ConnectorCount = 2
  CrtcCount = 2
  MaxFlips = 1
  CallsFail = TRUE
  ShortLists = TRUE
INVARIANTS
  TypeOK
  OneChain
  OnlyDisplayKept
  NothingLeft
CHECK_DEADLOCK FALSE
