SPECIFICATION FairSpec
CONSTANTS
  BufferCount = 2
  MaxConfigures = 1
PROPERTY CloseStops
\* main() returns, and the fullscreen shell sends nothing to dispatch.
CHECK_DEADLOCK FALSE
