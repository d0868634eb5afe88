SPECIFICATION FairSpec
CONSTANTS
  BufferCount = 2
  MaxConfigures = 3
INVARIANTS TypeOK BufferAfterConfigure ChainsPerConfigure
PROPERTY SignalStops
\* main() returns, and the fullscreen shell sends nothing to dispatch.
CHECK_DEADLOCK FALSE
