SPECIFICATION FairSpec
CONSTANTS
  ImageCount = 3
  MayFail = {"wait", "acquire", "record", "map", "reset", "submit", "present", "idle"}
  MaxFailed = 2
INVARIANTS CpuWaitsForGpu DrawsOwnImage SemaphoresPaired
PROPERTY StopsWhenAsked
\* main() returns, and the program hangs where a call has failed.
CHECK_DEADLOCK FALSE
