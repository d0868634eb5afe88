\* Two cards of any kind, two input devices, all three ways to get at them.
CONSTANTS
  Cards = 2
  Inputs = {"keyboard", "mouse"}
  Builds = {"direct", "logind", "seatd"}
  MaxFd = 8
SPECIFICATION Spec
INVARIANTS DescriptorsNameDevices HeldWhileOpen ClosedAtEnd
\* The program ends, or crashes.
CHECK_DEADLOCK FALSE
