CONSTANTS
  Base = 2
  LenSize = 2
  RingRoom = 5
  Payloads <- AnyPayloads
  MaxPackages = 3
SPECIFICATION Spec
PROPERTY ImplementsChannel
CHECK_DEADLOCK FALSE
