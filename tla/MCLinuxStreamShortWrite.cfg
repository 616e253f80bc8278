CONSTANTS
  Base = 2
  LenSize = 2
  RingRoom = 5
  Payloads <- SmallPayloads
  MaxPackages = 3
  SendRoom = 7
SPECIFICATION Spec
INVARIANT InOrder
CHECK_DEADLOCK FALSE
