CONSTANTS
  Base = 2
  LenSize = 2
  RingRoom = 5
  Payloads <- AnyPayloads
  MaxPackages = 3
  SendRoom = 7
SPECIFICATION Spec
PROPERTY ImplementsChannel
PROPERTY DeliveredOrNoticed
CHECK_DEADLOCK FALSE
