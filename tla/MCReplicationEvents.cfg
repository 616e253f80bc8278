CONSTANTS
  Conn = {c1, c2}
  ClientIds = 2
  Value = {v1}
  Default = v0
  MaxEntities = 0
  MaxAssigns = 0
  MaxEvents = 2
  MayStop = TRUE
  None = None
SPECIFICATION Spec
INVARIANTS IdsAgree EventsInOrder
PROPERTIES DisconnectSignalled StopNoticed EventsArrive
CHECK_DEADLOCK FALSE
