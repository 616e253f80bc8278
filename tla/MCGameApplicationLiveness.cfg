CONSTANTS
  Heap = {h1}
  Shared = {s1}
  Stack = {}
  Tagged = {s1}
  Observer = {}
  None = None
  MaxTasks = 2
  MaxAdds = 2
  MessageId <- Messages
  MessageValue <- Values
  MaxMessages = 1
SPECIFICATION Spec
INVARIANT TasksRunOnce
PROPERTIES EveryEntityVisited RequestHonoured QuitHonoured
CHECK_DEADLOCK FALSE
