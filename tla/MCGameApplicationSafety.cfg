CONSTANTS
  Heap = {h1}
  Shared = {s1}
  Stack = {}
  Tagged = {s1}
  Observer = {o1, o2}
  None = None
  MaxTasks = 1
  MaxAdds = 2
  MessageId <- Messages
  MessageValue <- Values
  MaxMessages = 2
SPECIFICATION Spec
SYMMETRY ObserverSymmetry
INVARIANTS PromicesMatchMessages NothingDangling ObserversAgree
PROPERTY MessagesServed
CHECK_DEADLOCK FALSE
