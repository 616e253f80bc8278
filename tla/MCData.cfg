CONSTANTS
  Slot = {"s1", "s2"}
  MaxData = 4
  Setting = {x, y}
  SettingValue <- Values
  MaxConnections = 2
  MaxSets = 3
  MaxRestarts = 1
  JsonValue <- Documents
  MaxBlanks = 1
  MaxCycles = 2
  PathSymbol = {"/", ".", "a", "b"}
  MaxPathLength = 6
  ExePath <- Executables
  Field <- Fields
  MaxFields = 2
  InputEvent <- Events
  MaxInputEvents = 3
  Vertices <- Shapes2D
  Place2D <- Places2D
SPECIFICATION SpecData
SYMMETRY DataSymmetry
INVARIANT SettingsKept
INVARIANT WatchersHeard
INVARIANT JsonRoundTrip
INVARIANT PathsResolve
INVARIANT WrittenIsRead
INVARIANT InputSeen
INVARIANT TextIsTyped
INVARIANT CollisionsResolved
PROPERTY OwnsItsValue
CHECK_DEADLOCK FALSE
