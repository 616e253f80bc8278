CONSTANTS
  CAPACITY = 4
  Elem = {e1, e2}
  None = None
  Handle = {h1, h2, h3}
  Data = {d1, d2, d3, d4}
  Null = Null
  Priority = {0, 1}
  MaxProcedures = 4
  Address = {a1, a2}
  MaxObjects = 3
  MaxHandles = 2
  Class = {"Station", "Unit"}
  AssetId = {"sprite"}
  FolderName = {"assets", "mods"}
  AssetFile <- Files
  Place = {l1, l2}
  NoName = "none"
  MaxInside = 1
  MaxCreations = 2
  Flag <- Flags
  Handled <- HandledFlags
  FlagArgument = {"-b", "-n", "--num", "-s", "5", "-v", "-h"}
  MaxArguments = 4
  Numeral <- Numerals
  NumberWidth = 2
  Shape <- Shapes
  SizeBits = 16
  MaxGenerations = 2
  Strength = {4}
  NotFinite = NotFinite
  Point = {0, 4}
  Eps = 2
  MaxPhysicsSteps = 3
  Volume = {0, 1, 2}
  Distance = {0, 2, 4}
  m_minDistance = 1
  m_maxDistance = 3
  ModuleName = {n0, n1, n2}
  DefaultName = n0
  ModuleClass = {c1, c2}
  ModulePlace = {p1, p2, p3}
  NullModule = NullModule
SPECIFICATION SpecUtilities
SYMMETRY UtilitySymmetry
INVARIANT FreedWithLastHandle
INVARIANT EachOnceInOrder
INVARIANT LoadablesReady
INVARIANT RunsIfWellFormed
INVARIANT EdgesMeet
INVARIANT RestingReplicaAgrees
INVARIANT NumbersStayFinite
INVARIANT SoundsAsItsState
INVARIANT OneModuleActive
PROPERTY ImplementsQueue
PROPERTY OnlyTheLivingReached
CHECK_DEADLOCK FALSE
