CONSTANTS
  Slot = {"s1", "s2"}
  MaxData = 4
SPECIFICATION SpecVariants
INVARIANT EqualIsSameNumber
CHECK_DEADLOCK FALSE
