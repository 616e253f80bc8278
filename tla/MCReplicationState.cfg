CONSTANTS
  Conn = {c1, c2}
  ClientIds = 2
  Value = {v1}
  Default = v0
  MaxEntities = 2
  MaxAssigns = 1
  MaxEvents = 0
  MayStop = FALSE
  None = None
SPECIFICATION Spec
SYMMETRY ConnSymmetry
INVARIANTS NothingNotFound NoEntityMissing WrittenValuesArrive
PROPERTY OnlyRemovedVanish
CHECK_DEADLOCK FALSE
