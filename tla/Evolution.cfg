SPECIFICATION Spec
CONSTANTS
  detail = detail
  nothing = nothing
  a = a
  b = b
  Satellites = {detail}
  Declarations <- SectionsOfASatellite
  Values = {0, 1}
  First = 0
  MaxInstant = 1
  MaxVersion = 2
  MaxEdits = 2
  MaxDeliveries = 2
  Nothing = nothing
INVARIANTS
  VaultInvariant
  ChangeIsStored
PROPERTIES
  StoredHistoryIsKept
CHECK_DEADLOCK FALSE
