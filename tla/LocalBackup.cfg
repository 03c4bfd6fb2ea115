SPECIFICATION Spec
CONSTANTS
  Deliveries = {1}
  None = None
  PageEntries = 2
  MaxBackups = 2
  MaxRestores = 1
  MaxFaults = 1
  MaxLosses = 1
INVARIANTS
  LocalRootInvariant
PROPERTIES
  RestoredIsOneMoment
CHECK_DEADLOCK FALSE
