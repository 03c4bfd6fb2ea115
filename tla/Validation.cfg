SPECIFICATION Spec
CONSTANTS
  e1 = e1
  e2 = e2
  Null = Null
  Evaluations = {e1, e2}
  Rules <- MCRules
  FrameKinds <- MCFrameKinds
  Policies <- MCPolicies
  MaxFrames = 4
  Budgets = {4, 5, 40}
  TagSize = 1
  UnitSize = 1
  MaxScratchBytes = 42
  CapacityBytes = 7
  MaxStarts = 2
INVARIANTS
  ValidationInvariant
  SpillIsTransparent
PROPERTIES
  EndsWithoutScopes
CHECK_DEADLOCK FALSE
