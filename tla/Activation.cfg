SPECIFICATION SpecEstate
CONSTANTS
  o1 = o1
  o2 = o2
  noContract = noContract
  noSnapshot = noSnapshot
  Operators = {o1, o2}
  Contracts <- ContractsOfTheTable
  NoContract = noContract
  NoSnapshot = noSnapshot
  MaxAncestry = 3
  MaxRevision = 9
  p = p
  q = q
  two = two
  bad = bad
  wide = wide
  dev = dev
  prod = prod
  none = none
  edited = edited
  Products = {p, q}
  Texts = {two, bad, wide}
  Bindings = {dev, prod}
  Relations <- TheRelations
  Private <- ThePrivate
  Ledgered = {two}
  Refuses <- TheRefusals
  OverBudget = {wide}
  Lands = TRUE
  Absent = none
  Edited = edited
  MaxPasses = 2
  MaxDeaths = 1
  MaxChanges = 1
INVARIANTS
  RegistryInvariant
  TreesAreCurrent
PROPERTIES
  ActivationIsPlanned
  PassesRespectTrees
CHECK_DEADLOCK FALSE
