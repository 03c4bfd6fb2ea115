SPECIFICATION Spec
CONSTANTS
  c1 = c1
  c2 = c2
  k1 = k1
  s1 = s1
  s2 = s2
  o1 = o1
  o2 = o2
  None = None
  Claims = {c1, c2}
  Delivery <- SameDelivery
  Contracts = {k1}
  Owners = {o1, o2}
  Sessions = {s1, s2}
  LeaseOwner <- OwnOwner
  Commands = {"ingest_file", "ingest_due", "contract", "deployment"}
  Deployed = k1
  MaxAttempts = 2
  LeaseItemLimit = 50
  MaxDueTransitions = 1
  MaxIntents = 1
  MaxStateRevision = 11
  MaxDeployments = 4
  MaxBoundary = 0
  MaxFaults = 0
  MaxCrashes = 0
INVARIANTS
  OneClaimPerDelivery
PROPERTIES
  TerminalIsFinal
  StagedInEpoch
  EpochOpensQuietly
  PublicationIsOrdered
SYMMETRY SessionSymmetry
CHECK_DEADLOCK FALSE
