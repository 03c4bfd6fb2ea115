SPECIFICATION Spec
CONSTANTS
  c1 = c1
  c2 = c2
  k1 = k1
  s1 = s1
  s2 = s2
  o1 = o1
  o2 = o2
  None = None
  Claims = {c1, c2}
  Delivery <- DistinctDeliveries
  Contracts = {k1}
  Owners = {o1}
  Sessions = {s1}
  LeaseOwner <- OneOwner
  Commands = {"ingest_file", "ingest_due", "reconcile"}
  Deployed = k1
  MaxAttempts = 2
  LeaseItemLimit = 50
  MaxDueTransitions = 2
  MaxIntents = 3
  MaxStateRevision = 50
  MaxDeployments = 4
  MaxBoundary = 1
  MaxFaults = 2
  MaxCrashes = 1
INVARIANTS
  CommittedIsVisible
