SPECIFICATION Spec
CONSTANTS
  a1 = a1
  a2 = a2
  a3 = a3
  Attempts = {a1, a2, a3}
  Payload <- MixedPayloads
  Undecodable = Undecodable
  Stream = stream
  NoIdentity = NoIdentity
  FramePage = 2
  DecisionPage = 50
  ReadChunk = 2
  PartialPermitted = TRUE
  MaxErrorPercent = 50
  MaxClock = 1
  MaxReleases = 2
  MaxCrashes = 1
  MaxSilent = 1
INVARIANTS
  RowAcceptedOnce
  QuarantineInvariant
  CheckpointIsMaterialized
  EventsLostOnlyByCrash
CHECK_DEADLOCK FALSE
