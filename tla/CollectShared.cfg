SPECIFICATION Spec
CONSTANTS
  StopAreas = {a1, a2}
  Ids = {i1}
  None = None
  MaxResources = 0
  MaxRetry = 0
  Persistent = FALSE
  BroadcastPersistent = FALSE
  CollectChildren = {}
  MaxTroubles = 1
INVARIANT
  InFlightKept
SYMMETRY Symmetry
CHECK_DEADLOCK FALSE
