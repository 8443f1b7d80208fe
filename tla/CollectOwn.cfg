SPECIFICATION Spec
CONSTANTS
  StopAreas = {a1, a2}
  Ids = {i1, i2}
  None = None
  MaxResources = 1
  MaxRetry = 0
  Persistent = FALSE
  BroadcastPersistent = FALSE
  CollectChildren = {}
  MaxTroubles = 1
INVARIANTS
  TypeOK
  SubscribedOnce
  SubscribedAtRemote
  
SYMMETRY Symmetry
CHECK_DEADLOCK FALSE
