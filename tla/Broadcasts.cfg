SPECIFICATION BcSpec
CONSTANTS
  EtNone = EtNone
  GmNone = GmNone
  l1 = l1
  EtSubs = {s1}
  EtLines = {l1}
  EtVisits = {v1, v2}
  EtLineOf <- BcEtLineOf
  EtSaved <- BcEtSaved
  EtTimes = {3, 5}
  EtThreshold = 2
  EtMaxSaves = 2
  EtMaxRequests = 1
  GmSubs = {s1}
  GmSituations = {x1}
  GmLines = {l1}
  GmSaved <- BcGmSaved
  GmFilters <- BcGmFilters
  GmMaxRecorded = 2
  GmMaxRequests = 2
  GmHorizon = 2
INVARIANTS
  EtTypeOK
  EtLastStateTold
  EtDepartureTold
  GmTypeOK
  GmConverges
SYMMETRY BcSymmetry
CHECK_DEADLOCK FALSE
