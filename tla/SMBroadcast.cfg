SPECIFICATION Spec
CONSTANTS
  Subs = {s1}
  StopVisits = {v1}
  NoState = NoState
  ChanCap = 1
  Threshold = 1
  Times = {1, 2}
  Statuses = {"onTime", "departed"}
  MaxVersion = 3
  MaxGen = 1
  Own = {}
  OffLine = {}
  LineFilters = {FALSE}
  MayNotBuild = {v1}
  MayDelete = {v1}
INVARIANTS
  TypeOK
  LastStateAccounted
  DepartureNeverLost
CHECK_DEADLOCK FALSE
