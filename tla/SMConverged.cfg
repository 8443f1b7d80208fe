SPECIFICATION Spec
CONSTANTS
  Subs = {s1}
  StopVisits = {v1}
  NoState = NoState
  ChanCap = 2
  Threshold = 1
  Times = {1, 2}
  Statuses = {"onTime"}
  MaxVersion = 3
  MaxGen = 1
  Own = {}
  OffLine = {}
  LineFilters = {FALSE}
  MayNotBuild = {}
  MayDelete = {}
INVARIANT
  Converged
CHECK_DEADLOCK FALSE
