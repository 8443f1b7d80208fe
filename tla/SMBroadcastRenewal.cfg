SPECIFICATION FairSpec
CONSTANTS
  Subs = {s1}
  StopVisits = {v1}
  NoState = NoState
  ChanCap = 1
  Threshold = 1
  Times = {1}
  Statuses = {"onTime", "departed"}
  MaxVersion = 2
  MaxGen = 2
  Own = {}
  OffLine = {}
  LineFilters = {FALSE}
  MayNotBuild = {}
  MayDelete = {v1}
PROPERTIES
  FeedSpec
  DepartureTold
CHECK_DEADLOCK FALSE
