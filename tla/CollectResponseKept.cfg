SPECIFICATION UpdatesSpec
CONSTANTS
  p = p
  q = q
  v1 = v1
  v2 = v2
  v3 = v3
  s1 = s1
  s2 = s2
  j1 = j1
  j3 = j3
  l1 = l1
  l3 = l3
  Collectors = {p}
  Stops = {s1, s2}
  Visits = {v1, v2, v3}
  Journeys = {j1, j3}
  Lines = {l1, l3}
  StopOf <- MCStopOf
  JourneyOf <- MCJourneyOf
  LineOf <- MCLineOf
  Provides <- MCProvides
  Requested = {s1}
  Absent = Absent
  Ways = {"request"}
  Monitoring = {TRUE}
  MaxAnswers = 1
INVARIANT
  ResponseKept
CHECK_DEADLOCK FALSE
