SPECIFICATION DataSpec
CONSTANTS
  p = p
  q = q
  v1 = v1
  v2 = v2
  v3 = v3
  s1 = s1
  s2 = s2
  j1 = j1
  j3 = j3
  l1 = l1
  l3 = l3
  a = a
  b = b
  c = c
  Collectors = {p, q}
  Stops = {s1, s2}
  Visits = {v1, v2, v3}
  Journeys = {j1, j3}
  Lines = {l1, l3}
  StopOf <- DataStopOf
  JourneyOf <- DataJourneyOf
  LineOf <- DataLineOf
  Provides <- DataProvides
  Requested = {s1}
  Absent = Absent
  Ways = {"request", "notify", "push"}
  Monitoring = {TRUE, FALSE}
  MaxAnswers = 1
  CsvIds = {a, b, c}
  CsvDates = {1, 2}
  CsvFiles <- DataFiles
  CsvLoaders = {k1, k2}
  LoadMaxInsert = 2
  CsvMaxImports = 2
  DuRefs = {r1, r2}
  DuIds = {d1, d2}
  DuValues = {1, 2}
  DuThreads = {t1, t2}
  DuMaxChanges = 7
INVARIANTS
  UpdatesTypeOK
  
  AnswerApplied
  WithdrawsItsOwn
  CsvTypeOK
  ImportExact
  ModelOfToday
  RestoredAsSaved
  AcknowledgedKept
SYMMETRY DataSymmetry
CHECK_DEADLOCK FALSE
