SPECIFICATION SvSpec
CONSTANTS
  p1 = p1
  p2 = p2
  p3 = p3
  l1 = l1
  l2 = l2
  a = a
  b = b
  RgThreads = {t1, t2}
  RgExts = {e1}
  RgIds = {i1, i2, i3}
  RgNone = RgNone
  RgConnectors = {"StopMonitoringBroadcast", "GeneralMessageBroadcast"}
  RgMaxRequests = 3
  RgMaxVisits = 1
  GcPriority <- SvPriority
  GcRequested = {l1, l2}
  GcAll = GcAll
  GcNone = GcNone
  GcFilters = {p1, p2}
  GcSubscribes = {p1, p2, p3}
  GcAnswers = {p2}
  GcPersistent = {p2}
  GcCollects <- SvCollects
  GcMaxRetry = 0
  SiThreads = {t1, t2}
  SiObjects = {a, b}
  SiTimes = {1, 2}
  SiNone = SiNone
  SiNotifications <- SvNotifications
  SiAnswers <- SvAnswers
  SiMaxReceived = 3
  SiMaxIds = 6
INVARIANTS
  RgServed
  RgUnique
  
PROPERTIES
  GcHandedOver
CHECK_DEADLOCK FALSE
