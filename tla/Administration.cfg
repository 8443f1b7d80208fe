SPECIFICATION PtSpec
CONSTANTS
  PtIds = {i1, i2}
  c1 = c1
  c2 = c2
  sl1 = sl1
  sl2 = sl2
  PtSlugs = {sl1, sl2}
  PtCreds = {c1, c2}
  PtDefs <- PtMCDefs
  PtShared = {"modelGuardian", "broadcastManager"}
  PtThreads = {t1, t2}
  PtNone = PtNone
  PtMaxRequests = 2
INVARIANTS
  PtTypeOK
  CredentialsFound
  DispatcherPresent
  StartedRuns
  CrashNeedsRace
PROPERTIES
  DeletedLoopsEnd
CHECK_DEADLOCK FALSE
