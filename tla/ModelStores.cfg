SPECIFICATION StoresSpec
CONSTANTS
  Classes = {"StopVisit"}
  Ids = {i1, i2}
  Kinds = {k1}
  Values = {v1, v2}
  Keys = {a1, a2}
  Threads = {t1, t2}
  None = None
  MaxOps = 2
INVARIANTS
  StoresTypeOK
  IndexedObjectsExist
  KeyIndexExact
  OwnObjectIdFound
  TxFindersAgree
SYMMETRY StoresSymmetry
CHECK_DEADLOCK FALSE
