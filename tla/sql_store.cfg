SPECIFICATION Spec
CONSTANTS
  Ids = {i1, i2}
  Users = {u1}
  Keys = {}
  Challenges = {c1}
  Fallback = fallback
  Nil = Nil
  SessionTtl = 1
  t1 = t1
  t2 = t2
  p1 = p1
  p2 = p2
  Threads = {t1, t2}
  Connections = {p1, p2}
  Inputs <- MCInputs
  Deployments <- MCDeployments
  FaultsPossible = TRUE
  MaxTime = 1
INVARIANTS SqlTypeOK RowsStayDeleted UnsharedUpdateIsTruthful ListingComplete
PROPERTIES SweptWasExpired MutexReleased
