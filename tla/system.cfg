SPECIFICATION SystemSpec
CONSTANTS
  Ids = {i1}
  Users = {u1}
  Keys = {k1}
  Challenges = {1, 2, 3, 4, 5, 6}
  Fallback = fallback
  Nil = Nil
  SessionTtl = 1
  MaxTime = 2
  StoreMayFail = FALSE
  EntropyMayFail = FALSE
  AllocMayFail = TRUE
  KeyType <- MCKeyType
  Authorizations = {}
  Authorization = Nil
  TokenShapes <- MCTokenShapes
  Server = server
  Workers = {server}
  Clients = {b1}
  KeyOf <- MCKeyOf
  MaxLost = 2
  MaxFailed = 1
  MaxRounds = 1
INVARIANTS SystemTypeOK BoundIsAgreed
PROPERTIES ImplementsManager RefusedOnlyWhenGone RegistrationRefusedOnlyWhenDone RefreshSettles ShutsDown
CONSTRAINT InOrder
CHECK_DEADLOCK FALSE
