SPECIFICATION Spec
CONSTANTS
  Ids = {i1, i2}
  Users = {u1}
  Keys = {}
  Challenges = {c1}
  Fallback = fallback
  Nil = Nil
  SessionTtl = 1
  Clients = {p1}
  Inputs <- MCInputs
  ClockAhead = 1
  Ahead <- MCAhead
  CommandsMayFail = TRUE
  MaxTime = 2
  StackDepth = 6
INVARIANTS RedisTypeOK IndexComplete DeletionTakesEffect ExpiredIsShortLived
PROPERTY CallsEnd
