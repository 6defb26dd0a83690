SPECIFICATION Spec
CONSTANTS
  Ids = {i1, i2}
  Users = {u1}
  Keys = {}
  Challenges = {c1}
  Fallback = fallback
  Nil = Nil
  SessionTtl = 1
  Clients = {p1, p2}
  Inputs <- MCInputs
  ClockAhead = 0
  Ahead <- MCAhead
  CommandsMayFail = FALSE
  MaxTime = 2
  StackDepth = 6
SYMMETRY Symmetry
INVARIANT DeletedIsGone
