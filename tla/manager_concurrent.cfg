SPECIFICATION Spec
CONSTANTS
  Ids = {i1, i2}
  Users = {u1, u2}
  Keys = {k1, k2}
  Challenges = {c1, c2, c3}
  Fallback = fallback
  Nil = Nil
  SessionTtl = 1
  KeyType <- MCKeyType
  Authorizations = {a1}
  StoreMayFail = FALSE
  MaxTime = 2
  Workers = {w1, w2}
  TokenShapes <- ForgedShapes
  Authorization = Nil
  EntropyMayFail = FALSE
  AllocMayFail = FALSE
CONSTRAINT EnoughChallenges
SYMMETRY ForgedSymmetry
INVARIANTS ProvenPossession ClosedStaysClosed
PROPERTY SessionIdentityStable
