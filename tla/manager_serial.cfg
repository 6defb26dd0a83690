SPECIFICATION Spec
CONSTANTS
  Ids = {i1, i2}
  Users = {u1}
  Keys = {k1, k2}
  Challenges = {c1, c2}
  Fallback = fallback
  Nil = Nil
  SessionTtl = 1
  KeyType <- MCKeyType
  Authorizations = {a1}
  StoreMayFail = TRUE
  MaxTime = 2
  Workers = {w1}
  TokenShapes <- UnforgedShapes
  Authorization = a1
  EntropyMayFail = TRUE
  AllocMayFail = TRUE
CONSTRAINTS EnoughChallenges FewFallbacks
SYMMETRY Symmetry
INVARIANTS TypeOK KeyPinned SpentOnce AnnouncedChallengeIsCurrent CloseIsTruthful
