SPECIFICATION Spec
CONSTANTS
  ec1 = ec1
  ec2 = ec2
  rsa1 = rsa1
  junk = junk
  Ids = {i1}
  Users = {u1}
  Keys = {ec1, ec2, rsa1, junk}
  Challenges = {c1, c2, c3, c4}
  Fallback = fallback
  Nil = Nil
  SessionTtl = 0
  KeyType <- MCKeyType
  Authorizations = {}
  Tokens <- MCTokens
SYMMETRY Symmetry
INVARIANTS AcceptedIsOwned ReplayOnlyWithoutMemory RegisteredKeyRefreshes
