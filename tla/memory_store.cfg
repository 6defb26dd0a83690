SPECIFICATION Spec
CONSTANTS
  Ids = {i1, i2, i3}
  Users = {u1, u2}
  Keys = {k1}
  Challenges = {c1}
  Fallback = fallback
  Nil = Nil
  SessionTtl = 1
  Inputs <- MCInputs
  InitialCapacity = 1
  AllocMayFail = TRUE
  MaxTime = 1
  MaxSlots = 4
SYMMETRY Symmetry
INVARIANT MemoryTypeOK
PROPERTY ImplementsStore
