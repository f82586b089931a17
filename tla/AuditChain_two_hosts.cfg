SPECIFICATION Spec
CONSTANTS
  w1 = w1
  w2 = w2
  h1 = h1
  h2 = h2
  o1 = o1
  o2 = o2
  Orgs = {o1, o2}
  LockKey <- DistinctKeys
  Writers = {w1, w2}
  Hosts = {h1, h2}
  MaxMs = 2
  IdsPerMs = 2
SYMMETRY Symmetry
INVARIANTS
  VerifiesIffInOrder
  SingleHostVerifies
CHECK_DEADLOCK FALSE
