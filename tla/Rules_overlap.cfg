SPECIFICATION Spec
CONSTANTS
  Workers = {w1, w2}
  Packs = {starter, p1}
  Starter = starter
  Keys = {k1}
  Values = {a}
  Drafts = {d1}
  Docs = {doc1}
  MaxVersion = 3
  MaxFaults = 1
  MayOverlap <- AllPairs
SYMMETRY Symmetry
CHECK_DEADLOCK FALSE
INVARIANTS
  TypeOK
  AcceptedEnter
  AppliedReleased
PROPERTIES
  VersionsSettle
  DraftsSettle
