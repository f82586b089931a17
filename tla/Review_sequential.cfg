SPECIFICATION Spec
CONSTANTS
  w1 = w1
  w2 = w2
  c1 = c1
  c2 = c2
  c3 = c3
  s1 = s1
  s2 = s2
  k1 = k1
  Workers = {w1}
  CandIds = {c1, c2, c3}
  Spans = {s1}
  Codes = {k1}
  NoCode = NoCode
  NoSpan = NoSpan
  MaxVersion = 4
  DualApproval = FALSE
  Ops = {"patch", "bulk", "create", "complete", "export", "reprocess"}
  PatchGoals = {"approved", "rejected", "suggested"}
  OcrOutcomes = {FALSE}
  IfMatches = {0}
INVARIANTS
  OneCandidatePerSpan
  ArtifactMatchesManifest
PROPERTIES
  HumanRedactionsKept
  FindingsCovered
  VersionBumpsOnChange
SYMMETRY Symmetry
CHECK_DEADLOCK FALSE
