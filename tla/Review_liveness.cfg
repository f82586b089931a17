SPECIFICATION FairSpec
CONSTANTS
  w1 = w1
  w2 = w2
  c1 = c1
  c2 = c2
  c3 = c3
  s1 = s1
  s2 = s2
  k1 = k1
  Workers = {w1, w2}
  CandIds = {c1}
  Spans = {s1}
  Codes = {k1}
  NoCode = NoCode
  NoSpan = NoSpan
  MaxVersion = 2
  DualApproval = TRUE
  Ops = {"patch", "complete", "escalate", "resolve", "reprocess"}
  PatchGoals = {"approved"}
  OcrOutcomes = {FALSE}
  IfMatches = {0}
PROPERTIES
  RequestsFinish
CHECK_DEADLOCK FALSE
