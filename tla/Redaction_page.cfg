SPECIFICATION Spec
CONSTANTS
  c1 = c1
  c2 = c2
  NoCode = NoCode
  PerLine = 3
  MaxFindings = 3
  Texts <- TwoLines
  Scans <- Misread
  Spans <- SomeSpans
  Policies <- SomePolicies
  Allowlist <- OnlyD
  Quotes <- SomeQuotes
CHECK_DEADLOCK FALSE
INVARIANTS
  ApprovedIsGone
  DisagreementIsShown
  BlockedByLeftover
