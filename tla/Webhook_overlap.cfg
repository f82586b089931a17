SPECIFICATION FairSpec
CONSTANTS
  Workers = {w1, w2}
  Subs = {s1}
  Deliveries = {d1, d2}
  Nobody = Nobody
  NoSub = NoSub
  MaxAttempts = 3
  MaxFaults = 2
CHECK_DEADLOCK FALSE
INVARIANTS
  GivenUpAfterAllAttempts
  ReportedChangeCommits
PROPERTIES
  SettledStaysSettled
  RetriedUntilSettled
