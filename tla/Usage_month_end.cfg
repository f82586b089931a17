SPECIFICATION FairSpec
CONSTANTS
  w1 = w1
  w2 = w2
  Workers = {w1, w2}
  Nobody = Nobody
  Serves <- Duties
  Uploads <- SomeFiles
  Pages = {4}
  Included = 4
  None = None
  Orgs <- Agencies
  MaxRecords = 2
  MaxMonth = 2
  MaxPosts = 0
  MaxFaults = 1
CHECK_DEADLOCK FALSE
INVARIANTS
  TypeOK
  StampedIsBilled
PROPERTIES
  PilotStopsAtCap
  ReportedInItsMonth
  ThresholdsAnnounced
