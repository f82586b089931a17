SPECIFICATION FairSpec
CONSTANTS
  w1 = w1
  w2 = w2
  d1 = d1
  d2 = d2
  Workers = {w1, w2}
  Docs = {d1, d2}
  Linked = {d2}
  Request = Request
  NoDoc = NoDoc
  Nobody = Nobody
  Serves <- Roles
  Archive = {d1}
  Holdable = {d2, Request}
  MaxCrashes = 1
  NewStatuses = {"active", "canceled"}
INVARIANTS
  DeletedIsCertified
PROPERTIES
  HoldBlocksDeletion
  PurgingOffboardCancels
  DueEventuallyPurged
CHECK_DEADLOCK FALSE
