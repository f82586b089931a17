SPECIFICATION Spec
CONSTANTS
  w1 = w1
  w2 = w2
  u1 = u1
  u2 = u2
  Workers = {w1, w2}
  Users = {u1, u2}
  Orgs = {o1, o2, o3}
  Invites = {i1, i2}
  Grants = {g1}
  Conns = {c1}
  Unset = Unset
  MaxAttempts = 2
  Roles = {"agency_admin"}
  Statuses = {"active", "deactivated"}
  Actor <- OnePerUser
SYMMETRY Symmetry
CHECK_DEADLOCK FALSE
INVARIANTS
  TenantIsolation
PROPERTIES
  JoinedByInvite
  DecidedOnce
