CONSTANTS
  m = m
  t1 = t1
  Accounts = {u1, m}
  Conns = {c1, c2}
  Tenants = {t1}
  Ids = {i1, i2}
  Rooms = {}
  Addrs = {}
  None = None
  Moderators <- ModeratorPairs
  Admins = {}
  MaxUsers = 1
  RepeatLogin = TRUE
SPECIFICATION FairSessionsSpec
INVARIANTS MapsConsistent CapacityUpToOverlap NoGhosts
PROPERTY ClosedConnectionGivesUpSession
\* Every connection is used once: when all are closed nothing is left to do.
CHECK_DEADLOCK FALSE
