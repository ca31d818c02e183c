CONSTANTS
  m = m
  t1 = t1
  Accounts = {m}
  Conns = {c1, c2, c3}
  Tenants = {t1}
  Ids = {i1, i2}
  Rooms = {}
  Addrs = {}
  None = None
  Moderators <- ModeratorPairs
  Admins <- ModeratorPairs
  MaxUsers = 2
  RepeatLogin = FALSE
SYMMETRY Symmetry
SPECIFICATION SessionsSpec
INVARIANTS OwnsOrTold BanKeepsOut
\* Every connection is used once: when all are closed nothing is left to do.
CHECK_DEADLOCK FALSE
