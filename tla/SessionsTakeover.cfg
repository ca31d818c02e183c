CONSTANTS
  m = m
  t1 = t1
  Accounts = {u1}
  Conns = {c1, c2}
  Tenants = {t1}
  Ids = {i1, i2}
  Rooms = {}
  Addrs = {}
  None = None
  Moderators = {}
  Admins = {}
  MaxUsers = 2
  RepeatLogin = FALSE
SPECIFICATION SessionsSpec
PROPERTY CleanUpOwnSessionOnly
CHECK_DEADLOCK FALSE
