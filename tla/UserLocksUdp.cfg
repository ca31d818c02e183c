CONSTANTS
  Accounts = {u1}
  Conns = {c1}
  Tenants = {t1}
  Ids = {i1, i2}
  Rooms = {}
  Addrs = {}
  None = None
  Workers = {w1}
  UdpTasks = {udp}
SPECIFICATION FairLocksSpec
PROPERTY LoginAnswered
CHECK_DEADLOCK FALSE
