CONSTANTS
  Accounts = {u1}
  Conns = {c1, c2}
  Tenants = {t1}
  Ids = {i1, i2}
  Rooms = {}
  Addrs = {}
  None = None
  Workers = {w1, w2}
  UdpTasks = {udp}
SPECIFICATION FairLocksSpec
INVARIANTS LookupConsistent SeenMapsConsistent
PROPERTIES ImplementsUserManager CallsReturnOrCycle
\* A lookup and a writer can wait for each other for ever (UserLocksUdp.cfg).
CHECK_DEADLOCK FALSE
