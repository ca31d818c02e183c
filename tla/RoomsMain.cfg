CONSTANTS
  a = a
  t1 = t1
  t2 = t2
  lobby1 = lobby1
  lobby2 = lobby2
  hall = hall
  booth = booth
  Accounts = {a, u}
  Conns = {c1, c2}
  Tenants = {t1, t2}
  Ids = {i1, i2}
  Rooms = {lobby1, lobby2, hall, booth}
  Addrs = {}
  None = None
  TenantOf <- TenantOfRoom
  Ancestors <- AboveRoom
  Lobby <- LobbyOfTenant
  Limit <- LimitOfRoom
  Locked = {hall}
  Initial = {lobby1, lobby2, hall}
  NoTenant = t1
  Moderators <- AdminPairs
  Admins <- AdminPairs
  MaxRequests = 5
  MaxOverlapping = 4
SYMMETRY Symmetry
SPECIFICATION RoomsSpec
INVARIANTS RoomOfOwnTenant NobodyInDeletedRoom LimitUpToOverlap ListMatchesRoom
\* The messages are used up, or every connection is closed.
CHECK_DEADLOCK FALSE
