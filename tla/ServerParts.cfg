CONSTANTS
  f0 = f0
  f2 = f2
  Files = {f0, f2}
  Blocks <- BlocksOfFile
  MaxAsked = 3
  Nothing = Nothing
  ann = ann
  bob = bob
  a1 = a1
  b1 = b1
  b2 = b2
  c1 = c1
  c2 = c2
  r1 = r1
  r2 = r2
  t0 = t0
  t1 = t1
  t2 = t2
  Accounts = {ann, bob}
  Conns = {a1, b1, b2}
  AccountOf <- ChatAccounts
  MaxMessages = 2
  MaxMoves = 1
  MaxFailures = 1
  None = None
  Room = Room
  Uploads = {u1, u2}
  Clients = {c1, c2}
  Rooms = {r1, r2}
  Tenants = {t0, t1, t2}
  TenantOfClient <- ClientTenants
  TenantOfRoom <- RoomTenants
  NoTenant = t0
  Nobody = Nobody
  MaxUpload = 2
  FileLimit = 3
  TenantDefault = 3
  MaxFaults = 1
  u1 = u1
  u2 = u2
  s1 = s1
  s2 = s2
  ip = ip
  n1 = n1
  n2 = n2
  n3 = n3
  i1 = i1
  i2 = i2
  sub = sub
  Sockets = {s1, s2}
  AddrOf <- AddressOf
  Names = {n1, n2, n3}
  Uids = {i1, i2}
  NameOf <- DisplayNames
  SubServers = {sub}
  OwnerOf <- SubOwner
  MaxFails = 1
  MaxRows = 3
  MaxAttempts = 3
  MaxRequests = 1
  MaxMishaps = 1
  Nil = Nil
  v1 = v1
  v2 = v2
  Users = {v1, v2}
  RoomIds = {r1, r2}
  MaxCommands = 3
  Nowhere = Nowhere
  NoJob = NoJob
SYMMETRY Symmetry
SPECIFICATION PartsSpec
INVARIANTS ReceivedOnceOrStored InOrderOfSending LimitUpToUnseen DiskIsAccounted RowsAreWhole DownloadsAreWhole FailuresUpToOverlap EntersOwnAccount OneLobbyPerTenant ViewConverges
\* The messages, uploads, connections and attempts are used up.
CHECK_DEADLOCK FALSE
