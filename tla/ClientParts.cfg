CONSTANTS
  u1 = u1
  w1 = w1
  u2 = u2
  p1 = p1
  p2 = p2
  Threads = {u1, w1, u2}
  ProcOf <- Processes
  UI = {u1, u2}
  Sessions = {1, 2}
  MaxTokens = 3
  MaxCalls = 3
  MaxMishaps = 1
  NoSession = NoSession
  x = x
  y = y
  a1 = a1
  a2 = a2
  HubAccounts = {x, y}
  Addresses = {a1, a2}
  HubAddress = HubAddress
  TaskIds = {1, 2}
  MaxActs = 3
  NoAccount = NoAccount
  NoTask = NoTask
  NoList = NoList
  NoDialog = NoDialog
  Gone = Gone
  Untyped = Untyped
  Streams = {1, 2}
  MinPreBuffer = 1
  StreamingMin = 3
  MaxPreBuffer = 5
  Increase = 2
  Decrease = 1
  MaxOrders = 3
  NoStream = NoStream
  Links = {1, 2}
  Captures = {1, 2, 3}
  Playbacks = {1, 2}
  UserInterface = UserInterface
  NoDevice = NoDevice
  r1 = r1
  r2 = r2
  Rooms = {r1, r2}
  Connections = {1, 2}
  MaxRoomCalls = 2
  NoRoom = NoRoom
  NoLink = NoLink
SYMMETRY Symmetry
SPECIFICATION PartsSpec
INVARIANTS SessionSurvives LogoutHolds HubViewAgrees AddressKept StreamStoppable StreamingFloor MicrophoneOwned SpeakerOwned RoomAgreed MicrophoneInRoom
\* Calls, acts, streams, devices and connections are used up.
CHECK_DEADLOCK FALSE
