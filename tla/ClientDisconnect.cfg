CONSTANTS
  Rooms = {r1}
  Tasks = {1}
  Sockets = {1}
  MaxAttempts = 1
  MaxActs = 2
  None = None
SPECIFICATION FairSpec
PROPERTIES DisconnectReachesServer
CHECK_DEADLOCK FALSE
