CONSTANTS
  Rooms = {r1}
  Tasks = {1, 2}
  Sockets = {1, 2}
  MaxAttempts = 2
  MaxActs = 3
  None = None
SPECIFICATION FairSpec
INVARIANTS TypeOK OneLifeline DisconnectIsFinal RoomKept
PROPERTIES ReconnectEnds
CONSTRAINT Explored
CHECK_DEADLOCK FALSE
