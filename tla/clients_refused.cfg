SPECIFICATION FairSpec
CONSTANTS
  c1 = c1
  c2 = c2
  c3 = c3
  Clients = {c1, c2, c3}
  None = None
  MaxSockets = 3
  MaxFd = 3
  Failing = {}
PROPERTIES
  RoomIsUsed
CHECK_DEADLOCK FALSE
