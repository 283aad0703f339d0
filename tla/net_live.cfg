SPECIFICATION FairSpec
CONSTANTS
  c1 = c1
  c2 = c2
  c3 = c3
  Clients = {c1, c2}
  None = None
  MaxSockets = 3
  MaxFd = 2
  Failing = {}
INVARIANT
  EveryClientPolled
PROPERTIES
  AskedIsAnswered
  LeaverReleased
CHECK_DEADLOCK FALSE
