SPECIFICATION Spec
CONSTANTS
  c1 = c1
  c2 = c2
  c3 = c3
  Clients = {c1, c2, c3}
  None = None
  MaxSockets = 3
  MaxFd = 2
  Failing = {"accept", "poll"}
SYMMETRY Interchangeable
INVARIANTS
  TypeOK
  SlotsOpen
  ReadsReady
  OneAnswerEach
CHECK_DEADLOCK FALSE
