SPECIFICATION SystemSpec
CONSTANTS
  c1 = c1
  c2 = c2
  Clients = {c1, c2}
  None = None
  MaxSockets = 3
  MaxFd = 2
  Width = 2
  MaxIssued = 2
SYMMETRY Interchangeable
INVARIANTS
  OwnNumbers
  OneWriteInDoubt
  VerdictsAgree
  FewToldWrong
  OverclaimBounded
CHECK_DEADLOCK FALSE
