SPECIFICATION FairSpec
CONSTANTS
  NThreads = 2
  MaxWrites = 3
  k1 = k1
  k2 = k2
  v1 = v1
  v2 = v2
  None = None
  Junk = Junk
  Keys = {k1}
  Values = {v1}
  LongValues = {}
  Messages <- FewMessages
PROPERTY
  EveryWriteCertified
CHECK_DEADLOCK FALSE
