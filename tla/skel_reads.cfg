SPECIFICATION FairSpec
CONSTANTS
  NThreads = 1
  MaxWrites = 3
  k1 = k1
  k2 = k2
  v1 = v1
  v2 = v2
  None = None
  Junk = Junk
  Keys = {k1, k2}
  Values = {v1, v2}
  LongValues = {v2}
  Messages <- ReadMessages
INVARIANT
  VerifyTellsTruth
PROPERTIES
  QuietReadsAnswered
  NeverStuck
CHECK_DEADLOCK FALSE
