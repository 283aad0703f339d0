SPECIFICATION Spec
CONSTANTS
  NThreads = 1
  MaxWrites = 1
  k1 = k1
  k2 = k2
  v1 = v1
  v2 = v2
  None = None
  Junk = Junk
  Keys = {k1, k2}
  Values = {v1}
  LongValues = {}
  Messages <- WriteMessages
PROPERTY
  WritesItsKey
CHECK_DEADLOCK FALSE
