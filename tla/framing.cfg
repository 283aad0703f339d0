SPECIFICATION FairSpec
CONSTANTS
  Lengths = {1, 3}
  LenBytes = 2
  Cap = 3
  Nothing = Nothing
INVARIANTS
  NothingSkipped
  HalfDuplex
PROPERTIES
  CallEnds
  WholeMessages
CHECK_DEADLOCK FALSE
