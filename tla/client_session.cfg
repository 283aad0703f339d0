SPECIFICATION FairSpec
INVARIANTS
  TypeOK
  InStep
  NoUseAfterFree
PROPERTY CallReturns
CHECK_DEADLOCK FALSE
