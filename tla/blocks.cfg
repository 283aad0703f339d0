SPECIFICATION Spec
CONSTANTS
  MaxCells = 8
  MaxHeld = 3
INVARIANTS
  NothingDangles
  OneOwner
  OnlyBytesLeak
PROPERTY
  DestroyTakesAll
CHECK_DEADLOCK FALSE
