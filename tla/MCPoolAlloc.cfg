\* Two users share three blocks.
CONSTANTS
  u1 = u1
  u2 = u2
  NULL = NULL
  NumBlocks = 3
  User = {u1, u2}
SPECIFICATION Spec
INVARIANTS
  TypeOK
  FreeListIntact
PROPERTIES
  ImplementsPool
  TakeIsExclusive
  SectionsHold
