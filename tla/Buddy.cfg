\* Pages 3..10: chunks of order 2 at 4 only, buddies cut off at both ends.
SPECIFICATION FairSpec
CONSTANTS
  BUDDY_MAX_ORDER = 3
  StartPage = 3
  NPages = 8
  NULL = NULL
INVARIANTS
  TypeOK
  NoPanic
  MarksOwned
  ListsRight
  Tiling
  Coalesced
  FreeMemSize
PROPERTIES
  PhysSpec
  CallReturns
