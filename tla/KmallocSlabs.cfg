SPECIFICATION Spec
CONSTANTS
  BUDDY_MAX_ORDER = 2
  StartPage = 2
  NPages = 6
  NULL = NULL
  BUDDY_PAGE_SIZE = 4
  SLAB_INIT_SIZE = 8
  SLAB_MIN_ORDER = 1
  SLAB_MAX_ORDER = 1
  User = User
  Sizes = {0, 5}
  WORD = 64
INVARIANTS
  SlabsRight
  NoPageLost
  HaltsOnlyWithoutMemory
PROPERTIES
  GrowsOnlyWhenFull
  HeapSpec
