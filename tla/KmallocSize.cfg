SPECIFICATION Spec
CONSTANTS
  BUDDY_MAX_ORDER = 2
  StartPage = 1
  NPages = 3
  NULL = NULL
  BUDDY_PAGE_SIZE = 4
  SLAB_INIT_SIZE = 4
  SLAB_MIN_ORDER = 0
  SLAB_MAX_ORDER = 1
  User = User
  Sizes = {1, 5, 31}
  WORD = 32
INVARIANT MaxAllocatedSize
