SPECIFICATION Spec
CONSTANTS
  PTP_ENTRIES = 2
  Ptps = {p1, p2, p3, p4, p5, p6, p7}
  Ranges <- MCRanges
  Offsets = {0, 1}
  FlagSets <- WriteOnly
  BlocksOverTables = FALSE
  NULL = NULL
SYMMETRY Symmetry
INVARIANTS
  TypeOK
  TreeRight
  HaltsOnlyWithoutMemory
PROPERTY AsSpec
