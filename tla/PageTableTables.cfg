SPECIFICATION Spec
CONSTANTS
  PTP_ENTRIES = 2
  Ptps = {p1, p2, p3, p4}
  Ranges <- MCRanges
  Offsets = {0}
  FlagSets <- WriteOnly
  BlocksOverTables = TRUE
  NULL = NULL
INVARIANT FreesAllTables
