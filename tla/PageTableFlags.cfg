SPECIFICATION FairSpec
CONSTANTS
  PTP_ENTRIES = 2
  Ptps = {p1, p2, p3, p4}
  Ranges <- OneBlock
  Offsets = {0}
  FlagSets <- AllFlagSets
  BlocksOverTables = FALSE
  NULL = NULL
PROPERTIES
  AsSpec
  CallsReturn
