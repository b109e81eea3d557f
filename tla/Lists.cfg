SPECIFICATION MCSpec
CONSTANTS
  Heads = {h1, h2}
  Nodes = {n1, n2, n3}
  NULL = NULL
INVARIANTS
  Linked
  HLinked
PROPERTIES
  ListsSpec
  HListsSpec
  HTraversalEnds
