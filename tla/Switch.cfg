SPECIFICATION Spec
CONSTANTS
  t1 = t1
  t2 = t2
  PageTables = {t1, t2}
  VPages = {0, 1}
  space <- MCSpace
INVARIANT SwitchNeedsNoFlush
