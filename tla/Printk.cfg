SPECIFICATION Spec
CONSTANTS
  CHAR = 1
  SHORT = 2
  INT = 4
  LONG = 5
  PRINT_BUF_LEN = 5
  Strings <- MCStrings
  Stars <- MCStars
  NULL = NULL
  MaxAsked = 4
  WidthDigits = {1, 2}
  MaxWidth = 10
  MaxCount = 2
INVARIANTS
  FieldRight
  StaysInBounds
