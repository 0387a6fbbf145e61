SPECIFICATION ArraySpec
CONSTANTS
  Elem = {x}
  Unknown = Unknown
  Pages = {0, 2, 3}
  MaxSize = 4
  Careful = FALSE
INVARIANT
  SizeFits
CHECK_DEADLOCK FALSE
