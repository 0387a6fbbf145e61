SPECIFICATION Spec
CONSTANTS
  Byte = {x, y}
  readCache = 2
  writeCache = 2
  MaxLength = 4
  MaxChunk = 3
INVARIANT
  EosMeansNothingLeft
CHECK_DEADLOCK FALSE
