SPECIFICATION Spec
CONSTANTS
  m_bitSize = 2
  Digits = {0, 1, 2}
  MaxDigits = 3
  MaxWrites = 2
INVARIANT
  AllWritesReadBack
CHECK_DEADLOCK FALSE
