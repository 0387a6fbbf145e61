SPECIFICATION Spec
CONSTANTS
  Size = 3
  Byte = {b0, b1}
  MaxCount = 4
INVARIANTS
  TypeOK
  FullFlagTruthful
PROPERTY
  ImplementsFifo
