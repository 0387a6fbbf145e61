SPECIFICATION Spec
CONSTANTS
  Elem = {x, y}
  Unknown = Unknown
  Pages = {0, 2, 3}
  MaxSize = 3
  Careful = TRUE
  Item = {1, 2, 3}
  MaxItems = 4
  UintRange = 8
  HashKeys <- SomeKeys
  Field = {u, v}
  VectorSizes = {1, 2, 3}
  MaxKeys = 2
  BITS_COUNT_PER_ELEMENT = 3
  MaxBits = 5
  DigestLength = 3
  MaxLength = 7
  MaxBlock = 6
  NodeId = {a, b, c}
  Colors = 1
  MaxNeighbors = 3
  Letters = 1
  MaxText = 3
  MaxPattern = 3
  MaxSource = 5
  FirstLine = 1
  MaxLines = 3
  Widths = {3, 4, 6}
  Digits = {0, 1, 3, 8, 15}
  MaxNumeral = 4
  MaxRelative = 2
  MaxPath = 3
INVARIANTS
  TypeOK
  SizeFits
  ElementsKept
  LinksAgree
  HashIsDictionary
  BitsKept
  KeystreamContiguous
  StringsHoldTexts
  ScannersAgree
PROPERTY
  CallReturns
CHECK_DEADLOCK FALSE
