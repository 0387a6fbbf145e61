SPECIFICATION Spec
CONSTANTS
  Object = {o1, o2}
  Perils = {{}, {"create"}, {"throw"}, {"create", "throw", "early"}}
  main = main
  kid = kid
  test = test
  None = None
  Thread = {t, u}
  NoThread = NoThread
  MaxLocks = 2
  MaxNested = 2
  Variable = {v, w, z}
  MaxObjects = 3
  Second = 3
  Scale = 2
  UintRange = 32
  INFINITE_TIMEOUT = 1
  Durations = {1, 2, 3, 7, 9}
  MaxElapsed = 13
  MaxSignals = 2
  Printer = {p, q}
  MaxPrints = 3
INVARIANTS
  TypeOK
  NoFault
  ObjectOutlivesRun
  SecondWaitNeedsSecondSet
  OneInside
  ReferencesCounted
  TimesKept
  LinesAreWhole
PROPERTY
  CallsReturn
CHECK_DEADLOCK FALSE
