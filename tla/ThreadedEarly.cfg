SPECIFICATION FairSpec
CONSTANTS
  Object = {o1}
  Perils = {{"early"}}
INVARIANT
  EarlyDestructionIsSafe
CHECK_DEADLOCK FALSE
