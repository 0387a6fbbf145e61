SPECIFICATION FairSpec
CONSTANTS
  t1 = t1 t2 = t2 a = a b = b m1 = m1 m2 = m2
  c1 = c1 c2 = c2 c3 = c3 c4 = c4 c5 = c5
  None = None
  Thread = {t1, t2}
  Slot = {a, b, m1}
  Cell = {c1, c2, c3}
  MemberOf <- Nodes
  Methods = {"delete", "none"}
  Exclusive = TRUE
  Pinned = TRUE
INVARIANTS
  TypeOK
  NoFault
  CountIsReferences
  HeldObjectLives
  NothingLeaks
PROPERTIES
  CallsEnd
CHECK_DEADLOCK FALSE
