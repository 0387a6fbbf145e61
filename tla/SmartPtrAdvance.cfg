SPECIFICATION Spec
CONSTANTS
  t1 = t1 t2 = t2 a = a b = b m1 = m1 m2 = m2
  c1 = c1 c2 = c2 c3 = c3 c4 = c4 c5 = c5
  None = None
  Thread = {t1}
  Slot = {a, b, m1, m2}
  Cell = {c1, c2, c3, c4, c5}
  Methods = {"delete"}
  MemberOf <- Nodes
  Exclusive = TRUE
  Pinned = FALSE
SYMMETRY NodeSymmetry
INVARIANT
  NoFault
CHECK_DEADLOCK FALSE
