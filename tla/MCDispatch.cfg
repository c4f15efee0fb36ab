CONSTANTS
  Users = {u1, u2}
  Conns = {c1, c2, c3}
  None = None
SPECIFICATION Spec
SYMMETRY Alike
CHECK_DEADLOCK FALSE
INVARIANTS
  TypeOK
  OnlyOpenLinks
  DeletedCut
  ClosedCut
