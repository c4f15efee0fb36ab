CONSTANTS
  Users = {u1, u2}
  Conns = {c1, c2}
  Packets = {p1, p2, p3}
  Execs = {e1, e2}
  None = None
  Min = 1
SPECIFICATION Spec
SYMMETRY Alike
INVARIANTS
  TypeOK
  CountsReachable
  Kept
  BilledOnce
