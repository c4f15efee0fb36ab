CONSTANTS
  u1 = u1
  u2 = u2
  bad = bad
  slow = slow
  fast = fast
  Users = {u1, u2, bad}
  Limits = {slow, fast}
  Lists <- MCLists
  Unusable = {bad}
  Execs = {e1, e2}
  None = None
  MaxChanges = 3
SPECIFICATION Spec
INVARIANTS
  TypeOK
  BillingKnown
  Synced
PROPERTIES
  Converges
