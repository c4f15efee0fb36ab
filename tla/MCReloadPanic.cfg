CONSTANTS
  n1 = n1
  n2 = n2
  both = both
  logged = logged
  single = single
  b1 = b1
  b2 = b2
  b3 = b3
  Bad = Bad
  None = None
  Tags <- OneTag
  Confs <- AllConfs
  Bodies <- AllBodies
  FirstConfs <- MCFirstConfs
  FirstBodies <- MCFirstBodies
  Nodes <- MCNodes
  Local <- MCLocal
  Fp <- MCFp
  Settled <- MCSettled
  MaxEdits = 1
  MaxChanges = 1
SPECIFICATION Spec
INVARIANTS
  NoPanic
