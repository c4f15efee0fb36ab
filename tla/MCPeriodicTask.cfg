CONSTANTS
  Intervals = {i1, i2, i3}
  Runs = {r1, r2}
  NoRun = NoRun
  Peers = {p1}
SPECIFICATION Spec
INVARIANTS
  TypeOK
  IntervalTracked
PROPERTIES
  LoopResponsive
  StopHonoured
  FollowsLatest
