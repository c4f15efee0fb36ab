CONSTANTS
  Answers <- MCAnswers
  Changes <- MCChanges
  NoNode = NoNode
  Users = {u1, u2}
  Addrs = {a1, a2}
  Conns = {c1, c2}
  None = None
  Limits = {0, 1}
  MaxAlive = 1
  Watched <- OnePair
  Streams = {s1, s2}
  Buckets = {b1, b2, b3, b4}
  NoBucket = NoBucket
  Speeds = {0, 1, 2}
  Unknown = Unknown
  NumNodes = 2
  Kinds = {"web", "dns"}
  Dns = "dns"
  Outbounds <- MCOutbounds
  NoTag = "none"
  NoValue = NoValue
  WarpTag <- MCWarpTag
  MaxRoutes = 2
SPECIFICATION ServingSpec
SYMMETRY Alike
INVARIANTS
  ServingTypeOK
  TlsServed
  Followed
  Remembered
  LimitHonoured
  LimitFollows
  NoLeak
  Isolated
PROPERTY
  KnownNotRefused
