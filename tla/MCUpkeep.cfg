CONSTANTS
  Requests = {r1, r2}
  MaxCerts = 2
  MaxCrashes = 1
  NoCert = NoCert
  Torn = Torn
  PanelValues = {p1}
  Registered = Registered
  Default = Default
  Unset = Unset
  NoIdentity = NoIdentity
  TornFile = TornFile
  MaxKeys = 2
  g1 = g1
  g3 = g3
  Good = {g1, g2, g3}
  Bad = {b1}
  NoContent = NoContent
  Local <- MCLocal
SPECIFICATION UpkeepSpec
INVARIANTS
  UpkeepTypeOK
  PairMatches
  ChangeHeard
  IdentityKept
  NotMissed
PROPERTIES
  ValidKept
  Renewed
