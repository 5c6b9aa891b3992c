SPECIFICATION Spec
CONSTANTS
  Label <- MCLabel
  EmptyLabel = ""
  BadLabel = {"-"}
  lower <- MCLower
  IPAddress = {}
  LongName = {}
  LongLine = LongLine
  LocalName = {}
  ReservedName <- MCReserved
  Catalog = {light, normal}
  DefaultSource = light
  UnknownSource = unknown
  Admin = {ann, bob}
  NoAdmin = NoAdmin
  Name = {home, long}
  ValidName = {home}
  DefaultName = home
  Upstreams = {u1, loop}
  ValidUpstreams = {u1}
  DefaultUpstreams = u1
  RawName <- MCRawName
  Content <- MCContent
  Absent = Absent
  MaxRules = 2
  PauseTimes = {1}
  MaxTime = 3
INVARIANTS
  OneRulePerDomain
  SavedRuleIsActive
PROPERTIES
  FirstSetupWins
  ConfigIsDurable
