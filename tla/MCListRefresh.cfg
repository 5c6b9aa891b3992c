SPECIFICATION FairRefreshSpec
CONSTANTS
  Label <- MCLabel
  EmptyLabel = ""
  BadLabel = {"-"}
  lower <- MCLower
  IPAddress = {}
  LongName = {}
  LongLine = LongLine
  LocalName = {}
  ReservedName <- MCReserved
  Catalog = {light}
  DefaultSource = light
  UnknownSource = unknown
  Admin = {ann}
  NoAdmin = NoAdmin
  Name = {home}
  ValidName = {home}
  DefaultName = home
  Upstreams = {u1}
  ValidUpstreams = {u1}
  DefaultUpstreams = u1
  RawName <- MCRawName
  Content <- MCContent
  Absent = Absent
  MaxRules = 1
  PauseTimes = {}
  MaxTime = 1
  Worker = {w1, w2}
  MinDomains = 2
  Failed = Failed
INVARIANTS
  PolicyFollowsConfig
  OneRefresher
  RestartKeepsPolicy
  RefreshOwed
PROPERTIES
  KeepsWorkingCopy
  ListsAreDurable
  RefreshServed
  UpdateEnds
