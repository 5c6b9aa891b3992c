SPECIFICATION Spec
CONSTANTS
  Label <- MCLabel
  EmptyLabel = ""
  BadLabel = {"-"}
  lower <- MCLower
  IPAddress = {}
  LongName = {}
  LongLine = LongLine
  LocalName = {}
  ReservedName <- MCReserved
  Handler = {h1}
  Slots = 1
  Server = {"u1", "u2"}
  Config <- MCConfig
  Query <- MCQuery
  CheckName <- Y
  HealthName <- Health
  Answer <- MCAnswer
  NoAnswer = NoAnswer
INVARIANTS
  DecisionInForce
  FailoverIsComplete
PROPERTY QueryAdvances
