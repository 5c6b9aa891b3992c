SPECIFICATION FairSpec
CONSTANTS
  Label <- MCLabel
  EmptyLabel = ""
  BadLabel = {"-"}
  lower <- MCLower
  IPAddress = {}
  LongName = {}
  LongLine = LongLine
  LocalName = {}
  ReservedName <- MCReserved
  Handler = {h1, h2}
  Slots = 1
  Server = {"u1", "u2"}
  Config <- TwoConfigs
  Query <- FewQueries
  CheckName <- Y
  HealthName <- Health
  Answer <- FewAnswers
  NoAnswer = NoAnswer
INVARIANT
  SlotsAccounted
PROPERTY
  EveryQueryEnds
