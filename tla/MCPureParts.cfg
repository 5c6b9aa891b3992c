SPECIFICATION Spec
CONSTANTS
  Label <- MCLabel
  EmptyLabel = ""
  BadLabel = {"-x"}
  lower <- MCLower
  IPAddress <- MCIP
  LongName <- MCLong
  LongLine = LongLine
  LocalName <- MCLocal
  ReservedName <- MCReserved
  Hour = 4
  Hours = 2
  Word <- MCWord
  Line <- MCLine
  Ruled <- MCRuled
  Asked <- MCAsked
  Bucket <- MCBucket
  MaxLines = 2
  MaxRules = 2
  MaxBuckets = 2
  MaxTime = 13
INVARIANTS
  EntryCoversItsSubtree
  RefusesOnlyBadFiles
  AllowRuleWins
  ChartCountsEachBucketOnce
