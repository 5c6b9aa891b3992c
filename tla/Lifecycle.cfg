SPECIFICATION FairSpec
CONSTANTS
  Handler = {h1, h2}
  Deadline = 5
  Grace = 15
  DiskTime = 3
  MaxRecords = 2
INVARIANTS
  DrainedIsSaved
  StopsWithinGrace
PROPERTIES
  StopEnds
  SnapshotsGoOn
