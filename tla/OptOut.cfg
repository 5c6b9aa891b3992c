SPECIFICATION Spec
CONSTANTS
  Handler = {h1, h2}
  Client = {c1}
  Window = 2
  BucketSpan = 2
  MaxQueries = 2
  MaxLag = 1
  MaxTime = 5
  MaxTotal = 4
  NoQuery = NoQuery
INVARIANT
  OptOutForgets
