SPECIFICATION FairSpec
CONSTANTS
  Databases <- MCDatabases
  Profile <- MCProfile
  NumRows = 3
  BatchSize = 2
  MaxRetry = 1
  MaxFaults = 2
  MaxCopies = 2
  Workers = 2
  Chunk = 2
  ReadinessTimeout = FALSE
INVARIANTS
  StoredAsCounted
  RetriesAreUsed
  MeasuredWhenReady
  AnswerIsReal
PROPERTY
  RunEnds
