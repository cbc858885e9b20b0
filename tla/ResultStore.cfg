SPECIFICATION Spec
CONSTANTS
  milvus = milvus
  pgvector = pgvector
  mine = mine
  yours = yours
  merged = merged
  Databases <- MCDatabases
  Labels <- MCLabels
  MergeLabel = merged
  MaxRuns = 2
  MaxMerges = 2
  MaxDay = 2
  MaxStops = 1
  Directory <- MCDirectory
  FailedResults <- MCFailed
  Qps <- MCQps
CONSTRAINT NothingLost
INVARIANTS
  EveryResultOnce
  ChartShowsTheBest
CHECK_DEADLOCK FALSE
