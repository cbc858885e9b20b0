SPECIFICATION FairSpec
CONSTANTS
  NumWorkers = 3
  NumBatches = 3
  MaxRetry = 1
INVARIANT ReturnedMeansLoaded
INVARIANT EachBatchOnce
INVARIANT EndsStopPulling
PROPERTY NothingAfterTheEnd
PROPERTY LoadEnds
CHECK_DEADLOCK FALSE
