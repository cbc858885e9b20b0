SPECIFICATION FairSpec
CONSTANTS
  c1 = c1  c2 = c2
  Callers <- TwoCallers
  NumCases = 2
  MaxRuns = 2
  CanStop = TRUE
INVARIANT ChildBelongsToTask
INVARIANT ReportsAreTrue
INVARIANT HeldRunIsHeard
PROPERTY SeenRunsKeepPromise
PROPERTY EndsUnlessChildStops
CHECK_DEADLOCK FALSE
CONSTRAINT NoStartOverlaps
