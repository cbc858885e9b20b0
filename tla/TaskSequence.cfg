SPECIFICATION FairSpec
CONSTANTS
  db1 = db1  db2 = db2  t1 = t1  t2 = t2  cA = cA  cB = cB
  Databases <- MCDatabases
  Targets <- MCTargets
  Contents <- MCContents
  Plans <- MCPlans
  MaxTasks = 3
  DropWithLoad = FALSE
  CanFail = TRUE
INVARIANT FaultlessReuseIsSound
INVARIANT MisledOnlyByDisturbance
INVARIANT ReportedLoadsAreReal
PROPERTY KeepsPromise
PROPERTY ColdCaseOnlyReads
PROPERTY EveryCaseIsRecorded
CHECK_DEADLOCK FALSE
