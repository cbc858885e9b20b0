SPECIFICATION Spec
CONSTANTS
  db1 = db1  db2 = db2  t1 = t1  t2 = t2  cA = cA  cB = cB
  Databases <- MCDatabases
  Targets <- MCTargets
  Contents <- MCContents
  Plans <- MCPlans
  MaxTasks = 3
  DropWithLoad = TRUE
  CanFail = TRUE
INVARIANT MeasuresItsOwnLoad
CHECK_DEADLOCK FALSE
