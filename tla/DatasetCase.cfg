SPECIFICATION FairCaseSpec
CONSTANTS
  NumDocs = 3
  Queries = {q1, q2}
  NumFiles = 3
  MaxRows = 3
  BatchSize = 2
  MaxFaults = 2
  MaxRuns = 2
INVARIANTS
  RecallIsFair
  WholeCorpusSent
PROPERTY
  CaseIsFinished
