SPECIFICATION SearchSpec
CONSTANTS
  Databases <- MCDatabases
  Profile <- MCProfile
  NumRows = 3
  Vectors <- MCVectors
  K = 2
  Misranks <- MCMisranks
  Unserved <- MCUnserved
  Misfilters <- MCMisfilters
INVARIANTS
  AnswerIsTruth
  IndexServesQuery
