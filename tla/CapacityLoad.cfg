SPECIFICATION FairSpec
CONSTANTS
  Databases <- MCDatabases
  Profile <- MCProfile
  BatchSize = 2
  MaxTry = 2
  MaxLimit = 3
  MaxRounds = 4
  MaxFaults = 2
  MaxCopies = 2
  Workers = 2
  Chunk = 3
INVARIANTS
  CapacityIsHonest
PROPERTIES
  CapacityEnds
