SPECIFICATION SubmitSpec
CONSTANTS
  t1 = t1
  Databases <- MCDatabases
  Targets <- MCTargets
  Contents <- MCContents
  MaxTasks = 3
  Forms <- MCForms
  Ks <- MCKs
  Commands <- MCCommands
  Posts <- MCPosts
CHECK_DEADLOCK FALSE
INVARIANT RunsWhatWasSubmitted
INVARIANT OrderedForReuse
INVARIANT TruthIsOfTheFilter
INVARIANT OfferedIsAccepted
