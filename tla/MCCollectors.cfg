SPECIFICATION Spec
CONSTANTS
  Scenario <- MCScenario
  Limit <- MCLimit
  Window <- MCWindow
  Hour = {0, 1, 2, 3}
  Since = {NoSince, 2}
  Until = {4, 6}
  NoSince = NoSince
  NoMerge = NoMerge
  MaxCommits = {1, 9}
  MaxBatches = 3
  Process = {p, q}
  NoCursor = NoCursor
  IdOf <- MCIdOf
  GitWindowDays = 2
  ReworkWindowDays = 2
  MinLines = 2
  IgnoreSameAuthor = TRUE
  Unregistered = Unregistered
  Never = Never
  NoWindow = NoWindow
  NoEvidence = NoEvidence
  NoChange = NoChange
INVARIANT TypeOK
INVARIANT NegativeMeansUntouched
INVARIANT CollectorsAgree
INVARIANT PullsAreWhole
INVARIANT RevertedIsNotNegative
INVARIANT ArchiveNegativesAreTrue
SYMMETRY Perms
CHECK_DEADLOCK FALSE
