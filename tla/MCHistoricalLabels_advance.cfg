SPECIFICATION Spec
CONSTANTS
  Unit <- MCUnit
  Batch <- MCBatch
  Target = "revert_or_hotfix"
  Process = {p, q}
  GitWindowDays = 2
  ReworkWindowDays = Unregistered
  MinLines = 1
  IgnoreSameAuthor = FALSE
  Unregistered = Unregistered
  Never = Never
  NoWindow = NoWindow
  NoEvidence = NoEvidence
  NoChange = NoChange
SYMMETRY Perms
INVARIANT UnknownAdvances
