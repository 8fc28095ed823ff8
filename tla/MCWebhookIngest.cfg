SPECIFICATION Spec
CONSTANTS
  A = A
  B = B
  w1 = w1
  w2 = w2
  Worker = {w1, w2}
  Idle = Idle
  Scenario <- MCScenario
  NoChange = NoChange
  NoSha = NoSha
  NoPolicy = NoPolicy
SYMMETRY Perms
INVARIANT TypeOK
INVARIANT OutcomesUnderOnePolicy
INVARIANT ConvergesUnlessRaced
PROPERTY AvailabilityStands
CHECK_DEADLOCK FALSE
