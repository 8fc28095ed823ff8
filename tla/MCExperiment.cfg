\* Every history and setting is learned from; one candidate is followed to its approval.
SPECIFICATION Spec
CONSTANTS
  Predicate <- MCPredicate
  Settings <- MCSettings
  Cohorts <- MCCohorts
  Pilots <- MCPilots
  Start = 11
  MaxClock = 13
  Unit = {u1, u2}
  Snapshots <- MCSnapshots
  MaxPredictions = 3
  Other = {9}
  OtherRules <- MCOtherRules
  Gates <- MCGates
  SizeFacts = {2}
  Heavier <- MCHeavier
  TreeSeeds <- MCTreeSeeds
  MinTrain = 2
  MinTest = 2
  TestPercent = 20
  TestStartAt <- MCTestStartAt
SYMMETRY Symmetry
INVARIANTS
  TypeOK
  ReportAgrees
PROPERTIES
  HoldoutUnseen
  RuleSetIsEarned
  BeamIsLossless
  ApprovalIsProspective
  CellsAreFinal
CHECK_DEADLOCK FALSE
