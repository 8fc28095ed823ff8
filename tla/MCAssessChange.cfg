SPECIFICATION Spec
CONSTANTS
  Server = {m1, m2}
  Cli = {c1}
  Snapshot = {1, 2}
  Change = {ch1, ch2}
  RequestId = {q1}
  Argument = {a1, a2}
  Enriches = TRUE
  MaxRecords = 2
SYMMETRY Symmetry
INVARIANTS
  OnePredictionPerRequest
  AnswersAgree
  PredictionsAnchored
PROPERTIES
  Sealed
