SPECIFICATION Spec
CONSTANTS
  Server = {m1}
  Cli = {}
  Snapshot = {1}
  Change = {ch1, ch2}
  RequestId = {q1}
  Argument = {a1}
  Enriches = TRUE
  MaxRecords = 3
SYMMETRY Symmetry
INVARIANTS
  Resolvable
