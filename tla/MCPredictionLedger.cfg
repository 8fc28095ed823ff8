SPECIFICATION Spec
CONSTANTS
  Proc = {p1, p2}
  Unit = {u1}
  Key = {k1, k2}
  Time = {1, 2, 3}
  MaxLag = 1
  MaxRecords = 2
SYMMETRY Symmetry
INVARIANTS
  AlwaysOpenable
  AcknowledgedDurable
PROPERTIES
  ImplementsTrustedLedger
