SPECIFICATION FairEditSpec
CONSTANTS
  Proc = {p1, p2}
  Unit = {u1, u2}
  Key = {k1}
  Time = {1}
  MaxLag = 0
  MaxRecords = 2
  Forged <- MCForged
INVARIANTS
  LoadsAreComplete
PROPERTIES
  LoadsNeverRewind
  CallsEnd
