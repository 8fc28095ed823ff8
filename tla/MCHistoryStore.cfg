SPECIFICATION FairSpec
CONSTANTS
  Proc = {p1, p2}
  e1 = e1
  e2 = e2
  u1 = u1
  u2 = u2
  local = local
  github = github
  mirror = mirror
  EventId = {e1, e2}
  UnitId = {u1, u2}
  Origin = {local, github, mirror}
  Local = local
  Batch <- Batches
INVARIANTS
  TypeOK
  AlwaysRecoverable
  AcknowledgedDurable
PROPERTIES
  ImplementsAtomicHistory
  CallsEnd
