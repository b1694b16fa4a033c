CONSTANTS
  m1 = m1
  m2 = m2
  Order <- MCOrder
  Iterations = 2
  Foreign = foreign
  Block = 2
  MaxRequests = 2
  Options <- MCOptions
  Registered <- MCRegistered
SPECIFICATION Spec
INVARIANTS
  TypeOK
  EvidenceIsOwn
  DeltasAddUp
  OkRunIsComplete
  ControlIsClean
  ReleaseIsAcknowledged
  VerdictIsLocal
PROPERTY RunEnds
