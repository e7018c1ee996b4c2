\* Two nodes that both coordinate, two writes, hinted handoff and anti-entropy.
SPECIFICATION Spec
CONSTANTS
  Node = {a, b}
  Coordinator = {a, b}
  SyncNode = {a}
  Value = {x}
  NoValue = NoValue
  None = None
  Op = {o1, o2}
  Read = {}
  R = 2
  W = 2
  MaxTime = 1
  MaxLate = 1
INVARIANTS
  TypeOK
  StoresAreSiblings
  DistinctClocks
  AckedWriteIsDurable
PROPERTIES
  NothingForgotten
  HintsOutliveDelivery
CONSTRAINT FewLate
SYMMETRY OpSymmetry
CHECK_DEADLOCK FALSE
