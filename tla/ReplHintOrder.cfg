\* Two writes of one primary fail at the same peer, and the older one parks last.
SPECIFICATION Spec
CONSTANTS
  Node = {a, b}
  Coordinator = {a}
  SyncNode = {}
  Value = {x}
  NoValue = NoValue
  None = None
  Op = {o1, o2}
  Read = {}
  R = 2
  W = 2
  MaxTime = 0
  MaxLate = 9
INVARIANTS
  FailedWriteIsParked
SYMMETRY OpSymmetry
CHECK_DEADLOCK FALSE
