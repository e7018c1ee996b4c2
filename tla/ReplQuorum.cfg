\* Two coordinators, two writes and a read, with R + W > N.
SPECIFICATION Spec
CONSTANTS
  Node = {a, b}
  Coordinator = {a, b}
  SyncNode = {}
  Value = {x}
  NoValue = NoValue
  None = None
  Op = {o1, o2}
  Read = {r1}
  R = 2
  W = 1
  MaxTime = 0
  MaxLate = 1
INVARIANTS
  ReadCoversAckedWrites
  ReadsLatestAckedWrite
CONSTRAINTS FewLate NoReplay
SYMMETRY OpSymmetry
CHECK_DEADLOCK FALSE
