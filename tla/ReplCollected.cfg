\* No call fails; the primary collects a tombstone before the next write.
SPECIFICATION CollectSpec
CONSTANTS
  Node = {a, b}
  Coordinator = {a}
  SyncNode = {}
  Value = {x}
  NoValue = NoValue
  None = None
  Op = {o1, o2, o3}
  Read = {r1}
  R = 2
  W = 2
  MaxTime = 1
  Grace = 1
  CollectNode = {a}
INVARIANTS
  ReadsLatestAckedWrite
CONSTRAINTS Healthy Sequential
SYMMETRY OpSymmetry
CHECK_DEADLOCK FALSE
