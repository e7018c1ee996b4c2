\* Two writes of one primary, with a replayer whose RSETs may fail.
SPECIFICATION FairSpec
CONSTANTS
  Node = {a, b}
  Coordinator = {a}
  SyncNode = {}
  Value = {x}
  NoValue = NoValue
  None = None
  Op = {o1, o2}
  Read = {}
  R = 2
  W = 2
  MaxTime = 0
  MaxLate = 9
PROPERTIES
  WritesAreAnswered
  HintsDrain
CHECK_DEADLOCK FALSE
