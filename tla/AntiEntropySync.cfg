\* Two nodes that sync with each other over two keys.
SPECIFICATION Spec
CONSTANTS
  Node = {a, b}
  Value = {x}
  NoValue = NoValue
  Key = {1, 2}
  keyHash <- Neighbours
  leaves = 3
  SyncNode = {a}
  CollectNode = {a}
  Grace = 1
  MaxWrites = 2
  RestartNode = {b}
  MaxRestarts = 1
  MaxTime = 1
  None = None
INVARIANTS
  DiffIsExact
  RoundCatchesUp
PROPERTIES
  OnlyAgedTombstonesReaped
CHECK_DEADLOCK FALSE
