\* A seed and two followers, who hear of each other through the seed; one crash.
SPECIFICATION Spec
CONSTANTS
  s = s
  a = a
  b = b
  Node = {s, a, b}
  Seeds <- OneSeed
  Fanout = 2
  MaxInc = 3
  MaxNet = 1
  MaxCrashes = 1
  None = None
SYMMETRY FollowerSymmetry
INVARIANTS
  TypeOK
  SelfIsAlive
  OnlyOwnerRaises
  MergeOrderIrrelevant
PROPERTIES
  ViewsNeverRegress
CHECK_DEADLOCK FALSE
