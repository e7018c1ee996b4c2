\* A follower restarts after the seed has heard of a later incarnation of it.
SPECIFICATION Spec
CONSTANTS
  s = s
  a = a
  b = b
  Node = {s, a, b}
  Seeds <- OneSeed
  Fanout = 2
  MaxInc = 3
  MaxNet = 1
  MaxCrashes = 1
  None = None
SYMMETRY FollowerSymmetry
INVARIANTS
  MarkedDeadComesBack
CHECK_DEADLOCK FALSE
