\* Three routers whose views change while a client follows redirects.
SPECIFICATION Spec
CONSTANTS
  Node = {a, b, c}
  a = a
  b = b
  c = c
  Replicas = 2
  Space = 7
  Layouts <- Interleaved
  Key = {3}
  N = 2
  Request = {r1}
  MaxChanges = 2
INVARIANTS
  TypeOK
  RingsAreWhole
  OwnersAreNearest
PROPERTIES
  RebuildMovesFewKeys
  RingsFollowViews
  RedirectsEnd
