\* Overlapping adds that reach the sample size; commands that record while
\* STATS takes a quantile.
SPECIFICATION LockFreeSpec
CONSTANTS
  Adder = {g1, g2, g3}
  x = x
  y = y
  Key = {x, y}
  sketchDepth = 2
  Width = 2
  column <- HalfShared
  counterMax = 2
  sampleSize = 3
  MaxAdds = 5
  Recorder = {r1, r2}
  bounds <- Bounds
  Duration = {2, 3, 5}
  MaxCommands = 3
INVARIANTS
  OvershootIsBounded
  NeverUnderestimates
  AgingIsNotMissed
  QuantileIsBracketed
  CountersAgree
SYMMETRY Symmetry
CHECK_DEADLOCK FALSE
