SPECIFICATION Spec
CONSTANTS
  m1 = m1
  k1 = k1
  k2 = k2
  w1 = w1
  w2 = w2
  Match = {m1}
  Market = {k1, k2}
  Worker = {w1, w2}
  MaxQueue = 2
  MaxFrames = 2
  MaxCrashes = 0
  MaxFaults = 0
SYMMETRY Symmetry
INVARIANT FullTimeResetsPositions
CHECK_DEADLOCK FALSE
