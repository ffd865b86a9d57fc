SPECIFICATION FairSpec
CONSTANTS
  m1 = m1
  m2 = m2
  k1 = k1
  k2 = k2
  w1 = w1
  w2 = w2
  Match = {m1, m2}
  Market = {k1, k2}
  Worker = {w1, w2}
  MaxQueue = 2
  MaxFrames = 3
  MaxCrashes = 1
  MaxFaults = 2
INVARIANT OneOrderPerCycle
INVARIANT WindowsOfLiveMatches
PROPERTY QueueDrains
CHECK_DEADLOCK FALSE
