SPECIFICATION PathSpec
CONSTANTS
  m1 = m1
  m2 = m2
  t1 = t1
  k1 = k1
  w1 = w1
  w2 = w2
  NoMatch = NoMatch
  Match = {m1, m2}
  Stats <- MCStats
  Window = 1
  Minute = 2
  MaxTicks = 3
  MaxFrames = 3
  MaxWaiting = 2
  MaxFaults = 1
  Price = {0, 45, 50, 64, 80, 90}
  Computed = {0, 150, 180, 240, 520, 900}
  MinOdds = 50
  MaxOdds = 80
  DrawProbCap = 300
  MaxTrueProb = 850
  MarginSlack = 20
  Traded = {t1}
  Market = {k1}
  Worker = {w1, w2}
  MaxQueue = 2
  Scores = {"home"}
  HasKickoff = {}
  InboxSize = 1
  BetSides = {"home"}
  MaxReel = 3
  MaxCrashes = 1
  MaxLosses = 0
SYMMETRY Symmetry
INVARIANT TotalsAreLargestSeen
INVARIANT WindowSinceFullTime
INVARIANT FirstCycleReplays
INVARIANT VerdictIsBest
INVARIANT SweepGradesOwnCycle
INVARIANT OneBetPerFullTime
CHECK_DEADLOCK FALSE
