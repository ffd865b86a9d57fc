SPECIFICATION FairSpec
CONSTANTS
  m1 = m1
  m2 = m2
  o1 = o1
  NoMatch = NoMatch
  Match = {m1, m2}
  OrderId = {o1}
  Side = {"home"}
  Scores = {"home", "draw"}
  HasKickoff = {m1}
  HashExpires = FALSE
  InboxSize = 1
  MaxFrames = 2
  MaxCrashes = 1
  MaxFaults = 0
PROPERTY ImplementsOrderBook
PROPERTY EveryOrderSettles
CHECK_DEADLOCK FALSE
