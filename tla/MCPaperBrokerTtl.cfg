SPECIFICATION FairSpec
CONSTANTS
  m1 = m1
  o1 = o1
  NoMatch = NoMatch
  Match = {m1}
  OrderId = {o1}
  Side = {"home"}
  Scores = {"home"}
  HasKickoff = {m1}
  HashExpires = TRUE
  InboxSize = 1
  MaxFrames = 1
  MaxCrashes = 1
  MaxFaults = 0
PROPERTY EveryOrderSettles
CHECK_DEADLOCK FALSE
