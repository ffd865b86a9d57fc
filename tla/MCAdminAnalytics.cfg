SPECIFICATION AdminSpec
CONSTANTS
  m1 = m1
  o1 = o1
  NoMatch = NoMatch
  Match = {m1}
  OrderId = {o1}
  Side = {"home", "cs"}
  Scores = {"home"}
  HasKickoff = {}
  HashExpires = FALSE
  InboxSize = 1
  MaxFrames = 1
  MaxCrashes = 1
  MaxFaults = 1
  Request = {r1}
  Handlers = {"prune", "regrade", "reset"}
  KeepLedger = {TRUE, FALSE}
  MaxRequests = 2
  oldHome = oldHome
  oldOver = oldOver
  r1 = r1
  Legacy <- OldLedger
INVARIANT DashboardTrusted
INVARIANT RegradeConserves
CHECK_DEADLOCK FALSE
