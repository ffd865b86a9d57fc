SPECIFICATION FairSpec
CONSTANTS
  p1 = p1
  p2 = p2
  Batches <- MCBatches
  Fits = {"none", "adopted"}
  Polls = {p1, p2}
  Keep = 2
  MaxEvents = 1
  MaxFits = 1
  MaxLogins = 1
  MaxFaults = 1
INVARIANT TypeOK
INVARIANT StatsAreCurrent
PROPERTY PanelCatchesUp
CHECK_DEADLOCK FALSE
