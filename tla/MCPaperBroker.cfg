SPECIFICATION Spec
CONSTANTS
  m1 = m1
  m2 = m2
  o1 = o1
  o2 = o2
  NoMatch = NoMatch
  Match = {m1, m2}
  OrderId = {o1, o2}
  Side = {"home"}
  Scores = {"home", "draw"}
  HasKickoff = {}
  HashExpires = TRUE
  InboxSize = 1
  MaxFrames = 2
  MaxCrashes = 1
  MaxFaults = 0
SYMMETRY Symmetry
INVARIANT OncePerGrader
INVARIANT HashCountsLedger
INVARIANT GradedOnFinalScore
INVARIANT NoOrderLost
CHECK_DEADLOCK FALSE
