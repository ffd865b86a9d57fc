SPECIFICATION FairSpec
CONSTANTS
  c1 = c1
  c2 = c2
  s1 = s1
  s2 = s2
  Calls = {c1, c2}
  Sockets = {s1, s2}
  Frames = 2
  NoCall = NoCall
  Sides = {"home"}
  Outcomes = {"away"}
  Cap = 1
  MaxFaults = 2
INVARIANT TypeOK
INVARIANT OneWhereabouts
INVARIANT HashIsBaseAndSession
INVARIANT StoreMatchesQueue
PROPERTY AuthedCallsReturn
PROPERTY BookDrains
