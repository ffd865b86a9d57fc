SPECIFICATION FairSpec
CONSTANTS
  m1 = m1
  Match = {m1}
  MaxGoals = 1
  MaxFinals = 2
  MaxFaults = 2
  ApiFaults = 1
  MaxCrashes = 1
  ExtraTime = FALSE
  Midnight = TRUE
  SCORELINES <- MCScorelines
  MaxDelay = 4
  Pingers = {1, 2}
INVARIANT FinalsAreDue
PROPERTY FinalsOfGoneMatches
PROPERTY ImplementsMatchFeed
PROPERTY MatchesEnd
PROPERTY PingersReturn
