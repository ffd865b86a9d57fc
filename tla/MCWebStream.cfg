SPECIFICATION FairStreamSpec
CONSTANTS
  a1 = a1
  p1 = p1
  s1 = s1
  s2 = s2
  m1 = m1
  m2 = m2
  m3 = m3
  NoTab = NoTab
  Channels <- MCChannels
  UrlPath = ""
  Keep = 2
  AdminTabs = {a1}
  PublicTabs = {p1}
  Sockets = {s1, s2}
  MaxEvents = 3
  MaxLogins = 1
  MaxFaults = 1
  Match = {m1, m2, m3}
  Books <- MCBooks
  Cap = 2
  MinTrigger = 5
  MaxFrames = 4
INVARIANT StreamTypeOK
INVARIANT ConnectedMeansOpen
INVARIANT ShownInOrder
INVARIANT GridIsLatest
INVARIANT CardsAgree
INVARIANT FlashesEnd
PROPERTY PublicPagesReconnect
CHECK_DEADLOCK FALSE
