CONSTANTS
  p1 = p1
  p2 = p2
  reader = reader
  listener = listener
  None = None
  Posters <- MCPosters
  Pagers <- MCPagers
  Listeners <- MCListeners
  PageSize = 2
  MaxMessages = 3
  MaxLost = 1
  MaxClients = 1
SPECIFICATION FairSpec
INVARIANTS NeverThrows PagesArePrefix PushedUnlessUncounted
PROPERTY EveryMessageIsPaged
CHECK_DEADLOCK FALSE
