CONSTANTS
  c1 = c1
  c2 = c2
  Clients <- MCClients
  Plans <- MCPlans
  MAX_CONNECTIONS = 2
  MaxData = 1
  MaxServers = 3
SPECIFICATION FairSpec
INVARIANTS EachHasOneEntry NothingIsLost ClosedWhenOneSideIsDone
PROPERTIES EveryClientIsClosed
CHECK_DEADLOCK FALSE
