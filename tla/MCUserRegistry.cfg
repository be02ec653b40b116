CONSTANTS
  c1 = c1
  c2 = c2
  ann = ann
  bob = bob
  None = None
  Clients <- MCClients
  Names <- MCNames
  MaxUsers = 2
SPECIFICATION FairSpec
INVARIANTS IdsArePlaces TokenNamesNewest
PROPERTY StaleNameIsFreed
CHECK_DEADLOCK FALSE
