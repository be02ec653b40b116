CONSTANTS
  a = a
  b = b
  c = c
  NoNode = NoNode
  Nodes <- MCNodes
  Parent <- MCChain
  MaxLines <- MCTwoAtRoot
  MaxFailed = 1
  MaxFaults = 1
SPECIFICATION Spec
INVARIANTS PrintedOnce AuthorsOrder Custody SettledMeansDelivered
CHECK_DEADLOCK FALSE
