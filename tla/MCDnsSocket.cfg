CONSTANTS
  h1 = h1
  h2 = h2
  q1 = q1
  q2 = q2
  Nothing = Nothing
  Hosts <- MCHosts
  Questions <- MCQuestions
  Types = {"dgram", "stream", "any"}
  Qids = {1, 2}
  MaxSubmits = 2
  MaxArrivals = 2
  MaxTcps = 2
  Xor <- MCXor
  Half = 2
  Length = 3
  Limit = 3
  Rounds = 8
SPECIFICATION FairSpec
INVARIANTS EachFdIsClosedOnce AgainCanBeAwaited
PROPERTIES CheckReturns ImplementsQuery
CHECK_DEADLOCK FALSE
