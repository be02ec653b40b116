CONSTANTS
  ShuffleOf <- MCShuffleOf
  Seeds = {1, 2}
  Slots = 16
  Confs <- MCConfs
  Questions <- MCQuestions
  Others <- MCOthers
  HostsFiles = {{2}}
  Referrals <- MCReferrals
  MaxDepth = 3
  Inet6 = {31}
SPECIFICATION FairSpec
INVARIANTS FramesAwait SocketServesTopFrame AnswerIsForQuestion GivesUpLast
PROPERTY EveryQueryEnds
CHECK_DEADLOCK FALSE
