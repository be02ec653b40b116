CONSTANTS
  MaxSent = 2
  MaxFailed = 3
  MaxDups = 1
SPECIFICATION FairSpec
INVARIANTS NoSilentLoss OrderedDelivery SurvivesFewLosses
PROPERTY EveryMessageIsSettled
CHECK_DEADLOCK FALSE
