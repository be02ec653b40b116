CONSTANTS
  RecordsToPush <- MCRecords
  Sizes = {14, 32}
  QBuf = 8
  MaxSize = 32
  Overhead = 4
  DictSize = 3
  MaxPtrs = 4
  MaxRecords = 3
  ISeeds = {1, 2}
  Shuffle16 <- MCShuffle16
SPECIFICATION PacketSpec
INVARIANTS PayloadIsSound MemoIsStudy ReadsBack ShuffleVisitsEachOnce
CHECK_DEADLOCK FALSE
