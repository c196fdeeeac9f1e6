SPECIFICATION FairSpec
CONSTANTS
  QueueLen = 2
  Fits = 1
  MaxRecords = 3
  MaxFaults = 1
INVARIANTS TypeOK NothingSkipped NoNeedlessRepeat FlagsAreAcknowledged
PROPERTY EveryRecordIsSent
