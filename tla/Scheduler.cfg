SPECIFICATION Spec
CONSTANTS
  r1 = r1
  r2 = r2
  Readings <- MCReadings
  NoReading = NoReading
  IntervStore = 2
  IntervSend = 2
  IntervSync = 2
  RetryDelay = 3
  StartMin = 1
  StartLead = 1
  SnapshotSize = 3
  ClockSteps <- MCClockSteps
  WordMod = 8
  ByteBase = 4
INVARIANTS TypeOK OneSnapshotPending PostsFromAnIterator
PROPERTIES RingLeftAloneWhileDrained ResetsOnlyWhileSending EachSnapshotStoredOnce
