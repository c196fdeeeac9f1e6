SPECIFICATION Spec
CONSTANTS
  QueueLen = 2
  Fits = 1
  MaxRecords = 3
  MaxFaults = 1
INVARIANT MarkedWereSent
