SPECIFICATION TickSpec
CONSTANTS
  r1 = r1
  r2 = r2
  Readings <- MCOneReading
  NoReading = NoReading
  IntervStore = 2
  IntervSend = 2
  IntervSync = 2
  RetryDelay = 1
  StartMin = 3
  StartLead = 1
  SnapshotSize = 2
  ClockSteps <- MCNoClockStep
  WordMod = 16
  ByteBase = 4
PROPERTIES HungUploadIsReset TasksServed SamplingGoesOn
