CONSTANTS
  Calls <- MCCalls
  Slots = 8
  Window = 4
  Parts = 4
  Levels = {1, 2}
  Noise <- MCNoise
  MaxReadings = 5
  Base = 4
  Span = 3
  WdtPeriod = 5
  Hour = 8
SPECIFICATION DeviceSpec
INVARIANTS TransferComplete OneEventPending ReadingsKept AlarmNearUnlessRaced SilenceIsShort
PROPERTIES TransfersEnd StatisticsTrue UpdateEnds
