SPECIFICATION SearchFairSpec
CONSTANTS
  Logs <- MCUsedLogs
  Dates <- MCDates
  SkipStart = 8
PROPERTY SearchEnds
