SPECIFICATION SearchSpec
CONSTANTS
  Logs <- MCBlankLogs
  Dates <- MCDates
  SkipStart = 8
INVARIANT OlderRecordIsMatch
