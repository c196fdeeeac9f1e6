SPECIFICATION SoughtSpec
CONSTANTS
  Ends = 3
  MaxReadFaults = 1
  Logs <- MCBlankLogs
  Dates <- MCDates
  SkipStart = 8
INVARIANTS BeginStays SearchTypeOK ExactDateIsFound
PROPERTIES EndIsReplacedInOneStep SaveTakes SearchEnds
