CONSTANTS
  BearerTurns = 2
  NetworkTurns = 2
  BootTries = 2
  Others = {"check", "sms", "tcp_init", "tcp_connect", "tcp_send", "ftp"}
  MaxLate = 1
  MaxLag = 1
  MaxLost = 1
  MaxResets = 1
SPECIFICATION FairSpec
INVARIANTS PostAccepted RefusedOnce LoadWithinPost ClockWithoutFault
PROPERTIES TasksEnd
