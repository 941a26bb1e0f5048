SPECIFICATION FairSpec
CONSTANTS
  Timeout = 8
  Grace = 4
  Pause = 1
  ReserveCap = 2
  Delays = {0, 1, 3, 8}
  MaxCalls = 2
  None = None
  ExecReports <- MCExecReports
  HostReports <- MCHostReports
INVARIANTS
  TypeOK
  JournalReadsAlike
  KilledMeansSlow
  CodexTimeIsBounded
PROPERTIES
  ImplementsPort
  TimedCallsEnd
