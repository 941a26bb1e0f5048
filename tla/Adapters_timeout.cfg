SPECIFICATION Spec
CONSTANTS
  Timeout = 8
  Grace = 4
  Pause = 1
  ReserveCap = 2
  Delays = {0, 3, 8}
  MaxCalls = 1
  None = None
  ExecReports <- MCExecReports
  HostReports <- MCHostReports
INVARIANTS
  AgentTimeoutCapsCall
