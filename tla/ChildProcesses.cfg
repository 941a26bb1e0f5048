SPECIFICATION FairSpec
CONSTANTS
  Callers = {main, worker}
  Main = main
  MaxSignals = 2
  None = None
  main = main
  worker = worker
CHECK_DEADLOCK FALSE
INVARIANTS
  TypeOK
  WaitedForIsRegistered
  NoStubbornSurvivor
  KilledIsNoSuccess
  SurvivorsWereNotKnown
PROPERTIES
  CallsEnd
  HandlersEnd
