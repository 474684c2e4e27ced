SPECIFICATION Spec
CONSTANTS
  None = None
  QueueCap = 2
  RequestCap = 2
  SessionWait = 1
  IdleCap = 1
  Beat = 1
  Stall = 2
  PublishTimeout = 2
  BackoffInitial = 1
  BackoffMax = 2
  MaxLag = 2
  MaxSubmissions = 2
  RuntimeHorizon = 6
INVARIANTS
  ReadyIsThisSession
  DeafSessionsEnd
  StuckDispatchNoticed
  ReadyzIsHonest
PROPERTIES
  StallsAreEarned
  NoFalseAlarm
