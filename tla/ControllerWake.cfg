SPECIFICATION Spec
CONSTANTS
  None = None
  parked = parked
  plugged = plugged
  board = board
  State = {parked}
  Hold = 2
  RetryInitial = 1
  RetryMax = 2
  RetryCap = 2
  Dry = FALSE
  N = 1
  RulesOf <- OneBlink
  DefaultOf <- OneDefault
  DeviceOf <- NoBoard
  Device = {}
  StaleAfter <- NoStale
  Topic = {"vehicle"}
  Reports <- NoReports
  Readings <- AllKnown
  Outcomes = {"accepted", "rejected"}
  Timeout = 4
  Interval = 1
  WatchdogTimeout = 5
  Idle = 20
  SubmitLag = 0
  Lateness = 0
  Horizon = 7
INVARIANTS
  PulsesInTime
  QuiescentUntilWake
PROPERTIES
  TimeoutSilencesOn
