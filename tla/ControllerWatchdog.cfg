SPECIFICATION Spec
CONSTANTS
  None = None
  parked = parked
  plugged = plugged
  board = board
  State = {parked, plugged}
  Hold = 2
  RetryInitial = 1
  RetryMax = 2
  RetryCap = 2
  Dry = FALSE
  N = 2
  RulesOf <- TwoBlinks
  DefaultOf <- TwoDefaults
  DeviceOf <- NoBoards
  Device = {}
  StaleAfter <- NoStale
  Topic = {"vehicle"}
  Reports <- NoReports
  Readings <- AlwaysParked
  Outcomes = {"accepted", "rejected"}
  Timeout = None
  Interval = 1
  WatchdogTimeout = 6
  Idle = 1
  SubmitLag = 0
  Lateness = 0
  Horizon = 8
INVARIANTS
  PulsesInTime
