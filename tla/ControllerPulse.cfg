SPECIFICATION Spec
CONSTANTS
  None = None
  parked = parked
  plugged = plugged
  board = board
  State = {parked}
  Hold = 1
  RetryInitial = 1
  RetryMax = 2
  RetryCap = 2
  Dry = FALSE
  N = 2
  RulesOf <- TwoSteady
  DefaultOf <- TwoDefaults
  DeviceOf <- FirstOnBoard
  Device = {board}
  StaleAfter <- StaleSoon
  Topic = {"vehicle"}
  Reports <- KnownReport
  Readings <- AllKnown
  Outcomes = {"accepted", "rejected", "ambiguous"}
  Timeout = None
  Interval = 1
  WatchdogTimeout = 4
  Idle = 9
  SubmitLag = 1
  Lateness = 1
  Horizon = 2
INVARIANTS
  PulseProvesDelivery
  QuiescentUntilWake
PROPERTIES
  CommandsReachable
  RelaysScheduled
