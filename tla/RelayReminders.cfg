SPECIFICATION Spec
CONSTANTS
  None = None
  parked = parked
  plugged = plugged
  State = {parked, plugged}
  Hold = 1
  RetryInitial = 1
  RetryMax = 1
  RetryCap = 1
  Dry = FALSE
  Rules <- ReminderRules
  Default = "no"
  Readings <- Journey
  Outcomes = {"accepted", "rejected"}
  SubmitLag = 0
  Horizon = 4
INVARIANTS
  UnresolvedIsRetried
  SharedDeadline
  NeverPastDeadline
PROPERTIES
  PacedSpec
  EpisodesAnchored
