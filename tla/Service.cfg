SPECIFICATION Spec
\* The process exits.
CHECK_DEADLOCK FALSE
CONSTANTS
  Connection = {"request"}
  Holder <- Holders
  Capacity = 2
  Grace = 2
  MaxEvents = 4
INVARIANTS
  DropsAccounted
  WaitsOnlyOnOpen
  DrainsAccepted
PROPERTIES
  WaitsOnlyForOthers
  EndsAreFollowed
  DropsReported
