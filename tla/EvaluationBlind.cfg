SPECIFICATION Spec
CONSTANTS
  None = None
  home = home
  cabin = cabin
  tyres = tyres
  brakes = brakes
  Entry = {home, cabin}
  Geofenced = {home, cabin}
  Inner <- Radius2
  Outer <- Radius4
  Hysteresis <- Buffer1
  LowPercent <- LowAtHome
  LowIsFault = {home}
  Fault = {}
  Configured <- SomeConfigured
  Position = {1, 3, 12}
  Distance <- Road
  Level = {10, 50}
  Sights <- Blind
INVARIANTS
  ImpossibleStaysUnknown
