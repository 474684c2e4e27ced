SPECIFICATION Spec
CONSTANTS
  None = None
  home = home
  cabin = cabin
  tyres = tyres
  brakes = brakes
  Entry = {home, cabin}
  Geofenced = {home, cabin}
  Inner <- Radius2
  Outer <- Radius4
  Hysteresis <- Buffer1
  LowPercent <- LowAtHome
  LowIsFault = {home}
  Fault = {tyres, brakes}
  Configured <- AllConfigured
  Position = {1, 2, 3, 4, 12}
  Distance <- Road
  Level = {10, 50}
  Sights <- Trip
INVARIANTS
  BandsPartition
PROPERTIES
  KnownWhenDetermined
  NoBounce
