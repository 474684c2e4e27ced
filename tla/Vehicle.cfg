SPECIFICATION VehicleSpec
CONSTANTS
  None = None
  parked = parked
  charging = charging
  lat = lat
  lon = lon
  gps = gps
  battery_level = battery_level
  Input = {parked, charging}
  Configurations <- EitherConfiguration
  TrueValues <- TrueTexts
  FalseValues <- FalseTexts
  InputStale <- InputStaleSoon
  BatteryStale = 3
  LocationStale = 3
  Skew = 1
  Message <- AnyMessages
  MaxCoordinates = 5
  VehicleHorizon = 5
INVARIANTS
  VehicleTypeOK
  LocationIsOnePosition
  LocationOutlivesNoHalf
  LoneCoordinateDistrusts
  NoPairMissed
  LossesWakeTheLoop
PROPERTIES
  ReceiptLosesNothing
