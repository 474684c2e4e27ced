----------------------------- MODULE MCVehicle -----------------------------
(***************************************************************************)
(* Instances of the vehicle for TLC.                                       *)
(***************************************************************************)
EXTENDS Vehicle

CONSTANTS parked, charging, lat, lon, gps, battery_level

M(topic, text, percent, latitude, longitude, position) ==
  [topic |-> topic, text |-> text, percent |-> percent, latitude |-> latitude,
   longitude |-> longitude, position |-> position]

\* parked reads 1 and 0, charging reads true, and 0, too.
TrueTexts == [b \in Input |-> IF b = parked THEN {"1"} ELSE {"true"}]
FalseTexts == [b \in Input |-> {"0"}]

\* Only a location, in two halves.
Halves == [topics |-> [b \in Input |-> None], battery |-> None, json |-> None,
           latitude |-> lat, longitude |-> lon]

\* Two latitudes, two longitudes, and a number that is a longitude only.
SplitMessages ==
  { M(lat, "7", Unknown, "7", "7", Nowhere), M(lat, "8", Unknown, "8", "8", Nowhere),
    M(lat, "120", Unknown, Unknown, "120", Nowhere),
    M(lon, "7", Unknown, "7", "7", Nowhere), M(lon, "120", Unknown, Unknown, "120", Nowhere) }

\* Two booleans and the battery on one topic, and a location in JSON.
Shared == [topics |-> [b \in Input |-> battery_level], battery |-> battery_level, json |-> gps,
           latitude |-> None, longitude |-> None]

Garage == [latitude |-> "7", longitude |-> "120"]
SharedMessages ==
  { M(battery_level, "1", "1", "1", "1", Nowhere), M(battery_level, "0", "0", "0", "0", Nowhere),
    M(battery_level, "50", "50", "50", "50", Nowhere),
    M(battery_level, "true", Unknown, Unknown, Unknown, Nowhere),
    M(gps, "json", Unknown, Unknown, Unknown, Garage),
    M(gps, "json", Unknown, Unknown, Unknown, Nowhere) }

AnyMessages == SplitMessages \cup SharedMessages
EitherConfiguration == {Halves, Shared}

InputStaleSoon == [b \in Input |-> 2]

=============================================================================
