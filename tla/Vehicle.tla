------------------------------- MODULE Vehicle -------------------------------
(***************************************************************************)
(* What is known of the vehicle (src/inputs.rs): facts decoded from MQTT   *)
(* messages, each with an optional expiry, and a location that comes       *)
(* whole, in one JSON message, or split, latitude and longitude in         *)
(* messages of their own that have to be put together.                     *)
(*                                                                         *)
(* The controller task receives one message, then ticks; the tick lets     *)
(* facts expire before it reads them.  A message is the record of what     *)
(* each decoder makes of it: Unknown, or Nowhere, where it rejects it.     *)
(* Coordinates are names; that they lie in their ranges is part of the     *)
(* decoding.  The names that Evaluation uses too begin with Vehicle.       *)
(***************************************************************************)
EXTENDS Model, Sequences

CONSTANTS
  Input,             \* the boolean inputs and the faults
  Configurations,    \* the configurations to choose from: the topics of all inputs
  TrueValues,        \* the texts each input takes for true
  FalseValues,       \* and for false
  InputStale,        \* stale_after_seconds of each, or None
  BatteryStale,
  LocationStale,     \* stale_after_seconds of the location, or None
  Skew,              \* max_coordinate_skew_seconds
  Message,           \* the messages that may come
  MaxCoordinates,    \* bound of the number of coordinates received
  VehicleHorizon     \* bound of the clock, for model checking

Axis == {"latitude", "longitude"}

\* A location without a value.
Nowhere == [latitude |-> Unknown, longitude |-> Unknown]

OptSpan == Nat \cup {None}

\* The location is in JSON, or split over two topics, or not configured; what has no
\* topic is not.
ValidLocation(c) ==
  /\ c.latitude # None => c.json = None /\ c.longitude \notin {None, c.latitude}
  /\ c.latitude = None => c.longitude = None

ASSUME VehicleAssumption ==
  /\ \A b \in Input : TrueValues[b] \cup FalseValues[b] \subseteq STRING
  /\ InputStale \in [Input -> OptSpan] /\ BatteryStale \in OptSpan
  /\ LocationStale \in OptSpan /\ Skew \in Nat
  /\ \A c \in Configurations : DOMAIN c.topics = Input /\ ValidLocation(c)
  /\ \A m \in Message :
       /\ m.text \in STRING /\ m.topic # None
       /\ m.latitude # Unknown => m.longitude # Unknown   \* the wider range
       /\ m.position = Nowhere \/ Unknown \notin {m.position[a] : a \in Axis}
  /\ MaxCoordinates \in Nat /\ VehicleHorizon \in Nat

VARIABLES
  inputs,            \* the configuration, chosen at the start
  now,
  booleans,          \* the facts of Vehicle::booleans and Vehicle::faults
  battery, location, \* facts
  split,             \* the SplitLocation
  last_received,     \* the latest accepted message, or None
  waiting,           \* the tick after the latest message is done
  \* History variables, for the properties only.
  read_at,           \* when the facts were last read
  heard,             \* the coordinates accepted since the location was last put together
  paired             \* those it was put together from

vehicle_vars ==
  <<inputs, now, booleans, battery, location, split, last_received, waiting, read_at, heard,
    paired>>

\* What a message may be read as, where it is read as a number.
Number ==
  {Unknown} \cup (UNION {{m.percent, m.latitude, m.longitude} : m \in Message})

Place == {m.position : m \in Message} \cup [latitude : Number, longitude : Number]

Half == [value : Number, at : Nat, generation : Nat]

ASSUME HalfAssumption == None \notin Half      \* Rust's None where there is no half

Split ==
  [latitude : Half \cup {None}, longitude : Half \cup {None},
   generation : Nat, committed : Nat, assembly_deadline : OptTime]

VehicleInit ==
  /\ inputs \in Configurations
  /\ now = 0
  /\ booleans = [b \in Input |-> NewFact]
  /\ battery = NewFact
  /\ location = [value |-> Nowhere, received |-> None]
  /\ split = [latitude |-> None, longitude |-> None, generation |-> 0, committed |-> 0,
              assembly_deadline |-> None]
  /\ last_received = None
  /\ waiting = FALSE
  /\ read_at = 0 /\ heard = <<>> /\ paired = <<>>

----------------------------------------------------------------------------
(* Receipt.  Every input of the topic decodes the message for itself.      *)

\* A text that is in both lists is true.
DecodeBool(b, text) ==
  IF text \in TrueValues[b] THEN Yes ELSE IF text \in FalseValues[b] THEN No ELSE Unknown

Decoded(b, m) == IF inputs.topics[b] = m.topic THEN DecodeBool(b, m.text) ELSE Unknown

Percent(m) == IF inputs.battery = m.topic THEN m.percent ELSE Unknown

JsonPosition(m) == IF inputs.json = m.topic THEN m.position ELSE Nowhere

\* The axis a message is about, and its coordinate.
AxisOf(m) == IF m.topic = inputs.latitude THEN "latitude" ELSE "longitude"

Coordinate(m) == IF m.topic \in {inputs.latitude, inputs.longitude} THEN m[AxisOf(m)] ELSE Unknown

Accepted(m) ==
  \/ \E b \in Input : Decoded(b, m) # Unknown
  \/ Percent(m) # Unknown \/ JsonPosition(m) # Nowhere \/ Coordinate(m) # Unknown

----------------------------------------------------------------------------
(* Putting a split location together.                                      *)

Apart(p, q) == IF p.at >= q.at THEN p.at - q.at ELSE q.at - p.at

BothHalves(sp) == sp.latitude # None /\ sp.longitude # None

FreshHalves(sp, t) ==
  LocationStale # None =>
    t - sp.latitude.at < LocationStale /\ t - sp.longitude.at < LocationStale

\* A mutated form: one new half is enough.
PairReadyHalfNew(sp, t) ==
  /\ sp.latitude.generation > sp.committed \/ sp.longitude.generation > sp.committed
  /\ Apart(sp.latitude, sp.longitude) <= Skew
  /\ FreshHalves(sp, t)

\* Both halves came after the latest location, and belong together.
PairReady(sp, t) ==
  /\ sp.latitude.generation > sp.committed
  /\ sp.longitude.generation > sp.committed
  /\ Apart(sp.latitude, sp.longitude) <= Skew
  /\ FreshHalves(sp, t)

\* A mutated form: the newer half is dropped.
PrunedNewest(sp) ==
  IF sp.latitude.at <= sp.longitude.at THEN [sp EXCEPT !.longitude = None]
  ELSE [sp EXCEPT !.latitude = None]

\* The older half will never find a partner.
Pruned(sp) ==
  IF sp.latitude.at <= sp.longitude.at THEN [sp EXCEPT !.latitude = None]
  ELSE [sp EXCEPT !.longitude = None]

Replaced(sp, axis, half) ==
  [sp EXCEPT !.latitude = IF axis = "latitude" THEN half ELSE @,
             !.longitude = IF axis = "longitude" THEN half ELSE @,
             !.generation = half.generation]

NewHalf(sp, value, t) == [value |-> value, at |-> t, generation |-> sp.generation + 1]

\* A mutated form: every coordinate grants the assembly another skew.
WithCoordinateExtending(sp, axis, value, t) ==
  [Replaced(sp, axis, NewHalf(sp, value, t)) EXCEPT !.assembly_deadline = t + Skew]

WithCoordinate(sp, axis, value, t) ==
  [Replaced(sp, axis, NewHalf(sp, value, t)) EXCEPT
     !.assembly_deadline = IF @ = None THEN t + Skew ELSE @]

\* A mutated form: the location is as young as its younger half.
FixYounger(sp) ==
  [value |-> [latitude |-> sp.latitude.value, longitude |-> sp.longitude.value],
   received |-> LaterOf(sp.latitude.at, sp.longitude.at)]

\* The location is as old as its older half.
Fix(sp) ==
  [value |-> [latitude |-> sp.latitude.value, longitude |-> sp.longitude.value],
   received |-> SoonerOf(sp.latitude.at, sp.longitude.at)]

\* A mutated form: the assembly is done, its deadline still runs.
CompletedHalf(sp) == [sp EXCEPT !.committed = sp.generation]

Completed(sp) == [sp EXCEPT !.committed = sp.generation, !.assembly_deadline = None]

Assemble(sp, t) ==
  IF BothHalves(sp) /\ PairReady(sp, t)
  THEN /\ location' = Fix(sp)
       /\ split' = Completed(sp)
  ELSE /\ UNCHANGED location
       /\ split' = IF BothHalves(sp) /\ (Apart(sp.latitude, sp.longitude) > Skew
                                         \/ ~ FreshHalves(sp, t))
                   THEN Pruned(sp) ELSE sp

ReceiveLocation(m) ==
  CASE JsonPosition(m) # Nowhere ->
         /\ location' = [value |-> JsonPosition(m), received |-> now]
         /\ UNCHANGED split
    [] Coordinate(m) # Unknown ->
         Assemble(WithCoordinate(split, AxisOf(m), Coordinate(m), now), now)
    [] OTHER -> UNCHANGED <<location, split>>

----------------------------------------------------------------------------
(* Expiry, at the beginning of a tick.                                     *)

Expired(f, stale_after) == FactExpire(f, stale_after, now)

\* An assembly that has waited out the skew makes the location unknown, whatever
\* it was, and keeps it so until both halves have come.
ExpiredLocation ==
  IF \/ Passed(FactDeadline(location, LocationStale), now)
     \/ Passed(split.assembly_deadline, now)
  THEN [location EXCEPT !.value = Nowhere] ELSE location

\* A mutated form: the loop is not woken when an assembly has waited long enough.
FreshnessDeadlinesUnsplit ==
  {FactDeadline(booleans[b], InputStale[b]) : b \in Input}
  \cup {FactDeadline(battery, BatteryStale), FactDeadline(location, LocationStale)}

\* The vehicle's part of next_deadline.
FreshnessDeadlines ==
  {FactDeadline(booleans[b], InputStale[b]) : b \in Input}
  \cup {FactDeadline(battery, BatteryStale), FactDeadline(location, LocationStale),
        split.assembly_deadline}

----------------------------------------------------------------------------
\* A mutated form: what an input cannot decode makes it unknown.
ReceivedBooleanForgetting(b, m) ==
  IF inputs.topics[b] # m.topic THEN booleans[b] ELSE FactReceive(Decoded(b, m), now)

ReceivedBoolean(b, m) ==
  IF Decoded(b, m) = Unknown THEN booleans[b] ELSE FactReceive(Decoded(b, m), now)

Receive(m) ==
  /\ waiting
  /\ Coordinate(m) # Unknown => split.generation < MaxCoordinates
  /\ booleans' = [b \in Input |-> ReceivedBoolean(b, m)]
  /\ battery' = IF Percent(m) = Unknown THEN battery ELSE FactReceive(Percent(m), now)
  /\ ReceiveLocation(m)
  /\ last_received' = IF Accepted(m) THEN now ELSE last_received
  /\ waiting' = FALSE
  /\ LET log == IF Coordinate(m) = Unknown THEN heard
                ELSE Append(heard, [axis |-> AxisOf(m), value |-> Coordinate(m), at |-> now])
         fixed == split'.committed # split.committed
     IN  /\ heard' = IF fixed THEN <<>> ELSE log
         /\ paired' = IF fixed THEN log ELSE paired
  /\ UNCHANGED <<inputs, now, read_at>>

Tick ==
  /\ booleans' = [b \in Input |-> Expired(booleans[b], InputStale[b])]
  /\ battery' = Expired(battery, BatteryStale)
  /\ location' = ExpiredLocation
  /\ waiting' = TRUE
  /\ read_at' = now
  /\ UNCHANGED <<inputs, now, split, last_received, heard, paired>>

Pass ==
  /\ now < VehicleHorizon
  /\ now' = now + 1
  /\ UNCHANGED <<inputs, booleans, battery, location, split, last_received, waiting,
                 read_at, heard, paired>>

VehicleNext == Tick \/ Pass \/ \E m \in Message : Receive(m)

VehicleSpec == VehicleInit /\ [][VehicleNext]_vehicle_vars

----------------------------------------------------------------------------
\* The type invariant; among others, an assembly deadline runs exactly while a
\* coordinate has come that is not part of the location.
VehicleTypeOK ==
  /\ inputs \in Configurations /\ now \in Nat /\ read_at \in Nat
  /\ booleans \in [Input -> BoolFact]
  /\ battery \in [value : Number, received : OptTime]
  /\ location \in [value : Place, received : OptTime]
  /\ split \in Split
  /\ split.committed <= split.generation
  /\ split.assembly_deadline # None <=> split.committed < split.generation
  /\ last_received \in OptTime /\ waiting \in BOOLEAN

\* The latest coordinate of an axis in a log of coordinates, if there is one.
Latest(log, axis) ==
  {log[i] : i \in {k \in DOMAIN log : /\ log[k].axis = axis
                                     /\ \A j \in DOMAIN log : log[j].axis = axis => j <= k}}

\* A split location is one position: its coordinates are the latest of their axes,
\* neither was part of an earlier location, and they came within the skew of one
\* another, in whatever order and with whatever repetitions the halves came.
LocationIsOnePosition ==
  inputs.latitude # None /\ location.value # Nowhere =>
    \E a \in Latest(paired, "latitude"), b \in Latest(paired, "longitude") :
      /\ location.value = [latitude |-> a.value, longitude |-> b.value]
      /\ Apart(a, b) <= Skew

\* What a tick reads is gone as soon as either of its halves is stale.
LocationOutlivesNoHalf ==
  inputs.latitude # None /\ LocationStale # None /\ waiting /\ location.value # Nowhere =>
    \A axis \in Axis : \A c \in Latest(paired, axis) : read_at < c.at + LocationStale

\* One axis cannot keep an old location alive (README, Freshness): once a coordinate
\* has waited the skew for its partner no tick reads a location, however many more
\* coordinates come for the same axis, until a new pair is complete.
LoneCoordinateDistrusts ==
  waiting /\ heard # <<>> /\ read_at >= heard[1].at + Skew => location.value = Nowhere

\* No position is missed: coordinates of both axes that came since the latest
\* location, within the skew and fresh, have been put together, also when older
\* or newer ones of the same axis were dropped meanwhile.
NoPairMissed ==
  \A a \in Latest(heard, "latitude"), b \in Latest(heard, "longitude") :
    Apart(a, b) > Skew \/ (LocationStale # None /\ Apart(a, b) >= LocationStale)

\* Malformed payloads preserve the last valid value (README, States): a receipt makes
\* nothing unknown, whichever other inputs of its topic can decode it; only time does.
ReceiptLosesNothing ==
  [][waiting /\ ~ waiting' =>
       /\ \A b \in Input : booleans[b].value # Unknown => booleans'[b].value # Unknown
       /\ battery.value # Unknown => battery'.value # Unknown
       /\ location.value # Nowhere => location'.value # Nowhere]_vehicle_vars

\* A loop that sleeps until the earliest deadline ahead misses no loss of a fact.
LossesWakeTheLoop ==
  waiting /\ (\A d \in FreshnessDeadlines \ {None} : d > read_at => now < d) =>
    /\ \A b \in Input : Expired(booleans[b], InputStale[b]) = booleans[b]
    /\ Expired(battery, BatteryStale) = battery
    /\ ExpiredLocation = location

=============================================================================
