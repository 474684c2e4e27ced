----------------------------- MODULE Evaluation -----------------------------
(***************************************************************************)
(* The application states (src/rules.rs): three-valued conditions derived  *)
(* from what is known of the vehicle, per entry of state_settings and then *)
(* combined over the entries, with an exit buffer around each geofence     *)
(* that depends on the membership found by the evaluation before.          *)
(*                                                                         *)
(* What the vehicle supplies at an evaluation is a sight: a truth for each *)
(* boolean input and fault, a position and a battery level, None when      *)
(* unknown.  Sights follow one another freely: Vehicle models where they   *)
(* come from.  Positions matter by their distances only.                   *)
(***************************************************************************)
EXTENDS Model

CONSTANTS
  Entry,             \* the entries of state_settings
  Geofenced,         \* those with a geofence
  Inner, Outer,      \* its radii
  Hysteresis,        \* hysteresis_meters
  LowPercent,        \* battery_low_percent of each entry, or None
  LowIsFault,        \* the entries with battery_low_is_fault
  Fault,             \* the configured faults
  Configured,        \* the other inputs configured, "location" and "battery" among them
  Position,          \* where the vehicle may be
  Distance,          \* of a position from the target of a geofence
  Level,             \* the battery levels that may be reported
  Sights             \* the sights that may occur

Boolean == {"charging", "plugged_in", "charge_complete", "parked", "locked", "online",
            "source_healthy"}

Sight ==
  [inputs : [Boolean -> Truth], faults : [Fault -> Truth],
   position : Position \cup {None}, battery : Level \cup {None}]

\* Config::validate of an entry: the buffer is smaller than the gap between the radii.
ValidEntry(e) ==
  /\ e \in Geofenced => /\ Inner[e] \in Nat \ {0} /\ Outer[e] \in Nat /\ Hysteresis[e] \in Nat
                        /\ Inner[e] + Hysteresis[e] < Outer[e]
  /\ LowPercent[e] \in (0 .. 100) \cup {None}

ASSUME EvaluationAssumption ==
  /\ Geofenced \subseteq Entry /\ LowIsFault \subseteq Entry
  /\ DOMAIN LowPercent = Entry /\ \A e \in Entry : ValidEntry(e)
  /\ None \notin Position /\ \A p \in Position, e \in Geofenced : Distance[p][e] \in Nat
  /\ Level \subseteq Nat
  /\ Sights \subseteq Sight
  \* What is not configured is never known.
  /\ \A s \in Sights : /\ \A b \in Boolean \ Configured : s.inputs[b] = Unknown
                       /\ "location" \notin Configured => s.position = None
                       /\ "battery" \notin Configured => s.battery = None

----------------------------------------------------------------------------
(* Three-valued logic.                                                     *)

Not(a) == IF a = Unknown THEN Unknown ELSE IF a = Yes THEN No ELSE Yes

\* A mutated form: whatever is unknown makes the conjunction unknown.
AndStrict(values) ==
  IF Unknown \in values THEN Unknown ELSE IF No \in values THEN No ELSE Yes

And(values) ==
  IF No \in values THEN No ELSE IF Unknown \in values THEN Unknown ELSE Yes

\* Of nothing, nothing is known.
Or(values) ==
  IF Yes \in values THEN Yes ELSE IF Unknown \in values \/ values = {} THEN Unknown ELSE No

Truly(b) == IF b THEN Yes ELSE No

----------------------------------------------------------------------------
(* One entry.                                                              *)

NoBuffer(e, was) == 0                   \* a mutated form

\* Who was inside leaves only beyond the buffer.
Buffer(e, was) == IF was = Yes THEN Hysteresis[e] ELSE 0

Inside(e, s, before) ==
  IF s.position = None THEN Unknown
  ELSE Truly(Distance[s.position][e] < Inner[e] + Buffer(e, before[e].LocationInner))

Within(e, s, before) ==
  IF s.position = None THEN Unknown
  ELSE Truly(Distance[s.position][e] <= Outer[e] + Buffer(e, before[e].LocationWithinOuter))

\* A mutated form: the band begins at the radius, not at the buffer.
BandRaw(e, s, before) ==
  IF s.position = None THEN Unknown
  ELSE And({Within(e, s, before), Truly(Distance[s.position][e] >= Inner[e])})

Band(e, s, before) == And({Within(e, s, before), Not(Inside(e, s, before))})

Low(e, s) ==
  IF LowPercent[e] = None \/ s.battery = None THEN Unknown
  ELSE Truly(s.battery <= LowPercent[e])

\* The states of a geofence; all unknown before the first evaluation.
EntryStates(e, s, before) ==
  LET inside   == Inside(e, s, before)
      charging == s.inputs["charging"]
      plugged  == s.inputs["plugged_in"]
      parked   == s.inputs["parked"]
      complete == s.inputs["charge_complete"]
  IN [LocationWithinOuter |-> Within(e, s, before),
      LocationOuterBand |-> Band(e, s, before),
      LocationInner |-> inside,
      LocationInnerNotCharging |-> And({inside, Not(charging)}),
      LocationInnerAndCharging |-> And({inside, charging}),
      LocationInnerAndPluggedIn |-> And({inside, plugged}),
      LocationInnerNotPluggedIn |-> And({inside, Not(plugged)}),
      LocationInnerNotParked |-> And({inside, Not(parked)}),
      LocationInnerParkedNotPluggedIn |-> And({inside, parked, Not(plugged)}),
      LocationInnerPluggedInNotCharging |-> And({inside, plugged, Not(charging)}),
      LocationInnerChargeComplete |-> And({inside, plugged, Not(charging), complete})]

Location ==
  {"LocationWithinOuter", "LocationOuterBand", "LocationInner", "LocationInnerNotCharging",
   "LocationInnerAndCharging", "LocationInnerAndPluggedIn", "LocationInnerNotPluggedIn",
   "LocationInnerNotParked", "LocationInnerParkedNotPluggedIn",
   "LocationInnerPluggedInNotCharging", "LocationInnerChargeComplete"}

----------------------------------------------------------------------------
(* All entries together.                                                   *)

Batteries == {e \in Entry : LowPercent[e] # None}

VehicleFault(s) ==
  Or({s.faults[f] : f \in Fault}
     \cup {Low(e, s) : e \in IF "battery" \in Configured THEN Batteries \cap LowIsFault ELSE {}})

Located(s, before) ==
  LET table == {EntryStates(e, s, before) : e \in Geofenced}
  IN  [name \in Location |-> Or({states[name] : states \in table})]

\* The states that are no location's; those of the inputs have the inputs' names.
DerivedName == {"BatteryLow", "VehicleFault", "VehicleFaultFree"}

Derived(s) ==
  [BatteryLow |-> Or({Low(e, s) : e \in Batteries}),
   VehicleFault |-> VehicleFault(s),
   VehicleFaultFree |-> Not(VehicleFault(s))]

StateName == Location \cup DerivedName \cup Boolean

Combined(s, before) ==
  LET located == Located(s, before)
      derived == Derived(s)
  IN  [name \in StateName |-> IF name \in Location THEN located[name]
                              ELSE IF name \in DerivedName THEN derived[name]
                              ELSE s.inputs[name]]

\* What the configuration check calls producible.
Possible(name) ==
  CASE name \in Boolean -> name \in Configured
    [] name = "BatteryLow" -> "battery" \in Configured /\ Batteries # {}
    [] name \in {"VehicleFault", "VehicleFaultFree"} ->
         Fault # {} \/ ("battery" \in Configured /\ Batteries \cap LowIsFault # {})
    [] name \in Location -> "location" \in Configured /\ Geofenced # {}

----------------------------------------------------------------------------
VARIABLES
  entries,           \* the states of every geofence, at the latest evaluation
  combined,          \* the combined states
  \* History variables, for the properties only.
  sight,             \* what the latest evaluation saw
  turned             \* for each geofence and radius, the distance at which known
                     \* membership last changed since it was last unknown, or None

vars == <<entries, combined, sight, turned>>

Radius == {"LocationInner", "LocationWithinOuter"}

Init ==
  /\ entries = [e \in Geofenced |-> [name \in Location |-> Unknown]]
  /\ sight = [inputs |-> [b \in Boolean |-> Unknown], faults |-> [f \in Fault |-> Unknown],
              position |-> None, battery |-> None]
  /\ combined = [name \in StateName |-> Unknown]
  /\ turned = [e \in Geofenced |-> [r \in Radius |-> None]]

Turns(e, r) == entries[e][r] # Unknown /\ entries'[e][r] = Not(entries[e][r])

Evaluate(s) ==
  /\ entries' = [e \in Geofenced |-> EntryStates(e, s, entries)]
  /\ combined' = Combined(s, entries)
  /\ sight' = s
  /\ turned' = [e \in Geofenced |-> [r \in Radius |->
                  IF entries'[e][r] = Unknown THEN None
                  ELSE IF Turns(e, r) THEN Distance[s.position][e] ELSE turned[e][r]]]

Next == \E s \in Sights : Evaluate(s)

Spec == Init /\ [][Next]_vars

----------------------------------------------------------------------------
\* The type invariant; among others, an unknown position clears every membership.
TypeOK ==
  /\ entries \in [Geofenced -> [Location -> Truth]]
  /\ combined \in [StateName -> Truth]
  /\ sight \in Sight
  /\ \A e \in Geofenced, r \in Radius : entries[e][r] = Unknown <=> sight.position = None
  /\ turned \in [Geofenced -> [Radius -> Nat \cup {None}]]

\* Whoever is within the outer radius is either inside the inner one or in the band,
\* never both, and nobody else is in either, whatever the buffers make of the radii;
\* and no two lights that contradict each other can be on, over all entries.
BandsPartition ==
  /\ \A e \in Geofenced :
       LET in   == entries[e].LocationInner
           band == entries[e].LocationOuterBand
       IN  /\ entries[e].LocationWithinOuter = Or({in, band})
           /\ ~ (in = Yes /\ band = Yes)
  /\ \A pair \in {<<"LocationInnerAndCharging", "LocationInnerNotCharging">>,
                  <<"LocationInnerAndPluggedIn", "LocationInnerNotPluggedIn">>,
                  <<"LocationInnerChargeComplete", "LocationInnerAndCharging">>,
                  <<"LocationInnerParkedNotPluggedIn", "LocationInnerNotParked">>} :
       ~ (combined[pair[1]] = Yes /\ combined[pair[2]] = Yes)

\* Position noise smaller than the buffer cannot switch a light twice: between two
\* changes of a known membership, with no unknown in between, the vehicle has moved
\* by more than the hysteresis towards or away from the target.
NoBounce ==
  [][\A e \in Geofenced, r \in Radius :
       Turns(e, r) /\ turned[e][r] # None =>
         LET d == Distance[sight'.position][e]
         IN  d - turned[e][r] > Hysteresis[e] \/ turned[e][r] - d > Hysteresis[e]]_vars

\* The ways to fill in what is unknown among some truths.
Filled(truths) ==
  LET open == {x \in DOMAIN truths : truths[x] = Unknown}
  IN  {[x \in DOMAIN truths |-> IF x \in open THEN Truly(x \in true) ELSE truths[x]] :
         true \in SUBSET open}

\* The sights with everything known that do not contradict s.
Completions(s) ==
  {[inputs |-> i, faults |-> f, position |-> p, battery |-> b] :
     i \in Filled(s.inputs), f \in Filled(s.faults),
     p \in IF s.position = None THEN Position ELSE {s.position},
     b \in IF s.battery = None THEN Level ELSE {s.battery}}

\* A state is known exactly when it does not depend on what is unknown: a missing
\* fact neither hides what the others decide nor is taken for false.
KnownWhenDetermined ==
  [][LET results == {Combined(c, entries) : c \in Completions(sight')}
     IN  \A name \in {n \in StateName : Possible(n)} :
           LET outcomes == {r[name] : r \in results}
           IN  combined'[name] = IF outcomes = {Yes} THEN Yes
                                 ELSE IF outcomes = {No} THEN No ELSE Unknown]_vars

\* "Whether the configured dependencies can ever supply a known trigger" (rules.rs):
\* what the configuration check reports as not producible stays unknown, so that no
\* rule, of either value of `when', is ever driven by it.
ImpossibleStaysUnknown ==
  \A name \in StateName : ~ Possible(name) => combined[name] = Unknown

=============================================================================
