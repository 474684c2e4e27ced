-------------------------- MODULE KnowledgeProofs ---------------------------
(***************************************************************************)
(* What Carstate knows: of the vehicle, from its messages (Vehicle), and   *)
(* of the rules, from the vehicle (Evaluation).                            *)
(*                                                                         *)
(* Vehicle, for every configuration, message, expiry and skew: a split     *)
(* location is one position, ages with its older half and is distrusted    *)
(* while a coordinate waits too long; no pair is missed, and no loss of a  *)
(* fact comes before a deadline that the loop was given.  The invariant    *)
(* they rest on is HalfInv: a half is the latest coordinate of its axis,   *)
(* or part of the location, and a coordinate that was dropped is Stranded, *)
(* so old that nothing that comes can belong to it; and PairInv: halves    *)
(* that both are new are put together by the receipt of the second one.    *)
(* Time keeps both, since what is stranded only gets older.  A location is *)
(* younger than its deadlines only until it is read: ReadInv.              *)
(*                                                                         *)
(* Evaluation, for every set of geofences, radii, buffers and positions:   *)
(* the bands partition a geofence, which rests on the radii alone, since   *)
(* the buffer is smaller than the gap between them; and there is no        *)
(* bounce, by the invariant Sides: the distance at which a membership      *)
(* last changed lies on the side of the threshold of that membership.      *)
(* What is asserted with something unknown holds whatever it turns out to  *)
(* be, since every operator keeps that of its operands.                    *)
(***************************************************************************)
EXTENDS Evaluation, Vehicle, TLAPS

\* Where a membership changed: inside the radius it now holds for, or at or beyond
\* the buffer around it.  What is unknown has not changed.
Sides ==
  \A e \in Geofenced :
    /\ \A r \in Radius : entries[e][r] = Unknown => turned[e][r] = None
    /\ turned[e].LocationInner # None =>
         /\ entries[e].LocationInner = Yes => turned[e].LocationInner < Inner[e]
         /\ entries[e].LocationInner = No =>
              turned[e].LocationInner >= Inner[e] + Hysteresis[e]
    /\ turned[e].LocationWithinOuter # None =>
         /\ entries[e].LocationWithinOuter = Yes => turned[e].LocationWithinOuter <= Outer[e]
         /\ entries[e].LocationWithinOuter = No =>
              turned[e].LocationWithinOuter > Outer[e] + Hysteresis[e]

IInv == TypeOK /\ Sides

----------------------------------------------------------------------------
(* The three-valued operators.                                             *)

LEMMA NotType == ASSUME NEW a \in Truth PROVE Not(a) \in Truth
BY DEF Not, Truth, Known, Yes, No, Unknown

LEMMA AndType == ASSUME NEW S PROVE And(S) \in Truth
BY DEF And, Truth, Known

LEMMA OrType == ASSUME NEW S PROVE Or(S) \in Truth
BY DEF Or, Truth, Known

LEMMA TrulyType == ASSUME NEW b PROVE Truly(b) \in Known
BY DEF Truly, Known

\* A conjunction that holds, holds of each part.
LEMMA AndYes ==
  ASSUME NEW S \in SUBSET Truth, And(S) = Yes
  PROVE  \A a \in S : a = Yes
BY DEF And, Truth, Known, Yes, No, Unknown

\* A disjunction that holds, holds of some part.
LEMMA OrYes ==
  ASSUME NEW S \in SUBSET Truth, Or(S) = Yes
  PROVE  Yes \in S
BY DEF Or, Yes, No, Unknown

----------------------------------------------------------------------------
(* One entry.                                                              *)

LEMMA SightType ==
  ASSUME NEW s \in Sights
  PROVE  /\ s \in Sight /\ s.inputs \in [Boolean -> Truth] /\ s.faults \in [Fault -> Truth]
         /\ \A e \in Geofenced : s.position # None => Distance[s.position][e] \in Nat
BY EvaluationAssumption DEF Sight

LEMMA InputTypes ==
  ASSUME NEW s \in Sights
  PROVE  /\ s.inputs["charging"] \in Truth /\ s.inputs["plugged_in"] \in Truth
         /\ s.inputs["parked"] \in Truth /\ s.inputs["charge_complete"] \in Truth
BY SightType DEF Boolean

\* The radii and the buffer of a geofence that the configuration check lets through.
LEMMA RadiusFacts ==
  ASSUME NEW e \in Geofenced
  PROVE  /\ Inner[e] \in Nat \ {0} /\ Outer[e] \in Nat /\ Hysteresis[e] \in Nat
         /\ Inner[e] + Hysteresis[e] < Outer[e]
BY EvaluationAssumption DEF ValidEntry

\* The buffer is none or the hysteresis.
LEMMA BufferFacts ==
  ASSUME NEW e \in Geofenced, NEW was
  PROVE  /\ Buffer(e, was) \in Nat /\ Buffer(e, was) <= Hysteresis[e]
         /\ was = Yes => Buffer(e, was) = Hysteresis[e]
         /\ was # Yes => Buffer(e, was) = 0
BY RadiusFacts DEF Buffer

LEMMA RadiusTypes ==
  ASSUME NEW e \in Geofenced, NEW s \in Sights, NEW before
  PROVE  /\ Inside(e, s, before) \in Truth /\ Within(e, s, before) \in Truth
         /\ Inside(e, s, before) = Unknown <=> s.position = None
         /\ Within(e, s, before) = Unknown <=> s.position = None
BY DEF Inside, Within, Truly, Truth, Known, Yes, No, Unknown

LEMMA EntryType ==
  ASSUME NEW e \in Geofenced, NEW s \in Sights, NEW before
  PROVE  EntryStates(e, s, before) \in [Location -> Truth]
<1>1. Inside(e, s, before) \in Truth /\ Within(e, s, before) \in Truth
  BY RadiusTypes
<1> QED BY <1>1, AndType DEF EntryStates, Band, Location

\* Inside implies within, so the band is what is left.
LEMMA EntryPartition ==
  ASSUME NEW e \in Geofenced, NEW s \in Sights, NEW before
  PROVE  /\ Within(e, s, before) = Or({Inside(e, s, before), Band(e, s, before)})
         /\ ~ (Inside(e, s, before) = Yes /\ Band(e, s, before) = Yes)
<1> DEFINE i == Inside(e, s, before)
           w == Within(e, s, before)
<1>1. i \in Truth /\ w \in Truth /\ (i = Unknown <=> w = Unknown)
  BY RadiusTypes
<1>2. i = Yes => w = Yes
  <2> SUFFICES ASSUME i = Yes PROVE w = Yes
    OBVIOUS
  <2> DEFINE d == Distance[s.position][e]
             b == Buffer(e, before[e].LocationInner)
             c == Buffer(e, before[e].LocationWithinOuter)
  <2>1. s.position # None /\ d < Inner[e] + b
    BY DEF Inside, Truly, Yes, No, Unknown
  <2>2. d \in Nat /\ b \in Nat /\ c \in Nat /\ b <= Hysteresis[e]
    BY <2>1, SightType, BufferFacts
  <2>3. /\ Inner[e] \in Nat /\ Outer[e] \in Nat /\ Hysteresis[e] \in Nat
        /\ Inner[e] + Hysteresis[e] < Outer[e]
    BY RadiusFacts
  <2> HIDE DEF d, b, c
  <2>4. d <= Outer[e] + c
    BY <2>1, <2>2, <2>3
  <2> QED BY <2>1, <2>4 DEF Within, Truly, d, c
<1>3. Band(e, s, before) = And({w, Not(i)})
  BY DEF Band
<1> HIDE DEF i, w
<1>4. And({w, Not(i)}) = IF i = Unknown THEN Unknown ELSE IF i = Yes THEN No ELSE w
  BY <1>1, <1>2 DEF And, Not, Truth, Known, Yes, No, Unknown
<1>5. /\ w = Or({i, And({w, Not(i)})})
      /\ ~ (i = Yes /\ And({w, Not(i)}) = Yes)
  BY <1>1, <1>2, <1>4 DEF Or, Truth, Known, Yes, No, Unknown
<1> QED BY <1>3, <1>5 DEF i, w

\* What the conjunctions of an entry that hold say of the inputs.
LEMMA EntryYes ==
  ASSUME NEW e \in Geofenced, NEW s \in Sights, NEW before
  PROVE  LET t == EntryStates(e, s, before)
             Is(x) == s.inputs[x] = Yes
             IsNot(x) == Not(s.inputs[x]) = Yes
         IN  /\ t.LocationInnerAndCharging = Yes => Is("charging")
             /\ t.LocationInnerNotCharging = Yes => IsNot("charging")
             /\ t.LocationInnerChargeComplete = Yes => IsNot("charging")
             /\ t.LocationInnerAndPluggedIn = Yes => Is("plugged_in")
             /\ t.LocationInnerNotPluggedIn = Yes => IsNot("plugged_in")
             /\ t.LocationInnerParkedNotPluggedIn = Yes => Is("parked")
             /\ t.LocationInnerNotParked = Yes => IsNot("parked")
<1> DEFINE i == Inside(e, s, before)
           c == s.inputs["charging"]
           g == s.inputs["plugged_in"]
           p == s.inputs["parked"]
           d == s.inputs["charge_complete"]
           t == EntryStates(e, s, before)
<1>1. /\ i \in Truth /\ c \in Truth /\ g \in Truth /\ p \in Truth /\ d \in Truth
      /\ Not(c) \in Truth /\ Not(g) \in Truth /\ Not(p) \in Truth
  BY RadiusTypes, InputTypes, NotType
<1>2. /\ t.LocationInnerAndCharging = And({i, c})
      /\ t.LocationInnerNotCharging = And({i, Not(c)})
      /\ t.LocationInnerChargeComplete = And({i, g, Not(c), d})
      /\ t.LocationInnerAndPluggedIn = And({i, g})
      /\ t.LocationInnerNotPluggedIn = And({i, Not(g)})
      /\ t.LocationInnerParkedNotPluggedIn = And({i, p, Not(g)})
      /\ t.LocationInnerNotParked = And({i, Not(p)})
  BY DEF EntryStates
<1> HIDE DEF i, c, g, p, d, t
<1>3. And({i, c}) = Yes => c = Yes
  BY <1>1, AndYes
<1>4. And({i, Not(c)}) = Yes => Not(c) = Yes
  BY <1>1, AndYes
<1>5. And({i, g, Not(c), d}) = Yes => Not(c) = Yes
  BY <1>1, AndYes
<1>6. And({i, g}) = Yes => g = Yes
  BY <1>1, AndYes
<1>7. And({i, Not(g)}) = Yes => Not(g) = Yes
  BY <1>1, AndYes
<1>8. And({i, p, Not(g)}) = Yes => p = Yes
  BY <1>1, AndYes
<1>9. And({i, Not(p)}) = Yes => Not(p) = Yes
  BY <1>1, AndYes
<1> QED BY <1>2, <1>3, <1>4, <1>5, <1>6, <1>7, <1>8, <1>9 DEF c, g, p, t

\* Nothing and its negation.
LEMMA NotBoth == ASSUME NEW a, a = Yes PROVE Not(a) # Yes
BY DEF Not, Yes, No, Unknown

----------------------------------------------------------------------------
(* All entries.                                                            *)

LEMMA LocatedType ==
  ASSUME NEW s \in Sights, NEW before
  PROVE  Located(s, before) \in [Location -> Truth]
BY OrType DEF Located

\* A combined condition holds because it holds of some entry.
LEMMA LocatedYes ==
  ASSUME NEW s \in Sights, NEW before, NEW name \in Location,
         Located(s, before)[name] = Yes
  PROVE  \E e \in Geofenced : EntryStates(e, s, before)[name] = Yes
<1> DEFINE T == {EntryStates(e, s, before) : e \in Geofenced}
           V == {t[name] : t \in T}
<1>1. Located(s, before)[name] = Or(V)
  BY DEF Located
<1>2. V \in SUBSET Truth
  BY EntryType
<1> HIDE DEF V
<1>3. Yes \in V
  BY <1>1, <1>2, OrYes
<1> QED BY <1>3 DEF V

LEMMA DerivedType ==
  ASSUME NEW s \in Sights
  PROVE  Derived(s) \in [DerivedName -> Truth]
<1>1. VehicleFault(s) \in Truth
  BY OrType DEF VehicleFault
<1>2. Not(VehicleFault(s)) \in Truth
  BY <1>1, NotType
<1>3. Or({Low(e, s) : e \in Batteries}) \in Truth
  BY OrType
<1> QED BY <1>1, <1>2, <1>3 DEF Derived, DerivedName

\* The combined states are those of the entries, the derived ones and the inputs.
LEMMA CombinedType ==
  ASSUME NEW s \in Sights, NEW before
  PROVE  /\ Combined(s, before) \in [StateName -> Truth]
         /\ \A name \in Location : Combined(s, before)[name] = Located(s, before)[name]
<1> DEFINE l == Located(s, before)
           d == Derived(s)
           i == s.inputs
<1>1. l \in [Location -> Truth] /\ d \in [DerivedName -> Truth] /\ i \in [Boolean -> Truth]
  BY LocatedType, DerivedType, SightType
<1>2. Combined(s, before) =
        [name \in StateName |-> IF name \in Location THEN l[name]
                                ELSE IF name \in DerivedName THEN d[name] ELSE i[name]]
  BY DEF Combined
<1> HIDE DEF l, d, i
<1>3. Location \subseteq StateName
  BY DEF StateName
<1>4. Combined(s, before) \in [StateName -> Truth]
  BY <1>1, <1>2 DEF StateName
<1>5. \A name \in Location : Combined(s, before)[name] = l[name]
  BY <1>2, <1>3
<1> QED BY <1>4, <1>5 DEF l

\* Combined conditions that contradict each other are not both true.
LEMMA CombinedExclusive ==
  ASSUME NEW s \in Sights, NEW before
  PROVE  LET c == Combined(s, before)
         IN  /\ ~ (c.LocationInnerAndCharging = Yes /\ c.LocationInnerNotCharging = Yes)
             /\ ~ (c.LocationInnerAndPluggedIn = Yes /\ c.LocationInnerNotPluggedIn = Yes)
             /\ ~ (c.LocationInnerChargeComplete = Yes /\ c.LocationInnerAndCharging = Yes)
             /\ ~ (c.LocationInnerParkedNotPluggedIn = Yes /\ c.LocationInnerNotParked = Yes)
<1> DEFINE c == Combined(s, before)
<1>1. ASSUME NEW name \in Location, c[name] = Yes
      PROVE  \E e \in Geofenced : EntryStates(e, s, before)[name] = Yes
  BY <1>1, CombinedType, LocatedYes
<1> HIDE DEF c
<1>2. c.LocationInnerAndCharging = Yes => s.inputs["charging"] = Yes
  BY <1>1, EntryYes DEF Location
<1>3. c.LocationInnerNotCharging = Yes => Not(s.inputs["charging"]) = Yes
  BY <1>1, EntryYes DEF Location
<1>4. c.LocationInnerChargeComplete = Yes => Not(s.inputs["charging"]) = Yes
  BY <1>1, EntryYes DEF Location
<1>5. c.LocationInnerAndPluggedIn = Yes => s.inputs["plugged_in"] = Yes
  BY <1>1, EntryYes DEF Location
<1>6. c.LocationInnerNotPluggedIn = Yes => Not(s.inputs["plugged_in"]) = Yes
  BY <1>1, EntryYes DEF Location
<1>7. c.LocationInnerParkedNotPluggedIn = Yes => s.inputs["parked"] = Yes
  BY <1>1, EntryYes DEF Location
<1>8. c.LocationInnerNotParked = Yes => Not(s.inputs["parked"]) = Yes
  BY <1>1, EntryYes DEF Location
<1>9. /\ ~ (c.LocationInnerAndCharging = Yes /\ c.LocationInnerNotCharging = Yes)
      /\ ~ (c.LocationInnerAndPluggedIn = Yes /\ c.LocationInnerNotPluggedIn = Yes)
      /\ ~ (c.LocationInnerChargeComplete = Yes /\ c.LocationInnerAndCharging = Yes)
      /\ ~ (c.LocationInnerParkedNotPluggedIn = Yes /\ c.LocationInnerNotParked = Yes)
  BY <1>2, <1>3, <1>4, <1>5, <1>6, <1>7, <1>8, NotBoth
<1> QED BY <1>9 DEF c

----------------------------------------------------------------------------
(* The specification.                                                      *)

LEMMA InitIInv == Init => IInv /\ BandsPartition
<1> SUFFICES ASSUME Init PROVE IInv /\ BandsPartition
  OBVIOUS
<1>1. Unknown \in Truth /\ Unknown # Yes /\ Or({Unknown, Unknown}) = Unknown
  BY DEF Or, Truth, Known, Yes, No, Unknown
<1>2. \A e \in Geofenced : \A name \in Location : entries[e][name] = Unknown
  BY DEF Init
<1>3. \A name \in StateName : combined[name] = Unknown
  BY DEF Init
<1>4. Radius \subseteq Location
  BY DEF Radius, Location
<1>5. TypeOK
  BY <1>1, <1>2, <1>4 DEF Init, TypeOK, Sight
<1>6. Sides
  BY <1>2, <1>1 DEF Init, Sides, Radius
<1>7. BandsPartition
  BY <1>1, <1>2, <1>3 DEF BandsPartition, Location, StateName
<1> QED BY <1>5, <1>6, <1>7 DEF IInv

\* Every evaluation leaves the geofences partitioned, whatever was before.
LEMMA EvaluatePartition ==
  ASSUME NEW s \in Sights, Evaluate(s)
  PROVE  BandsPartition'
<1>1. ASSUME NEW e \in Geofenced
      PROVE  /\ entries'[e].LocationWithinOuter =
                  Or({entries'[e].LocationInner, entries'[e].LocationOuterBand})
             /\ ~ (entries'[e].LocationInner = Yes /\ entries'[e].LocationOuterBand = Yes)
  <2>1. /\ entries'[e].LocationWithinOuter = Within(e, s, entries)
        /\ entries'[e].LocationInner = Inside(e, s, entries)
        /\ entries'[e].LocationOuterBand = Band(e, s, entries)
    BY DEF Evaluate, EntryStates
  <2> QED BY <2>1, EntryPartition
<1>2. combined' = Combined(s, entries)
  BY DEF Evaluate
<1> QED BY <1>1, <1>2, CombinedExclusive DEF BandsPartition

LEMMA EvaluateType ==
  ASSUME TypeOK, NEW s \in Sights, Evaluate(s)
  PROVE  TypeOK'
<1>1. entries' \in [Geofenced -> [Location -> Truth]]
  BY EntryType DEF Evaluate
<1>2. combined' \in [StateName -> Truth]
  BY CombinedType DEF Evaluate
<1>3. sight' = s /\ s \in Sight
  BY SightType DEF Evaluate
<1>4. ASSUME NEW e \in Geofenced, NEW r \in Radius
      PROVE  entries'[e][r] = Unknown <=> s.position = None
  <2>1. entries'[e] = EntryStates(e, s, entries)
    BY DEF Evaluate
  <2>2. /\ entries'[e].LocationInner = Inside(e, s, entries)
        /\ entries'[e].LocationWithinOuter = Within(e, s, entries)
    BY <2>1 DEF EntryStates
  <2> QED BY <2>2, RadiusTypes DEF Radius
<1>5. ASSUME NEW e \in Geofenced, NEW r \in Radius
      PROVE  turned'[e][r] \in Nat \cup {None}
  <2>1. CASE entries'[e][r] = Unknown
    BY <2>1 DEF Evaluate
  <2>2. CASE entries'[e][r] # Unknown
    BY <2>2, <1>4, SightType DEF Evaluate, TypeOK
  <2> QED BY <2>1, <2>2
<1>6. turned' \in [Geofenced -> [Radius -> Nat \cup {None}]]
  BY <1>5 DEF Evaluate
<1> QED BY <1>1, <1>2, <1>3, <1>4, <1>6 DEF TypeOK

\* One radius of one geofence at an evaluation: which side of the thresholds the
\* vehicle is on when the membership turns, and when it stays.
LEMMA TurnSides ==
  ASSUME TypeOK, NEW s \in Sights, Evaluate(s), NEW e \in Geofenced,
         s.position # None
  PROVE  LET d == Distance[s.position][e]
         IN  /\ d \in Nat
             /\ Turns(e, "LocationInner") =>
                  /\ entries'[e].LocationInner = Yes => d < Inner[e]
                  /\ entries'[e].LocationInner = No => d >= Inner[e] + Hysteresis[e]
             /\ Turns(e, "LocationWithinOuter") =>
                  /\ entries'[e].LocationWithinOuter = Yes => d <= Outer[e]
                  /\ entries'[e].LocationWithinOuter = No => d > Outer[e] + Hysteresis[e]
<1> DEFINE d == Distance[s.position][e]
           b == Buffer(e, entries[e].LocationInner)
           c == Buffer(e, entries[e].LocationWithinOuter)
<1>1. d \in Nat /\ Inner[e] \in Nat /\ Outer[e] \in Nat /\ Hysteresis[e] \in Nat
  BY SightType, RadiusFacts
<1>2. /\ entries'[e].LocationInner = Truly(d < Inner[e] + b)
      /\ entries'[e].LocationWithinOuter = Truly(d <= Outer[e] + c)
  BY DEF Evaluate, EntryStates, Inside, Within
<1>3. /\ entries[e].LocationInner \in Truth /\ entries[e].LocationWithinOuter \in Truth
  BY DEF TypeOK, Location
<1>4. /\ b \in Nat /\ (entries[e].LocationInner = Yes => b = Hysteresis[e])
      /\ (entries[e].LocationInner # Yes => b = 0)
      /\ c \in Nat /\ (entries[e].LocationWithinOuter = Yes => c = Hysteresis[e])
      /\ (entries[e].LocationWithinOuter # Yes => c = 0)
  BY BufferFacts
<1> HIDE DEF d, b, c
<1>5. ASSUME Turns(e, "LocationInner")
      PROVE  /\ entries'[e].LocationInner = Yes => d < Inner[e]
             /\ entries'[e].LocationInner = No => d >= Inner[e] + Hysteresis[e]
  <2>1. /\ entries'[e].LocationInner = Yes => entries[e].LocationInner # Yes
        /\ entries'[e].LocationInner = No => entries[e].LocationInner = Yes
    BY <1>3, <1>5 DEF Turns, Not, Truth, Known, Yes, No, Unknown
  <2>2. /\ entries'[e].LocationInner = Yes => d < Inner[e] + b
        /\ entries'[e].LocationInner = No => ~ (d < Inner[e] + b)
    BY <1>2 DEF Truly, Yes, No
  <2> QED BY <2>1, <2>2, <1>1, <1>4
<1>6. ASSUME Turns(e, "LocationWithinOuter")
      PROVE  /\ entries'[e].LocationWithinOuter = Yes => d <= Outer[e]
             /\ entries'[e].LocationWithinOuter = No => d > Outer[e] + Hysteresis[e]
  <2>1. /\ entries'[e].LocationWithinOuter = Yes => entries[e].LocationWithinOuter # Yes
        /\ entries'[e].LocationWithinOuter = No => entries[e].LocationWithinOuter = Yes
    BY <1>3, <1>6 DEF Turns, Not, Truth, Known, Yes, No, Unknown
  <2>2. /\ entries'[e].LocationWithinOuter = Yes => d <= Outer[e] + c
        /\ entries'[e].LocationWithinOuter = No => ~ (d <= Outer[e] + c)
    BY <1>2 DEF Truly, Yes, No
  <2> QED BY <2>1, <2>2, <1>1, <1>4
<1> QED BY <1>1, <1>5, <1>6 DEF d

\* Where the membership does not turn and stays known, it stays what it was, or it
\* was unknown and nothing had turned.
LEMMA NoTurn ==
  ASSUME TypeOK, NEW s \in Sights, Evaluate(s), NEW e \in Geofenced, NEW r \in Radius,
         ~ Turns(e, r), entries'[e][r] # Unknown
  PROVE  turned'[e][r] = turned[e][r] /\ (entries'[e][r] = entries[e][r]
                                           \/ entries[e][r] = Unknown)
<1>1. entries[e][r] \in Truth /\ entries'[e][r] \in Truth
  BY EvaluateType DEF TypeOK, Radius, Location
<1>2. turned'[e][r] = turned[e][r]
  BY DEF Evaluate
<1> QED BY <1>1, <1>2 DEF Turns, Not, Truth, Known, Yes, No, Unknown

LEMMA EvaluateSides ==
  ASSUME IInv, NEW s \in Sights, Evaluate(s)
  PROVE  Sides'
<1>0. TypeOK /\ Sides
  BY DEF IInv
<1> SUFFICES ASSUME NEW e \in Geofenced
             PROVE  /\ \A r \in Radius : entries'[e][r] = Unknown => turned'[e][r] = None
                    /\ turned'[e].LocationInner # None =>
                         /\ entries'[e].LocationInner = Yes =>
                              turned'[e].LocationInner < Inner[e]
                         /\ entries'[e].LocationInner = No =>
                              turned'[e].LocationInner >= Inner[e] + Hysteresis[e]
                    /\ turned'[e].LocationWithinOuter # None =>
                         /\ entries'[e].LocationWithinOuter = Yes =>
                              turned'[e].LocationWithinOuter <= Outer[e]
                         /\ entries'[e].LocationWithinOuter = No =>
                              turned'[e].LocationWithinOuter > Outer[e] + Hysteresis[e]
  BY DEF Sides
<1>1. ASSUME NEW r \in Radius, entries'[e][r] = Unknown
      PROVE  turned'[e][r] = None
  BY <1>1 DEF Evaluate
<1>2. CASE s.position = None
  <2>1. entries'[e].LocationInner = Unknown /\ entries'[e].LocationWithinOuter = Unknown
    BY <1>0, <1>2, EvaluateType DEF TypeOK, Radius, Evaluate
  <2> QED BY <2>1, <1>1 DEF Yes, No, Unknown
<1>3. CASE s.position # None
  <2> DEFINE d == Distance[s.position][e]
  <2>1. \A r \in Radius : entries'[e][r] # Unknown
    BY <1>0, <1>3, EvaluateType DEF TypeOK, Evaluate
  <2>2. \A r \in Radius : Turns(e, r) => turned'[e][r] = d
    BY <2>1 DEF Evaluate
  <2> HIDE DEF d
  <2>3. "LocationInner" \in Radius /\ "LocationWithinOuter" \in Radius
    BY DEF Radius
  <2>4. ASSUME turned'[e].LocationInner # None
        PROVE  /\ entries'[e].LocationInner = Yes => turned'[e].LocationInner < Inner[e]
               /\ entries'[e].LocationInner = No =>
                    turned'[e].LocationInner >= Inner[e] + Hysteresis[e]
    <3>1. CASE Turns(e, "LocationInner")
      BY <3>1, <1>0, <1>3, <2>2, <2>3, TurnSides DEF d
    <3>2. CASE ~ Turns(e, "LocationInner")
      <4>1. /\ turned'[e].LocationInner = turned[e].LocationInner
            /\ \/ entries'[e].LocationInner = entries[e].LocationInner
               \/ entries[e].LocationInner = Unknown
        BY <3>2, <1>0, <2>1, <2>3, NoTurn
      <4> QED BY <4>1, <2>4, <1>0, <2>3 DEF Sides
    <3> QED BY <3>1, <3>2
  <2>5. ASSUME turned'[e].LocationWithinOuter # None
        PROVE  /\ entries'[e].LocationWithinOuter = Yes =>
                    turned'[e].LocationWithinOuter <= Outer[e]
               /\ entries'[e].LocationWithinOuter = No =>
                    turned'[e].LocationWithinOuter > Outer[e] + Hysteresis[e]
    <3>1. CASE Turns(e, "LocationWithinOuter")
      BY <3>1, <1>0, <1>3, <2>2, <2>3, TurnSides DEF d
    <3>2. CASE ~ Turns(e, "LocationWithinOuter")
      <4>1. /\ turned'[e].LocationWithinOuter = turned[e].LocationWithinOuter
            /\ \/ entries'[e].LocationWithinOuter = entries[e].LocationWithinOuter
               \/ entries[e].LocationWithinOuter = Unknown
        BY <3>2, <1>0, <2>1, <2>3, NoTurn
      <4> QED BY <4>1, <2>5, <1>0, <2>3 DEF Sides
    <3> QED BY <3>1, <3>2
  <2> QED BY <1>1, <2>4, <2>5
<1> QED BY <1>2, <1>3

\* Two successive turns are on the two sides of the buffer.
LEMMA EvaluateNoBounce ==
  ASSUME IInv, NEW s \in Sights, Evaluate(s), NEW e \in Geofenced, NEW r \in Radius,
         Turns(e, r), turned[e][r] # None
  PROVE  LET d == Distance[sight'.position][e]
         IN  d - turned[e][r] > Hysteresis[e] \/ turned[e][r] - d > Hysteresis[e]
<1> DEFINE d == Distance[s.position][e]
           t == turned[e][r]
<1>0. TypeOK /\ Sides /\ sight' = s
  BY DEF IInv, Evaluate
<1>1. /\ entries[e][r] \in {Yes, No}
      /\ entries[e][r] = Yes => entries'[e][r] = No
      /\ entries[e][r] = No => entries'[e][r] = Yes
  <2>1. entries[e][r] \in Truth
    BY <1>0 DEF TypeOK, Radius, Location
  <2> QED BY <2>1 DEF Turns, Not, Truth, Known, Yes, No, Unknown
<1>2. s.position # None
  BY <1>0, <1>1, EvaluateType DEF TypeOK, Yes, No, Unknown
<1>3. /\ d \in Nat /\ t \in Nat /\ Hysteresis[e] \in Nat /\ Inner[e] \in Nat /\ Outer[e] \in Nat
  BY <1>0, <1>2, SightType, RadiusFacts DEF TypeOK
<1>4. CASE r = "LocationInner"
  <2>1. \/ d < Inner[e] /\ t >= Inner[e] + Hysteresis[e]
        \/ d >= Inner[e] + Hysteresis[e] /\ t < Inner[e]
    BY <1>0, <1>1, <1>2, <1>4, TurnSides DEF Sides
  <2> HIDE DEF d, t
  <2>2. d - t > Hysteresis[e] \/ t - d > Hysteresis[e]
    BY <2>1, <1>3
  <2> QED BY <2>2, <1>0 DEF d, t
<1>5. CASE r = "LocationWithinOuter"
  <2>1. \/ d <= Outer[e] /\ t > Outer[e] + Hysteresis[e]
        \/ d > Outer[e] + Hysteresis[e] /\ t <= Outer[e]
    BY <1>0, <1>1, <1>2, <1>5, TurnSides DEF Sides
  <2> HIDE DEF d, t
  <2>2. d - t > Hysteresis[e] \/ t - d > Hysteresis[e]
    BY <2>1, <1>3
  <2> QED BY <2>2, <1>0 DEF d, t
<1> QED BY <1>4, <1>5 DEF Radius

LEMMA NextIInv == IInv /\ [Next]_vars => IInv'
<1> SUFFICES ASSUME IInv, [Next]_vars PROVE IInv'
  OBVIOUS
<1>1. ASSUME NEW s \in Sights, Evaluate(s) PROVE IInv'
  BY <1>1, EvaluateType, EvaluateSides DEF IInv
<1>2. CASE UNCHANGED vars
  BY <1>2 DEF IInv, TypeOK, Sides, vars
<1> QED BY <1>1, <1>2 DEF Next

----------------------------------------------------------------------------
THEOREM IInvHolds == Spec => []IInv
BY InitIInv, NextIInv, PTL DEF Spec

\* The states keep their types, and an unknown position clears every membership.
THEOREM TypeCorrect == Spec => []TypeOK
<1>1. IInv => TypeOK
  BY DEF IInv
<1> QED BY <1>1, IInvHolds, PTL

\* In every evaluation each geofence is partitioned and no contradictory conditions
\* hold, for all radii and buffers that the configuration check lets through.
THEOREM PartitionHolds == Spec => []BandsPartition
<1>1. Init => BandsPartition
  BY InitIInv
<1>2. BandsPartition /\ [Next]_vars => BandsPartition'
  <2> SUFFICES ASSUME BandsPartition, [Next]_vars PROVE BandsPartition'
    OBVIOUS
  <2>1. ASSUME NEW s \in Sights, Evaluate(s) PROVE BandsPartition'
    BY <2>1, EvaluatePartition
  <2>2. CASE UNCHANGED vars
    BY <2>2 DEF BandsPartition, vars
  <2> QED BY <2>1, <2>2 DEF Next
<1> QED BY <1>1, <1>2, PTL DEF Spec

\* No membership changes twice within a distance of one hysteresis.
THEOREM NoBounceHolds == Spec => NoBounce
<1> DEFINE Step ==
      \A e \in Geofenced, r \in Radius :
        Turns(e, r) /\ turned[e][r] # None =>
          LET d == Distance[sight'.position][e]
          IN  d - turned[e][r] > Hysteresis[e] \/ turned[e][r] - d > Hysteresis[e]
<1>1. IInv /\ [Next]_vars => [Step]_vars
  <2> SUFFICES ASSUME IInv, Next PROVE Step
    OBVIOUS
  <2> QED BY EvaluateNoBounce DEF Next
<1>2. NoBounce <=> [][Step]_vars
  BY DEF NoBounce
<1> QED BY <1>1, <1>2, IInvHolds, PTL DEF Spec

----------------------------------------------------------------------------
(* What is asserted with something unknown.                                *)

\* Where a is known, b is the same.
AtMost(a, b) == a = Unknown \/ a = b

\* Each value of the one set may be filled in to one of the other, and the other way.
FilledIn(S, T) ==
  /\ S \subseteq Truth /\ T \subseteq Truth
  /\ \A a \in S : \E b \in T : AtMost(a, b)
  /\ \A b \in T : \E a \in S : AtMost(a, b)

\* The three-valued operators do not take back what they have said.
LEMMA NotKeeps == ASSUME NEW a, NEW b, AtMost(a, b) PROVE AtMost(Not(a), Not(b))
BY DEF AtMost, Not

LEMMA AndKeeps == ASSUME NEW S, NEW T, FilledIn(S, T) PROVE AtMost(And(S), And(T))
<1>1. CASE No \in S
  <2>1. No \in T
    BY <1>1 DEF FilledIn, AtMost, No, Unknown
  <2> QED BY <1>1, <2>1 DEF And, AtMost
<1>2. CASE Unknown \in S /\ No \notin S
  BY <1>2 DEF And, AtMost
<1>3. CASE Unknown \notin S /\ No \notin S
  <2>1. \A a \in S : a = Yes
    BY <1>3 DEF FilledIn, Truth, Known
  <2>2. \A b \in T : b = Yes
    BY <2>1 DEF FilledIn, AtMost, Yes, Unknown
  <2>3. Unknown \notin T /\ No \notin T
    BY <2>2 DEF Yes, No, Unknown
  <2> QED BY <1>3, <2>3 DEF And, AtMost
<1> QED BY <1>1, <1>2, <1>3

LEMMA OrKeeps == ASSUME NEW S, NEW T, FilledIn(S, T) PROVE AtMost(Or(S), Or(T))
<1>1. CASE Yes \in S
  <2>1. Yes \in T
    BY <1>1 DEF FilledIn, AtMost, Yes, Unknown
  <2> QED BY <1>1, <2>1 DEF Or, AtMost
<1>2. CASE (Unknown \in S \/ S = {}) /\ Yes \notin S
  BY <1>2 DEF Or, AtMost
<1>3. CASE Unknown \notin S /\ Yes \notin S /\ S # {}
  <2>1. \A a \in S : a = No
    BY <1>3 DEF FilledIn, Truth, Known
  <2>2. \A b \in T : b = No
    BY <2>1 DEF FilledIn, AtMost, No, Unknown
  <2>3. Unknown \notin T /\ Yes \notin T
    BY <2>2 DEF Yes, No, Unknown
  <2>4. T # {}
    BY <1>3 DEF FilledIn
  <2> QED BY <1>3, <2>3, <2>4 DEF Or, AtMost
<1> QED BY <1>1, <1>2, <1>3

\* Conjunctions of two to four parts.
LEMMA AndPartsKeep ==
  ASSUME NEW a \in Truth, NEW b \in Truth, NEW c \in Truth, NEW d \in Truth,
         NEW A \in Truth, NEW B \in Truth, NEW C \in Truth, NEW D \in Truth,
         AtMost(a, A), AtMost(b, B), AtMost(c, C), AtMost(d, D)
  PROVE  /\ AtMost(And({a, b}), And({A, B}))
         /\ AtMost(And({a, b, c}), And({A, B, C}))
         /\ AtMost(And({a, b, c, d}), And({A, B, C, D}))
<1>1. FilledIn({a, b}, {A, B})
  BY DEF FilledIn
<1>2. FilledIn({a, b, c}, {A, B, C})
  BY DEF FilledIn
<1>3. FilledIn({a, b, c, d}, {A, B, C, D})
  BY DEF FilledIn
<1> QED BY <1>1, <1>2, <1>3, AndKeeps

\* What may be seen where s is seen with more known.
LEMMA CompletionIs ==
  ASSUME NEW s \in Sights, NEW c \in Completions(s)
  PROVE  /\ c.inputs \in [Boolean -> Truth] /\ c.faults \in [Fault -> Truth]
         /\ \A b \in Boolean : AtMost(s.inputs[b], c.inputs[b])
         /\ \A f \in Fault : AtMost(s.faults[f], c.faults[f])
         /\ s.position # None => c.position = s.position
         /\ s.battery # None => c.battery = s.battery
<1>1. PICK i \in Filled(s.inputs), f \in Filled(s.faults),
           p \in IF s.position = None THEN Position ELSE {s.position},
           b \in IF s.battery = None THEN Level ELSE {s.battery} :
        c = [inputs |-> i, faults |-> f, position |-> p, battery |-> b]
  BY DEF Completions
<1>2. s.inputs \in [Boolean -> Truth] /\ s.faults \in [Fault -> Truth]
  BY SightType
<1>3. ASSUME NEW D, NEW truths \in [D -> Truth], NEW g \in Filled(truths)
      PROVE  g \in [D -> Truth] /\ \A x \in D : AtMost(truths[x], g[x])
  <2> DEFINE open == {x \in DOMAIN truths : truths[x] = Unknown}
  <2>1. PICK true \in SUBSET open :
          g = [x \in DOMAIN truths |-> IF x \in open THEN Truly(x \in true) ELSE truths[x]]
    BY DEF Filled
  <2>2. DOMAIN truths = D
    OBVIOUS
  <2>3. \A x \in D : Truly(x \in true) \in Truth
    BY TrulyType DEF Truth
  <2> HIDE DEF open
  <2>4. g \in [D -> Truth]
    BY <2>1, <2>2, <2>3
  <2>5. \A x \in D : x \notin open => g[x] = truths[x]
    BY <2>1, <2>2
  <2> QED BY <2>2, <2>4, <2>5 DEF open, AtMost
<1>4. i \in [Boolean -> Truth] /\ \A x \in Boolean : AtMost(s.inputs[x], i[x])
  BY <1>2, <1>3
<1>5. f \in [Fault -> Truth] /\ \A x \in Fault : AtMost(s.faults[x], f[x])
  BY <1>2, <1>3
<1> QED BY <1>1, <1>4, <1>5

LEMMA RadiiKeep ==
  ASSUME NEW e \in Geofenced, NEW s \in Sights, NEW c \in Completions(s), NEW before
  PROVE  /\ Inside(e, s, before) \in Truth /\ Inside(e, c, before) \in Truth
         /\ Within(e, s, before) \in Truth /\ Within(e, c, before) \in Truth
         /\ AtMost(Inside(e, s, before), Inside(e, c, before))
         /\ AtMost(Within(e, s, before), Within(e, c, before))
<1>1. s.position # None => c.position = s.position
  BY CompletionIs
<1>2. \A b : Truly(b) \in Truth
  BY TrulyType DEF Truth
<1> QED BY <1>1, <1>2 DEF Inside, Within, AtMost, Truth

LEMMA LowKeeps ==
  ASSUME NEW e, NEW s \in Sights, NEW c \in Completions(s)
  PROVE  Low(e, s) \in Truth /\ Low(e, c) \in Truth /\ AtMost(Low(e, s), Low(e, c))
<1>1. s.battery # None => c.battery = s.battery
  BY CompletionIs
<1>2. \A b : Truly(b) \in Truth
  BY TrulyType DEF Truth
<1> QED BY <1>1, <1>2 DEF Low, AtMost, Truth

LEMMA EntryKeeps ==
  ASSUME NEW e \in Geofenced, NEW s \in Sights, NEW c \in Completions(s), NEW before,
         NEW name \in Location
  PROVE  /\ EntryStates(e, s, before)[name] \in Truth
         /\ EntryStates(e, c, before)[name] \in Truth
         /\ AtMost(EntryStates(e, s, before)[name], EntryStates(e, c, before)[name])
<1> DEFINE i == Inside(e, s, before)   w == Within(e, s, before)
           I == Inside(e, c, before)   W == Within(e, c, before)
           charging == s.inputs["charging"]   plugged == s.inputs["plugged_in"]
           parked == s.inputs["parked"]       complete == s.inputs["charge_complete"]
           Charging == c.inputs["charging"]   Plugged == c.inputs["plugged_in"]
           Parked == c.inputs["parked"]       Complete == c.inputs["charge_complete"]
<1>1. /\ i \in Truth /\ I \in Truth /\ w \in Truth /\ W \in Truth
      /\ AtMost(i, I) /\ AtMost(w, W)
  BY RadiiKeep
<1>2. /\ charging \in Truth /\ plugged \in Truth /\ parked \in Truth /\ complete \in Truth
      /\ Charging \in Truth /\ Plugged \in Truth /\ Parked \in Truth /\ Complete \in Truth
      /\ AtMost(charging, Charging) /\ AtMost(plugged, Plugged)
      /\ AtMost(parked, Parked) /\ AtMost(complete, Complete)
  BY CompletionIs, InputTypes DEF Boolean
<1> HIDE DEF i, I, w, W, charging, plugged, parked, complete, Charging, Plugged, Parked, Complete
<1>3. /\ Not(i) \in Truth /\ Not(I) \in Truth /\ AtMost(Not(i), Not(I))
      /\ Not(charging) \in Truth /\ Not(Charging) \in Truth
      /\ AtMost(Not(charging), Not(Charging))
      /\ Not(plugged) \in Truth /\ Not(Plugged) \in Truth /\ AtMost(Not(plugged), Not(Plugged))
      /\ Not(parked) \in Truth /\ Not(Parked) \in Truth /\ AtMost(Not(parked), Not(Parked))
  BY <1>1, <1>2, NotType, NotKeeps
<1>4. /\ AtMost(And({w, Not(i)}), And({W, Not(I)}))
      /\ AtMost(And({i, Not(charging)}), And({I, Not(Charging)}))
      /\ AtMost(And({i, charging}), And({I, Charging}))
      /\ AtMost(And({i, plugged}), And({I, Plugged}))
      /\ AtMost(And({i, Not(plugged)}), And({I, Not(Plugged)}))
      /\ AtMost(And({i, Not(parked)}), And({I, Not(Parked)}))
  BY <1>1, <1>2, <1>3, AndPartsKeep
<1>5. /\ AtMost(And({i, parked, Not(plugged)}), And({I, Parked, Not(Plugged)}))
      /\ AtMost(And({i, plugged, Not(charging)}), And({I, Plugged, Not(Charging)}))
  BY <1>1, <1>2, <1>3, AndPartsKeep
<1>6. AtMost(And({i, plugged, Not(charging), complete}),
             And({I, Plugged, Not(Charging), Complete}))
  BY <1>1, <1>2, <1>3, AndPartsKeep
<1> DEFINE low == EntryStates(e, s, before)
           high == EntryStates(e, c, before)
<1>7. low = [LocationWithinOuter |-> w, LocationOuterBand |-> And({w, Not(i)}),
             LocationInner |-> i, LocationInnerNotCharging |-> And({i, Not(charging)}),
             LocationInnerAndCharging |-> And({i, charging}),
             LocationInnerAndPluggedIn |-> And({i, plugged}),
             LocationInnerNotPluggedIn |-> And({i, Not(plugged)}),
             LocationInnerNotParked |-> And({i, Not(parked)}),
             LocationInnerParkedNotPluggedIn |-> And({i, parked, Not(plugged)}),
             LocationInnerPluggedInNotCharging |-> And({i, plugged, Not(charging)}),
             LocationInnerChargeComplete |-> And({i, plugged, Not(charging), complete})]
  BY DEF EntryStates, Band, i, w, charging, plugged, parked, complete
<1>8. high = [LocationWithinOuter |-> W, LocationOuterBand |-> And({W, Not(I)}),
             LocationInner |-> I, LocationInnerNotCharging |-> And({I, Not(Charging)}),
             LocationInnerAndCharging |-> And({I, Charging}),
             LocationInnerAndPluggedIn |-> And({I, Plugged}),
             LocationInnerNotPluggedIn |-> And({I, Not(Plugged)}),
             LocationInnerNotParked |-> And({I, Not(Parked)}),
             LocationInnerParkedNotPluggedIn |-> And({I, Parked, Not(Plugged)}),
             LocationInnerPluggedInNotCharging |-> And({I, Plugged, Not(Charging)}),
             LocationInnerChargeComplete |-> And({I, Plugged, Not(Charging), Complete})]
  BY DEF EntryStates, Band, I, W, Charging, Plugged, Parked, Complete
<1> HIDE DEF low, high
<1>9. low[name] \in Truth
  BY <1>1, <1>7, AndType DEF Location
<1>10. high[name] \in Truth
  BY <1>1, <1>8, AndType DEF Location
<1>11. AtMost(low[name], high[name])
  <2>1. /\ AtMost(low.LocationWithinOuter, high.LocationWithinOuter)
        /\ AtMost(low.LocationOuterBand, high.LocationOuterBand)
        /\ AtMost(low.LocationInner, high.LocationInner)
    BY <1>1, <1>4, <1>7, <1>8
  <2>2. /\ AtMost(low.LocationInnerNotCharging, high.LocationInnerNotCharging)
        /\ AtMost(low.LocationInnerAndCharging, high.LocationInnerAndCharging)
        /\ AtMost(low.LocationInnerAndPluggedIn, high.LocationInnerAndPluggedIn)
        /\ AtMost(low.LocationInnerNotPluggedIn, high.LocationInnerNotPluggedIn)
        /\ AtMost(low.LocationInnerNotParked, high.LocationInnerNotParked)
    BY <1>4, <1>7, <1>8
  <2>3. /\ AtMost(low.LocationInnerParkedNotPluggedIn, high.LocationInnerParkedNotPluggedIn)
        /\ AtMost(low.LocationInnerPluggedInNotCharging,
                  high.LocationInnerPluggedInNotCharging)
        /\ AtMost(low.LocationInnerChargeComplete, high.LocationInnerChargeComplete)
    BY <1>5, <1>6, <1>7, <1>8
  <2> QED BY <2>1, <2>2, <2>3 DEF Location
<1> QED BY <1>9, <1>10, <1>11 DEF low, high

LEMMA CombinedKeeps ==
  ASSUME NEW s \in Sights, NEW c \in Completions(s), NEW before, NEW name \in StateName
  PROVE  AtMost(Combined(s, before)[name], Combined(c, before)[name])
<1>1. CASE name \in Location
  <2> DEFINE S == {states[name] : states \in {EntryStates(e, s, before) : e \in Geofenced}}
             T == {states[name] : states \in {EntryStates(e, c, before) : e \in Geofenced}}
  <2>1. FilledIn(S, T)
    BY <1>1, EntryKeeps DEF FilledIn
  <2>2. Combined(s, before)[name] = Or(S) /\ Combined(c, before)[name] = Or(T)
    BY <1>1 DEF Combined, Located
  <2> HIDE DEF S, T
  <2> QED BY <2>1, <2>2, OrKeeps
<1>2. CASE name \in DerivedName /\ name \notin Location
  <2>1. AtMost(VehicleFault(s), VehicleFault(c))
    <3> DEFINE E == IF "battery" \in Configured THEN Batteries \cap LowIsFault ELSE {}
               S == {s.faults[f] : f \in Fault} \cup {Low(e, s) : e \in E}
               T == {c.faults[f] : f \in Fault} \cup {Low(e, c) : e \in E}
    <3>1. s.faults \in [Fault -> Truth]
      BY SightType
    <3> HIDE DEF E
    <3>2. \A f \in Fault : /\ s.faults[f] \in Truth /\ c.faults[f] \in Truth
                          /\ AtMost(s.faults[f], c.faults[f])
      BY <3>1, CompletionIs
    <3>3. \A e \in E : Low(e, s) \in Truth /\ Low(e, c) \in Truth /\ AtMost(Low(e, s), Low(e, c))
      BY LowKeeps
    <3>4. FilledIn(S, T)
      BY <3>2, <3>3 DEF FilledIn
    <3> HIDE DEF S, T
    <3>5. AtMost(Or(S), Or(T))
      BY <3>4, OrKeeps
    <3> QED BY <3>5 DEF VehicleFault, S, T, E
  <2>2. AtMost(Or({Low(e, s) : e \in Batteries}), Or({Low(e, c) : e \in Batteries}))
    <3> DEFINE S == {Low(e, s) : e \in Batteries}
               T == {Low(e, c) : e \in Batteries}
    <3>1. FilledIn(S, T)
      BY LowKeeps DEF FilledIn
    <3> HIDE DEF S, T
    <3>2. AtMost(Or(S), Or(T))
      BY <3>1, OrKeeps
    <3> QED BY <3>2 DEF S, T
  <2>3. Combined(s, before)[name] = Derived(s)[name] /\ Combined(c, before)[name] = Derived(c)[name]
    BY <1>2 DEF Combined
  <2>4. \/ name = "BatteryLow" \/ name = "VehicleFault" \/ name = "VehicleFaultFree"
    BY <1>2 DEF DerivedName
  <2> QED BY <2>1, <2>2, <2>3, <2>4, NotKeeps DEF Derived
<1>3. CASE name \in Boolean /\ name \notin Location /\ name \notin DerivedName
  <2>1. Combined(s, before)[name] = s.inputs[name] /\ Combined(c, before)[name] = c.inputs[name]
    BY <1>3 DEF Combined
  <2> QED BY <1>3, <2>1, CompletionIs
<1> QED BY <1>1, <1>2, <1>3 DEF StateName

\* What an evaluation asserts with some inputs, faults, the position or the battery
\* unknown it would assert whatever they turn out to be (the three-valued operators of
\* src/model.rs under src/rules.rs): nothing unknown is taken for false or for true.
THEOREM KnownIsCertain ==
  Spec => [][\A c \in Completions(sight'), name \in StateName :
               combined'[name] # Unknown =>
                 Combined(c, entries)[name] = combined'[name]]_vars
<1> DEFINE A == \A c \in Completions(sight'), name \in StateName :
                  combined'[name] # Unknown => Combined(c, entries)[name] = combined'[name]
<1>1. ASSUME [Next]_vars PROVE A \/ UNCHANGED vars
  <2>1. CASE UNCHANGED vars
    BY <2>1
  <2>2. ASSUME NEW s \in Sights, Evaluate(s) PROVE A
    <3>1. combined' = Combined(s, entries) /\ sight' = s
      BY <2>2 DEF Evaluate
    <3> QED BY <3>1, CombinedKeeps DEF AtMost
  <2> QED BY <1>1, <2>1, <2>2 DEF Next
<1> HIDE DEF A
<1>2. Spec => [][A]_vars
  BY <1>1, PTL DEF Spec
<1> QED BY <1>2 DEF A

----------------------------------------------------------------------------
(* The vehicle: logs of coordinates.                                       *)

Coord == [axis : Axis, value : Number, at : Nat]

Trail(axis, h) == [axis |-> axis, value |-> h.value, at |-> h.at]

\* A coordinate that came at t finds no partner any more.
Stranded(t) ==
  t <= now /\ (now - t > Skew \/ (LocationStale # None /\ now - t >= LocationStale))

LogInv == heard \in Seq(Coord) /\ paired \in Seq(Coord)

\* A half is the latest coordinate of its axis or part of the location; what was
\* dropped is stranded.
HalfInv ==
  \A axis \in Axis :
    LET h == split[axis]
    IN  /\ h # None => /\ h.generation <= split.generation /\ h.at <= now /\ h.value # Unknown
                       /\ Latest(heard, axis) = IF h.generation > split.committed
                                                THEN {Trail(axis, h)} ELSE {}
        /\ h = None => \A c \in Latest(heard, axis) : Stranded(c.at)

\* Two new halves that would belong together have been put together.
PairInv ==
  BothHalves(split) => split.latitude.generation <= split.committed
                       \/ split.longitude.generation <= split.committed

\* The assembly has waited since the first coordinate that is not part of the location.
DeadlineInv ==
  /\ heard = <<>> <=> split.committed = split.generation
  /\ heard # <<>> => split.assembly_deadline = heard[1].at + Skew

FixInv ==
  inputs.latitude # None /\ location.value # Nowhere =>
    \E a, b \in Coord :
      /\ Latest(paired, "latitude") = {a} /\ Latest(paired, "longitude") = {b}
      /\ location.value = [latitude |-> a.value, longitude |-> b.value]
      /\ location.received = SoonerOf(a.at, b.at)
      /\ Apart(a, b) <= Skew

\* What a tick left is not stale when it was read.
ReadInv ==
  waiting =>
    /\ \A b \in Input : FactExpire(booleans[b], InputStale[b], read_at) = booleans[b]
    /\ FactExpire(battery, BatteryStale, read_at) = battery
    /\ Passed(FactDeadline(location, LocationStale), read_at)
         \/ Passed(split.assembly_deadline, read_at) => location.value = Nowhere

VehicleInv ==
  VehicleTypeOK /\ LogInv /\ HalfInv /\ PairInv /\ DeadlineInv /\ FixInv /\ ReadInv
  /\ NoPairMissed

LEMMA LatestNone == ASSUME NEW axis PROVE Latest(<<>>, axis) = {}
BY DEF Latest

LEMMA LatestIs ==
  ASSUME NEW log \in Seq(Coord), NEW axis, NEW c \in Latest(log, axis)
  PROVE  c \in Coord /\ c.axis = axis
BY DEF Latest

\* A new coordinate is the latest of its axis, and leaves the other axis alone.
LEMMA LatestOwn ==
  ASSUME NEW log \in Seq(Coord), NEW c \in Coord
  PROVE  Latest(Append(log, c), c.axis) = {c}
<1> DEFINE m == Append(log, c)
           n == Len(log)
<1>1. /\ n \in Nat /\ DOMAIN m = 1 .. n + 1 /\ m[n + 1] = c
  OBVIOUS
<1> HIDE DEF m, n
<1>2. \A k \in DOMAIN m :
        (m[k].axis = c.axis /\ \A j \in DOMAIN m : m[j].axis = c.axis => j <= k) <=> k = n + 1
  BY <1>1
<1>3. {k \in DOMAIN m : m[k].axis = c.axis
                        /\ \A j \in DOMAIN m : m[j].axis = c.axis => j <= k} = {n + 1}
  BY <1>1, <1>2
<1> QED BY <1>1, <1>3 DEF Latest, m

LEMMA LatestOther ==
  ASSUME NEW log \in Seq(Coord), NEW c \in Coord, NEW axis, axis # c.axis
  PROVE  Latest(Append(log, c), axis) = Latest(log, axis)
<1> DEFINE m == Append(log, c)
           n == Len(log)
           A == {k \in DOMAIN m : /\ m[k].axis = axis
                                  /\ \A j \in DOMAIN m : m[j].axis = axis => j <= k}
           B == {k \in DOMAIN log : /\ log[k].axis = axis
                                    /\ \A j \in DOMAIN log : log[j].axis = axis => j <= k}
<1>1. /\ n \in Nat /\ DOMAIN m = 1 .. n + 1 /\ m[n + 1] = c
      /\ DOMAIN log = 1 .. n /\ \A k \in 1 .. n : m[k] = log[k]
  OBVIOUS
<1> HIDE DEF m, n
<1>2. A = B
  BY <1>1
<1>3. \A k \in B : m[k] = log[k]
  BY <1>1
<1> HIDE DEF A, B
<1>4. {m[k] : k \in A} = {log[k] : k \in B}
  BY <1>2, <1>3
<1> QED BY <1>4 DEF Latest, m, A, B
----------------------------------------------------------------------------
(* One receipt.                                                            *)

\* A message is about the location in one way at most.
LEMMA MessageIs ==
  ASSUME VehicleTypeOK, NEW m \in Message
  PROVE  /\ Percent(m) \in Number
         /\ JsonPosition(m) # Nowhere => Coordinate(m) = Unknown /\ inputs.latitude = None
         /\ Coordinate(m) # Unknown =>
              /\ AxisOf(m) \in Axis /\ Coordinate(m) \in Number
              /\ JsonPosition(m) = Nowhere
<1>1. inputs \in Configurations /\ ValidLocation(inputs)
  BY VehicleAssumption DEF VehicleTypeOK
<1>2. m.topic # None /\ m.percent \in Number /\ m.latitude \in Number /\ m.longitude \in Number
  BY VehicleAssumption DEF Number
<1> DEFINE U == Unknown
<1>0. U \in Number
  BY DEF Number
<1> HIDE DEF U
<1>3. Percent(m) \in Number
  <2>1. Percent(m) = IF inputs.battery = m.topic THEN m.percent ELSE U
    BY DEF Percent, U
  <2> QED BY <1>0, <1>2, <2>1
<1>4. ASSUME JsonPosition(m) # Nowhere PROVE Coordinate(m) = Unknown /\ inputs.latitude = None
  <2>1. inputs.json = m.topic
    BY <1>4 DEF JsonPosition
  <2>2. inputs.latitude = None /\ inputs.longitude = None
    BY <1>1, <1>2, <2>1 DEF ValidLocation
  <2> QED BY <1>2, <2>2 DEF Coordinate
<1>5. AxisOf(m) \in Axis /\ Coordinate(m) \in Number
  <2>1. AxisOf(m) = "latitude" \/ AxisOf(m) = "longitude"
    BY DEF AxisOf
  <2>2. m[AxisOf(m)] \in Number
    BY <1>2, <2>1
  <2>3. Coordinate(m) = IF m.topic \in {inputs.latitude, inputs.longitude}
                        THEN m[AxisOf(m)] ELSE U
    BY DEF Coordinate, U
  <2> QED BY <1>0, <2>1, <2>2, <2>3 DEF Axis
<1> QED BY <1>3, <1>4, <1>5

\* A coordinate replaces the half of its axis.
LEMMA WithCoordinateIs ==
  ASSUME VehicleTypeOK, NEW axis \in Axis, NEW value \in Number,
         NEW other \in Axis, other # axis
  PROVE  LET sp == WithCoordinate(split, axis, value, now)
         IN  /\ sp \in Split
             /\ sp[axis] = [value |-> value, at |-> now, generation |-> split.generation + 1]
             /\ sp[axis] # None
             /\ sp[other] = split[other]
             /\ sp.generation = split.generation + 1 /\ sp.committed = split.committed
             /\ sp.assembly_deadline = IF split.assembly_deadline = None THEN now + Skew
                                       ELSE split.assembly_deadline
<1> DEFINE sp == WithCoordinate(split, axis, value, now)
           h == [value |-> value, at |-> now, generation |-> split.generation + 1]
<1>1. split \in Split /\ now \in Nat /\ Skew \in Nat
  BY VehicleAssumption DEF VehicleTypeOK
<1>2. h \in Half
  BY <1>1 DEF Half, Split
<1>3. h # None
  BY <1>2, HalfAssumption
<1>4. \/ axis = "latitude" /\ other = "longitude"
      \/ axis = "longitude" /\ other = "latitude"
  BY DEF Axis
<1>5. sp = [latitude |-> IF axis = "latitude" THEN h ELSE split.latitude,
            longitude |-> IF axis = "longitude" THEN h ELSE split.longitude,
            generation |-> split.generation + 1, committed |-> split.committed,
            assembly_deadline |-> IF split.assembly_deadline = None THEN now + Skew
                                  ELSE split.assembly_deadline]
  <2> DEFINE r == Replaced(split, axis, h)
             n == split.generation + 1
             a == IF axis = "latitude" THEN h ELSE split.latitude
             b == IF axis = "longitude" THEN h ELSE split.longitude
             d == split.assembly_deadline
  <2>1. r = [latitude |-> a, longitude |-> b, generation |-> n, committed |-> split.committed,
             assembly_deadline |-> d]
    <3>1. h.generation = n
      OBVIOUS
    <3> HIDE DEF h
    <3>2. r = [split EXCEPT !.latitude = a, !.longitude = b, !.generation = n]
      BY <3>1 DEF Replaced
    <3> HIDE DEF r, a, b, n
    <3> QED BY <1>1, <3>2 DEF Split
  <2>2. sp = [r EXCEPT !.assembly_deadline = IF @ = None THEN now + Skew ELSE @]
    BY DEF WithCoordinate, NewHalf
  <2> HIDE DEF r, a, b, n, h, sp
  <2>3. r.assembly_deadline = d
    BY <2>1
  <2>4. sp = [r EXCEPT !.assembly_deadline = IF d = None THEN now + Skew ELSE d]
    BY <2>2, <2>3
  <2> QED BY <2>1, <2>4 DEF a, b, n
<1> HIDE DEF sp, h
<1>6. sp \in Split
  BY <1>1, <1>2, <1>5 DEF Split, OptTime
<1>7. sp[axis] = h /\ sp[other] = split[other]
  BY <1>4, <1>5
<1>8. /\ sp.generation = split.generation + 1 /\ sp.committed = split.committed
      /\ sp.assembly_deadline = IF split.assembly_deadline = None THEN now + Skew
                                ELSE split.assembly_deadline
  BY <1>5
<1> QED BY <1>3, <1>6, <1>7, <1>8 DEF sp, h

\* A coordinate is put together with the half there is, or logged; a half that it finds
\* and does not fit is dropped.
LEMMA CoordinateComes ==
  ASSUME VehicleInv, NEW m \in Message, Receive(m), Coordinate(m) # Unknown
  PROVE  LET axis == AxisOf(m)
             sp == WithCoordinate(split, axis, Coordinate(m), now)
             log == Append(heard, [axis |-> axis, value |-> Coordinate(m), at |-> now])
             complete == BothHalves(sp) /\ PairReady(sp, now)
         IN  /\ complete => /\ location' = Fix(sp) /\ split' = Completed(sp)
                            /\ heard' = <<>> /\ paired' = log
             /\ ~ complete =>
                  /\ UNCHANGED <<location, paired>> /\ heard' = log
                  /\ split' = IF BothHalves(sp) /\ (Apart(sp.latitude, sp.longitude) > Skew
                                                    \/ ~ FreshHalves(sp, now))
                              THEN Pruned(sp) ELSE sp
<1> DEFINE axis == AxisOf(m)
           value == Coordinate(m)
           sp == WithCoordinate(split, axis, value, now)
           log == Append(heard, [axis |-> axis, value |-> value, at |-> now])
           complete == BothHalves(sp) /\ PairReady(sp, now)
           fixed == split'.committed # split.committed
           apart == BothHalves(sp) /\ (Apart(sp.latitude, sp.longitude) > Skew
                                       \/ ~ FreshHalves(sp, now))
<1>1. /\ JsonPosition(m) = Nowhere /\ axis \in Axis /\ value \in Number
  BY MessageIs DEF VehicleInv
<1>2. ReceiveLocation(m) /\ heard' = (IF fixed THEN <<>> ELSE log)
      /\ paired' = (IF fixed THEN log ELSE paired)
  BY DEF Receive
<1>3. Assemble(sp, now)
  <2>1. JsonPosition(m) = Nowhere
    BY <1>1
  <2> QED BY <1>2, <2>1 DEF ReceiveLocation
<1>4. /\ sp \in Split /\ sp.generation = split.generation + 1
      /\ sp.committed = split.committed
  <2>1. PICK other \in Axis : other # axis
    BY DEF Axis
  <2> HIDE DEF axis, value
  <2> QED BY <1>1, <2>1, WithCoordinateIs DEF VehicleInv
<1>5. split.generation \in Nat /\ split.committed \in Nat /\ split.committed <= split.generation
  BY DEF VehicleInv, VehicleTypeOK, Split
<1> HIDE DEF sp, log
<1>6. CASE complete
  <2>1. location' = Fix(sp) /\ split' = Completed(sp)
    BY <1>3, <1>6 DEF Assemble
  <2>2. split'.committed = split.generation + 1
    BY <1>4, <2>1 DEF Completed, Split
  <2>3. fixed
    BY <1>5, <2>2
  <2> QED BY <1>2, <1>6, <2>1, <2>3 DEF sp, log
<1>7. CASE ~ complete
  <2>1. UNCHANGED location /\ split' = IF apart THEN Pruned(sp) ELSE sp
    BY <1>3, <1>7 DEF Assemble
  <2>2. Pruned(sp).committed = sp.committed
    BY <1>4 DEF Pruned, Split
  <2>3. ~ fixed
    BY <1>4, <2>1, <2>2
  <2> QED BY <1>2, <1>7, <2>1, <2>3 DEF sp, log
<1> QED BY <1>6, <1>7 DEF sp, log

\* What a message that is no coordinate changes of the location.
LEMMA NoCoordinateComes ==
  ASSUME VehicleInv, NEW m \in Message, Receive(m), Coordinate(m) = Unknown
  PROVE  /\ UNCHANGED <<split, heard, paired>>
         /\ \/ UNCHANGED location
            \/ /\ location' = [value |-> JsonPosition(m), received |-> now]
               /\ inputs.latitude = None /\ JsonPosition(m) # Nowhere
<1>1. ReceiveLocation(m)
  BY DEF Receive
<1>2. CASE JsonPosition(m) # Nowhere
  <2>1. location' = [value |-> JsonPosition(m), received |-> now] /\ UNCHANGED split
    BY <1>1, <1>2 DEF ReceiveLocation
  <2>2. inputs.latitude = None
    BY <1>2, MessageIs DEF VehicleInv
  <2> QED BY <1>2, <2>1, <2>2 DEF Receive
<1>3. CASE JsonPosition(m) = Nowhere
  <2>1. UNCHANGED <<location, split>>
    BY <1>1, <1>3 DEF ReceiveLocation
  <2> QED BY <2>1 DEF Receive
<1> QED BY <1>2, <1>3

----------------------------------------------------------------------------
(* Two halves, one of which has just come.                                 *)

LEMMA PairIs ==
  ASSUME NEW sp \in Split, NEW axis \in Axis, NEW other \in Axis, other # axis,
         now \in Nat, sp[axis] # None, sp[axis].at = now,
         sp[other] # None, sp[other].at <= now
  PROVE  /\ BothHalves(sp) /\ sp[other].at \in Nat
         /\ Apart(sp.latitude, sp.longitude) = now - sp[other].at
         /\ FreshHalves(sp, now)
              <=> (LocationStale # None => 0 < LocationStale
                                           /\ now - sp[other].at < LocationStale)
<1>1. \/ axis = "latitude" /\ other = "longitude"
      \/ axis = "longitude" /\ other = "latitude"
  BY DEF Axis
<1>2. LocationStale # None => LocationStale \in Nat
  BY VehicleAssumption DEF OptSpan
<1>3. \A x \in Axis : sp[x] # None => sp[x].at \in Nat
  BY DEF Axis, Split, Half
<1>4. \A x \in Axis : sp[x] = IF x = "latitude" THEN sp.latitude ELSE sp.longitude
  BY DEF Axis
<1>5. CASE axis = "latitude" /\ other = "longitude"
  <2>1. /\ sp.latitude # None /\ sp.latitude.at = now
        /\ sp.longitude # None /\ sp.longitude = sp[other] /\ sp[other].at \in Nat
    BY <1>3, <1>4, <1>5
  <2> QED BY <1>2, <2>1 DEF BothHalves, Apart, FreshHalves
<1>6. CASE axis = "longitude" /\ other = "latitude"
  <2>1. /\ sp.longitude # None /\ sp.longitude.at = now
        /\ sp.latitude # None /\ sp.latitude = sp[other] /\ sp[other].at \in Nat
    BY <1>3, <1>4, <1>6
  <2> QED BY <1>2, <2>1 DEF BothHalves, Apart, FreshHalves
<1> QED BY <1>1, <1>5, <1>6

\* One half is dropped, and not the younger one.
LEMMA PrunedIs ==
  ASSUME NEW sp \in Split, BothHalves(sp), NEW axis \in Axis, NEW other \in Axis, other # axis
  PROVE  LET p == Pruned(sp)
         IN  /\ p \in Split /\ p.generation = sp.generation /\ p.committed = sp.committed
             /\ p.assembly_deadline = sp.assembly_deadline
             /\ ~ BothHalves(p)
             /\ p[axis] = sp[axis] \/ (p[axis] = None /\ sp[axis].at <= sp[other].at)
<1> DEFINE p == Pruned(sp)
           a == IF sp.latitude.at <= sp.longitude.at THEN None ELSE sp.latitude
           b == IF sp.latitude.at <= sp.longitude.at THEN sp.longitude ELSE None
<1>1. sp = [latitude |-> sp.latitude, longitude |-> sp.longitude,
            generation |-> sp.generation, committed |-> sp.committed,
            assembly_deadline |-> sp.assembly_deadline]
  BY DEF Split
<1>2. p = [latitude |-> a, longitude |-> b, generation |-> sp.generation,
           committed |-> sp.committed, assembly_deadline |-> sp.assembly_deadline]
  BY <1>1 DEF Pruned
<1>3. sp.latitude.at \in Nat /\ sp.longitude.at \in Nat
  BY DEF BothHalves, Split, Half
<1> HIDE DEF p
<1>4. p \in Split
  BY <1>2 DEF Split
<1>5. p.latitude = a /\ p.longitude = b
  BY <1>2
<1>6. ~ BothHalves(p)
  BY <1>5 DEF BothHalves
<1>7. p[axis] = sp[axis] \/ (p[axis] = None /\ sp[axis].at <= sp[other].at)
  <2>1. CASE axis = "latitude" /\ other = "longitude"
    BY <1>3, <1>5, <2>1
  <2>2. CASE axis = "longitude" /\ other = "latitude"
    BY <1>3, <1>5, <2>2
  <2> QED BY <2>1, <2>2 DEF Axis
<1>8. p.generation = sp.generation /\ p.committed = sp.committed
      /\ p.assembly_deadline = sp.assembly_deadline
  BY <1>2
<1> QED BY <1>4, <1>6, <1>7, <1>8 DEF p

LEMMA CompletedIs ==
  ASSUME NEW sp \in Split
  PROVE  LET p == Completed(sp)
         IN  /\ p \in Split /\ p.generation = sp.generation /\ p.committed = sp.generation
             /\ p.assembly_deadline = None
             /\ \A axis \in Axis : p[axis] = sp[axis]
<1> DEFINE p == Completed(sp)
<1>1. sp = [latitude |-> sp.latitude, longitude |-> sp.longitude,
            generation |-> sp.generation, committed |-> sp.committed,
            assembly_deadline |-> sp.assembly_deadline]
  BY DEF Split
<1>2. p = [latitude |-> sp.latitude, longitude |-> sp.longitude,
           generation |-> sp.generation, committed |-> sp.generation,
           assembly_deadline |-> None]
  <2>1. p = [sp EXCEPT !.committed = sp.generation, !.assembly_deadline = None]
    BY DEF Completed
  <2> DEFINE a == sp.latitude
             b == sp.longitude
             n == sp.generation
  <2> HIDE DEF p, a, b, n
  <2> QED BY <1>1, <2>1 DEF a, b, n
<1> HIDE DEF p
<1>3. p \in Split
  BY <1>2 DEF Split, OptTime
<1>4. p.latitude = sp.latitude /\ p.longitude = sp.longitude
  BY <1>2
<1>5. \A axis \in Axis : p[axis] = sp[axis]
  BY <1>4 DEF Axis
<1>6. p.generation = sp.generation /\ p.committed = sp.generation /\ p.assembly_deadline = None
  BY <1>2
<1> QED BY <1>3, <1>5, <1>6 DEF p

----------------------------------------------------------------------------
(* Receiving a coordinate keeps the invariant.                             *)

LEMMA CoordinateKeeps ==
  ASSUME VehicleInv, NEW m \in Message, Receive(m), Coordinate(m) # Unknown
  PROVE  /\ split' \in Split /\ split'.committed <= split'.generation
         /\ split'.assembly_deadline # None <=> split'.committed < split'.generation
         /\ LogInv' /\ HalfInv' /\ PairInv' /\ DeadlineInv' /\ FixInv' /\ NoPairMissed'
         /\ location' = location \/ \E sp \in Split : /\ BothHalves(sp) /\ location' = Fix(sp)
                                                      /\ sp.latitude.value # Unknown
<1> DEFINE axis == AxisOf(m)
           value == Coordinate(m)
           sp == WithCoordinate(split, axis, value, now)
           c == [axis |-> axis, value |-> value, at |-> now]
           log == Append(heard, c)
           complete == BothHalves(sp) /\ PairReady(sp, now)
           apart == Apart(sp.latitude, sp.longitude) > Skew \/ ~ FreshHalves(sp, now)
           n == split.generation
           k == split.committed
<1>1. axis \in Axis /\ value \in Number /\ value # Unknown
  BY MessageIs DEF VehicleInv
<1>2. PICK other \in Axis : other # axis
  BY DEF Axis
<1> DEFINE x == sp[axis]
           y == split[other]
<1>3. /\ sp \in Split /\ x # None /\ x.value = value /\ x.at = now /\ x.generation = n + 1
      /\ sp[other] = y
      /\ sp.generation = n + 1 /\ sp.committed = k
      /\ sp.assembly_deadline = IF split.assembly_deadline = None THEN now + Skew
                                ELSE split.assembly_deadline
  <2> HIDE DEF axis, value
  <2>1. VehicleTypeOK
    BY DEF VehicleInv
  <2>2. /\ sp \in Split
        /\ sp[axis] = [value |-> value, at |-> now, generation |-> n + 1]
        /\ sp[axis] # None /\ sp[other] = split[other]
        /\ sp.generation = n + 1 /\ sp.committed = k
        /\ sp.assembly_deadline = IF split.assembly_deadline = None THEN now + Skew
                                  ELSE split.assembly_deadline
    BY <1>1, <1>2, <2>1, WithCoordinateIs
  <2> HIDE DEF sp
  <2> QED BY <2>2
<1>4. /\ now \in Nat /\ n \in Nat /\ k \in Nat /\ k <= n /\ Skew \in Nat
      /\ split.assembly_deadline \in OptTime
      /\ split.assembly_deadline # None <=> k < n
  BY VehicleAssumption DEF VehicleInv, VehicleTypeOK, Split
<1>5. now' = now /\ inputs' = inputs
  BY DEF Receive
<1>6. /\ complete => /\ location' = Fix(sp) /\ split' = Completed(sp)
                     /\ heard' = <<>> /\ paired' = log
      /\ ~ complete => /\ UNCHANGED <<location, paired>> /\ heard' = log
                       /\ split' = IF BothHalves(sp) /\ apart THEN Pruned(sp) ELSE sp
  BY CoordinateComes
<1>7. c \in Coord /\ c.axis = axis /\ c.value = value /\ c.at = now
  BY <1>1, <1>4 DEF Coord
<1>8. heard \in Seq(Coord) /\ paired \in Seq(Coord)
  BY DEF VehicleInv, LogInv
<1> HIDE DEF c, complete, apart
<1>9. log \in Seq(Coord) /\ log # <<>> /\ log[1] = IF heard = <<>> THEN c ELSE heard[1]
  <2> DEFINE l == Len(heard)
  <2>1. l \in Nat /\ (heard = <<>> <=> l = 0)
    BY <1>8
  <2>2. /\ log \in Seq(Coord) /\ Len(log) = l + 1
        /\ log[1] = IF 1 <= l THEN heard[1] ELSE c
    BY <1>7, <1>8
  <2>3. log # <<>>
    BY <2>1, <2>2
  <2> HIDE DEF l, log
  <2> QED BY <2>1, <2>2, <2>3
<1>10. Latest(log, axis) = {c} /\ Latest(log, other) = Latest(heard, other)
  <2> HIDE DEF axis
  <2> QED BY <1>2, <1>7, <1>8, LatestOwn, LatestOther
<1>11. /\ y # None => /\ y \in Half /\ y.generation <= n /\ y.at <= now /\ y.value # Unknown
                      /\ Latest(heard, other) = IF y.generation > k THEN {Trail(other, y)} ELSE {}
       /\ y = None => \A d \in Latest(heard, other) : Stranded(d.at)
  <2>1. y # None => y \in Half
    BY DEF VehicleInv, VehicleTypeOK, Split, Axis
  <2> QED BY <2>1 DEF VehicleInv, HalfInv
<1> HIDE DEF sp, log, axis, value
<1> USE DEF complete, apart
<1>12. y # None => /\ BothHalves(sp) /\ y.at \in Nat
                   /\ Apart(sp.latitude, sp.longitude) = now - y.at
                   /\ FreshHalves(sp, now)
                        <=> (LocationStale # None => 0 < LocationStale
                                                     /\ now - y.at < LocationStale)
  BY <1>1, <1>2, <1>3, <1>4, <1>11, PairIs
<1>13. y = None => ~ BothHalves(sp)
  <2>1. sp.latitude = sp["latitude"] /\ sp.longitude = sp["longitude"]
    OBVIOUS
  <2> QED BY <1>1, <1>2, <1>3, <2>1 DEF BothHalves, Axis
<1>14. LocationStale # None => LocationStale \in Nat
  BY VehicleAssumption DEF OptSpan
\* Halves that do not belong together: the older one, or both, will find no partner.
<1>15. ASSUME y # None, apart
       PROVE  Stranded(y.at) /\ (now <= y.at => Stranded(now))
  BY <1>4, <1>11, <1>12, <1>14, <1>15 DEF Stranded
<1>16. y # None => (complete <=> y.generation > k /\ ~ apart)
  <2>1. ASSUME y # None
        PROVE  /\ (sp.latitude.generation > k /\ sp.longitude.generation > k) <=> y.generation > k
    <3>1. x.generation > k
      BY <1>3, <1>4
    <3>2. \A a \in Axis : sp[a] = IF a = "latitude" THEN sp.latitude ELSE sp.longitude
      BY DEF Axis
    <3>3. \/ sp.latitude = x /\ sp.longitude = y
          \/ sp.latitude = y /\ sp.longitude = x
      BY <1>1, <1>2, <1>3, <3>2 DEF Axis
    <3> HIDE DEF x, y
    <3> QED BY <3>1, <3>3
  <2>2. y # None => Apart(sp.latitude, sp.longitude) \in Int
    BY <1>4, <1>12
  <2> QED BY <1>3, <1>4, <1>12, <2>1, <2>2 DEF PairReady
<1>17. CASE complete
  <2> DEFINE p == Completed(sp)
  <2>1. y # None /\ y.generation > k /\ ~ apart
    BY <1>13, <1>16, <1>17
  <2>2. /\ split' = p /\ location' = Fix(sp) /\ heard' = <<>> /\ paired' = log
    BY <1>6, <1>17
  <2>3. /\ p \in Split /\ p.generation = n + 1 /\ p.committed = n + 1
        /\ p.assembly_deadline = None /\ \A a \in Axis : p[a] = sp[a]
    BY <1>3, CompletedIs
  <2> HIDE DEF p, apart
  <2>4. \A a \in Axis : a = axis \/ a = other
    BY <1>1, <1>2 DEF Axis
  <2>5. \A a \in Axis : /\ sp[a] # None /\ sp[a].generation <= n + 1 /\ sp[a].generation \in Nat
                        /\ sp[a].at <= now /\ sp[a].value # Unknown
    <3>1. /\ x # None /\ x.generation <= n + 1 /\ x.generation \in Nat
          /\ x.at <= now /\ x.value # Unknown
      BY <1>1, <1>3, <1>4
    <3>2. /\ sp[other] # None /\ sp[other].generation <= n + 1 /\ sp[other].generation \in Nat
          /\ sp[other].at <= now /\ sp[other].value # Unknown
      <4>1. y.generation \in Nat
        BY <1>11, <2>1 DEF Half
      <4> QED BY <1>3, <1>4, <1>11, <2>1, <4>1
    <3> QED BY <2>4, <3>1, <3>2
  <2>6. HalfInv'
    <3>1. \A a : Latest(heard, a)' = {}
      BY <2>2, LatestNone
    <3> SUFFICES ASSUME NEW a \in Axis
                 PROVE  LET h == p[a]
                        IN  /\ h # None /\ h.generation <= p.generation /\ h.at <= now
                            /\ h.value # Unknown /\ ~ h.generation > p.committed
      BY <1>5, <2>2, <2>3, <2>5, <3>1 DEF HalfInv
    <3> QED BY <1>4, <2>3, <2>5
  <2>7. PairInv'
    <3>1. \A a \in Axis : p[a].generation <= p.committed
      BY <2>3, <2>5
    <3>2. p.latitude = p["latitude"]
      OBVIOUS
    <3> QED BY <2>2, <3>1, <3>2 DEF PairInv, Axis
  <2>8. DeadlineInv' /\ LogInv'
    BY <1>8, <1>9, <2>2, <2>3 DEF DeadlineInv, LogInv
  <2>9. FixInv'
    <3> DEFINE d == Trail(other, y)
               a == IF axis = "latitude" THEN c ELSE d
               b == IF axis = "latitude" THEN d ELSE c
    <3>1. /\ Latest(log, axis) = {c} /\ Latest(log, other) = {d}
          /\ d \in Coord /\ d.value = y.value /\ d.at = y.at
      BY <1>10, <1>11, <2>1 DEF Trail, Coord, Half
    <3> HIDE DEF d
    <3>2. a \in Coord /\ b \in Coord
      BY <1>7, <3>1
    <3>3. /\ Latest(log, "latitude") = {a} /\ Latest(log, "longitude") = {b}
          /\ sp.latitude.value = a.value /\ sp.longitude.value = b.value
          /\ sp.latitude.at = a.at /\ sp.longitude.at = b.at
      <4>1. CASE axis = "latitude" /\ other = "longitude"
        BY <1>3, <1>7, <3>1, <4>1
      <4>2. CASE axis = "longitude" /\ other = "latitude"
        BY <1>3, <1>7, <3>1, <4>2
      <4> QED BY <1>1, <1>2, <4>1, <4>2 DEF Axis
    <3>4. Apart(a, b) <= Skew
      <4>1. Apart(a, b) = Apart(sp.latitude, sp.longitude)
        BY <3>3 DEF Apart
      <4>2. Apart(sp.latitude, sp.longitude) = now - y.at /\ y.at \in Nat
        BY <1>12, <2>1
      <4> QED BY <1>4, <2>1, <4>1, <4>2 DEF apart
    <3>5. /\ location'.value = [latitude |-> a.value, longitude |-> b.value]
          /\ location'.received = SoonerOf(a.at, b.at)
      BY <2>2, <3>3 DEF Fix
    <3>6. Latest(paired, "latitude")' = {a} /\ Latest(paired, "longitude")' = {b}
      BY <2>2, <3>3
    <3> HIDE DEF a, b
    <3> QED BY <3>2, <3>4, <3>5, <3>6 DEF FixInv
  <2>10. NoPairMissed'
    <3>1. Latest(heard, "latitude")' = {}
      BY <2>2, LatestNone
    <3> QED BY <3>1 DEF NoPairMissed
  <2>11. BothHalves(sp) /\ sp.latitude.value # Unknown
    <3>1. sp.latitude = sp["latitude"] /\ "latitude" \in Axis
      BY DEF Axis
    <3> QED BY <1>12, <2>1, <2>5, <3>1
  <2> QED BY <1>3, <1>4, <2>2, <2>3, <2>6, <2>7, <2>8, <2>9, <2>10, <2>11
<1>18. CASE ~ complete
  <2> DEFINE p == IF BothHalves(sp) /\ apart THEN Pruned(sp) ELSE sp
  <2>1. /\ split' = p /\ location' = location /\ heard' = log /\ paired' = paired
    BY <1>6, <1>18
  <2>2. \A d \in Latest(heard, other) : Stranded(d.at)
    <3>1. CASE y = None
      BY <1>11, <3>1
    <3>2. CASE y # None
      <4>1. y.generation > k => apart
        BY <1>16, <1>18, <3>2
      <4> HIDE DEF apart
      <4>2. \A d \in Latest(heard, other) : y.generation > k /\ d.at = y.at
        BY <1>11, <3>2 DEF Trail
      <4> QED BY <1>15, <3>2, <4>1, <4>2
    <3> QED BY <3>1, <3>2
  <2>3. /\ p \in Split /\ p.generation = n + 1 /\ p.committed = k
        /\ p.assembly_deadline = sp.assembly_deadline
        /\ BothHalves(p) => y # None /\ ~ apart /\ p[other] = y
        /\ p[axis] = x \/ (p[axis] = None /\ Stranded(now))
        /\ p[other] = y \/ (p[other] = None /\ y # None)
    <3>1. CASE ~ (BothHalves(sp) /\ apart)
      <4>1. p = sp
        BY <3>1
      <4> HIDE DEF p, apart
      <4> QED BY <1>3, <1>13, <3>1, <4>1
    <3>2. CASE BothHalves(sp) /\ apart
      <4> DEFINE q == Pruned(sp)
      <4>1. /\ q \in Split /\ q.generation = sp.generation /\ q.committed = sp.committed
            /\ q.assembly_deadline = sp.assembly_deadline
            /\ ~ BothHalves(q)
        BY <1>1, <1>2, <1>3, <3>2, PrunedIs
      <4>2. q[axis] = sp[axis] \/ (q[axis] = None /\ sp[axis].at <= sp[other].at)
        BY <1>1, <1>2, <1>3, <3>2, PrunedIs
      <4>3. q[other] = sp[other] \/ q[other] = None
        BY <1>1, <1>2, <1>3, <3>2, PrunedIs
      <4>4. p = q
        BY <3>2
      <4>5. y # None
        BY <1>13, <3>2
      <4> HIDE DEF p, q, apart
      <4> QED BY <1>3, <1>15, <3>2, <4>1, <4>2, <4>3, <4>4, <4>5
    <3> QED BY <3>1, <3>2
  <2> HIDE DEF p, apart, complete
  <2>4. y # None => y.generation \in Nat
    BY <1>11 DEF Half
  <2>5. c = Trail(axis, x)
    BY <1>3 DEF Trail, c
  <2>6. HalfInv'
    <3> SUFFICES ASSUME NEW a \in Axis
                 PROVE  LET h == p[a]
                        IN  /\ h # None =>
                                 /\ h.generation <= p.generation /\ h.at <= now
                                 /\ h.value # Unknown
                                 /\ Latest(log, a) = IF h.generation > p.committed
                                                     THEN {Trail(a, h)} ELSE {}
                            /\ h = None => \A d \in Latest(log, a) : Stranded(d.at)
      BY <1>5, <2>1 DEF HalfInv, Stranded, Trail
    <3>1. CASE a = axis
      <4>1. CASE p[axis] = x
        <5>1. /\ x # None /\ x.generation <= p.generation /\ x.at <= now /\ x.value # Unknown
              /\ x.generation > p.committed
          BY <1>1, <1>3, <1>4, <2>3
        <5> HIDE DEF x
        <5> QED BY <1>10, <2>5, <3>1, <4>1, <5>1
      <4>2. CASE p[axis] = None /\ Stranded(now)
        BY <1>7, <1>10, <3>1, <4>2
      <4> QED BY <2>3, <4>1, <4>2
    <3>2. CASE a = other
      <4>1. CASE p[other] = y
        <5> HIDE DEF y
        <5> QED BY <1>4, <1>10, <1>11, <2>3, <2>4, <3>2, <4>1
      <4>2. CASE p[other] = None
        BY <1>10, <2>2, <3>2, <4>2
      <4> QED BY <2>3, <4>1, <4>2
    <3> QED BY <1>1, <1>2, <3>1, <3>2 DEF Axis
  <2>7. PairInv'
    <3>1. ASSUME BothHalves(p) PROVE p[other] = y /\ y.generation <= k
      <4>1. ~ (y.generation > k)
        BY <1>16, <1>18, <2>3, <3>1
      <4> QED BY <1>4, <2>3, <2>4, <3>1, <4>1
    <3>2. p.latitude = p["latitude"] /\ p.longitude = p["longitude"]
      OBVIOUS
    <3>3. BothHalves(p) => p.latitude.generation <= k \/ p.longitude.generation <= k
      BY <3>1, <3>2 DEF Axis
    <3> QED BY <2>1, <2>3, <3>3 DEF PairInv
  <2>8. LogInv'
    BY <1>8, <1>9, <2>1 DEF LogInv
  <2>9. DeadlineInv'
    <3>1. p.assembly_deadline = log[1].at + Skew
      <4>1. (heard = <<>> <=> k = n) /\ (heard # <<>> => split.assembly_deadline
                                                       = heard[1].at + Skew)
        BY DEF VehicleInv, DeadlineInv
      <4> QED BY <1>3, <1>4, <1>7, <1>9, <2>3, <4>1
    <3> QED BY <1>4, <1>9, <2>1, <2>3, <3>1 DEF DeadlineInv
  <2>10. FixInv'
    BY <1>5, <2>1 DEF VehicleInv, FixInv
  <2>11. NoPairMissed'
    <3>1. ASSUME NEW d \in Latest(heard, other)
          PROVE  /\ d.at \in Nat /\ d.at <= now /\ Stranded(d.at)
                 /\ Apart(c, d) = now - d.at /\ Apart(d, c) = now - d.at
      <4>1. d.at \in Nat
        BY <1>8, LatestIs DEF Coord
      <4> QED BY <1>4, <1>7, <2>2, <4>1 DEF Stranded, Apart
    <3>2. \A a \in Latest(log, "latitude"), b \in Latest(log, "longitude") :
             Apart(a, b) > Skew \/ (LocationStale # None /\ Apart(a, b) >= LocationStale)
      <4>1. CASE axis = "latitude" /\ other = "longitude"
        BY <1>10, <3>1, <4>1 DEF Stranded
      <4>2. CASE axis = "longitude" /\ other = "latitude"
        BY <1>10, <3>1, <4>2 DEF Stranded
      <4> QED BY <1>1, <1>2, <4>1, <4>2 DEF Axis
    <3> QED BY <2>1, <3>2 DEF NoPairMissed
  <2>12. p.committed <= p.generation /\ p.assembly_deadline # None
         /\ p.committed < p.generation
    <3>1. sp.assembly_deadline # None
      BY <1>3, <1>4, NoneAssumption
    <3> QED BY <1>4, <2>3, <3>1
  <2> QED BY <2>1, <2>3, <2>6, <2>7, <2>8, <2>9, <2>10, <2>11, <2>12
<1> QED BY <1>17, <1>18

----------------------------------------------------------------------------
(* The steps.                                                              *)

BatteryFact == [value : Number, received : OptTime]

LEMMA NowhereIs == Nowhere \in Place /\ Nowhere.latitude = Unknown
<1> DEFINE U == Unknown
<1>1. U \in Number
  BY DEF Number
<1>2. Nowhere = [latitude |-> U, longitude |-> U]
  BY DEF Nowhere
<1> HIDE DEF U
<1>3. Nowhere \in Place /\ Nowhere.latitude = U
  BY <1>1, <1>2 DEF Place
<1> QED BY <1>3 DEF U

LEMMA VehicleInitInv == VehicleInit => VehicleInv
<1> SUFFICES ASSUME VehicleInit PROVE VehicleInv
  OBVIOUS
<1>1. NewFact \in BoolFact
  BY DEF NewFact, BoolFact, OptTime, Truth
<1> DEFINE U == Unknown
<1>2. U \in Number
  BY DEF Number
<1> HIDE DEF U
<1>3. NewFact \in BatteryFact
  <2>1. NewFact = [value |-> U, received |-> None]
    BY DEF NewFact, U
  <2> QED BY <1>2, <2>1 DEF BatteryFact, OptTime
<1>4. split = [latitude |-> None, longitude |-> None, generation |-> 0, committed |-> 0,
               assembly_deadline |-> None]
  BY DEF VehicleInit
<1>5. split \in Split
  BY <1>4 DEF Split, OptTime
<1>6. /\ split.latitude = None /\ split.longitude = None /\ split.generation = 0
      /\ split.committed = 0 /\ split.assembly_deadline = None
  BY <1>4
<1>7. location = [value |-> Nowhere, received |-> None]
  BY DEF VehicleInit
<1>8. VehicleTypeOK
  <2>1. /\ inputs \in Configurations /\ now \in Nat /\ read_at \in Nat
        /\ last_received \in OptTime /\ waiting \in BOOLEAN
    BY DEF VehicleInit, OptTime
  <2>2. booleans \in [Input -> BoolFact]
    BY <1>1 DEF VehicleInit
  <2>3. battery \in BatteryFact
    BY <1>3 DEF VehicleInit
  <2>4. location \in [value : Place, received : OptTime]
    BY <1>7, NowhereIs DEF OptTime
  <2>5. /\ split.committed <= split.generation
        /\ split.assembly_deadline # None <=> split.committed < split.generation
    BY <1>6
  <2> QED BY <1>5, <2>1, <2>2, <2>3, <2>4, <2>5 DEF VehicleTypeOK, BatteryFact
<1>9. \A axis : Latest(heard, axis) = {}
  BY LatestNone DEF VehicleInit
<1>10. \A axis \in Axis : split[axis] = None
  BY <1>6 DEF Axis
<1>11. LogInv
  BY DEF VehicleInit, LogInv
<1>12. HalfInv /\ NoPairMissed
  BY <1>9, <1>10 DEF HalfInv, NoPairMissed
<1>13. PairInv /\ DeadlineInv
  BY <1>6 DEF VehicleInit, PairInv, BothHalves, DeadlineInv
<1>14. FixInv /\ ReadInv
  BY <1>7 DEF VehicleInit, FixInv, ReadInv
<1> QED BY <1>8, <1>11, <1>12, <1>13, <1>14 DEF VehicleInv

\* A receipt waits for the next tick, so that nothing has been read yet.
LEMMA ReceiveInv ==
  ASSUME VehicleInv, NEW m \in Message, Receive(m)
  PROVE  VehicleInv'
<1>1. /\ waiting' = FALSE /\ inputs' = inputs /\ now' = now /\ read_at' = read_at
      /\ booleans' = [b \in Input |-> ReceivedBoolean(b, m)]
      /\ battery' = (IF Percent(m) = Unknown THEN battery ELSE FactReceive(Percent(m), now))
      /\ last_received' = IF Accepted(m) THEN now ELSE last_received
  BY DEF Receive
<1>2. VehicleTypeOK /\ now \in Nat
  BY DEF VehicleInv, VehicleTypeOK
<1>3. booleans' \in [Input -> BoolFact]
  <2>1. ASSUME NEW b \in Input PROVE ReceivedBoolean(b, m) \in BoolFact
    <3>1. Decoded(b, m) \in Truth
      BY DEF Decoded, DecodeBool, Truth, Known
    <3>2. booleans[b] \in BoolFact
      BY <1>2 DEF VehicleTypeOK
    <3> QED BY <1>2, <3>1, <3>2 DEF ReceivedBoolean, FactReceive, BoolFact, OptTime
  <2> QED BY <1>1, <2>1
<1>4. battery' \in BatteryFact
  <2>1. battery \in BatteryFact
    BY <1>2 DEF VehicleTypeOK, BatteryFact
  <2>2. Percent(m) \in Number
    BY <1>2, MessageIs
  <2>3. FactReceive(Percent(m), now) \in BatteryFact
    BY <1>2, <2>2 DEF FactReceive, BatteryFact, OptTime
  <2> QED BY <1>1, <2>1, <2>3
<1>5. last_received' \in OptTime
  BY <1>1, <1>2 DEF VehicleTypeOK, OptTime
<1>6. /\ split' \in Split /\ split'.committed <= split'.generation
      /\ split'.assembly_deadline # None <=> split'.committed < split'.generation
      /\ LogInv' /\ HalfInv' /\ PairInv' /\ DeadlineInv' /\ FixInv' /\ NoPairMissed'
      /\ location' \in [value : Place, received : OptTime]
  <2>1. CASE Coordinate(m) # Unknown
    <3>1. /\ split' \in Split /\ split'.committed <= split'.generation
          /\ split'.assembly_deadline # None <=> split'.committed < split'.generation
          /\ LogInv' /\ HalfInv' /\ PairInv' /\ DeadlineInv' /\ FixInv' /\ NoPairMissed'
          /\ location' = location \/ \E sp \in Split : BothHalves(sp) /\ location' = Fix(sp)
      BY <2>1, CoordinateKeeps
    <3>2. ASSUME NEW sp \in Split, BothHalves(sp)
          PROVE  Fix(sp) \in [value : Place, received : OptTime]
      <4>1. /\ sp.latitude.at \in Nat /\ sp.longitude.at \in Nat
            /\ sp.latitude.value \in Number /\ sp.longitude.value \in Number
        BY <3>2 DEF BothHalves, Split, Half
      <4> QED BY <4>1 DEF Fix, SoonerOf, OptTime, Place
    <3> QED BY <1>2, <3>1, <3>2 DEF VehicleTypeOK
  <2>2. CASE Coordinate(m) = Unknown
    <3>1. /\ UNCHANGED <<split, heard, paired>>
          /\ \/ UNCHANGED location
             \/ /\ location' = [value |-> JsonPosition(m), received |-> now]
                /\ inputs.latitude = None
      BY <2>2, NoCoordinateComes
    <3>2. location' \in [value : Place, received : OptTime]
      <4>1. JsonPosition(m) \in Place
        BY NowhereIs DEF JsonPosition, Place
      <4> QED BY <1>2, <3>1, <4>1 DEF VehicleTypeOK, OptTime
    <3>3. HalfInv' /\ PairInv' /\ DeadlineInv' /\ LogInv' /\ NoPairMissed'
      BY <1>1, <3>1 DEF VehicleInv, HalfInv, Stranded, PairInv, DeadlineInv, LogInv, NoPairMissed
    <3>4. FixInv'
      BY <1>1, <3>1 DEF VehicleInv, FixInv
    <3> QED BY <1>2, <3>1, <3>2, <3>3, <3>4 DEF VehicleTypeOK
  <2> QED BY <2>1, <2>2
<1>7. VehicleTypeOK'
  BY <1>1, <1>2, <1>3, <1>4, <1>5, <1>6 DEF VehicleTypeOK, BatteryFact
<1>8. ReadInv'
  BY <1>1 DEF ReadInv
<1> QED BY <1>6, <1>7, <1>8 DEF VehicleInv

\* Expiry is done once.
LEMMA ExpireTwice ==
  ASSUME NEW f, NEW stale, NEW t
  PROVE  FactExpire(FactExpire(f, stale, t), stale, t) = FactExpire(f, stale, t)
BY DEF FactExpire, FactDeadline, FactUnknown

LEMMA TickInv == ASSUME VehicleInv, Tick PROVE VehicleInv'
<1>1. /\ UNCHANGED <<inputs, now, split, last_received, heard, paired>>
      /\ waiting' = TRUE /\ read_at' = now
      /\ booleans' = [b \in Input |-> FactExpire(booleans[b], InputStale[b], now)]
      /\ battery' = FactExpire(battery, BatteryStale, now)
      /\ location' = ExpiredLocation
  BY DEF Tick, Expired
<1>2. VehicleTypeOK /\ now \in Nat
  BY DEF VehicleInv, VehicleTypeOK
<1>3. booleans' \in [Input -> BoolFact]
  <2>1. ASSUME NEW b \in Input PROVE FactExpire(booleans[b], InputStale[b], now) \in BoolFact
    <3>1. booleans[b] \in BoolFact
      BY <1>2 DEF VehicleTypeOK
    <3> QED BY <3>1 DEF FactExpire, FactUnknown, BoolFact, Truth
  <2> QED BY <1>1, <2>1
<1>4. battery' \in BatteryFact
  <2> DEFINE U == Unknown
  <2>1. U \in Number
    BY DEF Number
  <2>2. battery \in BatteryFact
    BY <1>2 DEF VehicleTypeOK, BatteryFact
  <2>3. battery' = battery \/ battery' = [battery EXCEPT !.value = U]
    BY <1>1 DEF FactExpire, FactUnknown
  <2> HIDE DEF U
  <2> QED BY <2>1, <2>2, <2>3 DEF BatteryFact
<1>5. /\ location' \in [value : Place, received : OptTime]
      /\ location'.received = location.received
      /\ location'.value \in {location.value, Nowhere}
      /\ \/ Passed(FactDeadline(location, LocationStale), now)
         \/ Passed(split.assembly_deadline, now)
         => location'.value = Nowhere
      /\ location'.value # Nowhere => location' = location
  <2>1. location \in [value : Place, received : OptTime]
    BY <1>2 DEF VehicleTypeOK
  <2>2. CASE \/ Passed(FactDeadline(location, LocationStale), now)
             \/ Passed(split.assembly_deadline, now)
    <3>1. location' = [location EXCEPT !.value = Nowhere]
      BY <1>1, <2>2 DEF ExpiredLocation
    <3> DEFINE N == Nowhere
    <3> HIDE DEF N
    <3>2. location' = [location EXCEPT !.value = N]
      BY <3>1 DEF N
    <3>3. location'.value = N /\ location'.received = location.received
          /\ location' \in [value : Place, received : OptTime]
      <4>1. N \in Place
        BY NowhereIs DEF N
      <4> QED BY <2>1, <3>2, <4>1
    <3> QED BY <3>3 DEF N
  <2>3. CASE ~ (\/ Passed(FactDeadline(location, LocationStale), now)
                \/ Passed(split.assembly_deadline, now))
    <3>1. location' = location
      BY <1>1, <2>3 DEF ExpiredLocation
    <3> QED BY <2>1, <2>3, <3>1
  <2> QED BY <2>2, <2>3
<1>6. VehicleTypeOK'
  BY <1>1, <1>2, <1>3, <1>4, <1>5 DEF VehicleTypeOK, BatteryFact
<1>7. HalfInv' /\ PairInv' /\ DeadlineInv' /\ LogInv' /\ NoPairMissed'
  BY <1>1 DEF VehicleInv, HalfInv, Stranded, PairInv, DeadlineInv, LogInv, NoPairMissed
<1>8. FixInv'
  BY <1>1, <1>5 DEF VehicleInv, FixInv
<1>9. ReadInv'
  <2>1. \A b \in Input : FactExpire(booleans'[b], InputStale[b], now) = booleans'[b]
    BY <1>1, ExpireTwice
  <2>2. FactExpire(battery', BatteryStale, now) = battery'
    BY <1>1, ExpireTwice
  <2>3. FactDeadline(location', LocationStale) = FactDeadline(location, LocationStale)
    BY <1>5 DEF FactDeadline
  <2> QED BY <1>1, <1>5, <2>1, <2>2, <2>3 DEF ReadInv
<1> QED BY <1>6, <1>7, <1>8, <1>9 DEF VehicleInv

LEMMA PassInv == ASSUME VehicleInv, Pass PROVE VehicleInv'
<1>1. /\ now \in Nat /\ now' = now + 1
      /\ UNCHANGED <<inputs, booleans, battery, location, split, last_received, waiting,
                     read_at, heard, paired>>
  BY DEF Pass, VehicleInv, VehicleTypeOK
<1>2. VehicleTypeOK'
  BY <1>1 DEF VehicleInv, VehicleTypeOK
<1>3. \A axis \in Axis : \A c \in Latest(heard, axis) : Stranded(c.at) => Stranded(c.at)'
  <2>1. ASSUME NEW axis \in Axis, NEW c \in Latest(heard, axis) PROVE c.at \in Nat
    BY LatestIs DEF VehicleInv, LogInv, Coord
  <2>2. LocationStale # None => LocationStale \in Nat
    BY VehicleAssumption DEF OptSpan
  <2> QED BY <1>1, <2>1, <2>2, VehicleAssumption DEF Stranded
<1>4. \A axis \in Axis : split[axis] # None => split[axis].at \in Nat
  BY DEF VehicleInv, VehicleTypeOK, Split, Half, Axis
<1>5. HalfInv'
  BY <1>1, <1>3, <1>4 DEF VehicleInv, HalfInv
<1>6. PairInv' /\ DeadlineInv' /\ LogInv' /\ NoPairMissed' /\ FixInv' /\ ReadInv'
  BY <1>1 DEF VehicleInv, PairInv, DeadlineInv, LogInv, NoPairMissed, FixInv, ReadInv
<1> QED BY <1>2, <1>5, <1>6 DEF VehicleInv

LEMMA VehicleNextInv == VehicleInv /\ [VehicleNext]_vehicle_vars => VehicleInv'
<1> SUFFICES ASSUME VehicleInv, [VehicleNext]_vehicle_vars PROVE VehicleInv'
  OBVIOUS
<1>1. CASE Tick
  BY <1>1, TickInv
<1>2. CASE Pass
  BY <1>2, PassInv
<1>3. CASE \E m \in Message : Receive(m)
  BY <1>3, ReceiveInv
<1>4. CASE UNCHANGED vehicle_vars
  BY <1>4 DEF VehicleInv, vehicle_vars, VehicleTypeOK, HalfInv, Stranded, PairInv, DeadlineInv,
              LogInv, NoPairMissed, FixInv, ReadInv
<1> QED BY <1>1, <1>2, <1>3, <1>4 DEF VehicleNext

----------------------------------------------------------------------------
(* What the tick reads, and what a receipt changes.                        *)

LEMMA VehicleInvariant == VehicleSpec => []VehicleInv
<1>1. VehicleInit => VehicleInv
  BY VehicleInitInv
<1>2. VehicleInv /\ [VehicleNext]_vehicle_vars => VehicleInv'
  BY VehicleNextInv
<1> QED BY <1>1, <1>2, PTL DEF VehicleSpec

\* The vehicle keeps its types; an assembly deadline runs exactly while a coordinate has
\* come that is not part of the location (SplitLocation, src/inputs.rs).
THEOREM VehicleTypeCorrect == VehicleSpec => []VehicleTypeOK
<1>1. VehicleInv => VehicleTypeOK
  BY DEF VehicleInv
<1> QED BY <1>1, VehicleInvariant, PTL

\* However many coordinates come, in whatever order, a split location is one position:
\* the latest coordinate of either axis, no two of them further apart than the skew.
THEOREM LocationIsWhole == VehicleSpec => []LocationIsOnePosition
<1>1. VehicleInv => LocationIsOnePosition
  BY DEF VehicleInv, FixInv, LocationIsOnePosition
<1> QED BY <1>1, VehicleInvariant, PTL

\* A split location is as old as its older half: no tick reads it once either half has
\* outlived stale_after_seconds.
THEOREM LocationAgesWithItsHalves == VehicleSpec => []LocationOutlivesNoHalf
<1>1. ASSUME VehicleInv PROVE LocationOutlivesNoHalf
  <2> SUFFICES ASSUME inputs.latitude # None, LocationStale # None, waiting,
                      location.value # Nowhere,
                      NEW axis \in Axis, NEW c \in Latest(paired, axis)
               PROVE  read_at < c.at + LocationStale
    BY DEF LocationOutlivesNoHalf
  <2>1. PICK a, b \in Coord :
          /\ Latest(paired, "latitude") = {a} /\ Latest(paired, "longitude") = {b}
          /\ location.received = SoonerOf(a.at, b.at)
    BY <1>1 DEF VehicleInv, FixInv
  <2>2. c = a \/ c = b
    BY <2>1 DEF Axis
  <2>3. a.at \in Nat /\ b.at \in Nat /\ LocationStale \in Nat /\ read_at \in Nat
    BY <1>1, VehicleAssumption DEF Coord, OptSpan, VehicleInv, VehicleTypeOK
  <2>4. location.received \in Nat /\ location.received <= c.at
    BY <2>1, <2>2, <2>3 DEF SoonerOf
  <2>5. ~ Passed(FactDeadline(location, LocationStale), read_at)
    BY <1>1 DEF VehicleInv, ReadInv
  <2>6. location.received + LocationStale # None /\ location.received # None
    BY <2>3, <2>4, NoneAssumption
  <2>7. FactDeadline(location, LocationStale) = location.received + LocationStale
    BY <2>6 DEF FactDeadline
  <2> QED BY <2>2, <2>3, <2>4, <2>5, <2>6, <2>7 DEF Passed
<1> QED BY <1>1, VehicleInvariant, PTL

\* A coordinate that waits for its partner longer than the skew takes the location away,
\* and further coordinates of its axis do not put that off.
THEOREM LoneCoordinatesDistrust == VehicleSpec => []LoneCoordinateDistrusts
<1>1. ASSUME VehicleInv PROVE LoneCoordinateDistrusts
  <2> SUFFICES ASSUME waiting, heard # <<>>, read_at >= heard[1].at + Skew
               PROVE  location.value = Nowhere
    BY DEF LoneCoordinateDistrusts
  <2>1. split.assembly_deadline = heard[1].at + Skew
    BY <1>1 DEF VehicleInv, DeadlineInv
  <2>2. heard[1] \in Coord
    BY <1>1 DEF VehicleInv, LogInv
  <2>3. heard[1].at + Skew \in Nat
    BY <2>2, VehicleAssumption DEF Coord
  <2>4. split.assembly_deadline # None
    BY <2>1, <2>3, NoneAssumption
  <2>5. Passed(split.assembly_deadline, read_at)
    BY <2>1, <2>4 DEF Passed
  <2> QED BY <1>1, <2>5 DEF VehicleInv, ReadInv
<1> QED BY <1>1, VehicleInvariant, PTL

\* Two halves that belong together and are fresh are never both pending: the receipt of
\* the second one puts them together, whatever was dropped in between.
THEOREM PairsAreMade == VehicleSpec => []NoPairMissed
<1>1. VehicleInv => NoPairMissed
  BY DEF VehicleInv
<1> QED BY <1>1, VehicleInvariant, PTL

\* A fact that has not expired when it was read has not until its deadline.
LEMMA StillKnown ==
  ASSUME VehicleTypeOK, NEW f, NEW stale \in OptSpan, f.received \in OptTime,
         FactExpire(f, stale, read_at) = f,
         FactDeadline(f, stale) # None =>
           (FactDeadline(f, stale) > read_at => now < FactDeadline(f, stale))
  PROVE  FactExpire(f, stale, now) = f
<1> DEFINE d == FactDeadline(f, stale)
<1>1. now \in Nat /\ read_at \in Nat
  BY DEF VehicleTypeOK
<1>2. d # None => d \in Int
  BY DEF FactDeadline, OptTime, OptSpan
<1> HIDE DEF d
<1>3. ~ Passed(d, now) \/ Passed(d, read_at)
  BY <1>1, <1>2 DEF Passed, d
<1> QED BY <1>3 DEF FactExpire, d

\* The deadlines that the loop is given (Vehicle::next_deadline) cover every loss: until
\* the earliest of them that is ahead, expiry would change nothing.
THEOREM LossesAreAwaited == VehicleSpec => []LossesWakeTheLoop
<1>1. ASSUME VehicleInv PROVE LossesWakeTheLoop
  <2> SUFFICES ASSUME waiting, \A d \in FreshnessDeadlines \ {None} : d > read_at => now < d
               PROVE  /\ \A b \in Input : Expired(booleans[b], InputStale[b]) = booleans[b]
                      /\ Expired(battery, BatteryStale) = battery
                      /\ ExpiredLocation = location
    BY DEF LossesWakeTheLoop
  <2>1. VehicleTypeOK /\ ReadInv
    BY <1>1 DEF VehicleInv
  <2>2. ASSUME NEW d \in FreshnessDeadlines, d # None PROVE d > read_at => now < d
    BY <2>2
  <2>3. ASSUME NEW b \in Input PROVE Expired(booleans[b], InputStale[b]) = booleans[b]
    <3>1. booleans[b].received \in OptTime /\ InputStale[b] \in OptSpan
      BY <2>1, VehicleAssumption DEF VehicleTypeOK, BoolFact
    <3>2. FactExpire(booleans[b], InputStale[b], read_at) = booleans[b]
      BY <2>1 DEF ReadInv
    <3>3. FactDeadline(booleans[b], InputStale[b]) \in FreshnessDeadlines
      BY DEF FreshnessDeadlines
    <3> QED BY <2>1, <2>2, <3>1, <3>2, <3>3, StillKnown DEF Expired
  <2>4. Expired(battery, BatteryStale) = battery
    <3>1. battery.received \in OptTime /\ BatteryStale \in OptSpan
      BY <2>1, VehicleAssumption DEF VehicleTypeOK
    <3>2. FactExpire(battery, BatteryStale, read_at) = battery
      BY <2>1 DEF ReadInv
    <3>3. FactDeadline(battery, BatteryStale) \in FreshnessDeadlines
      BY DEF FreshnessDeadlines
    <3> QED BY <2>1, <2>2, <3>1, <3>2, <3>3, StillKnown DEF Expired
  <2>5. ExpiredLocation = location
    <3> DEFINE d == FactDeadline(location, LocationStale)
               e == split.assembly_deadline
    <3>1. d \in FreshnessDeadlines /\ e \in FreshnessDeadlines
      BY DEF FreshnessDeadlines
    <3>2. d # None => d \in Int
      BY <2>1, VehicleAssumption DEF VehicleTypeOK, FactDeadline, OptTime, OptSpan
    <3>3. e # None => e \in Int
      BY <2>1 DEF VehicleTypeOK, Split, OptTime
    <3>4. now \in Nat /\ read_at \in Nat
      BY <2>1 DEF VehicleTypeOK
    <3> HIDE DEF d, e
    <3>5. /\ Passed(d, now) => Passed(d, read_at)
          /\ Passed(e, now) => Passed(e, read_at)
      BY <2>2, <3>1, <3>2, <3>3, <3>4 DEF Passed
    <3>6. Passed(d, read_at) \/ Passed(e, read_at) => location.value = Nowhere
      BY <2>1 DEF ReadInv, d, e
    <3>7. location.value = Nowhere => [location EXCEPT !.value = Nowhere] = location
      <4> DEFINE N == Nowhere
      <4>1. location \in [value : Place, received : OptTime]
        BY <2>1 DEF VehicleTypeOK
      <4> HIDE DEF N
      <4>2. location.value = N => [location EXCEPT !.value = N] = location
        BY <4>1
      <4> QED BY <4>2 DEF N
    <3> QED BY <3>5, <3>6, <3>7 DEF ExpiredLocation, d, e
  <2> QED BY <2>3, <2>4, <2>5
<1> QED BY <1>1, VehicleInvariant, PTL

LEMMA ReceiptKeeps ==
  ASSUME VehicleInv, NEW m \in Message, Receive(m)
  PROVE  /\ \A b \in Input : booleans[b].value # Unknown => booleans'[b].value # Unknown
         /\ battery.value # Unknown => battery'.value # Unknown
         /\ location.value # Nowhere => location'.value # Nowhere
<1>1. ASSUME NEW b \in Input, booleans[b].value # Unknown PROVE booleans'[b].value # Unknown
  <2>1. booleans' = [i \in Input |-> ReceivedBoolean(i, m)]
    BY DEF Receive
  <2>2. booleans'[b] = ReceivedBoolean(b, m)
    BY <2>1
  <2>3. \/ booleans'[b] = booleans[b]
        \/ booleans'[b].value = Decoded(b, m) /\ Decoded(b, m) # Unknown
    BY <2>2 DEF ReceivedBoolean, FactReceive
  <2> QED BY <1>1, <2>3
<1>2. battery.value # Unknown => battery'.value # Unknown
  BY DEF Receive, FactReceive
<1>3. location.value # Nowhere => location'.value # Nowhere
  <2>1. CASE Coordinate(m) # Unknown
    <3> DEFINE sp == WithCoordinate(split, AxisOf(m), Coordinate(m), now)
    <3>1. \/ location' = location
          \/ BothHalves(sp) /\ location' = Fix(sp) /\ split' = Completed(sp)
      BY <2>1, CoordinateComes
    <3>2. HalfInv'
      BY ReceiveInv DEF VehicleInv
    <3> HIDE DEF sp
    <3>3. ASSUME BothHalves(sp), location' = Fix(sp), split' = Completed(sp)
          PROVE  location'.value # Nowhere
      <4>1. split'.latitude = sp.latitude
        BY <3>3 DEF Completed
      <4>2. split'.latitude # None
        BY <3>3, <4>1 DEF BothHalves
      <4>3. split'.latitude.value # Unknown
        BY <3>2, <4>2 DEF HalfInv, Axis
      <4>4. location'.value.latitude = sp.latitude.value
        BY <3>3 DEF Fix
      <4> QED BY <4>1, <4>3, <4>4, NowhereIs
    <3> QED BY <3>1, <3>3
  <2>2. CASE Coordinate(m) = Unknown
    <3>1. ReceiveLocation(m)
      BY DEF Receive
    <3> QED BY <2>2, <3>1 DEF ReceiveLocation
  <2> QED BY <2>1, <2>2
<1> QED BY <1>1, <1>2, <1>3

\* A malformed payload, a message of another topic and a half without its partner leave
\* what is known alone: only the expiry of a tick makes it unknown.
THEOREM ReceiptsLoseNothing == VehicleSpec => ReceiptLosesNothing
<1> DEFINE Kept ==
      waiting /\ ~ waiting' =>
        /\ \A b \in Input : booleans[b].value # Unknown => booleans'[b].value # Unknown
        /\ battery.value # Unknown => battery'.value # Unknown
        /\ location.value # Nowhere => location'.value # Nowhere
<1>1. ASSUME VehicleInv, [VehicleNext]_vehicle_vars PROVE [Kept]_vehicle_vars
  <2>1. CASE Tick \/ Pass \/ UNCHANGED vehicle_vars
    BY <2>1 DEF Tick, Pass
  <2>2. CASE \E m \in Message : Receive(m)
    BY <1>1, <2>2, ReceiptKeeps
  <2> QED BY <1>1, <2>1, <2>2 DEF VehicleNext
<1> QED BY <1>1, VehicleInvariant, PTL DEF VehicleSpec, ReceiptLosesNothing

=============================================================================
