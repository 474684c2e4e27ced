---------------------------- MODULE MCEvaluation ----------------------------
(***************************************************************************)
(* Instances of the evaluation for TLC: two homes in a row, whose circles  *)
(* overlap, and a vehicle on the road between them.                        *)
(***************************************************************************)
EXTENDS Evaluation

CONSTANTS home, cabin, tyres, brakes

Span(x, y) == IF x >= y THEN x - y ELSE y - x

\* Positions are kilometres of the road; home is at 0 and the cabin at 6.
Road == [p \in Position |-> [e \in Geofenced |-> Span(p, IF e = home THEN 0 ELSE 6)]]

Radius2 == [e \in Geofenced |-> 2]
Radius4 == [e \in Geofenced |-> 4]
Buffer1 == [e \in Geofenced |-> 1]
LowAtHome == [e \in Entry |-> IF e = home THEN 20 ELSE None]
NoLow == [e \in Entry |-> None]

AllConfigured == Boolean \cup {"location", "battery"}

\* What the rules about charging read is free, the rest is known.
Inputs(charging, plugged, complete, parked) ==
  [b \in Boolean |-> CASE b = "charging" -> charging [] b = "plugged_in" -> plugged
                       [] b = "charge_complete" -> complete [] b = "parked" -> parked
                       [] OTHER -> No]

See(inputs, fault, position, battery) ==
  [inputs |-> inputs, faults |-> [f \in Fault |-> IF f = tyres THEN fault ELSE No],
   position |-> position, battery |-> battery]

\* The vehicle drives along the road, its receiver fails, charging is lost from sight;
\* at home, or somewhere, this or that is unknown.
Trip ==
  {See(Inputs(c, Yes, Yes, Yes), No, p, 50) : c \in {Yes, Unknown}, p \in Position \cup {None}}
  \cup {See(Inputs(c, g, Yes, No), No, p, 50) : c \in Truth, g \in Truth, p \in {1, None}}
  \cup {See(Inputs(No, Yes, d, k), No, 1, 50) : d \in {No, Unknown}, k \in {Yes, Unknown}}
  \cup {See(Inputs(No, No, No, No), f, 3, b) : f \in Truth, b \in {10, None}}

\* Neither location nor battery is configured, nor any fault.
SomeConfigured == Boolean \ {"online", "source_healthy"}
Blind ==
  {[inputs |-> [b \in Boolean |-> IF b \in Configured THEN i[b] ELSE Unknown],
    faults |-> [f \in Fault |-> Unknown], position |-> None, battery |-> None] :
     i \in [SomeConfigured -> Truth]}

=============================================================================
