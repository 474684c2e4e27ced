------------------------------ MODULE MCRelay ------------------------------
(***************************************************************************)
(* Instances of the relay scheduler for TLC, modelled on the green and     *)
(* amber lights of the example configuration.                              *)
(***************************************************************************)
EXTENDS RelayScheduler

CONSTANTS parked, plugged

R(state, when, priority, kind, value, duration, half, start_on_match, restart_on) ==
  [state |-> state, when |-> when, priority |-> priority, kind |-> kind, value |-> value,
   duration |-> duration, half |-> half, start_on_match |-> start_on_match,
   restart_on |-> restart_on]

\* A blink that starts when it wins and that unplugging restarts, between two rules
\* that the plug starts: one that preempts it and one that shares that one's deadline.
ReminderRules ==
  { R(plugged, Yes, 3, "blink_for", Yes, 2, 1, TRUE, {}),
    R(parked, Yes, 2, "blink_for", Yes, 2, 1, FALSE,
      {[state |-> plugged, from |-> Yes, to |-> No]}),
    R(plugged, Yes, 1, "steady_for", No, 2, 0, TRUE, {}) }

AllReadings == [State -> Truth]

\* A journey: parked with the plug in, where parked may get lost, or without, or driving.
Journey ==
  {v \in AllReadings :
     \/ v[plugged] = Yes /\ v[parked] # No
     \/ v[plugged] = No /\ v[parked] # Unknown}

=============================================================================
