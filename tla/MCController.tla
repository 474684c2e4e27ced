---------------------------- MODULE MCController ----------------------------
(***************************************************************************)
(* Instances of the controller for TLC.                                    *)
(***************************************************************************)
EXTENDS Controller, Sequences

CONSTANTS parked, plugged, board

R(state, when, priority, kind, value, duration, half, start_on_match) ==
  [state |-> state, when |-> when, priority |-> priority, kind |-> kind, value |-> value,
   duration |-> duration, half |-> half, start_on_match |-> start_on_match,
   restart_on |-> {}]

Steady(state) == R(state, Yes, 1, "steady", Yes, None, 0, FALSE)
Blink(state, duration, half) == R(state, Yes, 1, "blink_for", Yes, duration, half, TRUE)

\* Two lights that follow one state, the first on a relay board.
TwoSteady == << {Steady(parked)}, {Steady(parked)} >>
TwoDefaults == << No, No >>
FirstOnBoard == << board, None >>

\* One light, blinking, on the board.
OneBlink == << {Blink(parked, 4, 2)} >>
OneDefault == << No >>
OneOnBoard == << board >>
NoBoard == << None >>

\* Two lights that blink, each with a state of its own.
TwoBlinks == << {Blink(parked, 20, 2)}, {Blink(plugged, 20, 2)} >>
NoBoards == << None, None >>


NoStale == [d \in Device |-> None]
StaleSoon == [d \in Device |-> 2]

NoReports == {}
KnownReport == [Device -> Known]

\* parked holds throughout, plugged comes and goes.
AlwaysParked == {v \in [State -> Known] : v[parked] = Yes}

AllKnown == [State -> Known]
AllReadings == [State -> Truth]

=============================================================================
