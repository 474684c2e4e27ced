------------------------------- MODULE Model -------------------------------
(***************************************************************************)
(* The values every other part of Carstate is built from (src/model.rs):   *)
(* three-valued truths, values that remember when they last changed, and   *)
(* facts that expire.                                                      *)
(*                                                                         *)
(* Option<bool> is one of the strings below; the same three values stand   *)
(* for a relay command (ON, OFF, silent).  Option<f64>, a time that may be *)
(* absent, is an integer or None.  Seconds are integers: only their order, *)
(* sums and differences matter to the program.                             *)
(***************************************************************************)
EXTENDS Integers

CONSTANT None                           \* Rust's None where a time may be absent

ASSUME NoneAssumption == None \notin Int

Yes     == "yes"                        \* Some(true); a relay command ON
No      == "no"                         \* Some(false); a relay command OFF
Unknown == "unknown"                    \* None

Known   == {Yes, No}
Truth   == Known \cup {Unknown}

OptTime == Int \cup {None}

\* An optional deadline that has been reached (d.is_some_and(|d| now >= d)).
Passed(d, t) == d # None /\ t >= d

LaterOf(a, b) == IF a >= b THEN a ELSE b
SoonerOf(a, b) == IF a <= b THEN a ELSE b

----------------------------------------------------------------------------
\* A value and the time it last changed; setting an equal value is no change.
Tracked == [value : Truth, last_changed : OptTime]

UntouchedTracked == [value |-> Unknown, last_changed |-> None]

SetTracked(x, v, t) ==
  IF x.value = v THEN x ELSE [value |-> v, last_changed |-> t]

----------------------------------------------------------------------------
\* A boolean fact about the outside, known for `stale_after' (None: for ever)
\* after its receipt.  Losing it keeps the time of receipt, hence the deadline.
BoolFact == [value : Truth, received : OptTime]

NewFact == [value |-> Unknown, received |-> None]

FactReceive(v, t) == [value |-> v, received |-> t]

FactUnknown(f) == [f EXCEPT !.value = Unknown]

FactDeadline(f, stale_after) ==
  IF f.received = None \/ stale_after = None THEN None ELSE f.received + stale_after

FactExpire(f, stale_after, t) ==
  IF Passed(FactDeadline(f, stale_after), t) THEN FactUnknown(f) ELSE f

=============================================================================
