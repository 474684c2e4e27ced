------------------------------- MODULE Jitter -------------------------------
(***************************************************************************)
(* The jitter filter in front of every control state (src/behaviors.rs,    *)
(* Filter).  Engine::tick hands it the freshly evaluated raw value of the  *)
(* state; the rules of the outputs only ever see what it admits.           *)
(*                                                                         *)
(* A known value is admitted at once until MaxChanges changes have come in *)
(* quick succession; then a cool-down of Cooldown seconds starts, in which *)
(* only the latest value is kept pending.  Unknown is always immediate.    *)
(***************************************************************************)
EXTENDS Model, Sequences

CONSTANTS
  MaxChanges,        \* jitter.max_changes
  Cooldown,          \* jitter.cooldown_seconds
  JitterHorizon      \* bound of the clock, for model checking

ASSUME JitterAssumption ==
  /\ MaxChanges \in Nat \ {0}
  /\ Cooldown \in Nat \ {0}
  /\ JitterHorizon \in Nat

VARIABLES
  now,               \* the engine's monotonic clock
  raw,               \* the value of the state at its latest evaluation
  filter,            \* the Filter of the state
  \* History variables, for the properties only.
  edges,             \* when the admitted known value changed into the other one
  raw_since,         \* when raw last changed
  evaluated_at       \* when the filter was last updated

vars == <<now, raw, filter, edges, raw_since, evaluated_at>>

Filter ==
  [admitted : Tracked, last_known : Truth, last_known_at : OptTime,
   burst : 0 .. MaxChanges, cooldown : OptTime, pending : Truth]

DefaultFilter ==
  [admitted |-> UntouchedTracked, last_known |-> Unknown, last_known_at |-> None,
   burst |-> 0, cooldown |-> None, pending |-> Unknown]

----------------------------------------------------------------------------
(* Filter::update, first the bookkeeping that time alone causes.           *)

Quiet(f, t) == f.last_known_at # None /\ t - f.last_known_at >= Cooldown

Rested(f, t) ==
  LET cooldown == IF Passed(f.cooldown, t) THEN None ELSE f.cooldown
  IN  [f EXCEPT !.cooldown = cooldown,
                !.burst = IF Passed(f.cooldown, t) \/ (cooldown = None /\ Quiet(f, t))
                          THEN 0 ELSE @]

\* A mutated form: the budget is exceeded by one before the cool-down starts.
AdmitLate(f, v, t) ==
  LET burst == IF f.last_known = Unknown THEN f.burst ELSE f.burst + 1
  IN  [admitted |-> SetTracked(f.admitted, v, t), last_known |-> v, last_known_at |-> t,
       burst |-> burst,
       cooldown |-> IF burst > MaxChanges THEN t + Cooldown ELSE f.cooldown,
       pending |-> Unknown]

\* A change is admitted; the first known value of all is free of charge.
Admit(f, v, t) ==
  LET burst == IF f.last_known = Unknown THEN f.burst ELSE f.burst + 1
  IN  [admitted |-> SetTracked(f.admitted, v, t), last_known |-> v, last_known_at |-> t,
       burst |-> burst,
       cooldown |-> IF burst >= MaxChanges THEN t + Cooldown ELSE f.cooldown,
       pending |-> Unknown]

\* A mutated form: the value last admitted is not restored after an unknown blip.
ReadmitNothing(f, v, t) == [f EXCEPT !.pending = Unknown]

\* The raw value is the one last admitted: no change to account for.
Readmit(f, v, t) == [f EXCEPT !.pending = Unknown, !.admitted = SetTracked(@, v, t)]

\* A mutated form: a change refused during the cool-down prolongs it.
WithholdLonger(f, v, t) == [f EXCEPT !.pending = v, !.cooldown = t + Cooldown]

\* A change during the cool-down is only remembered.
Withhold(f, v, t) == [f EXCEPT !.pending = v]

FilterUpdate(f, v, t) ==
  LET r == Rested(f, t)
  IN  IF v = Unknown
      THEN [f EXCEPT !.pending = Unknown, !.admitted = SetTracked(@, Unknown, t)]
      ELSE CASE r.last_known = v                        -> Readmit(r, v, t)
             [] r.last_known # v /\ r.cooldown # None  -> Withhold(r, v, t)
             [] r.last_known # v /\ r.cooldown = None  -> Admit(r, v, t)

----------------------------------------------------------------------------
Init ==
  /\ now = 0
  /\ raw = Unknown
  /\ filter = DefaultFilter
  /\ edges = <<>>
  /\ raw_since = 0
  /\ evaluated_at = 0

\* One evaluation: the engine may tick at any time, several times in one second.
Evaluate(v) ==
  /\ raw' = v
  /\ filter' = FilterUpdate(filter, v, now)
  /\ edges' = IF filter.last_known # Unknown /\ filter'.last_known # filter.last_known
              THEN Append(edges, now) ELSE edges
  /\ raw_since' = IF v = raw THEN raw_since ELSE now
  /\ evaluated_at' = now
  /\ UNCHANGED now

Pass ==
  /\ now < JitterHorizon
  /\ now' = now + 1
  /\ UNCHANGED <<raw, filter, edges, raw_since, evaluated_at>>

Next == Pass \/ \E v \in Truth : Evaluate(v)

Spec == Init /\ [][Next]_vars

----------------------------------------------------------------------------
\* The type invariant of the filter and of the history kept beside it; the burst
\* counter never passes the limit (Filter::update tests it after counting).
TypeOK ==
  /\ now \in Nat
  /\ raw \in Truth
  /\ filter \in Filter
  /\ edges \in Seq(Int)
  /\ raw_since \in Nat
  /\ evaluated_at \in Nat

\* However the evaluations fall, unknown blips and idle gaps included, any
\* MaxChanges + 1 successive changes of the admitted value span at least a full
\* cool-down (Filter::update's burst, quiet-period and cool-down bookkeeping).
BurstBudget ==
  \A i \in 1 .. Len(edges) - MaxChanges : edges[i + MaxChanges] - edges[i] >= Cooldown

\* After an evaluation the outputs act on something else than the evaluated value
\* only inside a cool-down that has not ended, and the value withheld is the
\* latest one, kept pending.
LagOnlyWhileCooling ==
  filter.admitted.value # raw =>
    /\ raw # Unknown
    /\ filter.pending = raw
    /\ filter.cooldown # None /\ evaluated_at < filter.cooldown

\* A raw value that lasts is admitted at the latest one cool-down after it
\* appeared: what is refused in the meantime never prolongs the wait.
SettlesWithinCooldown ==
  evaluated_at - raw_since >= Cooldown => filter.admitted.value = raw

=============================================================================
