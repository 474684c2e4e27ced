--------------------------- MODULE RelayScheduler ---------------------------
(***************************************************************************)
(* One output under its scheduler: what the output loop of Engine::tick    *)
(* (src/engine.rs) does to one OutputRuntime, with everything around it    *)
(* left free.  At any time any control state may change, the telemetry may *)
(* time out or resume, the device may be reachable or not, a recovery may  *)
(* force a resynchronisation, and the sink may accept, reject or leave     *)
(* open what became of a command.                                          *)
(*                                                                         *)
(* The clock is sampled again for each output and once more after the      *)
(* submission: a tick decides at s, not earlier than the evaluation, books *)
(* its outcome at f, not earlier than s, and ends at some later time, when *)
(* the outputs after this one have had their turn.                         *)
(***************************************************************************)
EXTENDS Outputs

CONSTANTS
  Rules,             \* the rules of the output
  Default,           \* its default_value
  Readings,          \* the combinations of admitted values that may occur
  Outcomes,          \* what the sink may answer
  SubmitLag,         \* bound of the time between two samples of one tick
  Horizon            \* bound of the clock, for model checking

ASSUME SchedulerAssumption ==
  /\ ValidRules(Rules)
  /\ None \notin Rules
  /\ Default \in Known
  /\ Readings \subseteq [State -> Truth]
  /\ Outcomes \subseteq {"accepted", "rejected", "ambiguous"} /\ Outcomes # {}
  /\ SubmitLag \in Nat /\ Horizon \in Nat

VARIABLES
  now,               \* the engine's monotonic clock
  ctrl,              \* the admitted value of every control state
  out,               \* the OutputRuntime
  \* History variables, for the properties only.
  decided_at,        \* when select last ran
  sent,              \* the latest instant a command may have left for the relay
  settled            \* the latest resynchronisation that asked for a hold

vars == <<now, ctrl, out, decided_at, sent, settled>>

Init ==
  /\ now = 0
  /\ ctrl = [x \in State |-> UntouchedTracked]
  /\ out = NewOutput(Rules)
  /\ decided_at = 0
  /\ sent = None
  /\ settled = 0

\* The next sample of the clock in a tick that has reached t.
Sample(t) == t .. SoonerOf(t + SubmitLag, Horizon)

\* The new admitted values, stamped with the time of the evaluation.
Admitted(values) == [x \in State |-> SetTracked(ctrl[x], values[x], now)]

\* A tick that begins a heartbeat pass resynchronizes the output first.
Prepared(pass) == IF pass THEN Resync(out, now, FALSE) ELSE out

\* Restart, then select, at the output's own sample of the clock.
Decided(values, s, available, timed_out, pass) ==
  Select(RestartOnTransitions(Prepared(pass), ctrl, Admitted(values), s),
         Admitted(values), s, available, timed_out, Default)

\* The desired value is handed to the sink.  A dry run counts as accepted and
\* never reaches the sink.
Submit(o, s, f, outcome) ==
  /\ Dry => outcome = "accepted"
  /\ out' = Book(o, s, f, outcome)
  /\ now' \in Sample(f)
  /\ sent' = IF Dry \/ outcome = "rejected" THEN sent ELSE f

\* Nothing is due, or the device cannot be reached.
Leave(o, s) ==
  /\ out' = o
  /\ now' \in Sample(s)
  /\ UNCHANGED sent

Tick(values, s, available, timed_out, pass) ==
  LET o == Decided(values, s, available, timed_out, pass)
  IN  /\ ctrl' = Admitted(values)
      /\ decided_at' = s
      /\ UNCHANGED settled
      /\ IF available /\ Due(o, s)
         THEN \E f \in Sample(s), outcome \in Outcomes : Submit(o, s, f, outcome)
         ELSE Leave(o, s)

\* The broker is connected or lost, or the device is back online.
Resynchronise ==
  /\ out' = Resync(out, now, TRUE)
  /\ settled' = now
  /\ UNCHANGED <<now, ctrl, decided_at, sent>>

Pass ==
  /\ now < Horizon
  /\ now' = now + 1
  /\ UNCHANGED <<ctrl, out, decided_at, sent, settled>>

Next ==
  \/ \E values \in Readings, s \in Sample(now), available, timed_out, pass \in BOOLEAN :
       Tick(values, s, available, timed_out, pass)
  \/ Resynchronise
  \/ Pass

Spec == Init /\ [][Next]_vars

----------------------------------------------------------------------------
\* The type invariant; among others, an episode has a deadline exactly when it
\* has a start, and is exhausted only after a start.
TypeOK ==
  /\ now \in Nat
  /\ ctrl \in [State -> Tracked]
  /\ out \in OutputRuntime(Rules)
  /\ decided_at \in Nat
  /\ sent \in OptTime
  /\ settled \in Nat

\* Every command, whatever its source (change, phase, retry, preemption, default,
\* telemetry timeout, resynchronisation), keeps the hold to the one before it and
\* to the latest recovery, although its time is booked only after it has left.
Paced == INSTANCE PacedRelay WITH clock <- now
PacedSpec == Paced!Spec

\* Readiness is never withheld for a failure nobody will retry: an unresolved
\* submission is still pending and has a retry within the longest back-off, and
\* a retry is scheduled for nothing else.
UnresolvedIsRetried ==
  /\ out.unresolved <=> out.retry_at # None
  /\ out.unresolved => Pending(out) /\ out.retry_at <= now + RetryMax

\* A timed rule never drives the relay at or after its deadline, also when it was
\* preempted, unavailable, suspended by an unknown trigger or restarted meanwhile.
NeverPastDeadline ==
  out.selected # None /\ Timed(out.selected) =>
    LET e == out.episodes[out.selected]
    IN  e.start # None => e.start <= decided_at /\ decided_at < e.deadline

\* Once started, an episode keeps its start and its deadline and, once exhausted,
\* stays exhausted, until its trigger is admitted as a known non-match or one of
\* its restart edges is admitted: outages, preemption, telemetry timeouts,
\* unknown values and resynchronisations neither extend nor re-arm it.
EpisodesAnchored ==
  [][\A r \in Rules :
       LET e == out.episodes[r]
           g == out'.episodes[r]
       IN  e.start # None =>
             \/ g.start = e.start /\ g.deadline = e.deadline /\ (e.exhausted => g.exhausted)
             \/ Trigger(r, ctrl') = No
             \/ Restarted(r, ctrl, ctrl')]_vars

\* Rules that anchor on the same trigger for the same time are in the same
\* episode throughout, whichever of them drives the relay (the README's promise
\* that a reminder and the delay of its successor end together).
Twins(q, r) ==
  /\ q.start_on_match /\ r.start_on_match
  /\ q.state = r.state /\ q.when = r.when
  /\ q.duration = r.duration /\ q.restart_on = r.restart_on

SharedDeadline ==
  \A q, r \in Rules : Twins(q, r) => out.episodes[q] = out.episodes[r]

=============================================================================
