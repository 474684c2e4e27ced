----------------------------- MODULE Controller -----------------------------
(***************************************************************************)
(* The engine (src/engine.rs): every output of the configuration, the      *)
(* relay devices that report their availability, the broker connection     *)
(* with its subscriptions, the telemetry timeout and the heartbeat that    *)
(* feeds the relays' watchdog.                                             *)
(*                                                                         *)
(* The controller task (src/runtime.rs) is one loop: it handles one event  *)
(* (broker up or down, acknowledgement, message) or wakes at the deadline  *)
(* the engine asked for, then ticks.  One tick is one action: it evaluates,*)
(* decides and submits for each output in turn, sampling the clock as it   *)
(* goes, and last it may pulse.                                            *)
(*                                                                         *)
(* What the vehicle's messages mean is left open: the admitted value of a  *)
(* control state may be any of Readings at any tick.  What is submitted is *)
(* accepted, rejected or left open by the sink as it likes.                *)
(***************************************************************************)
EXTENDS Outputs

CONSTANTS
  N,                 \* the outputs are 1 .. N, in the order of the configuration
  RulesOf,           \* the rules of each output
  DefaultOf,         \* the default_value of each output
  DeviceOf,          \* the device of each output, or None
  Device,            \* output_devices
  StaleAfter,        \* availability.stale_after_seconds of each device, or None
  Topic,             \* the topics to subscribe to
  Reports,           \* what one availability message may say of each device
  Readings,          \* the combinations of admitted values that may occur
  Outcomes,          \* what the sink may answer
  Timeout,           \* telemetry_settings.timeout_seconds, or None
  Interval,          \* heartbeat.interval_seconds, or None when it is disabled
  WatchdogTimeout,   \* heartbeat.timeout_seconds: the relays fall back without a pulse
  Idle,              \* next_deadline's cap on an idle wait
  SubmitLag,         \* bound of the time one tick takes
  Lateness,          \* bound of how late the loop wakes up
  Horizon            \* bound of the clock, for model checking

Output == 1 .. N

\* The watchdog margins of Config::validate, whose other two summands, the publish
\* timeout and the worker stall time, are more than one together.
ValidWatchdog ==
  /\ WatchdogTimeout \in Nat
  /\ WatchdogTimeout >= 2 * Interval /\ WatchdogTimeout > Interval + Hold + 1

ASSUME ControllerAssumption ==
  /\ N \in Nat \ {0}
  /\ DOMAIN RulesOf = Output
  /\ \A i \in Output : ValidRules(RulesOf[i]) /\ None \notin RulesOf[i]
  /\ DefaultOf \in [Output -> Known]
  /\ None \notin Device
  /\ DeviceOf \in [Output -> Device \cup {None}]
  /\ StaleAfter \in [Device -> (Nat \ {0}) \cup {None}]
  /\ Reports \subseteq [Device -> Truth]
  /\ Readings \subseteq [State -> Truth]
  /\ Outcomes \subseteq {"accepted", "rejected", "ambiguous"} /\ "accepted" \in Outcomes
  /\ Timeout \in (Nat \ {0}) \cup {None}
  /\ Interval \in (Nat \ {0}) \cup {None}
  /\ Interval # None => ValidWatchdog
  /\ Idle \in Nat \ {0} /\ SubmitLag \in Nat /\ Lateness \in Nat /\ Horizon \in Nat

VARIABLES
  now,               \* the monotonic clock
  ctrl,              \* the admitted value of every control state
  outs,              \* the OutputRuntime of every output
  devices,           \* the availability of every device
  connected, acked,  \* the broker connection and the acknowledged subscriptions
  heartbeat,         \* the Heartbeat
  telemetry,         \* when a valid vehicle message last came (0: the start);
                     \* followed only where there is a timeout
  stopping,          \* shutdown has begun
  waiting,           \* the loop has ticked and waits for an event
  wake,              \* until when at most
  sink,              \* what the latest step handed to the MQTT client
  \* History variables, for the properties only.
  trace,             \* of each relay
  seen,              \* the control states the latest decision was made from
  fed                \* the latest pulse, or the latest reason not to pulse

engine == <<ctrl, outs, devices, connected, acked, heartbeat, telemetry, stopping>>
vars == <<now, engine, waiting, wake, sink, trace, seen, fed>>

Heartbeat ==
  [next_due : Int, pass : BOOLEAN, failed : BOOLEAN, retry_count : 0 .. RetryCap,
   was_eligible : BOOLEAN]

Silent == [commands |-> [i \in Output |-> Unknown], pulse |-> FALSE]

\* The history of one relay: when it was last decided about, the latest instant a
\* command may have left for it, the latest recovery, and the value delivered
\* since the latest pass, reconnection or recovery began.
NewTrace == [decided_at |-> 0, sent |-> None, settled |-> 0, delivered |-> Unknown]

Init ==
  /\ now = 0
  /\ ctrl = [x \in State |-> UntouchedTracked]
  /\ outs = [i \in Output |-> NewOutput(RulesOf[i])]
  /\ devices = [d \in Device |-> NewFact]
  /\ connected = FALSE /\ acked = {}
  /\ heartbeat = [next_due |-> 0, pass |-> FALSE, failed |-> FALSE, retry_count |-> 0,
                  was_eligible |-> FALSE]
  /\ telemetry = 0
  /\ stopping = FALSE
  /\ waiting = FALSE /\ wake = 0
  /\ sink = Silent
  /\ trace = [i \in Output |-> NewTrace]
  /\ seen = ctrl
  /\ fed = 0

----------------------------------------------------------------------------
(* Readiness.                                                              *)

TransportReady == connected /\ acked = Topic

DevicesReady(ds) == \A d \in Device : ds[d].value = Yes

\* A mutated form: an output is available whatever its device reports.
AvailableAnyway(i, ds) == ~ stopping /\ TransportReady

Available(i, ds) ==
  /\ ~ stopping /\ TransportReady
  /\ DeviceOf[i] # None => ds[DeviceOf[i]].value = Yes

\* A mutated form: the instant of the timeout is still in time.
TimedOutLate == Timeout # None /\ now > telemetry + Timeout

TimedOut == Timeout # None /\ now >= telemetry + Timeout

Expired == [d \in Device |-> FactExpire(devices[d], StaleAfter[d], now)]

----------------------------------------------------------------------------
(* The heartbeat: first a pass that resynchronizes every output, then, once*)
(* nothing is left to deliver, the pulse.                                  *)

Eligible(ds) == TransportReady /\ DevicesReady(ds)

\* Becoming eligible makes a pulse due at once.
Readied(ds) ==
  [heartbeat EXCEPT
     !.next_due = IF Interval # None /\ Eligible(ds) /\ ~ heartbeat.was_eligible
                  THEN SoonerOf(@, now) ELSE @,
     !.was_eligible = Eligible(ds)]

PassDue(h) == Interval # None /\ h.was_eligible /\ now >= h.next_due /\ ~ h.pass

\* A mutated form: the pass trusts what was delivered before it.
PreparedTrusting(i, h) == outs[i]

Prepared(i, h) == IF PassDue(h) THEN Resync(outs[i], now, FALSE) ELSE outs[i]

\* A mutated form: a pulse that failed counts against the next one.
PulseDueHealthy(h, os, ds, t) ==
  /\ Interval # None /\ h.pass /\ t >= h.next_due
  /\ ~ stopping /\ Eligible(ds) /\ ~ h.failed
  /\ \A i \in Output : ~ os[i].unresolved /\ ~ Pending(os[i])

PulseDue(h, os, ds, t) ==
  /\ Interval # None /\ h.pass /\ t >= h.next_due
  /\ ~ stopping /\ Eligible(ds)
  /\ \A i \in Output : ~ os[i].unresolved /\ ~ Pending(os[i])

PulseBooked(h, accepted, t) ==
  LET count == SoonerOf(h.retry_count + 1, RetryCap)
  IN  IF accepted
      THEN [h EXCEPT !.pass = FALSE, !.failed = FALSE, !.retry_count = 0,
                     !.next_due = t + Interval]
      ELSE [h EXCEPT !.pass = FALSE, !.failed = TRUE, !.retry_count = count,
                     !.next_due = t + Backoff(count)]

----------------------------------------------------------------------------
(* The next deadline.                                                      *)

\* A mutated form: a blink is timed by its end alone.
OutputDeadlinesPhaseless(o, available, t) ==
  (IF Pending(o) /\ available THEN {o.eligible_at, o.retry_at} ELSE {})
  \cup {o.episodes[r].deadline : r \in DOMAIN o.episodes}

OutputDeadlines(o, available, t) ==
  (IF Pending(o) /\ available THEN {o.eligible_at, o.retry_at} ELSE {})
  \cup {o.episodes[r].deadline : r \in DOMAIN o.episodes}
  \cup (IF o.selected # None /\ o.selected.kind = "blink_for"
        THEN {NextPhase(o.episodes[o.selected], t, o.selected.half)} ELSE {})

HeartbeatDeadlinesNone(h) == {}         \* a mutated form

HeartbeatDeadlines(h) == IF Interval # None THEN {h.next_due} ELSE {}

NextDeadline(os, ds, h, t) ==
  LET deadlines ==
        {t + Idle}
        \cup (IF Timeout # None THEN {telemetry + Timeout} ELSE {})
        \cup {FactDeadline(ds[d], StaleAfter[d]) : d \in Device}
        \cup (UNION {OutputDeadlines(os[i], Available(i, ds), t) : i \in Output})
        \cup HeartbeatDeadlines(h)
      ahead == {d \in deadlines \ {None} : d > t}
  IN  CHOOSE d \in ahead : \A e \in ahead : d <= e

----------------------------------------------------------------------------
(* A tick.                                                                 *)

Admitted(values) == [x \in State |-> SetTracked(ctrl[x], values[x], now)]

\* The samples of the clock: for each output one to decide and one to book at,
\* then the same for the pulse.
Samples ==
  {c \in [1 .. 2 * N + 2 -> now .. SoonerOf(now + SubmitLag, Horizon)] :
     \A k \in 1 .. 2 * N + 1 : c[k] <= c[k + 1]}

DecidedAt(c, i) == c[2 * i - 1]
BookedAt(c, i)  == c[2 * i]
PulseAt(c)       == c[2 * N + 1]
PulseBookedAt(c) == c[2 * N + 2]

Decided(i, values, h, ds, t) ==
  Select(RestartOnTransitions(Prepared(i, h), ctrl, Admitted(values), t),
         Admitted(values), t, Available(i, ds), TimedOut, DefaultOf[i])

Attempted(os, ds, c) ==
  {i \in Output : Available(i, ds) /\ Due(os[i], DecidedAt(c, i))}

\* After an event at once, otherwise when the wait is over.
TickDue == waiting => now >= wake

\* While stopping a tick only keeps the diagnostics up to date; it is the last.
LastTick(values) ==
  /\ stopping /\ ~ waiting
  /\ ctrl' = Admitted(values)
  /\ devices' = Expired
  /\ sink' = Silent
  /\ waiting' = TRUE
  /\ UNCHANGED <<now, wake, outs, connected, acked, heartbeat, telemetry, stopping,
                 trace, seen, fed>>

Tick(values, c) ==
  LET ds   == Expired
      h    == Readied(ds)
      open == [h EXCEPT !.pass = @ \/ PassDue(h)]
      os   == [i \in Output |-> Decided(i, values, h, ds, DecidedAt(c, i))]
  IN  /\ ~ stopping /\ TickDue
      /\ waiting' = TRUE
      /\ \E outcome \in [Attempted(os, ds, c) -> IF Dry THEN {"accepted"} ELSE Outcomes],
            accepted \in IF Dry THEN {TRUE} ELSE BOOLEAN :
           LET booked == [i \in Output |->
                            IF i \in DOMAIN outcome
                            THEN Book(os[i], DecidedAt(c, i), BookedAt(c, i), outcome[i])
                            ELSE os[i]]
               pulse == PulseDue(open, booked, ds, PulseAt(c))
           IN  /\ pulse \/ accepted
               /\ outs' = booked
               /\ heartbeat' = IF pulse THEN PulseBooked(open, accepted, PulseBookedAt(c))
                               ELSE open
               /\ wake' = NextDeadline(booked, ds, heartbeat', now)
               /\ sink' = [commands |-> [i \in Output |->
                                           IF i \in DOMAIN outcome /\ ~ Dry
                                           THEN os[i].desired ELSE Unknown],
                           pulse |-> pulse]
               /\ trace' = [i \in Output |->
                    [trace[i] EXCEPT
                       !.decided_at = DecidedAt(c, i),
                       !.sent = IF i \notin DOMAIN outcome \/ Dry THEN @
                                ELSE IF outcome[i] = "rejected" THEN @ ELSE BookedAt(c, i),
                       !.delivered = IF i \in DOMAIN outcome /\ outcome[i] = "accepted"
                                     THEN os[i].desired
                                     ELSE IF PassDue(h) THEN Unknown ELSE @]]
               /\ fed' = IF /\ Interval # None
                            /\ \/ pulse \/ ~ Eligible(ds)
                               \/ \E i \in DOMAIN outcome : outcome[i] # "accepted"
                         THEN PulseBookedAt(c) ELSE fed
      /\ ctrl' = Admitted(values)
      /\ seen' = ctrl'
      /\ devices' = ds
      /\ now' = PulseBookedAt(c)
      /\ UNCHANGED <<connected, acked, telemetry, stopping>>

----------------------------------------------------------------------------
(* Events, one at a time.  Each is followed by a tick, except that a       *)
(* connection may also be given up while the tick is still to come.        *)

\* A mutated form: recovery does not wait for the relay to settle.
RecoveredUnsettled(S) == [i \in Output |-> IF i \in S THEN [outs[i] EXCEPT !.force = TRUE]
                                           ELSE outs[i]]

Recovered(S) == [i \in Output |-> IF i \in S THEN Resync(outs[i], now, TRUE) ELSE outs[i]]

TraceRecovery(S) ==
  /\ trace' = [i \in Output |-> IF i \in S
                                THEN [trace[i] EXCEPT !.settled = now, !.delivered = Unknown]
                                ELSE trace[i]]
  /\ fed' = IF Interval # None THEN now ELSE fed

Event ==
  /\ ~ stopping
  /\ waiting' = FALSE /\ wake' = now /\ sink' = Silent
  /\ UNCHANGED seen

\* ConnAck comes once for a session; a session may fail before it, too.
Connection(up) ==
  /\ up => waiting /\ ~ connected
  /\ connected' = up
  /\ acked' = {}
  /\ devices' = [d \in Device |-> FactUnknown(devices[d])]
  /\ outs' = Recovered(Output)
  /\ heartbeat' = [heartbeat EXCEPT !.pass = FALSE, !.was_eligible = FALSE, !.next_due = now]
  /\ Event /\ TraceRecovery(Output)
  /\ UNCHANGED <<now, ctrl, telemetry, stopping>>

\* One request for all topics in a session; the broker may refuse some of them.
Acknowledged(granted) ==
  /\ waiting /\ connected /\ acked = {}
  /\ acked' = granted
  /\ Event
  /\ UNCHANGED <<now, ctrl, outs, devices, connected, heartbeat, telemetry, stopping,
                 trace, fed>>

\* Unknown: the message is not about the device, or cannot be decoded.
ReceiveAvailability(report) ==
  LET back == {d \in Device : report[d] = Yes /\ devices[d].value # Yes}
      S    == {i \in Output : DeviceOf[i] \in back}
  IN  /\ waiting /\ connected
      /\ devices' = [d \in Device |-> IF report[d] = Unknown THEN devices[d]
                                      ELSE FactReceive(report[d], now)]
      /\ outs' = Recovered(S)
      /\ Event /\ TraceRecovery(S)
      /\ UNCHANGED <<now, ctrl, connected, acked, heartbeat, telemetry, stopping>>

ReceiveTelemetry ==
  /\ waiting /\ connected
  /\ telemetry' = IF Timeout # None THEN now ELSE telemetry
  /\ Event
  /\ UNCHANGED <<now, ctrl, outs, devices, connected, acked, heartbeat, stopping, trace, fed>>

Stop ==
  /\ stopping' = TRUE
  /\ Event
  /\ UNCHANGED <<now, ctrl, outs, devices, connected, acked, heartbeat, telemetry, trace, fed>>

\* Time passes while the loop waits, or is late.
Pass ==
  /\ ~ (stopping /\ waiting)
  /\ now < Horizon /\ now < wake + Lateness
  /\ now' = now + 1
  /\ sink' = Silent
  /\ UNCHANGED <<engine, waiting, wake, trace, seen, fed>>

\* The controller task has returned.
Stopped == stopping /\ waiting /\ UNCHANGED vars

Next ==
  \/ \E values \in Readings : LastTick(values)
  \/ \E values \in Readings, c \in Samples : Tick(values, c)
  \/ \E up \in BOOLEAN : Connection(up)
  \/ \E granted \in SUBSET Topic : Acknowledged(granted)
  \/ \E report \in Reports : ReceiveAvailability(report)
  \/ ReceiveTelemetry
  \/ Stop
  \/ Pass
  \/ Stopped

Spec == Init /\ [][Next]_vars

----------------------------------------------------------------------------
\* The type invariant; among others, a pass is open only while its pulse is due.
TypeOK ==
  /\ now \in Nat
  /\ ctrl \in [State -> Tracked]
  /\ \A i \in Output : outs[i] \in OutputRuntime(RulesOf[i])
  /\ devices \in [Device -> BoolFact]
  /\ connected \in BOOLEAN /\ acked \subseteq Topic /\ (acked # {} => connected)
  /\ heartbeat \in Heartbeat /\ (heartbeat.pass => heartbeat.next_due <= now)
  /\ telemetry \in Nat /\ stopping \in BOOLEAN
  /\ waiting \in BOOLEAN /\ wake \in Nat

\* A pulse tells the watchdog that the relays have what they should have: when it
\* goes out, everything is connected, and every output that has a desired value
\* had exactly that value delivered since the pass began, since the broker was
\* last reached and since the output's device was last back.
PulseProvesDelivery ==
  sink.pulse =>
    /\ ~ stopping /\ TransportReady /\ DevicesReady(devices)
    /\ \A i \in Output : outs[i].desired # Unknown => trace[i].delivered = outs[i].desired

\* A command is handed over only on a complete connection, never after shutdown
\* began, and only for a device that said over this very connection that it is
\* online, which was not stale when the tick began.
CommandsReachable ==
  [][\A i \in Output : sink'.commands[i] # Unknown =>
       /\ ~ stopping /\ connected' /\ acked' = Topic
       /\ DeviceOf[i] # None =>
            LET f == devices'[DeviceOf[i]]
            IN  /\ f.value = Yes /\ f.received >= trace'[i].settled
                /\ ~ Passed(FactDeadline(f, StaleAfter[DeviceOf[i]]), now)]_vars

\* From the instant of the telemetry timeout no relay is switched on: not by a
\* rule, a phase or a default, and not by the retry of an ON that failed before.
TimeoutSilencesOn ==
  [][Timeout # None /\ now >= telemetry + Timeout =>
       \A i \in Output : sink'.commands[i] # Yes]_vars

\* The deadline the loop sleeps until misses nothing: before it, a tick that sees
\* the same control states would hand over no command, send no pulse, begin no
\* pass, change no desired value and lose no device.
QuiescentUntilWake ==
  waiting /\ now < wake /\ ~ stopping =>
    LET h == Readied(devices)
        os == [i \in Output |->
                 Decided(i, [x \in State |-> ctrl[x].value], h, devices, now)]
    IN  /\ Expired = devices
        /\ ~ PassDue(h) /\ ~ PulseDue(h, os, devices, now)
        /\ \A i \in Output : /\ os[i].desired = outs[i].desired
                             /\ ~ (Available(i, devices) /\ Due(os[i], now))

\* The watchdog never falls back under a working controller: as long as broker and
\* devices are there and nothing submitted fails, pulses are closer together than
\* the timeout that the watchdog margins allow.
PulsesInTime == heartbeat.was_eligible => now < fed + WatchdogTimeout

\* Every relay of the configuration sees its own scheduler: whatever the engine
\* does is, for each output, a step of RelayScheduler or nothing.
Relay(i) ==
  INSTANCE RelayScheduler WITH
    Rules <- RulesOf[i], Default <- DefaultOf[i], ctrl <- seen, out <- outs[i],
    decided_at <- trace[i].decided_at, sent <- trace[i].sent, settled <- trace[i].settled

RelaysScheduled ==
  /\ \A i \in Output : Relay(i)!Init
  /\ [][\A i \in Output : Relay(i)!Next \/ UNCHANGED Relay(i)!vars]_vars

=============================================================================
