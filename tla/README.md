# Carstate in TLA+

Carstate is a small controller. It listens over MQTT to what TeslaMate and a
few other sources say about a car, derives application states from it (parked,
plugged, home, ...), and drives the relays of a Tasmota board by rules: a light
that stays on, a light for a while, a blinking reminder. A relay must not be
switched more often than a minimum hold, a failed command is retried, and a
heartbeat feeds a watchdog on the board that switches everything off when the
controller is gone.

This directory holds TLA+ specifications of that program, the TLC
configurations that check them and TLAPS proofs about them. Paths and line
numbers refer to the repository this directory belongs to.

## 1. Inventory

| component | source | state | operations |
|---|---|---|---|
| values, facts | `src/model.rs` | a value and when it changed; a fact and when it was received | `set`, `receive`, `expire` |
| vehicle input | `src/inputs.rs` | facts for each field, two halves of a split location, the assembled location | `receive`, `assemble`, `expire` |
| rules, geofence | `src/rules.rs` | the entry states of the previous evaluation (hysteresis) | `evaluate_with_history` |
| jitter filter | `src/behaviors.rs` `Filter` | raw and admitted value, burst, cool-down | `update` |
| episodes | `src/behaviors.rs` `Episode` | start, deadline, exhausted | `update`, `start`, `phase`, `next_phase` |
| output scheduler | `src/outputs.rs` `OutputRuntime` | an episode per rule, selected rule, desired and last submitted value, hold, retry | `resync`, `select`, `restart_on_transitions`, `pending`, `due`, `accepted`, `failed` |
| engine | `src/engine.rs` | all of the above, devices, connection, subscriptions, heartbeat | `connection`, `acknowledged`, `receive`, `tick_with_clock`, `next_deadline`, `snapshot` |
| controller task | `src/runtime.rs` | session, reconnect back-off, subscription and dispatch timers | one loop: event or deadline, then tick |
| MQTT session | `src/mqtt.rs` | bounded event queue, progress mark, dispatch counter | `start`, `stop`, `submit` |
| worker monitor | `src/runtime.rs:39-49` | a shared health flag that is only ever cleared | look at the progress mark every 250 ms |
| startup, shutdown | `src/main.rs` | the stop signal, three tasks | start in order, stop in order with five seconds each |
| HTTP probes | `src/http.rs` | a clone of the log sender for each connection; reads the snapshot and the health flag | `livez`, `readyz`, `state` |
| log queue | `src/app_log.rs` | a queue of 1024 entries, a shared count of what did not fit | `emit`, worker loop |
| configuration | `src/config.rs` | none | `parse`, `validate`, `subscriptions` |
| structured logger | `src/logger/` | the sinks' clients, a lock of the log file | `generate_log` and its six sinks |
| error-code catalog | `src/logger/error_codes.rs`, `src/logger/bin/error_gen.rs` | a JSON5 file and a lock file beside it | `add`, `edit`, `delete`, `get`, `search`, `all`, `validate`, each also with an output file |

How they interact.  The broker's messages reach the *session* worker, which
queues them for the *controller task*. The task is a single loop (`control`): it
ticks the engine, publishes the snapshot, and waits for one event or for
`next_deadline`; an event changes the engine by one call, and the next turn
ticks again. Everything in the engine therefore runs in one thread; what makes
it hard is time and order:

* *Time within a tick.* `tick_with_clock` reads the clock for each output before
  it decides and once more after the submission: a decision, a submission and
  its booking have three different times, and the outputs after it are decided
  later still.
* *Recovery.* The connection, the subscriptions, each device's availability and
  a heartbeat pass all ask every output to send again, some with a hold to let
  the relay settle and some without.
* *Failure.* A submission may be refused (the client's queue is full), and the
  engine is prepared for one whose outcome is unknown. It is retried with an
  exponential back-off, while its reason may go away.
* *Three-valued data.* Unknown must neither end nor extend what a known value
  started.
* *Deadlines.* The loop sleeps until the earliest of all deadlines; what it
  leaves out is slept through.
* *The end.* Tasks end, panic or hang in any order, each holds a sender of the log
  queue, and the log worker ends only after the last of them.
* *Processes.* Invocations of the error-code tool run side by side on the same
  files and may be killed between any two steps.
* *The watchdog.* A pulse is withheld until everything is delivered; it must not
  be withheld longer than the watchdog waits.

What makes each component correct is listed, hazard by hazard with its line,
under `hazards` in `PROJECT.json`; in short:

* jitter filter: never more than the burst in a cool-down, no lag outside of
  one, settled values get through;
* episodes: anchored once, never extended or re-armed but by a known non-match
  or a configured edge, nothing driven at or after the deadline, twins share it;
* output scheduler: the hold, whatever the reasons to send; a failure that is
  withheld from readiness is one that will be retried;
* engine: a pulse proves delivery; commands go only to who listens; the telemetry
  timeout silences every ON; no deadline is slept through; the watchdog is fed;
* vehicle and rules: a location is one position, facts end when they are stale,
  hysteresis keeps a known answer only for the same question;
* task and session: a stalled session is given up once, every end of a worker is
  noticed, readiness is never that of an earlier session;
* startup and shutdown: whatever ends first, the service ends in bounded time, waits
  for nobody who waits for it, and delivers what was logged;
* log queue: what is dropped is counted once and reported;
* catalog: no update is lost, a crash leaves the old or the new file, a command that
  cannot have its locks ends.

## 2. Modules

| module | models | stands on |
|---|---|---|
| `Model` | truths, tracked values, facts (`model.rs`) | |
| `Jitter` | the filter with any raw values at any times | `Model` |
| `JitterProofs` | proofs about `Jitter` | |
| `Outputs` | `OutputRuntime` and `Episode` as operators on records; no state | `Model` |
| `OutputsProofs` | lemmas about these operators | |
| `PacedRelay` | abstract: what a relay is promised | `Model` |
| `RelayScheduler` | one output with everything around it left free; implements `PacedRelay` | `Outputs` |
| `RelaySchedulerProofs` | proofs about `RelayScheduler` | `OutputsProofs` |
| `Controller` | the engine with N outputs, devices, connection, heartbeat, and the loop that ticks it; implements `RelayScheduler` for each output | `Outputs` |
| `ControllerProofs` | proofs about `Controller` | `OutputsProofs` |
| `Vehicle` | facts, their receipt and expiry, split locations (`inputs.rs`) | `Model` |
| `Evaluation` | the application states and their hysteresis (`rules.rs`) | `Model` |
| `KnowledgeProofs` | proofs about `Vehicle` and `Evaluation` | |
| `Runtime` | the loop with its sessions, the session worker, the monitor and the network (`runtime.rs`, `mqtt.rs`) | `Model` |
| `RuntimeProofs` | proofs about `Runtime` | |
| `AppLog` | the log queue and its worker (`app_log.rs`) | |
| `Service` | boot and shutdown around controller, server, connections and log (`main.rs`) | `AppLog` |
| `ServiceProofs` | proofs about `Service` and `AppLog` | |
| `Catalogs` | error-code catalogs as data, and what a command asks for (`error_codes.rs`, `error_gen.rs`) | |
| `AtomicCatalog` | abstract: what each command may do to the files, given what was asked | `Catalogs` |
| `ErrorCatalog` | the error-code tool step by step (`error_gen.rs`, `error_codes.rs`); implements `AtomicCatalog` | `Catalogs` |
| `ErrorCatalogProofs` | proofs about `ErrorCatalog` | |
| `MCRelay`, `MCController`, `MCVehicle`, `MCEvaluation`, `MCService`, `MCErrorCatalog` | instances for TLC | |

**Data.** `Option<bool>` is `"yes"`, `"no"` or `"unknown"`, for facts, states and
relay commands alike. An optional time is an integer or `None`. Times are whole
seconds: the program only compares and adds them, and its configured durations
may be any, so a model second is whatever unit an instance needs. Rules are
records; the name, topic and payload of an output do not matter and are left
out. `OutputRuntime::new` sorts rules by priority and takes the first that
applies; `Winner` takes the applicable rule of the highest priority, which is
the same because the configuration rejects equal priorities. What the modules need
of a configuration is what `config::validate` guarantees, in predicates named
`Valid...` that their assumptions state of the constants.

**`Jitter`.** One action, `Evaluate`, is `Filter::update` at a time that the
clock has reached; `Pass` lets time go by. History variables record the
admissions of the running cool-down and since when the raw value is settled.

**`Outputs`.** One operator per method (`Resync`, `Select`,
`RestartOnTransitions`, `Pending`, `Due`, `Accepted`, `Failed`) with the same
order of steps inside. `Book` is the `match` on the outcome in the engine's loop.

**`RelayScheduler`.** `Tick` is one turn of the engine's output loop: prepare for
a heartbeat pass, restart, select, submit when due, book. The three samples of
the clock are `s` (decision), `f` (booking) and the new `now` (end of the tick).
The values, the availability, the telemetry timeout and the outcome are free.
`Resynchronise` is a recovery. The ghost variables `sent` and `settled` record
the instant a command may have left and the latest recovery.

**`Controller`.** The engine's fields are the variables of `engine`; `waiting` and
`wake` are the loop's position (before the tick, or in `select!` until `wake`).
A tick is one action, as the loop handles no event meanwhile; its clock samples
are the tuple `c`. `Tick` follows `tick_with_clock` in order: expire, admit,
eligible, pass, outputs, pulse, next deadline. `LastTick` is the tick of
`Runtime::run` after the loop, that updates states only. `Connection`,
`Acknowledged`, `ReceiveAvailability`, `ReceiveTelemetry` are the events of
`select!`; a connection may also be given up before the tick (a stall). `Stop`
is the stop signal. What is left free: the admitted values at each tick
(`Readings`) in place of vehicle, rules and jitter filters, and the sink's
answers (`Outcomes`). `telemetry` is followed only where there is a timeout, as
nothing else reads it. The value last delivered, the last instant something
failed and the last decision are history variables.

**`Vehicle`.** `Receive` is `Vehicle::receive`, `Tick` is `Vehicle::expire`, and
`waiting` alternates them as the loop does. A message is the record of what each
decoder makes of it, because several inputs may share a topic and each decodes
for itself; `MCVehicle` lists the messages. `Assemble` has the three outcomes of
`assemble`: a pair, one half dropped, nothing. The booleans and the faults of the
code differ only in their map and are one function here. The history variables
hold the coordinates accepted since the latest pair, and those it was made of. Which
topic each input has (`inputs`) is chosen at the start and never changes, so that
one run covers several configurations.

**`Evaluation`.** `Evaluate` is `evaluate_with_history` followed by the engine's
storing of the entry states; the sights that feed it are free. Positions are told
apart by their distances from the targets; on the road of `MCEvaluation` these
are the differences of kilometres. `Possible` is `rules::possible`. The history
variable `turned` remembers the distance at which a membership last changed.

**`Runtime`.** `control` is where the loop of `Runtime::control` is: at the top of a
turn, in the tick, in `select!`, or returned. `Turn` is everything from the top to
the tick: it starts a session, subscribes, and gives a stalled session up. `Submit`
is one call of the closure that the engine is given, `Wait` the booking after the
tick and the choice of the deadline, `Receive` one arm of `select!`; its order is
kept (the stop signal first, an event before the deadline). `loop` holds the local
variables. The worker is `Dispatch` and `Network` (an event of the client's event
loop arrives), `Send` (it is queued, or waits for room) and `Progress`; `Look` is
the monitor, which may look at any instant, and `Signal` the stop signal. Of the
engine only `connected` and `granted` are kept; when it publishes, what it is told
of a message, and its deadlines below the caps are free. Packet identifiers are
not needed, as a session subscribes once. `served` is the part of the published
snapshot that the readiness probe reads, and `Readyz` its answer, which may be asked
for in any state. Messages may come although a subscription was refused, so the session's
`net` tells `"refused"` from `"subscribed"`. Two history variables serve the properties:
`asked` is when the session was asked to subscribe, and `calm` the latest turn that found no
publication of the session to be dispatched. `Controller` sees of all this only that connections come and go.

**`AppLog`, `Service`.** `AppLog` has the actions of the queue: an event is offered
(`Offered`, which is `try_send`) and, if it does not fit, counted in a second step
(`Count`), as the code does without a lock between; the worker takes one
(`Receive`), has it delivered and swaps the count (`Deliver`), and reports
(`Report`). Events are told apart by nothing and only their number is kept.
`Service` has one value of `stage` for each place where `run` may wait or be overtaken:
`boot` and `start`, the `select!`, then `announce`, `controller`, `http`, `wait_http`,
`drop`, `wait_log`. `is_finished` and the wait that follows it are two steps, as the
task may end in between. The controller, the server and the connections are tasks that
log, end, fail or hang as they like; each holds a clone of the sender until it is
gone. After the exit nothing is modelled: the process ends.

**`Catalogs`, `ErrorCatalog`.** An entry is a code or a reference to the environment,
and each process has an environment of its own. `Loads` is `parse_error_codes`: all
entries resolve to valid codes and no two to the same. A command goes through
`lock_input`, `lock_output`, `load` (read, parse, change in memory, check, write the
temporary file) and `replace` (the rename), then drops its locks one by one; between
any two of these it may fail or be killed, and other processes go on. Nobody but the
command itself sees anything of the single step `load`, so that nothing is lost by
taking it as one. Which command, on which files, is chosen at the start, key and code
when the catalog is read; an edit without a new code (`"rename"`) and one with a new code
(`"recode"`) are commands of their own, because one must keep the entry as it is written and
the other must not. `AtomicCatalog` knows what was asked and judges each effect by it, so that
one command's lost update cannot pass for the effect of another. `RemoveStaleLock` is what the logger's README asks of the user, and
waits, as it says, until no other writer runs. `validate --error-code` reads no file
and is left out.

**`sink`** is what the step handed to the client: a command for each output
(`"unknown"`: none) and whether a pulse went out.

## 3. What is checked

Every property is preceded in its module by a comment that states it.

| run | instance | properties |
|---|---|---|
| `jitter` | burst 2, cool-down 3, ten seconds | `BurstBudget`, `LagOnlyWhileCooling`, `SettlesWithinCooldown` |
| `relay_reminders` | two reminders of two holds, one started by its trigger and one when it wins and restarted by an edge, and a delay that is the first one's twin, refused commands, four seconds | `UnresolvedIsRetried`, `SharedDeadline`, `NeverPastDeadline`, `EpisodesAnchored`, `PacedSpec` |
| `controller_pulse` | two outputs, one behind a device that goes stale after 2, pulses every second, all outcomes, ticks of up to a second, wake-ups up to a second late, two seconds | `PulseProvesDelivery`, `QuiescentUntilWake`, `CommandsReachable`, `RelaysScheduled` |
| `controller_wake` | one blink at the smallest legal interval, telemetry timeout of 4, pulses every second, a back-off that doubles, woken only when asked for, seven seconds | `QuiescentUntilWake`, `PulsesInTime`, `TimeoutSilencesOn` |
| `controller_watchdog` | two such blinks, no telemetry timeout | `PulsesInTime` **violated** |
| `vehicle` | two latitudes, two longitudes and a number out of one range, five coordinates, skew 1, stale after 2; or two booleans and the battery on one topic with a JSON location; five seconds | `VehicleTypeOK`, `LocationIsOnePosition`, `LocationOutlivesNoHalf`, `LoneCoordinateDistrusts`, `NoPairMissed`, `LossesWakeTheLoop`, `ReceiptLosesNothing` |
| `evaluation_trip` | two overlapping geofences on a road, positions lost and found, charging, plug, completion, parking, fault or battery unknown | `BandsPartition`, `NoBounce`, `KnownWhenDetermined` |
| `evaluation_blind` | no location, battery or fault configured | `ImpossibleStaysUnknown` **violated** |
| `runtime` | an event queue of two, two requests, a publish timeout of two, a stall time of two, back-off of one to two, ticks of up to two, six seconds | `ReadyIsThisSession`, `DeafSessionsEnd`, `StuckDispatchNoticed`, `StallsAreEarned`, `NoFalseAlarm`, `ReadyzIsHonest` |
| `runtime_stalled` | the same | `StallsHaveASession` **violated** |
| `service` | a queue of two, one connection, four events besides those of `main`, a grace period of two | `DropsAccounted`, `WaitsOnlyOnOpen`, `DrainsAccepted`, `WaitsOnlyForOthers`, `EndsAreFollowed`, `DropsReported` |
| `error_catalog` | two processes, two files of which one is missing or does not parse, two keys, two codes, one reference that is another code in each environment; each kind of change on the first file, an add on the second, a recode and a delete that write to the other file, and an export | `LockDiscipline`, `AtomicSpec`, `EveryCommandEnds` |

**Bounds.** `Horizon` bounds the clock and is the only bound on the length of a
behaviour; it is chosen so that each deadline of the instance is met at least
once and, for what repeats, twice: in `relay_reminders` an episode of 2 can run,
end, be re-armed and run again within 4; in `controller_pulse` a staleness, a
recovery and three pulses with their passes fit in 2, as events take no time; the blink of
`controller_wake` flips at 2, ends at 4 as the telemetry times out, and leaves room for
the pulses after. `SubmitLag` bounds how long a tick takes between two samples,
`Lateness` how much later than asked the loop wakes up, `RetryCap` where the retry count
saturates (the assumption says that the back-off has reached its maximum by then, so
that larger counts differ in nothing), `Idle` stands for the idle cap of
`next_deadline`. `PulsesInTime` is about punctuality, so `Lateness` and `SubmitLag` are
0 in `controller_wake`; `controller_pulse` has 1 for both. `relay_reminders` takes 0, one
back-off, no ambiguous outcomes and the readings of one journey (`Journey`: plugged in and
parked, where parked may get lost, or unplugged and parked or driving) to leave room for three rules: its properties
`UnresolvedIsRetried` and `PacedSpec` are proved for all of these, and
`controller_pulse` takes its outputs through them.

`MaxCoordinates` bounds the coordinates of `vehicle`: five are enough for a
pair, a second one, and a half that is dropped for a newer one in between.
`Evaluation` has no bound: its states are finite. Its five positions are on either
side of each radius and buffer of the first geofence, at three of them the second one
is near too, and one is out of reach of both; the inner circle of the second is never entered.

In `runtime` three sessions can follow each other, the second and third after a
back-off, and one can live long enough to be subscribed and to have a publication
time out; two submissions (`MaxSubmissions`) are enough for one to be dispatched
while another is stuck. A tick may last as long as the stall time, so that the
alarm is raised and followed to the end of the task. The queue of two fills up
within one wait.

In `service` the queue of two fills up with what `main` logs alone and overflows with
the others' events; `MaxEvents` bounds the emissions, and `main`'s two own events are
always possible, so that shutdown meets a queue in any state. `Grace` of two tells a task
that ends in time from one that ends at the last instant and one that does not. One
connection at a time is enough for one that outlives the server. In `error_catalog` nothing bounds a
behaviour: commands come again and again. Two codes and a reference that is either of
them are the smallest catalog in which an entry may collide in one environment and not
in the other; two files are enough for locks wanted crosswise.

**Deadlock** is checked in every run but `service`, which stops when the process
exits. A clock at its horizon does not stop the
models: a tick is always possible (in `Runtime`, a look of the monitor), and after
shutdown the task stays returned (`Stopped`, `Ended`).

**Fairness.** `ErrorCatalog` assumes weak fairness of each command's steps: the process
is scheduled and each call it makes returns, as none of them waits for another process.
Nobody is obliged to start a command, to kill one or to remove a lock. `Service` assumes it of
three things: of `main` (its task is scheduled, and the steps between two waits never
block), of the clock while `main` waits with a timeout, and of the log worker where it has an entry
to take or finds itself done (`Receive`, `End`). Nothing is assumed of a delivery, which
may hang on a sink for ever, nor of the controller, the server and the connections;
`EndsAreFollowed` holds all the same, because every wait is bounded. `DropsReported` has the hypothesis
that no delivery hangs for ever, since it cannot hold without.

The other modules assume no fairness and have safety properties only. What
must happen in time is stated by a deadline (`SettlesWithinCooldown`,
`UnresolvedIsRetried`, `PulsesInTime`), which is stronger than eventually, and
`Pass` cannot run past `wake + Lateness`, so time does not pass while a wake-up
is overdue, nor, in `Runtime`, while an event is to be queued that fits or a progress
mark is due. That is the scheduling assumption, and it is the executor's: the
loop awaits `sleep_until(wake)` and nothing else keeps it.

That a stop or an alarm ends the task, and that the end of a worker is met, each
have two independent ways in the code (the top of the loop and `select!`; the flag
and the end of the queue), and hold by the guards of `Halt`, `Fail` and `ReceiveNothing`.

**Three disagreements.** `controller_watchdog` finds a schedule on which the watchdog falls
back under a controller that works. A pulse is sent only in a tick that finds no
output pending (`engine.rs:418-424`). Two outputs blinking at the smallest legal
interval, twice the hold, flip once per hold each. If one rejected command at the
start has put them out of step by half a hold, one is always waiting for its hold. The margins
that `config.rs:799-806` demands of the watchdog allow for one hold, not for an
endless alternation. `controller_wake` shows that with one output the margins
suffice, failures included. The example configuration blinks at four holds, and
is not affected: both outputs rest for two holds after each flip.

`evaluation_blind` finds a state that the configuration check calls not
producible and that becomes known. `possible` (`rules.rs:156`) asks for a
configured location for every location state; but a conjunction is false as soon
as one part is (`model.rs:71`). With a geofence and the charging input, but no
location, `location_inner_not_charging` is false while the vehicle charges: a
rule with `when: false` is driven, against the warning of `config.rs:500`.

`runtime_stalled` finds a session given up as stalled that is already gone. When a
transport error ends a session (`runtime.rs:233-242`), `subscription_sent` stays
set. In the next turn nothing is ready, the subscription is older than the timeout
unless the session was very short, and the loop logs that an acknowledgement timed
out (`runtime.rs:134-136`) and computes `retry_at` again from the back-off that the
error has just doubled: the reconnection waits two seconds in place of one. It does
no other harm, as the other properties of `runtime` show.

One promise is not stated because the code does not give it: that a session which works is never
given up. All publications share one timer (`runtime.rs:168`), cleared only by a turn that
finds none to be dispatched; a session whose every turn of the timeout finds one, each time
another, is given up. `StallsAreEarned` says this much and no more.

Some smaller observations have no run. All publications share one dispatch timer,
cleared only by a turn that finds everything dispatched (`runtime.rs:123`), so
steady traffic, each publication dispatched in time, could in principle be taken
for a stall. And `worker_stall_seconds` may be one second (`config.rs:591`), no longer than
the loop's longest wait without an event: `NoFalseAlarm` needs more than that, and the default is 30.
A drop that is counted after the worker has taken its last entry is reported only if
another one comes (`DropsReported` needs a backlog), and where the HTTP port cannot be bound `run`
returns at once (`BindFails`), without waiting for the boot warnings it has queued.

## 4. What is proved

For all values of the constants, by TLAPS:

| theorem | statement |
|---|---|
| `JitterProofs!TypeCorrect`, `BudgetHolds`, `LagHolds`, `SettlesHolds` | `Spec => []P` for the four properties of `Jitter` |
| `RelaySchedulerProofs!TypeCorrect` | `Spec => []TypeOK` for `RelayScheduler` |
| `RelaySchedulerProofs!PacedHolds` | `Spec => Paced!Spec`: `RelayScheduler` implements `PacedRelay` |
| `RelaySchedulerProofs!RetriesHold`, `DeadlineHolds`, `SharedHolds` | `Spec => []P` for `UnresolvedIsRetried`, `NeverPastDeadline` and `SharedDeadline` |
| `RelaySchedulerProofs!AnchorsHold` | `Spec => EpisodesAnchored` |
| `ControllerProofs!TypeCorrect`, `NothingIsSleptThrough` | `Spec => []P` for `TypeOK` and `QuiescentUntilWake` of `Controller` |
| `ControllerProofs!PulsesAreEarned`, `CommandsAreReachable`, `OnIsSilenced` | `Spec => P` for `PulseProvesDelivery` (an invariant), `CommandsReachable` and `TimeoutSilencesOn` |
| `ControllerProofs!RelaysAreScheduled` | `Spec => RelaysScheduled`: each output of `Controller` takes the steps of its own `RelayScheduler` |
| `ControllerProofs!RelaysArePaced` | each output of `Controller` implements `PacedRelay`, with the engine's clock |
| `ControllerProofs!OneOutputPulsesInTime` | `Spec => []PulsesInTime` with one output, pulses, and a watchdog that waits longer than `Margin` |
| `ControllerProofs!OnlyChangesHoldPulsesBack` | with pulses and any number of outputs: as long as a pulse may go out it comes within `Margin`, unless an output delivered in the open pass has changed its mind (`Held`) |
| `ControllerProofs!RelaysRetry`, `RelaysMeetDeadlines`, `RelaysShareDeadlines` | `Spec => []P` of each output of `Controller`, for `UnresolvedIsRetried`, `NeverPastDeadline` and `SharedDeadline` of `RelayScheduler` |
| `ControllerProofs!RelaysKeepAnchors` | `Spec => EpisodesAnchored` of each output of `Controller` |
| `KnowledgeProofs!VehicleTypeCorrect`, `LocationIsWhole`, `LocationAgesWithItsHalves`, `LoneCoordinatesDistrust`, `PairsAreMade`, `LossesAreAwaited` | `VehicleSpec => []P` for the six invariants of the run `vehicle` |
| `KnowledgeProofs!ReceiptsLoseNothing` | `VehicleSpec => ReceiptLosesNothing` |
| `KnowledgeProofs!TypeCorrect`, `PartitionHolds` | `Spec => []P` for `TypeOK` and `BandsPartition` of `Evaluation` |
| `KnowledgeProofs!NoBounceHolds` | `Spec => NoBounce` |
| `KnowledgeProofs!KnownIsCertain` | what an evaluation asserts it would assert whatever the unknown turns out to be: one half of `KnownWhenDetermined` |
| `RuntimeProofs!TypeCorrect`, `ConnectionIsTheSessions`, `DeafSessionsAreGivenUp`, `OneTimerIsEnough`, `ReadyzTellsTheTruth` | `Spec => []P` for `TypeOK`, `ReadyIsThisSession`, `DeafSessionsEnd`, `StuckDispatchNoticed` and `ReadyzIsHonest` of `Runtime` |
| `RuntimeProofs!StallsAreTheSessions` | `Spec => StallsAreEarned` |
| `RuntimeProofs!NoAlarmWhileWaiting`, `NoEarlyAlarm` | `Spec => NoFalseAlarm` where `IdleCap < Stall`; for any `Stall`, the alarm comes in a tick or when the wake-up is due |
| `ServiceProofs!TypeCorrect`, `DropsHold`, `HandlesHold`, `DrainHolds` | `Spec => []P` for `TypeOK`, `DropsAccounted`, `WaitsOnlyOnOpen` and `DrainsAccepted` of `Service` |
| `ServiceProofs!WaitsHold` | `Spec => WaitsOnlyForOthers` |
| `ErrorCatalogProofs!TypeCorrect`, `DisciplineHolds` | `Spec => []P` for `TypeOK` and `LockDiscipline` of `ErrorCatalog` |
| `ErrorCatalogProofs!AtomicHolds` | `Spec => Atomic!Spec`: `ErrorCatalog` implements `AtomicCatalog` |

*Jitter.* None of the three properties is inductive. `IInv` adds that the count
of the filter is the number of admissions in the running window, that a
cool-down runs only while there is an admission behind it, and where a withheld
value stands to the end of the cool-down. Each conjunct has a step for each way
`FilterUpdate` can end (`Quiet`, `Admit`, `Readmit`, `Withhold`).

*RelayScheduler.* The heart is `HoldInv`: `eligible_at` is at least a hold after
`sent` and after `settled`, and the ghost times are not in the future. It is
kept because every operator either leaves `eligible_at` alone, moves it forward
to a later time (`Resync`, an ambiguous failure), or sets it to a hold after the
time of booking (`Accepted`), which is not before the command left. A command
needs `Due`, hence `s >= eligible_at`, which gives the two inequalities of
`PacedRelay!Command`. The lemmas about types and about `eligible_at` of each
operator are in `OutputsProofs`, one for each operator.

`UnresolvedIsRetried` is inductive once the types are known. A failure sets the
failure and its retry together, from a sample of the clock that the end of the tick does
not precede; only what is pending is attempted, and a failure leaves it so; a recovery keeps pending
what is; and `select`, which alone may change the desired value, drops the failure with the
retry when nothing is left to send (`SelectRetries`).

The episodes need to know that what has changed, or begun, did so no later than now
(`TimeInv`). A restart on an edge then anchors at the tick that has seen the edge, and a
start on a match at the match, so that a deadline that is reached when the tick decides is
reached by the episode too and the rule is not driven (`NeverPastDeadline`). `EpisodesAnchored`
goes through the operators one by one: only `AfterAdvance` can clear or move a start, on a
known non-match or an edge, and `EpisodeStart` leaves a start alone that is there
(`StartedStays`). For the same reason twins stay equal although only the winner is started: a
rule that starts on its match is anchored before the selection, which has nothing to add.

*Controller.* `IInv` has, besides the types, that an online device said so after the latest
recovery of its outputs (`OnlineInv`), that the scheduler of an output has seen the
latest values except in the last tick (`SeenInv`), and what an open pass has left to do: an output
that is not to be sent again was delivered in this pass (`PassInv`). A pass sets `force` on
all outputs, each recovery does on its own, and only an accepted submission takes it away; so when nothing
is pending, which the pulse waits for, everything was delivered, and of what it should show.
The samples of the clock within a tick rise from output to output, which is what
`RelaysScheduled` needs to see each output's part of a tick as a tick of `RelayScheduler` that begins and
ends where the engine's does. What the scheduler promises of retries and episodes is also proved of each
relay of a controller by name (`RelaysRetry` to `RelaysShareDeadlines`), since the prover cannot instantiate
theorems for an output that is a parameter: a tick leaves each output as it was decided at its own sample, or that
with its outcome booked at a later one that the tick's end does not precede (`TickSteps`), and any
other step leaves it alone or resynchronises it (`OtherSteps`); the lemmas about the operators are those of
`OutputsProofs`. `BegunInv` is about the control states that the outputs have seen, not those
there are, as the last tick shows its values to none. For the holds the same is shown: in `HoldInv`, every output's `eligible_at` lies a hold beyond the latest command that may
have left for its relay and a hold beyond its latest recovery. Neither a decision nor a pass takes it
back, a booking puts it a hold beyond the sample at which the command had left, and nothing is
submitted before it; so every step is a step of `PacedRelay` for every output (`RelaysArePaced`).

`QuiescentUntilWake` speaks of the present instant and is not inductive: it would have to
survive the passing of time. `RestInv` says it of every instant from now until `wake`. Passing time keeps
that, as it leaves fewer instants. A tick establishes it: each way in which a quiet loop could
have something to do has its deadline among those that `NextDeadline` takes the least of
(`TickWake`); a selection made again later, before any of these, repeats the one of the tick
(`SelectRests`); and what is pending waits for a hold or a back-off that is not over
(`TickOutputRests`).
That the least deadline exists rests on there being finitely many, and that a
back-off ends after now on its being at least one second.

`PulsesInTime` compares the clock with `fed`, the latest pulse or the latest reason there was not to pulse, and
is kept only by what the loop was asked to wake up for in between. `FeedInv` bounds all of that from
`fed`: the next pulse and each back-off end a `Pause` after it at the latest (the interval, or the longest
back-off); an output that waits for a new chance to pulse is held for one hold after it; and the wake is no
later than the next pulse while there is no pass, and no later than the end of the last hold
while there is one (`WakeFeeds`), because what is pending always waits for something that `NextDeadline`
counts (`TickWaits`, `TickAwaits`). A pass that has been opened within `OpenBy` ends with a pulse one hold
later, since each output is sent what it desires once and then is not pending. `Margin` adds up: a pause,
a hold, and the lateness of the loop and of a submission where either may strike. The one way out is an output that was
sent its value in this pass and desires another one by now: it waits for a new hold, and with
several outputs that can repeat for ever (`Held`). `OnlyChangesHoldPulsesBack` says that this is the only
way, and it is that of `controller_watchdog`. With one output there is no pass to be
held open, as its delivery ends it in the same tick. The check in
`config.rs:799-806` asks for a timeout beyond interval, hold, `publish_timeout` and `worker_stall`. Where
`publish_retry_max_seconds` is at most the interval (30 and 120 by default) that covers `Margin`, if the loop
is late by no more than those two allow; a longer back-off the check does not count.

*Vehicle.* What LocationIsOnePosition and its neighbours say of the location is known only
when both halves are there, and the halves come, are replaced and dropped at any time before. The invariant
is about each half (`HalfInv`): it is the latest coordinate of its axis since the latest pair, or it
is part of the location and none has come since; and where there is none, whatever came was
dropped since it is too old for anything that may still come (`Stranded`). Two new
halves are not both pending (`PairInv`), because the receipt of the second one pairs them or drops the older one.
From these `NoPairMissed` follows at each receipt (`CoordinateKeeps`), and time keeps it, as what is
stranded only gets older. `FixInv` adds to `LocationIsOnePosition` that the location is as old
as the older half, `DeadlineInv` that the assembly's deadline is that of the first coordinate since the
latest pair. Staleness is judged only by a tick, hence `ReadInv`, of the instant of the reading: what it left
was not stale then. A deadline that has passed at the reading has therefore cost what it guards, one
that has not wakes the loop, and these are all: `LossesWakeTheLoop`.

*Evaluation.* `BandsPartition` holds after every evaluation, whatever the states
before: who is inside is within, as the buffered inner radius stays below the
outer one, and the buffer of the outer one only widens it. `NoBounce` needs the
invariant `Sides`: the distance at which a membership last changed is below the
radius if it is now held and beyond the buffer if it is not, and what is unknown
has not changed. Two successive changes are then on the two sides of the buffer.
It is an invariant because a change to inside can only happen without the buffer
and a change to outside only with it (`TurnSides`).

`KnownIsCertain` is monotony: `Not`, `And` and `Or` of operands some of which are filled in are the same or
were unknown (`NotKeeps`, `AndKeeps`, `OrKeeps`), for sets of any size related element by element in both
directions (`FilledIn`), and the states are built from these alone.

Assumptions: only the `ASSUME`s of the modules, each of which the configuration
check guarantees (rules last at least a hold, blink intervals two holds,
priorities differ, back-off grows to its maximum), or that `None` is none of the values it stands
in for the absence of (`NoneAssumption`, `HalfAssumption`, `SessionAssumption`). TLC evaluates them in each
run. Three theorems have hypotheses of their own. `NoAlarmWhileWaiting` has `IdleCap < Stall`, which the code does not
check and the default satisfies. The two about the pulse's punctuality are about a configuration with pulses (`Interval # None`), and
`OneOutputPulsesInTime` about one output with `WatchdogTimeout > Margin`; the instance of `controller_wake` satisfies all
of these, with a `Margin` of 4 and a timeout of 5. That a finite set of rules has one of the highest priority is assumed in
that form rather than derived.

*Service.* `IInv` adds to the types which holder may be counting a refusal while main is in
which place, that the worker has reported what it took before it takes the count again
(`TakenInv`: the swap overwrites what was taken), what each join handle has yielded, and
who holds a sender. `DropsAccounted` is then kept by each of the two halves of `emit` and
of the worker's steps, by the cardinality of the set of those who count.

*ErrorCatalog.* `LockInv` says which locks, in which order, a process holds at each stage, and
that no lock is in two hands; a step of one process keeps it if that process keeps to its
own (`OwnLocks`). Therefore nobody writes what another one has read and is about to write from
(`ReadStays`), `PreparedIsCurrent` is kept, and the rename is a `Change` of
`AtomicCatalog` (`ReplaceChanges`); that each operation does to one entry what its command
asks, and leaves the others alone, is shown by `AddIsAdd`, `RenameIsRename`, `RecodeIsRecode` and
`DeleteIsDelete`. All other steps stutter, call, refuse
or leave.

*Runtime.* `IInv` collects what connects the loop's local variables with the session and its worker.
Events on their way tell the truth about the session they come from (`EventInv`, as
`Honest`): a session that ends takes its queue with it, so that what arrives is about the one there is. It
is asked to subscribe once, first, and on a fresh connection (`SubscribeInv`, `AskedInv`).
What was accepted is in the request queue or has been dispatched (`CountInv`), and the wait for
dispatch began no later than any publication still there (`PendingInv`), which is what makes one timer enough
to notice each. It began no earlier than the latest turn that found nothing to be dispatched
(`CalmInv`), which is what `StallsAreEarned` needs. A turn that reaches its tick has found nothing overdue (`PatienceInv`). `ClockInv`
bounds how far the clock can be from the beginning of the turn: by the longest tick, and while waiting by
the deadline, which `IdleCap` bounds. From it come the limits of `DeafSessionsEnd` and, through `ServedInv`, of
`ReadyzIsHonest`, and the two theorems about the alarm.

The type invariants of the modules other than `Vehicle` are proved and therefore not among the
properties of the runs.

*Only model-checked.* `PulsesInTime` beyond `OneOutputPulsesInTime`: of several outputs it is not true in
general, as `controller_watchdog` shows, and which ones keep in step depends on how their blinks fall. The other half of
`KnownWhenDetermined`, that what does not depend on the unknown is known: it depends on which
positions and levels there are to tell the outcomes apart. The liveness
properties (`EndsAreFollowed`, `DropsReported`, `EveryCommandEnds`): fairness and `ENABLED` are beyond the
prover. Induction over data is too; `Model`'s and `Outputs`' operators need none.

## 5. What is not modelled, and why

* History of the engine, counters, log events and the snapshot: output only, no
  decision reads them.
* `workers_healthy`: the engine's copy is cleared only at shutdown, together with
  `stopping`, which is modelled.
* Wall-clock stamps: nothing compares them.
* The haversine formula and the decoding of texts and JSON: `Vehicle` and
  `Evaluation` take their results. Numbers stand for themselves, so rounding at a
  radius is not modelled.
* Inside the MQTT client: `Runtime` takes its event loop and queue of requests from
  how the code uses them; that a connection is tried for a bounded time is the
  client's (`mqtt.rs:44-46`).
* `main.rs` before the log worker starts: command line, configuration and the check
  mode run in sequence and start nothing. After `run` returns the runtime is dropped,
  which may wait for a write to standard output that blocks; that is tokio's.
* The fan-out of one entry to the sinks: they are awaited together, each fails for
  itself, and `Deliver` waits for all.
* Error catalogs reached by two names: the tool compares paths as written.
* Parsing and the rest of the configuration, HTTP rendering, log formatting and transports, TLS: pure
  functions over strings, or I/O.

## 6. Plan

In this order; the first ten are done.

1. `Model`, `Jitter` and its proofs.
2. `Outputs`, `PacedRelay`, `RelayScheduler` and its first proofs.
3. `Controller`, implementing `RelayScheduler` for each output.
4. `Vehicle`: receipt, split locations, expiry.
5. `Evaluation` and its proofs.
6. `Runtime`: sessions, acknowledgement and dispatch stalls, back-off, worker and
   monitor, readiness.
7. `AppLog` and `Service`: the log queue, boot and shutdown.
8. `Catalogs`, `AtomicCatalog` and `ErrorCatalog`.
9. Proofs of the safety properties of all modules.
10. Theorems that lift retries and episodes to the outputs of `Controller`, and the pulse's punctuality.
11. Not begun: a dry and a live controller in lockstep; `Vehicle`, `Evaluation`, `Jitter` and `Controller` composed on one small instance, in place of the free admitted values
    of `Controller`; an abstract session life cycle that `Runtime` implements.
