------------------------------- MODULE Runtime -------------------------------
(***************************************************************************)
(* The controller task (src/runtime.rs), the session worker (src/mqtt.rs)  *)
(* that it starts for each connection, and the monitor that watches it.    *)
(*                                                                         *)
(* The task turns: it looks at the session, gives it up when something has *)
(* waited too long, ticks the engine, which may submit publications, and   *)
(* waits for an event or for the next deadline.  The worker polls the MQTT *)
(* client's event loop, counts dispatched publications and hands events    *)
(* over through a bounded queue; the client's event loop and the network   *)
(* are external, as is what the engine submits (Controller).  Time passes  *)
(* only while nobody who is due is kept waiting, but for a tick, which may *)
(* take MaxLag.                                                            *)
(***************************************************************************)
EXTENDS Model, Sequences

CONSTANTS
  QueueCap,          \* of the worker's queue (128)
  RequestCap,        \* of the client's requests (outputs + 1)
  SessionWait,       \* longest wait of the loop with a session (a quarter of a second)
  IdleCap,           \* longest wait without one (a second)
  Beat,              \* the worker's progress period (a quarter of a second)
  Stall,             \* worker_stall_seconds
  PublishTimeout,    \* publish_timeout_seconds
  BackoffInitial, BackoffMax,
  MaxLag,            \* how long a tick may take
  MaxSubmissions,    \* bound of the publications of one session, for model checking
  RuntimeHorizon     \* bound of the clock, for model checking

ASSUME RuntimeAssumption ==
  /\ {QueueCap, RequestCap, SessionWait, Beat, Stall, PublishTimeout, BackoffInitial}
       \subseteq Nat \ {0}
  /\ IdleCap >= SessionWait /\ BackoffMax >= BackoffInitial
  /\ Stall >= IdleCap          \* Config::validate: at least one second
  /\ {IdleCap, BackoffMax, MaxLag, MaxSubmissions, RuntimeHorizon} \subseteq Nat

VARIABLES
  now,
  stopping,          \* the stop signal
  workers_ok,        \* the health flag, that is only ever cleared
  control,           \* where the task is: "turn", "tick", "wait" or "ended"
  beat,              \* when the latest turn began: progress, and the turn's `now'
  wake,              \* until when the loop waits
  loop,              \* the local variables of control()
  session,           \* the Session with its worker, or None
  connected, granted,     \* the engine's: connected, and all subscriptions active
  served,            \* the published snapshot, as far as /readyz asks it for the session
  \* History variables, for the properties only.
  asked,             \* when the session was asked to subscribe, or None
  calm               \* the latest turn that found nothing to be dispatched

engine == <<connected, granted>>
history == <<asked, calm>>
vars == <<now, stopping, workers_ok, control, beat, wake, loop, session, engine, served,
          history>>

\* subscription_known: subscription_packets has the session's one packet.
\* accepted_now: the publications accepted in this tick.
Loop ==
  [retry_at : Nat, backoff : BackoffInitial .. BackoffMax,
   subscription_sent : BOOLEAN, sub_started : Nat, subscription_known : BOOLEAN,
   dispatch_pending : OptTime, accepted_count : Nat, accepted_now : Nat]

Event == [kind : {"connack", "subscribe", "publish", "message", "error"}]
         \cup [kind : {"suback"}, granted : BOOLEAN]

Request == [kind : {"subscribe", "publish"}, at : Nat]   \* `at' is history, too

\* worker: polling the event loop, sending an event, or done.  net: how far the
\* connection has come; "refused" when not every subscription was granted.
Session ==
  [worker : {"polling", "sending", "done"}, event : Event \cup {None}, queue : Seq(Event),
   progress : Nat, dispatched : Nat, requests : Seq(Request),
   net : {"down", "up", "subscribing", "subscribed", "refused"}]

ASSUME SessionAssumption == None \notin Session

NewSession ==
  [worker |-> "polling", event |-> None, queue |-> <<>>, progress |-> now, dispatched |-> 0,
   requests |-> <<>>, net |-> "down"]

Ready == connected /\ granted

Init ==
  /\ now = 0 /\ stopping = FALSE /\ workers_ok = TRUE
  /\ control = "turn" /\ beat = 0 /\ wake = 0
  /\ loop = [retry_at |-> 0, backoff |-> BackoffInitial, subscription_sent |-> FALSE,
             sub_started |-> 0, subscription_known |-> FALSE, dispatch_pending |-> None,
             accepted_count |-> 0, accepted_now |-> 0]
  /\ session = None
  /\ connected = FALSE /\ granted = FALSE
  /\ served = FALSE
  /\ asked = None /\ calm = 0

----------------------------------------------------------------------------
(* The end of the task: the session is dropped, nobody is healthy, and a   *)
(* last snapshot says so.                                                  *)

End ==
  /\ control' = "ended"
  /\ session' = None
  /\ workers_ok' = FALSE
  /\ served' = FALSE
  /\ asked' = None
  /\ UNCHANGED <<now, stopping, beat, wake, loop, engine, calm>>

\* At the top of the loop, and first among what the loop waits for.
Halt == stopping /\ control \in {"turn", "wait"} /\ End

----------------------------------------------------------------------------
(* A turn.                                                                 *)

\* What the loop receives from: an event, or the end of a queue nobody writes to.
Arrived == session # None /\ (session.queue # <<>> \/ session.worker = "done")

\* The wait is over at the deadline; an event comes first.
Begins ==
  /\ ~ stopping
  /\ control = "turn" \/ (control = "wait" /\ now >= wake /\ ~ Arrived)

Starts == session = None /\ now >= loop.retry_at

\* A mutated form: the count goes on from the session before.
StartedCounting(l) ==
  [l EXCEPT !.subscription_sent = FALSE, !.subscription_known = FALSE,
            !.dispatch_pending = None]

\* What a new session starts with.
Started(l) ==
  [l EXCEPT !.subscription_sent = FALSE, !.subscription_known = FALSE,
            !.dispatch_pending = None, !.accepted_count = 0]

\* Whoever missed a progress mark ends the task.  A worker that is done has closed its
\* channel, so that the test for one that is done with an open channel never succeeds:
\* its end is met where events are received.
Fails(s) == ~ workers_ok \/ (s # None /\ now - s.progress >= Stall)

Fail == Begins /\ Fails(session) /\ End

\* An active connection is asked to subscribe as soon as the client has room.
Asks(l, s) ==
  s # None /\ connected /\ ~ l.subscription_sent /\ Len(s.requests) < RequestCap

Asked(l) == [l EXCEPT !.subscription_sent = TRUE, !.sub_started = now]

Asking(s) == [s EXCEPT !.requests = Append(@, [kind |-> "subscribe", at |-> now])]

\* What has been dispatched waits no longer.
Cleared(l, s) ==
  IF s # None /\ s.dispatched >= l.accepted_count
  THEN [l EXCEPT !.dispatch_pending = None] ELSE l

\* A mutated form: a refused subscription counts as answered.
StalledUnanswered(l) ==
  \/ l.dispatch_pending # None /\ now - l.dispatch_pending >= PublishTimeout
  \/ l.subscription_known /\ ~ Ready /\ now - l.sub_started >= PublishTimeout

Stalled(l) ==
  \/ l.dispatch_pending # None /\ now - l.dispatch_pending >= PublishTimeout
  \/ l.subscription_sent /\ ~ Ready /\ now - l.sub_started >= PublishTimeout

\* Without a session the loop tries again, less and less often.
Backed(l) ==
  [l EXCEPT !.retry_at = now + l.backoff, !.backoff = SoonerOf(2 * l.backoff, BackoffMax)]

GivenUp(l) == [Backed(l) EXCEPT !.subscription_sent = FALSE, !.dispatch_pending = None]

\* A publication of the session is still to be dispatched.
Owes(s) == s # None /\ \E i \in DOMAIN s.requests : s.requests[i].kind = "publish"

\* Everything up to the tick.
Turn ==
  LET s0 == IF Starts THEN NewSession ELSE session
      l0 == IF Starts THEN Started(loop) ELSE loop
      s1 == IF Asks(l0, s0) THEN Asking(s0) ELSE s0
      l1 == Cleared(IF Asks(l0, s0) THEN Asked(l0) ELSE l0, s1)
      stalled == Stalled(l1)
  IN  /\ Begins /\ ~ Fails(session)
      /\ control' = "tick"
      /\ beat' = now
      /\ session' = IF stalled THEN None ELSE s1
      /\ loop' = [(IF stalled THEN GivenUp(l1) ELSE l1) EXCEPT !.accepted_now = 0]
      /\ connected' = (connected /\ ~ stalled)
      /\ granted' = (granted /\ ~ stalled)
      /\ asked' = IF stalled THEN None ELSE IF Asks(l0, s0) THEN now
                  ELSE IF Starts THEN None ELSE asked
      /\ calm' = IF Owes(session) THEN calm ELSE now
      /\ UNCHANGED <<now, stopping, workers_ok, wake, served>>

\* The engine submits a publication and the client accepts it; what is refused
\* changes nothing here.
Submit ==
  /\ control = "tick" /\ Ready /\ workers_ok /\ session # None
  /\ Len(session.requests) < RequestCap
  /\ loop.accepted_count + loop.accepted_now < MaxSubmissions
  /\ session' = [session EXCEPT !.requests = Append(@, [kind |-> "publish", at |-> now])]
  /\ loop' = [loop EXCEPT !.accepted_now = @ + 1]
  /\ UNCHANGED <<now, stopping, workers_ok, control, beat, wake, engine, served, history>>

\* A mutated form: each publication restarts the time all of them may take.
CountedAnew(l) ==
  IF l.accepted_now = 0 THEN l
  ELSE [l EXCEPT !.accepted_count = @ + l.accepted_now, !.dispatch_pending = beat]

\* What was accepted is waited for from the turn's `now'.
Counted(l) ==
  IF l.accepted_now = 0 THEN l
  ELSE [l EXCEPT !.accepted_count = @ + l.accepted_now,
                 !.dispatch_pending = IF @ = None THEN beat ELSE @]

\* A mutated form: only the next attempt to connect is waited for.
UnconnectedUncapped(retry_at) == LaterOf(retry_at, beat + 1)

\* The longest wait without a session.
Unconnected(retry_at) == SoonerOf(beat + IdleCap, LaterOf(retry_at, beat + 1))

\* A mutated form: a snapshot that is good once is left to the next good one.
PublishedReady == served \/ Ready

\* What the snapshot at the end of a tick says of the session.
Published == Ready

\* The snapshot, and the wait: the engine's next deadline, but for a session's quarter of a second, or
\* until the next attempt to connect.
Wait ==
  /\ control = "tick"
  /\ control' = "wait"
  /\ loop' = [Counted(loop) EXCEPT !.accepted_now = 0]
  /\ served' = Published
  /\ wake' \in beat + 1 ..
        IF session # None THEN beat + SessionWait ELSE Unconnected(loop.retry_at)
  /\ UNCHANGED <<now, stopping, workers_ok, beat, session, engine, history>>

----------------------------------------------------------------------------
(* Events.                                                                 *)

Receives == control = "wait" /\ ~ stopping /\ Arrived

Dequeued == [session EXCEPT !.queue = Tail(@)]

ConnAck ==
  /\ connected' = TRUE /\ granted' = FALSE
  /\ loop' = [loop EXCEPT !.backoff = BackoffInitial]
  /\ session' = Dequeued
  /\ UNCHANGED asked

Subscribed ==
  /\ loop' = [loop EXCEPT !.subscription_known = TRUE]
  /\ session' = Dequeued
  /\ UNCHANGED <<engine, asked>>

SubAck(g) ==
  /\ granted' = IF loop.subscription_known THEN g ELSE granted
  /\ loop' = [loop EXCEPT !.subscription_known = FALSE]
  /\ session' = Dequeued
  /\ UNCHANGED <<connected, asked>>

\* A mutated form: the engine is not told.
LostQuietly ==
  /\ session' = None
  /\ UNCHANGED engine
  /\ loop' = Backed(loop)
  /\ asked' = None

\* The transport failed.  Unlike a stall, this leaves subscription_sent and
\* dispatch_pending as they are.
Lost ==
  /\ session' = None
  /\ connected' = FALSE /\ granted' = FALSE
  /\ loop' = Backed(loop)
  /\ asked' = None

Ignored ==
  /\ session' = Dequeued
  /\ UNCHANGED <<loop, engine, asked>>

Receive ==
  /\ Receives /\ session.queue # <<>>
  /\ control' = "turn"
  /\ LET e == Head(session.queue)
     IN  CASE e.kind = "connack" -> ConnAck
           [] e.kind = "subscribe" -> Subscribed
           [] e.kind = "suback" -> SubAck(e.granted)
           [] e.kind = "error" -> Lost
           [] OTHER -> Ignored
  /\ UNCHANGED <<now, stopping, workers_ok, beat, wake, served, calm>>

\* A worker that ended without an error was told to by the health flag.
ReceiveNothing ==
  Receives /\ session.queue = <<>> /\ End

----------------------------------------------------------------------------
(* The worker.                                                             *)

Worker(s) ==
  /\ session' = s
  /\ UNCHANGED <<now, stopping, workers_ok, control, beat, wake, loop, engine, served,
                 history>>

Polls == session # None /\ session.worker = "polling"

\* The event loop has an event; one that is dispatched is counted at once.
Emit(e, s) ==
  Worker([s EXCEPT !.worker = "sending", !.event = e, !.progress = now,
                   !.dispatched = @ + IF e.kind = "publish" THEN 1 ELSE 0])

Dispatch ==
  /\ Polls /\ session.net # "down" /\ session.requests # <<>>
  /\ LET r == Head(session.requests)
     IN  Emit([kind |-> r.kind],
              [session EXCEPT !.requests = Tail(@),
                              !.net = IF r.kind = "subscribe" THEN "subscribing" ELSE @])

Network ==
  /\ Polls
  /\ \/ session.net = "down" /\ Emit([kind |-> "connack"], [session EXCEPT !.net = "up"])
     \/ /\ session.net = "subscribing"
        /\ \E g \in BOOLEAN :
             Emit([kind |-> "suback", granted |-> g],
                  [session EXCEPT !.net = IF g THEN "subscribed" ELSE "refused"])
     \/ session.net \in {"subscribed", "refused"} /\ Emit([kind |-> "message"], session)
     \/ Emit([kind |-> "error"], session)

\* Blocks while the queue is full.
Send ==
  /\ session # None /\ session.worker = "sending" /\ Len(session.queue) < QueueCap
  /\ Worker([session EXCEPT !.queue = Append(@, session.event), !.event = None,
                            !.worker = IF session.event.kind = "error" \/ ~ workers_ok
                                       THEN "done" ELSE "polling"])

\* The progress mark, or the end when the health flag is gone.
Progress ==
  /\ Polls /\ now >= session.progress + Beat
  /\ Worker(IF workers_ok THEN [session EXCEPT !.progress = now]
            ELSE [session EXCEPT !.worker = "done"])

----------------------------------------------------------------------------
(* The monitor, the signal and the clock.                                  *)

\* The monitor looks often, at instants of its own.
Look ==
  /\ ~ stopping /\ control # "ended"
  /\ workers_ok' = (workers_ok /\ now - beat < Stall)
  /\ UNCHANGED <<now, stopping, control, beat, wake, loop, session, engine, served, history>>

Signal ==
  /\ ~ stopping
  /\ stopping' = TRUE
  /\ UNCHANGED <<now, workers_ok, control, beat, wake, loop, session, engine, served,
                 history>>

\* Nobody who is due is kept waiting, and a tick takes no longer than MaxLag.
Pass ==
  /\ now < RuntimeHorizon
  /\ CASE control = "wait" -> now < wake /\ ~ stopping
       [] control = "tick" -> now < beat + MaxLag
       [] OTHER -> FALSE
  /\ Polls => now < session.progress + Beat
  /\ session # None /\ session.worker = "sending" => Len(session.queue) = QueueCap
  /\ now' = now + 1
  /\ UNCHANGED <<stopping, workers_ok, control, beat, wake, loop, session, engine, served,
                 history>>

Ended == control = "ended" /\ UNCHANGED vars

Next ==
  \/ Halt \/ Fail \/ Turn \/ Submit \/ Wait \/ Receive \/ ReceiveNothing
  \/ Dispatch \/ Network \/ Send \/ Progress
  \/ Look \/ Signal \/ Pass \/ Ended

Spec == Init /\ [][Next]_vars

----------------------------------------------------------------------------
\* The type invariant.  The delay between attempts to connect stays within its bounds.
TypeOK ==
  /\ {now, beat, wake} \subseteq Nat
  /\ {stopping, workers_ok, connected, granted, served} \subseteq BOOLEAN
  /\ control \in {"turn", "tick", "wait", "ended"}
  /\ loop \in Loop
  /\ session \in Session \cup {None}
  /\ asked \in OptTime /\ calm \in Nat

\* /readyz: the published snapshot and the health flag, which are read at any instant.
\* What it asks of the control pipeline on top is Controller's.
Readyz == served /\ workers_ok

\* Readiness is never that of a session that is gone: while the loop waits, a probe that
\* is answered OK finds a session whose subscriptions are all granted; it lags only while a
\* turn that began with such a session goes on, and never outlives the task.
ReadyzIsHonest ==
  Readyz => \/ session # None /\ session.net = "subscribed"
            \/ control \in {"turn", "tick"} /\ now <= beat + LaterOf(SessionWait, MaxLag)

\* What the engine takes for its connection is the session's: it is connected or ready
\* only with a session of which that is true, whichever way earlier ones ended.
ReadyIsThisSession ==
  control # "ended" =>
    /\ connected => session # None /\ session.net # "down"
    /\ Ready => session # None /\ session.net = "subscribed"

\* A session that is connected has been asked to subscribe, itself and not an earlier one,
\* before the loop ticks or waits; if its subscription was refused, or is not answered, or
\* never even left the client, it is given up in time.
DeafSessionsEnd ==
  /\ control \in {"tick", "wait"} /\ connected => asked # None
  /\ control = "tick" /\ asked # None /\ ~ Ready => beat < asked + PublishTimeout

\* What the client accepted and does not dispatch is given up in time, however much
\* more it accepts and dispatches meanwhile.
StuckDispatchNoticed ==
  control = "tick" /\ session # None =>
    \A i \in DOMAIN session.requests :
      LET r == session.requests[i]
      IN  r.kind = "publish" => beat < r.at + PublishTimeout

\* A session is given up only for what is its own and still missing: a subscription it
\* was asked for a timeout ago, or publications, if one is to be dispatched now and every
\* turn of the last timeout has found one, be it the same one or not.
StallsAreEarned ==
  [][control' = "tick" /\ session # None /\ session' = None =>
       \/ asked # None /\ now >= asked + PublishTimeout /\ ~ Ready
       \/ Owes(session) /\ now >= calm + PublishTimeout]_vars

\* The alarm is raised only during or after a tick that takes too long, never by a loop
\* that waits as it should, with a session or without.
NoFalseAlarm ==
  [][workers_ok /\ ~ workers_ok' /\ control' # "ended" => control = "tick" \/ now > wake]_vars

\* "MQTT dispatch or subscription acknowledgement timed out" (runtime.rs): what the
\* loop gives up as stalled is a session, and no attempt to connect is put off by the
\* subscription of one that is gone.
StallsHaveASession ==
  [][control' = "tick" /\ loop'.retry_at # loop.retry_at => session # None]_vars

=============================================================================
