------------------------------ MODULE Service ------------------------------
(***************************************************************************)
(* The service from its boot to its end (src/main.rs, run): main starts    *)
(* the log worker, the HTTP server and the controller, waits for a signal  *)
(* or for one of them to end, and then for each of them in turn, for at    *)
(* most Grace.                                                             *)
(*                                                                         *)
(* The tasks appear as main sees them: they run, end by themselves at any  *)
(* time or not at all, and release their clone of the log sender when they *)
(* are gone.  A connection is a task of its own, which nobody joins and    *)
(* which outlives the server that accepted it.                             *)
(***************************************************************************)
EXTENDS AppLog

CONSTANTS
  Connection,        \* the connections there may be at once
  Grace,             \* how long main waits for each task, in units of Tick
  MaxEvents          \* bounds what is emitted (the two events of main itself apart)

ASSUME ServiceAssumption ==
  /\ Grace \in Nat \ {0} /\ MaxEvents \in Nat
  /\ Holder = {"main", "controller", "http"} \cup Connection
  /\ Connection \cap {"main", "controller", "http"} = {}

VARIABLES
  stage,             \* of main
  left,              \* how long main still waits for the task it waits for
  spent,             \* history: how long main has waited since it left its select
  signalled,         \* Ctrl+C or SIGTERM came
  controller, http,  \* the tasks
  controller_done,   \* a flag of main
  joined,            \* history: the join handles that have yielded their result
  events             \* history: how many events were emitted

waitVars == <<left, spent, joined, controller_done>>

ownVars == <<stage, waitVars, signalled, controller, http, events>>

vars == <<logVars, ownVars>>

Task == {"off", "running", "draining", "aborting", "ended"}

Init ==
  /\ LogInit /\ senders = {"main"}
  /\ stage = "boot" /\ left = 0 /\ spent = 0
  /\ signalled = FALSE
  /\ controller = "off" /\ http = "off"
  /\ controller_done = FALSE /\ joined = {}
  /\ events = 0

Exited == stage \in {"returned", "failed"}

\* h goes on, which it does not before it has counted a refused event.
Free(h) == h \in senders /\ h \notin counting

Emitted(h) == Offered(h) /\ events' = events + 1

----------------------------------------------------------------------------
(* Main until something ends.                                              *)

\* A warning about the configuration.
BootWarning ==
  /\ stage = "boot" /\ Free("main") /\ events < MaxEvents
  /\ Emitted("main")
  /\ UNCHANGED <<senders, stage, waitVars, signalled, controller, http>>

\* The HTTP server is spawned, or disabled, and this is logged.
StartHttp ==
  /\ stage = "boot" /\ Free("main")
  /\ \/ http' = "running" /\ senders' = senders \cup {"http"}
     \/ UNCHANGED <<http, senders>>
  /\ Emitted("main")
  /\ stage' = "start"
  /\ UNCHANGED <<waitVars, signalled, controller>>

\* The listener cannot be bound: run returns at once.
BindFails ==
  /\ stage = "boot" /\ Free("main")
  /\ stage' = "failed"
  /\ senders' = senders \ {"main"}
  /\ UNCHANGED <<channelVars, waitVars, signalled, controller, http, events>>

StartController ==
  /\ stage = "start" /\ Free("main")
  /\ controller' = "running"
  /\ senders' = senders \cup {"controller"}
  /\ stage' = "select"
  /\ UNCHANGED <<channelVars, waitVars, signalled, http, events>>

\* A mutated form: that the controller is done is forgotten.
SelectedControllerForgot ==
  /\ controller = "ended"
  /\ joined' = joined \cup {"controller"}
  /\ UNCHANGED controller_done

SelectedController ==
  /\ controller = "ended"
  /\ joined' = joined \cup {"controller"}
  /\ controller_done' = TRUE

\* The select of run: whichever is ready.
Select ==
  /\ stage = "select"
  /\ \/ signalled /\ UNCHANGED <<joined, controller_done>>
     \/ SelectedController
     \/ http = "ended" /\ joined' = joined \cup {"http"} /\ UNCHANGED controller_done
     \/ ~ Alive /\ joined' = joined \cup {"log"} /\ UNCHANGED controller_done
  /\ stage' = "announce"
  /\ UNCHANGED <<logVars, left, spent, signalled, controller, http, events>>

----------------------------------------------------------------------------
(* The end: each wait is for a task that still runs, until it is done or   *)
(* the time is up.                                                         *)

\* A mutated form: main waits for room in the channel.
AnnounceWaiting ==
  /\ stage = "announce" /\ (Alive => Room)
  /\ Emitted("main")
  /\ stage' = "controller" /\ left' = Grace
  /\ UNCHANGED <<senders, spent, joined, controller_done, signalled, controller, http>>

\* Stop is sent and SERVICE_SHUTDOWN logged.
Announce ==
  /\ stage = "announce"
  /\ Emitted("main")
  /\ stage' = "controller" /\ left' = Grace
  /\ UNCHANGED <<senders, spent, joined, controller_done, signalled, controller, http>>

Stop == stage \notin {"boot", "start", "select", "announce"}

\* timeout(5 s, controller) has elapsed.
TimedOut ==
  /\ left = 0 /\ controller = "running"
  /\ controller' = "aborting"
  /\ stage' = "http"
  /\ UNCHANGED <<joined, left>>

EndController ==
  /\ stage = "controller" /\ Free("main")
  /\ \/ /\ controller_done
        /\ stage' = "http"
        /\ UNCHANGED <<controller, joined, left>>
     \/ /\ ~ controller_done /\ controller = "ended"
        /\ joined' = joined \cup {"controller"}
        /\ stage' = "http"
        /\ UNCHANGED <<controller, left>>
     \/ ~ controller_done /\ TimedOut
  /\ UNCHANGED <<logVars, spent, signalled, http, controller_done, events>>

\* Main looks whether there is a server to wait for.
CheckHttp ==
  /\ stage = "http"
  /\ IF http \in {"off", "ended"}
     THEN stage' = "drop" /\ UNCHANGED left
     ELSE stage' = "wait_http" /\ left' = Grace
  /\ UNCHANGED <<logVars, spent, signalled, controller, http, controller_done, joined, events>>

EndHttp ==
  /\ stage = "wait_http"
  /\ \/ http = "ended" /\ joined' = joined \cup {"http"} /\ UNCHANGED http
     \/ left = 0 /\ http # "ended" /\ http' = "aborting" /\ UNCHANGED joined
  /\ stage' = "drop"
  /\ UNCHANGED <<logVars, left, spent, signalled, controller, controller_done, events>>

\* A mutated form: main keeps its own sender.
SendersKept == senders

\* The senders without that of main.
SendersLeft == senders \ {"main"}

\* A mutated form: main does not wait for the log.
DropLogAndReturn ==
  /\ stage = "drop"
  /\ senders' = SendersLeft
  /\ stage' = "returned"
  /\ UNCHANGED <<channelVars, waitVars, signalled, controller, http, events>>

\* Main drops its sender, and looks whether there is a log worker to wait for.
DropLog ==
  /\ stage = "drop"
  /\ senders' = SendersLeft
  /\ IF Alive THEN stage' = "wait_log" /\ left' = Grace
     ELSE stage' = "returned" /\ UNCHANGED left
  /\ UNCHANGED <<channelVars, spent, joined, controller_done, signalled, controller, http,
                 events>>

EndLog ==
  /\ stage = "wait_log"
  /\ \/ ~ Alive /\ joined' = joined \cup {"log"} /\ UNCHANGED logVars
     \/ left = 0 /\ Stopped("aborted") /\ UNCHANGED <<senders, joined>>
  /\ stage' = "returned"
  /\ UNCHANGED <<left, spent, signalled, controller, http, controller_done, events>>

Main ==
  \/ "main" \in counting /\ Count("main") /\ UNCHANGED ownVars
  \/ BootWarning \/ StartHttp \/ BindFails \/ StartController \/ Select \/ Announce
  \/ EndController \/ CheckHttp \/ EndHttp \/ DropLog \/ EndLog

----------------------------------------------------------------------------
(* The tasks, and time.                                                    *)

\* Time passes while what main waits for is not there; the log worker needs none of it
\* to find that it is done.
Tick ==
  /\ left > 0 /\ "main" \notin counting
  /\ \/ stage = "controller" /\ ~ controller_done /\ controller # "ended"
     \/ stage = "wait_http" /\ http # "ended"
     \/ stage = "wait_log" /\ Alive /\ ~ Drained
  /\ left' = left - 1
  /\ spent' = spent + 1
  /\ UNCHANGED <<logVars, stage, joined, controller_done, signalled, controller, http, events>>

Signal ==
  /\ stage = "select" /\ ~ signalled
  /\ signalled' = TRUE
  /\ UNCHANGED <<logVars, stage, waitVars, controller, http, events>>

\* Any of the tasks logs.
TaskEmits(h) ==
  /\ h # "main" /\ Free(h) /\ events < MaxEvents
  /\ Emitted(h)
  /\ UNCHANGED <<senders, stage, waitVars, signalled, controller, http>>

TaskCounts(h) == h # "main" /\ Count(h) /\ UNCHANGED ownVars

\* It was told to stop, or aborted, or it fails.
ControllerEnds ==
  /\ controller \in {"running", "aborting"} /\ Free("controller")
  /\ controller' = "ended"
  /\ senders' = senders \ {"controller"}
  /\ UNCHANGED <<channelVars, stage, waitVars, signalled, http, events>>

HttpDrains ==
  /\ Stop /\ http = "running"
  /\ http' = "draining"
  /\ UNCHANGED <<logVars, stage, waitVars, signalled, controller, events>>

\* A graceful shutdown waits for the connections; an abort or a failure does not.
HttpEnds ==
  /\ http \in {"running", "draining", "aborting"}
  /\ http = "draining" => senders \cap Connection = {}
  /\ http' = "ended"
  /\ senders' = senders \ {"http"}
  /\ UNCHANGED <<channelVars, stage, waitVars, signalled, controller, events>>

Accept(r) ==
  /\ http = "running" /\ r \notin senders
  /\ senders' = senders \cup {r}
  /\ UNCHANGED <<channelVars, ownVars>>

Close(r) ==
  /\ Free(r)
  /\ senders' = senders \ {r}
  /\ UNCHANGED <<channelVars, ownVars>>

Tasks ==
  \/ Signal \/ ControllerEnds \/ HttpDrains \/ HttpEnds
  \/ \E h \in Holder : TaskEmits(h) \/ TaskCounts(h)
  \/ \E r \in Connection : Accept(r) \/ Close(r)
  \/ Work /\ UNCHANGED ownVars

Next == ~ Exited /\ (Main \/ Tick \/ Tasks)

\* Main is scheduled, its clock runs, and the log worker goes on between two deliveries.
\* Nothing is assumed of the sinks, the controller, the server or the connections.
Fairness ==
  /\ WF_vars(~ Exited /\ Main)
  /\ WF_vars(~ Exited /\ Tick)
  /\ WF_vars(~ Exited /\ (Receive \/ End) /\ UNCHANGED ownVars)

SafeSpec == Init /\ [][Next]_vars

Spec == SafeSpec /\ Fairness

----------------------------------------------------------------------------
\* The type invariant.
TypeOK ==
  /\ LogTypeOK
  /\ stage \in {"boot", "start", "select", "announce", "controller", "http", "wait_http",
                "drop", "wait_log", "returned", "failed"}
  /\ left \in 0 .. Grace /\ spent \in Nat /\ events \in Nat
  /\ signalled \in BOOLEAN /\ controller_done \in BOOLEAN
  /\ controller \in Task /\ http \in Task
  /\ joined \subseteq {"controller", "http", "log"}

\* A join handle that has yielded its result is not waited for again, which would panic.
WaitsOnlyOnOpen ==
  /\ stage = "controller" /\ ~ controller_done => "controller" \notin joined
  /\ stage = "wait_http" => "http" \notin joined
  /\ stage = "wait_log" => "log" \notin joined

\* "Shutdown drains accepted log work for up to five seconds" (README.md:177): unless the
\* worker went down or was aborted, everything that was accepted is delivered.
DrainsAccepted ==
  stage = "returned" => \/ worker \in {"panicked", "aborted"}
                        \/ worker = "ended" /\ queued = 0

\* Somebody other than main keeps the log worker from ending.
KeptBusy ==
  \/ worker # "idle" \/ queued > 0 \/ senders \cap Connection # {}
  \/ controller \in {"running", "aborting"}
  \/ http \in {"running", "draining", "aborting"}

\* Main does not wait for a log worker that waits for main to drop its sender, or for a
\* sender that nobody has.
WaitsOnlyForOthers == [][stage = "wait_log" /\ spent' # spent => KeptBusy]_vars

SomethingEnded ==
  stage = "select" /\ (signalled \/ "ended" \in {controller, http} \/ ~ Alive)

\* The end of any task, or a signal, ends the service, also when the other tasks, the
\* connections and the sinks hang.
EndsAreFollowed == SomethingEnded ~> stage = "returned"

\* Overflow is reported while there is a backlog, if the sinks do not hang for ever.
DropsReported ==
  ([]<> (worker \notin {"delivering", "reporting"}))
    => (dropped > 0 /\ queued > 0 ~> dropped = 0 \/ ~ Alive \/ Exited)

=============================================================================
