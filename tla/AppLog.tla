------------------------------- MODULE AppLog -------------------------------
(***************************************************************************)
(* The queue of application events and the task that delivers them         *)
(* (src/app_log.rs, AppLog).  Whoever holds a clone of the sender offers   *)
(* events without waiting; what does not fit is counted, and the worker    *)
(* takes the count after its next delivery and reports it on a console.    *)
(*                                                                         *)
(* The actions leave senders to the service that composes them: clones     *)
(* come and go with the tasks that own them.                               *)
(***************************************************************************)
EXTENDS Naturals, FiniteSets

CONSTANTS
  Holder,            \* of a clone of the sender
  Capacity           \* of the channel

ASSUME AppLogAssumption == Capacity \in Nat \ {0}

VARIABLES
  senders,           \* the holders whose clone is not dropped yet
  queued,            \* the number of events in the channel
  worker,            \* what the worker does
  dropped,           \* the shared count of refused events
  taken,             \* the count the worker took last and has not reported
  counting,          \* the holders that were refused and have not counted it yet
  refused,           \* history: the events that did not fit
  reported           \* history: how many of them the console was told

channelVars == <<queued, worker, dropped, taken, counting, refused, reported>>

logVars == <<senders, channelVars>>

Finished == {"ended", "panicked", "aborted"}

Alive == worker \notin Finished

LogTypeOK ==
  /\ senders \subseteq Holder
  /\ queued \in 0 .. Capacity
  /\ worker \in {"idle", "delivering", "reporting"} \cup Finished
  /\ dropped \in Nat /\ taken \in Nat /\ refused \in Nat /\ reported \in Nat
  /\ counting \subseteq Holder

LogInit ==
  /\ queued = 0 /\ worker = "idle"
  /\ dropped = 0 /\ taken = 0
  /\ counting = {}
  /\ refused = 0 /\ reported = 0

----------------------------------------------------------------------------
\* try_send fails when the channel is full or its receiver is gone.
Room == Alive /\ queued < Capacity

\* The first half of emit: an event is accepted, or refused and not yet counted.
Offered(h) ==
  /\ IF Room
     THEN /\ queued' = queued + 1
          /\ UNCHANGED <<counting, refused>>
     ELSE /\ counting' = counting \cup {h}
          /\ refused' = refused + 1
          /\ UNCHANGED queued
  /\ UNCHANGED <<worker, dropped, taken, reported>>

\* The second half; the holder does nothing else before.
Count(h) ==
  /\ h \in counting
  /\ dropped' = dropped + 1
  /\ counting' = counting \ {h}
  /\ UNCHANGED <<senders, queued, worker, taken, refused, reported>>

Receive ==
  /\ worker = "idle" /\ queued > 0
  /\ queued' = queued - 1
  /\ worker' = "delivering"
  /\ UNCHANGED <<senders, dropped, taken, counting, refused, reported>>

\* A mutated form: the count is taken and not reset.
DeliverKept ==
  /\ worker = "delivering"
  /\ taken' = dropped
  /\ \E failures \in BOOLEAN :
       worker' = IF failures \/ dropped > 0 THEN "reporting" ELSE "idle"
  /\ UNCHANGED <<senders, queued, dropped, counting, refused, reported>>

\* A mutated form: the count is looked at when a sink has failed only.
DeliverOnFailure ==
  /\ worker = "delivering"
  /\ \/ /\ worker' = "reporting" /\ taken' = dropped /\ dropped' = 0
     \/ /\ worker' = "idle" /\ UNCHANGED <<taken, dropped>>
  /\ UNCHANGED <<senders, queued, counting, refused, reported>>

\* The event has been offered to the sinks, some of which may have failed.
Deliver ==
  /\ worker = "delivering"
  /\ taken' = dropped
  /\ dropped' = 0
  /\ \E failures \in BOOLEAN :
       worker' = IF failures \/ dropped > 0 THEN "reporting" ELSE "idle"
  /\ UNCHANGED <<senders, queued, counting, refused, reported>>

\* LOG_DELIVERY_DEGRADED on the console.
Report ==
  /\ worker = "reporting"
  /\ reported' = reported + taken
  /\ taken' = 0
  /\ worker' = "idle"
  /\ UNCHANGED <<senders, queued, dropped, counting, refused>>

\* Nobody holds a sender and the channel is empty: recv yields None.
Drained == worker = "idle" /\ queued = 0 /\ senders = {}

End ==
  /\ Drained
  /\ worker' = "ended"
  /\ UNCHANGED <<senders, queued, dropped, taken, counting, refused, reported>>

\* The task goes down, and what is queued with its receiver.
Stopped(how) ==
  /\ Alive
  /\ worker' = how
  /\ queued' = 0
  /\ UNCHANGED <<dropped, taken, counting, refused, reported>>

Panic == Stopped("panicked") /\ UNCHANGED senders

Work == Receive \/ Deliver \/ Report \/ End \/ Panic

----------------------------------------------------------------------------
\* "Overflow and sink failures are reported" (README.md:177): each refused event is
\* about to be counted, counted, about to be reported, or was reported, once; the
\* senders count while the worker takes the count.
DropsAccounted == refused = Cardinality(counting) + dropped + taken + reported

=============================================================================
