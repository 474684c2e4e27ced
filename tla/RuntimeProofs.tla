---------------------------- MODULE RuntimeProofs ----------------------------
(***************************************************************************)
(* Proofs about Runtime, for every capacity of its queues, every period,   *)
(* timeout and back-off the configuration check lets through, and every    *)
(* length of a tick: what the engine takes for its connection is the       *)
(* session's, deaf sessions and stuck publications are given up in time,   *)
(* nothing else is, and readiness is reported only of a session there is.  *)
(*                                                                         *)
(* The invariant says what the loop and the worker know of one another     *)
(* although they share only a queue of events and a count.                 *)
(***************************************************************************)
EXTENDS Runtime, SequenceTheorems, TLAPS

\* A publication that is still in the client's requests.
Publications(s) ==
  IF s.requests # <<>> /\ s.requests[1].kind = "subscribe" THEN 0 ELSE Len(s.requests)

\* An event tells no more than what has happened to the connection.
Honest(e, s) ==
  /\ e.kind = "connack" => s.net # "down"
  /\ e.kind = "suback" /\ e.granted => s.net = "subscribed"

\* So do all that are under way.
EventInv ==
  session # None =>
    /\ session.worker = "sending" => session.event \in Event /\ Honest(session.event, session)
    /\ \A i \in 1 .. Len(session.queue) : Honest(session.queue[i], session)

\* The client is asked to subscribe once, before anything else, on a fresh connection.
SubscribeInv ==
  session # None =>
    /\ ~ loop.subscription_sent =>
         session.requests = <<>> /\ session.net \in {"down", "up"}
    /\ \A i \in 1 .. Len(session.requests) :
         session.requests[i].kind = "subscribe" =>
           Len(session.requests) = 1 /\ session.net \in {"down", "up"}

AskedInv ==
  /\ asked # None <=> session # None /\ loop.subscription_sent
  /\ asked # None => asked = loop.sub_started

\* What was accepted is still there or has been dispatched.
CountInv ==
  /\ control # "tick" => loop.accepted_now = 0
  /\ session # None =>
       Publications(session) + session.dispatched = loop.accepted_count + loop.accepted_now

\* The wait for publications began before any of those that are still there, but for
\* those of this very tick.
PendingInv ==
  session # None =>
    \A i \in 1 .. Len(session.requests) :
      session.requests[i].kind = "publish" =>
        \/ loop.dispatch_pending # None /\ loop.dispatch_pending <= session.requests[i].at
        \/ control = "tick" /\ loop.accepted_now > 0 /\ beat <= session.requests[i].at

\* A turn that goes on to the tick has found nothing that waited too long.
PatienceInv ==
  control = "tick" =>
    /\ loop.dispatch_pending # None => beat < loop.dispatch_pending + PublishTimeout
    /\ session # None /\ loop.subscription_sent /\ ~ Ready =>
         beat < loop.sub_started + PublishTimeout
    /\ connected => asked # None

\* How far the clock and the deadline may be from the beginning of the turn.
ClockInv ==
  /\ beat <= now
  /\ loop.dispatch_pending # None => loop.dispatch_pending <= beat
  /\ control = "tick" => now <= beat + MaxLag
  /\ control = "wait" => now <= LaterOf(wake, beat + MaxLag)
  /\ control # "tick" => wake <= beat + IdleCap

\* What was published last is still so while the loop waits, and not long past when it
\* goes on.
ServedInv ==
  served =>
    /\ control # "ended"
    /\ control = "wait" => Ready /\ wake <= beat + SessionWait
    /\ control = "turn" => now <= beat + LaterOf(SessionWait, MaxLag)

WaitingInv == control = "wait" /\ connected => asked # None

\* Nothing was to be dispatched in the turn that the wait for dispatch began in, at the
\* latest.
CalmInv ==
  /\ calm <= beat
  /\ session # None /\ loop.dispatch_pending # None => calm <= loop.dispatch_pending

IInv ==
  /\ TypeOK /\ EventInv /\ SubscribeInv /\ AskedInv /\ CountInv /\ PendingInv
  /\ PatienceInv /\ ClockInv /\ ServedInv /\ WaitingInv /\ CalmInv /\ ReadyIsThisSession

----------------------------------------------------------------------------
(* What the operators do to the local variables of the loop.               *)

LEMMA Numbers ==
  /\ QueueCap \in Nat /\ QueueCap > 0 /\ RequestCap \in Nat /\ RequestCap > 0
  /\ SessionWait \in Nat /\ SessionWait > 0 /\ Beat \in Nat /\ Beat > 0
  /\ Stall \in Nat /\ Stall > 0 /\ PublishTimeout \in Nat /\ PublishTimeout > 0
  /\ BackoffInitial \in Nat /\ BackoffInitial > 0
  /\ IdleCap \in Nat /\ BackoffMax \in Nat /\ MaxLag \in Nat
  /\ IdleCap >= SessionWait /\ BackoffMax >= BackoffInitial /\ Stall >= IdleCap
BY RuntimeAssumption

LEMMA StartedLoop ==
  ASSUME NEW l \in Loop
  PROVE  LET g == Started(l)
         IN  /\ g \in Loop
             /\ g.subscription_sent = FALSE /\ g.dispatch_pending = None
             /\ g.accepted_count = 0 /\ g.accepted_now = l.accepted_now
             /\ g.sub_started = l.sub_started
BY DEF Started, Loop, OptTime

LEMMA AskedLoop ==
  ASSUME NEW l \in Loop, now \in Nat
  PROVE  LET g == Asked(l)
         IN  /\ g \in Loop
             /\ g.subscription_sent = TRUE /\ g.sub_started = now
             /\ g.dispatch_pending = l.dispatch_pending
             /\ g.accepted_count = l.accepted_count /\ g.accepted_now = l.accepted_now
BY DEF Asked, Loop

LEMMA ClearedLoop ==
  ASSUME NEW l \in Loop, NEW s
  PROVE  LET g == Cleared(l, s)
         IN  /\ g \in Loop
             /\ g.subscription_sent = l.subscription_sent /\ g.sub_started = l.sub_started
             /\ g.accepted_count = l.accepted_count /\ g.accepted_now = l.accepted_now
             /\ \/ g = l /\ (s # None => ~ (s.dispatched >= l.accepted_count))
                \/ g.dispatch_pending = None /\ s # None /\ s.dispatched >= l.accepted_count
BY DEF Cleared, Loop, OptTime

LEMMA BackedLoop ==
  ASSUME NEW l \in Loop, now \in Nat
  PROVE  LET g == Backed(l)
         IN  /\ g \in Loop
             /\ g.subscription_sent = l.subscription_sent /\ g.sub_started = l.sub_started
             /\ g.dispatch_pending = l.dispatch_pending
             /\ g.accepted_count = l.accepted_count /\ g.accepted_now = l.accepted_now
<1> DEFINE h == [l EXCEPT !.retry_at = now + l.backoff]
           b == SoonerOf(2 * l.backoff, BackoffMax)
<1>1. l.backoff \in BackoffInitial .. BackoffMax /\ now + l.backoff \in Nat
  BY Numbers DEF Loop
<1>2. h \in Loop /\ b \in BackoffInitial .. BackoffMax
  BY <1>1, Numbers DEF Loop, SoonerOf
<1>3. Backed(l) = [h EXCEPT !.backoff = b]
  BY DEF Backed
<1> HIDE DEF b
<1> QED BY <1>2, <1>3 DEF Loop

LEMMA GivenUpLoop ==
  ASSUME NEW l \in Loop, now \in Nat
  PROVE  LET g == GivenUp(l)
         IN  /\ g \in Loop
             /\ g.subscription_sent = FALSE /\ g.dispatch_pending = None
             /\ g.accepted_count = l.accepted_count /\ g.accepted_now = l.accepted_now
<1>1. Backed(l) \in Loop /\ Backed(l).accepted_count = l.accepted_count
        /\ Backed(l).accepted_now = l.accepted_now
  BY BackedLoop
<1> QED BY <1>1 DEF GivenUp, Loop, OptTime

LEMMA CountedLoop ==
  ASSUME NEW l \in Loop, beat \in Nat
  PROVE  LET g == [Counted(l) EXCEPT !.accepted_now = 0]
         IN  /\ g \in Loop
             /\ g.subscription_sent = l.subscription_sent /\ g.sub_started = l.sub_started
             /\ g.accepted_count = l.accepted_count + l.accepted_now /\ g.accepted_now = 0
             /\ g.dispatch_pending = IF l.accepted_now > 0 /\ l.dispatch_pending = None
                                     THEN beat ELSE l.dispatch_pending
<1> DEFINE p == IF l.dispatch_pending = None THEN beat ELSE l.dispatch_pending
           h == [l EXCEPT !.accepted_count = l.accepted_count + l.accepted_now]
<1>1. l.accepted_now \in Nat /\ l.accepted_count \in Nat /\ p \in OptTime
  BY DEF Loop, OptTime
<1>2. CASE l.accepted_now = 0
  <2>1. Counted(l) = l /\ l.accepted_count + l.accepted_now = l.accepted_count
    BY <1>1, <1>2 DEF Counted
  <2> QED BY <1>2, <2>1 DEF Loop
<1>3. CASE l.accepted_now # 0
  <2>1. h \in Loop
    BY <1>1 DEF Loop
  <2>2. Counted(l) = [h EXCEPT !.dispatch_pending = p]
    BY <1>3 DEF Counted, Loop
  <2> HIDE DEF p
  <2>3. Counted(l) \in Loop /\ Counted(l).dispatch_pending = p
          /\ Counted(l).accepted_count = l.accepted_count + l.accepted_now
          /\ Counted(l).subscription_sent = l.subscription_sent
          /\ Counted(l).sub_started = l.sub_started
    BY <1>1, <2>1, <2>2 DEF Loop
  <2> DEFINE k == Counted(l)
  <2> HIDE DEF k
  <2>4. [k EXCEPT !.accepted_now = 0] \in Loop /\ [k EXCEPT !.accepted_now = 0].dispatch_pending = p
          /\ [k EXCEPT !.accepted_now = 0].accepted_now = 0
          /\ [k EXCEPT !.accepted_now = 0].accepted_count = l.accepted_count + l.accepted_now
          /\ [k EXCEPT !.accepted_now = 0].subscription_sent = l.subscription_sent
          /\ [k EXCEPT !.accepted_now = 0].sub_started = l.sub_started
    BY <2>3 DEF Loop, k
  <2>5. l.accepted_now > 0
    BY <1>1, <1>3
  <2> QED BY <2>4, <2>5 DEF p, k
<1> QED BY <1>2, <1>3

----------------------------------------------------------------------------
(* What the steps do to the session.                                       *)

LEMMA EventKinds ==
  /\ [kind |-> "connack"] \in Event /\ [kind |-> "message"] \in Event
  /\ [kind |-> "error"] \in Event
  /\ \A r \in Request : [kind |-> r.kind] \in Event
  /\ \A g \in BOOLEAN : [kind |-> "suback", granted |-> g] \in Event
BY DEF Event, Request

LEMMA NewSessionIs ==
  ASSUME now \in Nat
  PROVE  /\ NewSession \in Session /\ NewSession # None
         /\ NewSession.worker = "polling" /\ NewSession.net = "down"
         /\ NewSession.queue = <<>> /\ NewSession.requests = <<>>
         /\ NewSession.dispatched = 0
<1>1. NewSession \in Session
  BY DEF NewSession, Session
<1> QED BY <1>1, SessionAssumption DEF NewSession

\* A request is added.
LEMMA Requested ==
  ASSUME NEW s \in Session, NEW r \in Request
  PROVE  LET g == [s EXCEPT !.requests = Append(@, r)]
         IN  /\ g \in Session /\ g # None
             /\ g.worker = s.worker /\ g.event = s.event /\ g.queue = s.queue
             /\ g.net = s.net /\ g.dispatched = s.dispatched
             /\ g.requests # <<>> /\ Len(g.requests) = Len(s.requests) + 1
             /\ \A i \in 1 .. Len(s.requests) : g.requests[i] = s.requests[i]
             /\ g.requests[Len(s.requests) + 1] = r
<1> DEFINE q == Append(s.requests, r)
           g == [s EXCEPT !.requests = q]
<1>1. /\ q \in Seq(Request) /\ q # <<>> /\ Len(q) = Len(s.requests) + 1
      /\ \A i \in 1 .. Len(s.requests) : q[i] = s.requests[i]
      /\ q[Len(s.requests) + 1] = r
  BY AppendProperties DEF Session
<1> HIDE DEF q
<1>2. g \in Session
  BY <1>1 DEF Session
<1>3. /\ g.worker = s.worker /\ g.event = s.event /\ g.queue = s.queue
      /\ g.net = s.net /\ g.dispatched = s.dispatched /\ g.requests = q
  BY DEF Session
<1> HIDE DEF g
<1> QED BY <1>1, <1>2, <1>3, SessionAssumption DEF g, q

\* An event is taken out of the queue.
LEMMA Taken ==
  ASSUME session \in Session, session.queue # <<>>
  PROVE  LET g == Dequeued
         IN  /\ g \in Session /\ g # None
             /\ g.worker = session.worker /\ g.event = session.event
             /\ g.net = session.net /\ g.dispatched = session.dispatched
             /\ g.requests = session.requests
             /\ Len(g.queue) = Len(session.queue) - 1
             /\ \A i \in 1 .. Len(g.queue) : g.queue[i] = session.queue[i + 1]
             /\ Head(session.queue) = session.queue[1]
             /\ Head(session.queue) \in Event /\ 1 \in 1 .. Len(session.queue)
<1> DEFINE q == Tail(session.queue)
           g == [session EXCEPT !.queue = q]
<1>1. /\ q \in Seq(Event) /\ Len(q) = Len(session.queue) - 1
      /\ \A i \in 1 .. Len(q) : q[i] = session.queue[i + 1]
      /\ Head(session.queue) = session.queue[1] /\ Head(session.queue) \in Event
  BY HeadTailProperties DEF Session
<1>2. 1 \in 1 .. Len(session.queue)
  BY DEF Session
<1> HIDE DEF q
<1>3. g \in Session
  BY <1>1 DEF Session
<1>4. /\ g.worker = session.worker /\ g.event = session.event
      /\ g.net = session.net /\ g.dispatched = session.dispatched
      /\ g.requests = session.requests /\ g.queue = q
  BY DEF Session
<1>5. Dequeued = g
  BY DEF Dequeued, q
<1> HIDE DEF g
<1> QED BY <1>1, <1>2, <1>3, <1>4, <1>5, SessionAssumption

\* The event loop has an event.
LEMMA Emitted ==
  ASSUME NEW s \in Session, NEW e \in Event, now \in Nat,
         Emit(e, s)
  PROVE  /\ session' \in Session /\ session' # None
         /\ session'.worker = "sending" /\ session'.event = e
         /\ session'.queue = s.queue /\ session'.requests = s.requests
         /\ session'.net = s.net
         /\ session'.dispatched = s.dispatched + IF e.kind = "publish" THEN 1 ELSE 0
<1> DEFINE n == s.dispatched + IF e.kind = "publish" THEN 1 ELSE 0
           g == [s EXCEPT !.worker = "sending", !.event = e, !.progress = now,
                          !.dispatched = n]
<1>1. n \in Nat
  BY DEF Session
<1>2. session' = g
  BY DEF Emit, Worker
<1> HIDE DEF n
<1>3. g \in Session
  BY <1>1 DEF Session
<1>4. /\ g.worker = "sending" /\ g.event = e /\ g.queue = s.queue /\ g.requests = s.requests
      /\ g.net = s.net /\ g.dispatched = n
  BY DEF Session
<1> HIDE DEF g
<1> QED BY <1>2, <1>3, <1>4, SessionAssumption DEF n
\* A dispatched request is taken out, and the network goes on.
LEMMA Unqueued ==
  ASSUME NEW s \in Session, s.requests # <<>>,
         NEW n \in {"down", "up", "subscribing", "subscribed", "refused"}
  PROVE  LET g == [s EXCEPT !.requests = Tail(@), !.net = n]
         IN  /\ g \in Session
             /\ g.queue = s.queue /\ g.net = n /\ g.dispatched = s.dispatched
             /\ g.requests \in Seq(Request) /\ Len(g.requests) = Len(s.requests) - 1
             /\ \A i \in 1 .. Len(g.requests) :
                  i + 1 \in 1 .. Len(s.requests) /\ g.requests[i] = s.requests[i + 1]
             /\ Head(s.requests) = s.requests[1] /\ s.requests[1] \in Request
             /\ 1 \in 1 .. Len(s.requests)
<1> DEFINE q == Tail(s.requests)
           g == [s EXCEPT !.requests = q, !.net = n]
<1>1. /\ q \in Seq(Request) /\ Len(q) = Len(s.requests) - 1
      /\ \A i \in 1 .. Len(q) : q[i] = s.requests[i + 1]
      /\ Head(s.requests) = s.requests[1] /\ Head(s.requests) \in Request
  BY HeadTailProperties DEF Session
<1>2. Len(s.requests) \in Nat /\ 1 \in 1 .. Len(s.requests)
  BY DEF Session
<1>3. \A i \in 1 .. Len(q) : i + 1 \in 1 .. Len(s.requests)
  BY <1>1, <1>2
<1> HIDE DEF q
<1>4. g \in Session
  BY <1>1 DEF Session
<1>5. g.queue = s.queue /\ g.net = n /\ g.dispatched = s.dispatched /\ g.requests = q
  BY DEF Session
<1> HIDE DEF g
<1> QED BY <1>1, <1>2, <1>3, <1>4, <1>5 DEF g, q

\* The event is handed over.
LEMMA Handed ==
  ASSUME session \in Session, session.event \in Event, Send
  PROVE  /\ session' \in Session /\ session' # None
         /\ session'.worker # "sending"
         /\ session'.net = session.net /\ session'.dispatched = session.dispatched
         /\ session'.requests = session.requests
         /\ Len(session'.queue) = Len(session.queue) + 1
         /\ \A i \in 1 .. Len(session.queue) : session'.queue[i] = session.queue[i]
         /\ session'.queue[Len(session.queue) + 1] = session.event
<1> DEFINE q == Append(session.queue, session.event)
           w == IF session.event.kind = "error" \/ ~ workers_ok THEN "done" ELSE "polling"
           g == [session EXCEPT !.queue = q, !.event = None, !.worker = w]
<1>1. /\ q \in Seq(Event) /\ Len(q) = Len(session.queue) + 1
      /\ \A i \in 1 .. Len(session.queue) : q[i] = session.queue[i]
      /\ q[Len(session.queue) + 1] = session.event
  BY AppendProperties DEF Session
<1>2. session' = g
  BY DEF Send, Worker
<1>3. w \in {"polling", "sending", "done"} /\ w # "sending"
  OBVIOUS
<1> HIDE DEF q, w
<1>4. g \in Session
  BY <1>1, <1>3 DEF Session
<1>5. /\ g.worker = w /\ g.queue = q /\ g.requests = session.requests
      /\ g.net = session.net /\ g.dispatched = session.dispatched
  BY DEF Session
<1> HIDE DEF g
<1> QED BY <1>1, <1>2, <1>3, <1>4, <1>5, SessionAssumption DEF q

\* The worker marks its progress, or ends.
LEMMA Progressed ==
  ASSUME session \in Session, now \in Nat, Progress
  PROVE  /\ session' \in Session /\ session' # None
         /\ session'.worker # "sending"
         /\ session'.net = session.net /\ session'.dispatched = session.dispatched
         /\ session'.requests = session.requests /\ session'.queue = session.queue
<1>1. session.worker = "polling"
  BY DEF Progress, Polls
<1>2. \/ session' = [session EXCEPT !.progress = now]
      \/ session' = [session EXCEPT !.worker = "done"]
  BY DEF Progress, Worker
<1>3. CASE session' = [session EXCEPT !.progress = now]
  BY <1>1, <1>3, SessionAssumption DEF Session
<1>4. CASE session' = [session EXCEPT !.worker = "done"]
  BY <1>4, SessionAssumption DEF Session
<1> QED BY <1>2, <1>3, <1>4

LEMMA PublicationsAre ==
  ASSUME NEW s \in Session
  PROVE  /\ Len(s.requests) \in Nat
         /\ Len(s.requests) = 0 <=> s.requests = <<>>
         /\ Len(s.requests) = 0 => Publications(s) = 0
         /\ Len(s.requests) > 0 =>
              Publications(s) = IF s.requests[1].kind = "subscribe" THEN 0 ELSE Len(s.requests)
<1>1. s.requests \in Seq(Request)
  BY DEF Session
<1>2. Len(s.requests) \in Nat /\ (Len(s.requests) = 0 <=> s.requests = <<>>)
  BY <1>1, EmptySeq
<1> QED BY <1>2 DEF Publications

----------------------------------------------------------------------------
(* The steps of the worker.                                                *)

WorkerKeeps ==
  UNCHANGED <<now, stopping, workers_ok, control, beat, wake, loop, engine, served, asked,
              calm>>

LEMMA WorkerStep ==
  ASSUME IInv, session # None, session' # None, session' \in Session, WorkerKeeps
  PROVE  /\ TypeOK' /\ AskedInv' /\ PatienceInv' /\ ClockInv' /\ ServedInv' /\ WaitingInv'
         /\ CalmInv'
<1>1. TypeOK'
  BY DEF IInv, TypeOK, WorkerKeeps, engine
<1>2. AskedInv'
  BY DEF IInv, AskedInv, WorkerKeeps
<1>3. PatienceInv' /\ WaitingInv'
  BY DEF IInv, PatienceInv, WaitingInv, WorkerKeeps, engine, Ready
<1>4. ClockInv'
  BY DEF IInv, ClockInv, WorkerKeeps
<1>5. ServedInv'
  BY DEF IInv, ServedInv, WorkerKeeps, engine, Ready
<1>6. CalmInv'
  BY DEF IInv, CalmInv, WorkerKeeps
<1> QED BY <1>1, <1>2, <1>3, <1>4, <1>5, <1>6

\* Steps that leave the requests alone and do not set the connection back.
LEMMA RequestsKept ==
  ASSUME IInv, session # None, session' # None, session' \in Session, WorkerKeeps,
         session'.requests = session.requests, session'.dispatched = session.dispatched,
         \/ session'.net = session.net
         \/ session.net = "down" /\ session'.net = "up"
         \/ session.net = "subscribing" /\ session'.net \in {"subscribed", "refused"}
  PROVE  SubscribeInv' /\ CountInv' /\ PendingInv' /\ ReadyIsThisSession'
<1>1. SubscribeInv'
  BY DEF IInv, SubscribeInv, WorkerKeeps
<1>2. CountInv'
  BY DEF IInv, CountInv, WorkerKeeps, Publications
<1>3. PendingInv'
  BY DEF IInv, PendingInv, WorkerKeeps
<1>4. ReadyIsThisSession'
  BY DEF IInv, ReadyIsThisSession, WorkerKeeps, engine, Ready
<1> QED BY <1>1, <1>2, <1>3, <1>4

LEMMA SendStep ==
  ASSUME IInv, Send
  PROVE  IInv' /\ session' # None
<1>1. session # None /\ session \in Session /\ session.worker = "sending" /\ WorkerKeeps
  BY DEF Send, Worker, IInv, TypeOK, WorkerKeeps, history
<1>2. session.event \in Event /\ Honest(session.event, session)
  BY <1>1 DEF IInv, EventInv
<1>3. /\ session' \in Session /\ session' # None
      /\ session'.worker # "sending"
      /\ session'.net = session.net /\ session'.dispatched = session.dispatched
      /\ session'.requests = session.requests
      /\ Len(session'.queue) = Len(session.queue) + 1
      /\ \A i \in 1 .. Len(session.queue) : session'.queue[i] = session.queue[i]
      /\ session'.queue[Len(session.queue) + 1] = session.event
  BY <1>1, <1>2, Handed
<1>4. EventInv'
  <2>1. ASSUME NEW i \in 1 .. Len(session'.queue)
        PROVE  Honest(session'.queue[i], session')
    <3>1. Len(session.queue) \in Nat
      BY <1>1 DEF Session
    <3>2. CASE i \in 1 .. Len(session.queue)
      BY <1>1, <1>3, <3>2 DEF IInv, EventInv, Honest
    <3>3. CASE i = Len(session.queue) + 1
      BY <1>2, <1>3, <3>3 DEF Honest
    <3> QED BY <1>3, <3>1, <3>2, <3>3
  <2> QED BY <1>3, <2>1 DEF EventInv
<1> QED BY <1>1, <1>3, <1>4, WorkerStep, RequestsKept DEF IInv

LEMMA ProgressStep ==
  ASSUME IInv, Progress
  PROVE  IInv' /\ session' # None
<1>1. session # None /\ session \in Session /\ now \in Nat /\ WorkerKeeps
  BY DEF Progress, Polls, Worker, IInv, TypeOK, WorkerKeeps, history
<1>2. /\ session' \in Session /\ session' # None
      /\ session'.worker # "sending"
      /\ session'.net = session.net /\ session'.dispatched = session.dispatched
      /\ session'.requests = session.requests /\ session'.queue = session.queue
  BY <1>1, Progressed
<1>3. EventInv'
  BY <1>1, <1>2 DEF IInv, EventInv, Honest
<1> QED BY <1>1, <1>2, <1>3, WorkerStep, RequestsKept DEF IInv

\* An event of the network, all of which are honest.
LEMMA NetworkEvent ==
  ASSUME IInv, session # None, NEW e \in Event, e.kind # "publish",
         NEW s \in Session, s.queue = session.queue, s.requests = session.requests,
         s.dispatched = session.dispatched,
         \/ s.net = session.net
         \/ session.net = "down" /\ s.net = "up"
         \/ session.net = "subscribing" /\ s.net \in {"subscribed", "refused"},
         Honest(e, s), Emit(e, s)
  PROVE  IInv' /\ session' # None
<1>1. session \in Session /\ now \in Nat /\ WorkerKeeps
  BY DEF Emit, Worker, IInv, TypeOK, WorkerKeeps, history
<1>2. /\ session' \in Session /\ session' # None
      /\ session'.worker = "sending" /\ session'.event = e
      /\ session'.queue = s.queue /\ session'.requests = s.requests
      /\ session'.net = s.net
      /\ session'.dispatched = s.dispatched + IF e.kind = "publish" THEN 1 ELSE 0
  BY <1>1, Emitted
<1>3. session'.dispatched = session.dispatched
  BY <1>1, <1>2 DEF Session
<1>4. EventInv'
  BY <1>1, <1>2 DEF IInv, EventInv, Honest
<1> QED BY <1>1, <1>2, <1>3, <1>4, WorkerStep, RequestsKept DEF IInv

LEMMA NetworkStep ==
  ASSUME IInv, Network
  PROVE  IInv' /\ session' # None
<1>1. session # None /\ session \in Session
  BY DEF Network, Polls, IInv, TypeOK
<1>2. CASE session.net = "down" /\ Emit([kind |-> "connack"], [session EXCEPT !.net = "up"])
  <2> DEFINE s == [session EXCEPT !.net = "up"]
  <2>1. /\ s \in Session /\ s.queue = session.queue /\ s.requests = session.requests
        /\ s.dispatched = session.dispatched /\ s.net = "up"
    BY <1>1 DEF Session
  <2>2. Emit([kind |-> "connack"], s)
    BY <1>2
  <2> HIDE DEF s
  <2>3. Honest([kind |-> "connack"], s)
    BY <2>1 DEF Honest
  <2> QED BY <1>1, <1>2, <2>1, <2>2, <2>3, EventKinds, NetworkEvent
<1>3. ASSUME NEW g \in BOOLEAN, session.net = "subscribing",
             Emit([kind |-> "suback", granted |-> g],
                  [session EXCEPT !.net = IF g THEN "subscribed" ELSE "refused"])
      PROVE  IInv' /\ session' # None
  <2> DEFINE n == IF g THEN "subscribed" ELSE "refused"
             s == [session EXCEPT !.net = n]
             e == [kind |-> "suback", granted |-> g]
  <2>1. n \in {"subscribed", "refused"} /\ (g => n = "subscribed")
    OBVIOUS
  <2>2. Emit(e, s)
    BY <1>3
  <2> HIDE DEF n
  <2>3. /\ s \in Session /\ s.queue = session.queue /\ s.requests = session.requests
        /\ s.dispatched = session.dispatched /\ s.net = n
    BY <1>1, <2>1 DEF Session
  <2>4. e \in Event /\ e.kind = "suback" /\ e.granted = g
    BY EventKinds
  <2> HIDE DEF s, e
  <2>5. Honest(e, s)
    BY <2>1, <2>3, <2>4 DEF Honest
  <2>6. e.kind # "publish"
    BY <2>4
  <2> QED BY <1>1, <1>3, <2>1, <2>2, <2>3, <2>4, <2>5, <2>6, NetworkEvent
<1>4. CASE Emit([kind |-> "message"], session)
  <2>1. Honest([kind |-> "message"], session)
    BY DEF Honest
  <2> QED BY <1>1, <1>4, <2>1, EventKinds, NetworkEvent
<1>5. CASE Emit([kind |-> "error"], session)
  <2>1. Honest([kind |-> "error"], session)
    BY DEF Honest
  <2> QED BY <1>1, <1>5, <2>1, EventKinds, NetworkEvent
<1> QED BY <1>2, <1>3, <1>4, <1>5 DEF Network

\* A dispatched subscription was the only request; a dispatched publication is counted.
LEMMA DispatchStep ==
  ASSUME IInv, Dispatch
  PROVE  IInv' /\ session' # None
<1> DEFINE r == Head(session.requests)
           n == IF r.kind = "subscribe" THEN "subscribing" ELSE session.net
           s == [session EXCEPT !.requests = Tail(@), !.net = n]
<1>1. /\ session # None /\ session \in Session /\ now \in Nat /\ session.net # "down"
      /\ session.requests # <<>> /\ loop \in Loop
  BY DEF Dispatch, Polls, IInv, TypeOK
<1>2. n \in {"down", "up", "subscribing", "subscribed", "refused"} /\ n # "down"
  BY <1>1 DEF Session
<1>3. Emit([kind |-> r.kind], s) /\ WorkerKeeps
  <2>1. Emit([kind |-> r.kind], s)
    BY ZenonT(30) DEF Dispatch
  <2> HIDE DEF r, s
  <2> QED BY <2>1 DEF Emit, Worker, WorkerKeeps, history
<1> HIDE DEF n
<1>4. /\ s \in Session
      /\ s.queue = session.queue /\ s.net = n /\ s.dispatched = session.dispatched
      /\ s.requests \in Seq(Request) /\ Len(s.requests) = Len(session.requests) - 1
      /\ \A i \in 1 .. Len(s.requests) :
           i + 1 \in 1 .. Len(session.requests) /\ s.requests[i] = session.requests[i + 1]
      /\ r = session.requests[1] /\ r \in Request /\ 1 \in 1 .. Len(session.requests)
  BY <1>1, <1>2, Unqueued
<1>5. [kind |-> r.kind] \in Event /\ [kind |-> r.kind].kind = r.kind
        /\ r.kind \in {"subscribe", "publish"}
  BY <1>4, EventKinds DEF Request
<1> HIDE DEF s, r
<1>6. /\ session' \in Session /\ session' # None
      /\ session'.worker = "sending" /\ session'.event = [kind |-> r.kind]
      /\ session'.queue = session.queue /\ session'.requests = s.requests
      /\ session'.net = n
      /\ session'.dispatched = session.dispatched + IF r.kind = "publish" THEN 1 ELSE 0
  BY <1>1, <1>3, <1>4, <1>5, Emitted
\* What is known of the requests.
<1>7. r.kind = "subscribe" =>
        Len(session.requests) = 1 /\ session.net \in {"down", "up"}
  BY <1>1, <1>4 DEF IInv, SubscribeInv
<1>8. loop.subscription_sent
  BY <1>1 DEF IInv, SubscribeInv
<1>9. session.net = "subscribed" => n = "subscribed"
  BY <1>7 DEF n
<1>10. \A i \in 1 .. Len(s.requests) : s.requests[i].kind # "subscribe"
  <2> SUFFICES ASSUME NEW i \in 1 .. Len(s.requests), s.requests[i].kind = "subscribe"
               PROVE  FALSE
    OBVIOUS
  <2>1. Len(session.requests) = 1
    BY <1>1, <1>4 DEF IInv, SubscribeInv
  <2> QED BY <1>4, <2>1
<1>11. EventInv'
  BY <1>1, <1>2, <1>5, <1>6, <1>9 DEF IInv, EventInv, Honest
<1>12. SubscribeInv'
  BY <1>3, <1>6, <1>8, <1>10 DEF SubscribeInv, WorkerKeeps
<1>13. CountInv'
  <2>1. /\ Len(session.requests) \in Nat /\ Len(session.requests) > 0
        /\ Publications(session) = IF r.kind = "subscribe" THEN 0 ELSE Len(session.requests)
    BY <1>1, <1>4, PublicationsAre
  <2>2. /\ Len(s.requests) = 0 => Publications(s) = 0
        /\ Len(s.requests) > 0 => Publications(s) = Len(s.requests)
        /\ Len(s.requests) \in Nat
    <3>1. Len(s.requests) > 0 => s.requests[1].kind # "subscribe"
      BY <1>10
    <3> QED BY <1>4, <3>1, PublicationsAre
  <2>3. Publications(session') = Publications(s)
    BY <1>6 DEF Publications
  <2>4. /\ session.dispatched \in Nat /\ loop.accepted_count \in Nat /\ loop.accepted_now \in Nat
    BY <1>1 DEF Session, Loop
  <2>5. Publications(session) + session.dispatched = loop.accepted_count + loop.accepted_now
    BY <1>1 DEF IInv, CountInv
  <2>6. Publications(session') + session'.dispatched = loop.accepted_count + loop.accepted_now
    <3>1. CASE r.kind = "subscribe"
      BY <1>4, <1>6, <1>7, <2>1, <2>2, <2>3, <2>4, <2>5, <3>1
    <3>2. CASE r.kind = "publish"
      <4>1. /\ Len(s.requests) = Len(session.requests) - 1
            /\ session'.dispatched = session.dispatched + 1
            /\ Publications(session) = Len(session.requests)
        BY <1>4, <1>6, <2>1, <3>2
      <4>2. Publications(s) = Len(s.requests)
        BY <2>2
      <4>3. Publications(session') + session'.dispatched
              = (Len(session.requests) - 1) + (session.dispatched + 1)
        BY <2>3, <4>1, <4>2
      <4>4. Len(session.requests) + session.dispatched = loop.accepted_count + loop.accepted_now
        BY <2>5, <4>1
      <4>5. (Len(session.requests) - 1) + (session.dispatched + 1)
              = loop.accepted_count + loop.accepted_now
        <5> DEFINE k == Len(session.requests)
                   d == session.dispatched
                   c == loop.accepted_count
                   a == loop.accepted_now
        <5>1. k \in Nat /\ d \in Nat /\ k + d = c + a
          BY <2>1, <2>4, <4>4
        <5> HIDE DEF k, d, c, a
        <5>2. (k - 1) + (d + 1) = c + a
          BY <5>1
        <5> QED BY <5>2 DEF k, d, c, a
      <4> QED BY <4>3, <4>5
    <3> QED BY <1>5, <3>1, <3>2
  <2> QED BY <1>3, <2>6 DEF IInv, CountInv, WorkerKeeps
<1>14. PendingInv'
  BY <1>1, <1>3, <1>4, <1>6 DEF IInv, PendingInv, WorkerKeeps
<1>15. ReadyIsThisSession'
  BY <1>1, <1>2, <1>3, <1>6, <1>9 DEF IInv, ReadyIsThisSession, WorkerKeeps, engine, Ready
<1> QED BY <1>1, <1>3, <1>6, <1>11, <1>12, <1>13, <1>14, <1>15, WorkerStep DEF IInv

----------------------------------------------------------------------------
(* The steps of the loop.                                                  *)

\* The end leaves nothing to speak of.
LEMMA EndStep ==
  ASSUME IInv, End, control # "tick"
  PROVE  IInv'
<1>1. /\ control' = "ended" /\ session' = None /\ workers_ok' = FALSE /\ served' = FALSE
      /\ asked' = None /\ loop' = loop /\ now' = now /\ beat' = beat /\ wake' = wake
      /\ connected' = connected /\ granted' = granted /\ stopping' = stopping
      /\ calm' = calm
  BY DEF End, engine
<1>2. TypeOK'
  <2>1. {now, beat, wake} \subseteq Nat /\ {stopping, workers_ok, connected, granted, served} \subseteq BOOLEAN
          /\ loop \in Loop /\ calm \in Nat
    BY DEF IInv, TypeOK
  <2>2. {stopping, FALSE, connected, granted} \subseteq BOOLEAN
    BY <2>1
  <2> QED BY <1>1, <2>1, <2>2 DEF TypeOK, OptTime
<1>3. EventInv' /\ SubscribeInv' /\ AskedInv' /\ CountInv' /\ PendingInv'
  BY <1>1 DEF IInv, EventInv, SubscribeInv, AskedInv, CountInv, PendingInv
<1>4. PatienceInv' /\ ServedInv' /\ WaitingInv' /\ ReadyIsThisSession'
  BY <1>1 DEF PatienceInv, ServedInv, WaitingInv, ReadyIsThisSession
<1>5. ClockInv' /\ CalmInv'
  BY <1>1 DEF IInv, ClockInv, CalmInv
<1> QED BY <1>2, <1>3, <1>4, <1>5 DEF IInv

LEMMA SubmitStep ==
  ASSUME IInv, Submit
  PROVE  IInv'
<1> DEFINE r == [kind |-> "publish", at |-> now]
<1>1. /\ control = "tick" /\ Ready /\ session # None /\ session \in Session
      /\ now \in Nat /\ beat \in Nat /\ loop \in Loop /\ beat <= now
      /\ control' = control /\ connected' = connected /\ granted' = granted
      /\ now' = now /\ beat' = beat /\ wake' = wake /\ served' = served /\ asked' = asked
      /\ stopping' = stopping /\ workers_ok' = workers_ok /\ calm' = calm
  BY DEF Submit, IInv, TypeOK, ClockInv, engine, history
<1>2. r \in Request /\ r.kind = "publish" /\ r.at = now
  BY <1>1 DEF Request
<1>3. session' = [session EXCEPT !.requests = Append(@, r)]
  BY DEF Submit
<1> HIDE DEF r
<1>4. /\ session' \in Session /\ session' # None
      /\ session'.worker = session.worker /\ session'.event = session.event
      /\ session'.queue = session.queue
      /\ session'.net = session.net /\ session'.dispatched = session.dispatched
      /\ session'.requests # <<>> /\ Len(session'.requests) = Len(session.requests) + 1
      /\ \A i \in 1 .. Len(session.requests) : session'.requests[i] = session.requests[i]
      /\ session'.requests[Len(session.requests) + 1] = r
  BY <1>1, <1>2, <1>3, Requested
<1>5. /\ loop' \in Loop /\ loop'.accepted_now = loop.accepted_now + 1
      /\ loop'.accepted_count = loop.accepted_count
      /\ loop'.subscription_sent = loop.subscription_sent
      /\ loop'.sub_started = loop.sub_started
      /\ loop'.dispatch_pending = loop.dispatch_pending
  BY <1>1 DEF Submit, Loop
<1>6. Len(session.requests) \in Nat
  BY <1>1, PublicationsAre
\* Whoever is ready has subscribed, so there are only publications.
<1>7. session.net = "subscribed"
  BY <1>1 DEF IInv, ReadyIsThisSession
<1>8. loop.subscription_sent
        /\ \A i \in 1 .. Len(session.requests) : session.requests[i].kind # "subscribe"
  BY <1>1, <1>7 DEF IInv, SubscribeInv
<1>9. \A i \in 1 .. Len(session'.requests) :
        i \in 1 .. Len(session.requests) \/ i = Len(session.requests) + 1
  BY <1>4, <1>6
<1>10. \A i \in 1 .. Len(session'.requests) : session'.requests[i].kind # "subscribe"
  BY <1>2, <1>4, <1>8, <1>9
<1>11. TypeOK'
  BY <1>1, <1>4, <1>5 DEF IInv, TypeOK
<1>12. EventInv'
  BY <1>1, <1>4 DEF IInv, EventInv, Honest
<1>13. SubscribeInv'
  BY <1>5, <1>8, <1>10 DEF SubscribeInv
<1>14. AskedInv'
  BY <1>1, <1>4, <1>5 DEF IInv, AskedInv
<1>15. CountInv'
  <2>1. Publications(session) = Len(session.requests)
    BY <1>1, <1>6, <1>8, PublicationsAre
  <2>2. Publications(session') = Len(session.requests) + 1
    <3>1. 1 \in 1 .. Len(session'.requests) /\ Len(session'.requests) > 0
      BY <1>4, <1>6
    <3> QED BY <1>4, <1>10, <3>1, PublicationsAre
  <2>3. /\ session.dispatched \in Nat /\ loop.accepted_count \in Nat /\ loop.accepted_now \in Nat
    BY <1>1 DEF Session, Loop
  <2>4. Publications(session) + session.dispatched = loop.accepted_count + loop.accepted_now
    BY <1>1 DEF IInv, CountInv
  <2>5. session'.dispatched = session.dispatched /\ control' = "tick"
    BY <1>1, <1>4
  <2>6. Publications(session') + session'.dispatched = loop'.accepted_count + loop'.accepted_now
    <3>1. Publications(session') + session'.dispatched
            = (Len(session.requests) + 1) + session.dispatched
      BY <2>2, <2>5
    <3>2. Len(session.requests) + session.dispatched = loop.accepted_count + loop.accepted_now
      BY <2>1, <2>4
    <3>3. (Len(session.requests) + 1) + session.dispatched
            = loop.accepted_count + (loop.accepted_now + 1)
      <4> DEFINE k == Len(session.requests)
                 d == session.dispatched
                 c == loop.accepted_count
                 a == loop.accepted_now
      <4>1. k \in Nat /\ d \in Nat /\ c \in Nat /\ a \in Nat /\ k + d = c + a
        BY <1>6, <2>3, <3>2
      <4> HIDE DEF k, d, c, a
      <4>2. (k + 1) + d = c + (a + 1)
        BY <4>1
      <4> QED BY <4>2 DEF k, d, c, a
    <3>4. loop'.accepted_count + loop'.accepted_now
            = loop.accepted_count + (loop.accepted_now + 1)
      BY <1>5
    <3> QED BY <3>1, <3>3, <3>4
  <2> QED BY <2>5, <2>6 DEF CountInv
<1>16. PendingInv'
  <2>1. loop.accepted_now \in Nat
    BY <1>1 DEF Loop
  <2>2. ASSUME NEW i \in 1 .. Len(session.requests), session.requests[i].kind = "publish"
        PROVE  \/ /\ loop'.dispatch_pending # None
                  /\ loop'.dispatch_pending <= session.requests[i].at
               \/ loop'.accepted_now > 0 /\ beat <= session.requests[i].at
    BY <1>1, <1>5, <2>1, <2>2 DEF IInv, PendingInv
  <2>3. loop'.accepted_now > 0
    BY <1>5, <2>1
  <2> QED BY <1>1, <1>2, <1>4, <1>9, <2>2, <2>3 DEF PendingInv
<1>17. PatienceInv' /\ WaitingInv'
  BY <1>1, <1>5 DEF IInv, PatienceInv, WaitingInv, Ready
<1>18. ClockInv' /\ ServedInv' /\ ReadyIsThisSession'
  BY <1>1, <1>4, <1>5, <1>7 DEF IInv, ClockInv, ServedInv, ReadyIsThisSession, Ready
<1>19. CalmInv'
  BY <1>1, <1>5 DEF IInv, CalmInv
<1> QED BY <1>11, <1>12, <1>13, <1>14, <1>15, <1>16, <1>17, <1>18, <1>19 DEF IInv

LEMMA WaitStep ==
  ASSUME IInv, Wait
  PROVE  IInv'
<1>1. /\ control = "tick" /\ control' = "wait" /\ session' = session
      /\ now \in Nat /\ beat \in Nat /\ loop \in Loop
      /\ connected' = connected /\ granted' = granted /\ served' = Ready
      /\ now' = now /\ beat' = beat /\ asked' = asked
      /\ stopping' = stopping /\ workers_ok' = workers_ok /\ calm' = calm
      /\ session \in Session \cup {None}
  BY DEF Wait, IInv, TypeOK, engine, history, Published
<1>2. /\ loop' \in Loop
      /\ loop'.subscription_sent = loop.subscription_sent
      /\ loop'.sub_started = loop.sub_started
      /\ loop'.accepted_count = loop.accepted_count + loop.accepted_now
      /\ loop'.accepted_now = 0
      /\ loop'.dispatch_pending = IF loop.accepted_now > 0 /\ loop.dispatch_pending = None
                                  THEN beat ELSE loop.dispatch_pending
  BY <1>1, CountedLoop DEF Wait
<1>3. /\ loop.accepted_now \in Nat /\ loop.accepted_count \in Nat /\ loop.retry_at \in Nat
      /\ loop.dispatch_pending \in OptTime
  BY <1>1 DEF Loop
<1>4. /\ wake' \in Nat /\ wake' <= beat + IdleCap
      /\ session # None => wake' <= beat + SessionWait
  BY <1>1, <1>3, Numbers DEF Wait, Unconnected, SoonerOf, LaterOf
<1>5. TypeOK'
  <2>1. Ready \in BOOLEAN
    BY DEF Ready
  <2> QED BY <1>1, <1>2, <1>4, <2>1 DEF IInv, TypeOK
<1>6. EventInv' /\ SubscribeInv' /\ AskedInv'
  BY <1>1, <1>2 DEF IInv, EventInv, Honest, SubscribeInv, AskedInv
<1>7. CountInv'
  <2>1. Publications(session') = Publications(session)
    BY <1>1 DEF Publications
  <2> QED BY <1>1, <1>2, <1>3, <2>1 DEF IInv, CountInv
<1>8. PendingInv'
  <2> SUFFICES ASSUME session # None, NEW i \in 1 .. Len(session.requests),
                      session.requests[i].kind = "publish"
               PROVE  /\ loop'.dispatch_pending # None
                      /\ loop'.dispatch_pending <= session.requests[i].at
    BY <1>1 DEF PendingInv
  <2>1. session.requests[i].at \in Nat
    <3>1. session.requests \in Seq(Request)
      BY <1>1 DEF Session
    <3>2. session.requests[i] \in Request
      BY <3>1
    <3> QED BY <3>2 DEF Request
  <2>2. \/ loop.dispatch_pending # None /\ loop.dispatch_pending <= session.requests[i].at
        \/ loop.accepted_now > 0 /\ beat <= session.requests[i].at
    BY <1>1 DEF IInv, PendingInv
  <2>3. beat # None
    BY <1>1, NoneAssumption
  <2>4. loop.dispatch_pending # None => loop.dispatch_pending \in Int /\ loop.dispatch_pending <= beat
    BY <1>3 DEF IInv, ClockInv, OptTime
  <2> QED BY <1>1, <1>2, <2>1, <2>2, <2>3, <2>4
<1>9. PatienceInv' /\ WaitingInv'
  BY <1>1 DEF IInv, PatienceInv, WaitingInv
<1>10. ClockInv'
  BY <1>1, <1>2, <1>4, Numbers DEF IInv, ClockInv, LaterOf
<1>11. ServedInv'
  <2>1. Ready => session # None
    BY <1>1 DEF IInv, ReadyIsThisSession
  <2> QED BY <1>1, <1>4, <2>1 DEF ServedInv, Ready
<1>12. ReadyIsThisSession'
  BY <1>1 DEF IInv, ReadyIsThisSession, Ready
<1>13. CalmInv'
  BY <1>1, <1>2 DEF IInv, CalmInv
<1> QED BY <1>5, <1>6, <1>7, <1>8, <1>9, <1>10, <1>11, <1>12, <1>13 DEF IInv

\* What every turn does.
LEMMA TurnFrame ==
  ASSUME IInv, Turn
  PROVE  /\ control \in {"turn", "wait"} /\ loop.accepted_now = 0
         /\ control' = "tick" /\ beat' = now /\ now' = now /\ wake' = wake
         /\ served' = served /\ stopping' = stopping /\ workers_ok' = workers_ok
         /\ now \in Nat /\ loop \in Loop /\ (session # None => session \in Session)
         /\ (connected => session # None /\ session.net # "down")
         /\ (Ready => session.net = "subscribed")
         /\ calm' = (IF Owes(session) THEN calm ELSE now) /\ calm \in Nat /\ calm <= now
<1>1. control \in {"turn", "wait"}
  BY DEF Turn, Begins
<1>2. now \in Nat /\ loop \in Loop /\ session \in Session \cup {None}
  BY DEF IInv, TypeOK
<1>3. /\ control' = "tick" /\ beat' = now /\ now' = now /\ wake' = wake
      /\ served' = served /\ stopping' = stopping /\ workers_ok' = workers_ok
  BY DEF Turn
<1>4. loop.accepted_now = 0
  BY <1>1 DEF IInv, CountInv
<1>5. /\ (connected => session # None /\ session.net # "down")
      /\ (Ready => session.net = "subscribed")
  BY <1>1 DEF IInv, ReadyIsThisSession
<1>6. calm' = (IF Owes(session) THEN calm ELSE now) /\ calm \in Nat /\ calm <= now
  BY DEF Turn, IInv, TypeOK, CalmInv, ClockInv
<1> QED BY <1>1, <1>2, <1>3, <1>4, <1>5, <1>6

\* What is pending and not all dispatched is owed.
LEMMA PendingIsOwed ==
  ASSUME IInv, session # None, session \in Session, loop \in Loop, loop.accepted_now = 0,
         ~ (session.dispatched >= loop.accepted_count)
  PROVE  Owes(session)
<1>1. session.dispatched \in Nat /\ loop.accepted_count \in Nat
  BY DEF Session, Loop
<1>2. Publications(session) + session.dispatched = loop.accepted_count + loop.accepted_now
  BY DEF IInv, CountInv
<1>3. Publications(session) # 0
  BY <1>1, <1>2
<1>4. session.requests \in Seq(Request) /\ Len(session.requests) > 0
        /\ session.requests[1].kind # "subscribe"
  BY <1>3, PublicationsAre DEF Session
<1>5. 1 \in DOMAIN session.requests /\ session.requests[1] \in Request
  BY <1>4
<1>6. session.requests[1].kind = "publish"
  BY <1>4, <1>5 DEF Request
<1> QED BY <1>5, <1>6 DEF Owes

\* A turn may ask the session to subscribe, clears the wait for publications that have
\* been dispatched, and gives the session up if it has stalled.
LEMMA TurnOfSession ==
  ASSUME IInv, Turn, session # None
  PROVE  \E l \in Loop, s \in Session :
           /\ s # None /\ s.worker = session.worker /\ s.event = session.event
           /\ s.queue = session.queue /\ s.net = session.net
           /\ s.dispatched = session.dispatched
           /\ l.accepted_count = loop.accepted_count /\ l.accepted_now = loop.accepted_now
           /\ \/ /\ connected /\ ~ loop.subscription_sent
                 /\ s.requests # <<>> /\ Len(s.requests) = Len(session.requests) + 1
                 /\ s.requests[Len(session.requests) + 1] = [kind |-> "subscribe", at |-> now]
                 /\ l.subscription_sent = TRUE /\ l.sub_started = now
                 /\ asked' = IF Stalled(l) THEN None ELSE now
              \/ /\ connected => loop.subscription_sent
                 /\ s.requests = session.requests
                 /\ l.subscription_sent = loop.subscription_sent
                 /\ l.sub_started = loop.sub_started
                 /\ asked' = IF Stalled(l) THEN None ELSE asked
           /\ \/ /\ l.dispatch_pending = loop.dispatch_pending
                 /\ ~ (session.dispatched >= loop.accepted_count)
              \/ l.dispatch_pending = None /\ session.dispatched >= loop.accepted_count
           /\ session' = IF Stalled(l) THEN None ELSE s
           /\ loop' = [(IF Stalled(l) THEN GivenUp(l) ELSE l) EXCEPT !.accepted_now = 0]
           /\ connected' = (connected /\ ~ Stalled(l)) /\ granted' = (granted /\ ~ Stalled(l))
<1> DEFINE asks == Asks(loop, session)
           s == IF asks THEN Asking(session) ELSE session
           k == IF asks THEN Asked(loop) ELSE loop
           l == Cleared(k, s)
           r == [kind |-> "subscribe", at |-> now]
<1>1. session \in Session /\ loop \in Loop /\ now \in Nat
  BY TurnFrame
<1>2. /\ session' = IF Stalled(l) THEN None ELSE s
      /\ loop' = [(IF Stalled(l) THEN GivenUp(l) ELSE l) EXCEPT !.accepted_now = 0]
      /\ connected' = (connected /\ ~ Stalled(l)) /\ granted' = (granted /\ ~ Stalled(l))
      /\ asked' = IF Stalled(l) THEN None ELSE IF asks THEN now ELSE asked
  <2>1. ~ Starts
    BY DEF Starts
  <2> QED BY <2>1 DEF Turn
<1>3. asks => /\ s \in Session /\ s # None
              /\ s.worker = session.worker /\ s.event = session.event
              /\ s.queue = session.queue /\ s.net = session.net
              /\ s.dispatched = session.dispatched
              /\ s.requests # <<>> /\ Len(s.requests) = Len(session.requests) + 1
              /\ s.requests[Len(session.requests) + 1] = r
  <2>1. r \in Request
    BY <1>1 DEF Request
  <2>2. asks => s = [session EXCEPT !.requests = Append(@, r)]
    BY DEF Asking
  <2> HIDE DEF s, r, asks
  <2> SUFFICES ASSUME asks
               PROVE  /\ s \in Session /\ s # None
                      /\ s.worker = session.worker /\ s.event = session.event
                      /\ s.queue = session.queue /\ s.net = session.net
                      /\ s.dispatched = session.dispatched
                      /\ s.requests # <<>> /\ Len(s.requests) = Len(session.requests) + 1
                      /\ s.requests[Len(session.requests) + 1] = r
    OBVIOUS
  <2> HIDE DEF k, l
  <2>3. s = [session EXCEPT !.requests = Append(@, r)]
    BY <2>2
  <2> DEFINE g == [session EXCEPT !.requests = Append(@, r)]
  <2>4. /\ g \in Session /\ g # None
        /\ g.worker = session.worker /\ g.event = session.event
        /\ g.queue = session.queue /\ g.net = session.net
        /\ g.dispatched = session.dispatched
        /\ g.requests # <<>> /\ Len(g.requests) = Len(session.requests) + 1
        /\ g.requests[Len(session.requests) + 1] = r
    BY <1>1, <2>1, Requested
  <2> HIDE DEF g
  <2> QED BY <2>3, <2>4 DEF g
<1>4. ~ asks => s = session
  OBVIOUS
<1>5. s \in Session /\ s # None /\ s.dispatched = session.dispatched
        /\ s.worker = session.worker /\ s.event = session.event
        /\ s.queue = session.queue /\ s.net = session.net
  BY <1>1, <1>3, <1>4
<1>6. /\ k \in Loop /\ k.dispatch_pending = loop.dispatch_pending
      /\ k.accepted_count = loop.accepted_count /\ k.accepted_now = loop.accepted_now
      /\ asks => k.subscription_sent = TRUE /\ k.sub_started = now
      /\ ~ asks => k = loop
  BY <1>1, AskedLoop
<1>7. asks => connected /\ ~ loop.subscription_sent
  BY DEF Asks
<1>8. ~ asks => (connected => loop.subscription_sent)
  <2>1. ~ loop.subscription_sent => Len(session.requests) = 0
    BY <1>1, PublicationsAre DEF IInv, SubscribeInv
  <2> QED BY <2>1, Numbers DEF Asks
<1> HIDE DEF s, k, asks, r
<1>9. /\ l \in Loop
      /\ l.subscription_sent = k.subscription_sent /\ l.sub_started = k.sub_started
      /\ l.accepted_count = k.accepted_count /\ l.accepted_now = k.accepted_now
      /\ \/ l = k /\ (s # None => ~ (s.dispatched >= k.accepted_count))
         \/ l.dispatch_pending = None /\ s # None /\ s.dispatched >= k.accepted_count
  BY <1>6, ClearedLoop
<1> HIDE DEF l
<1>10. \/ /\ l.dispatch_pending = loop.dispatch_pending
          /\ ~ (session.dispatched >= loop.accepted_count)
       \/ l.dispatch_pending = None /\ session.dispatched >= loop.accepted_count
  BY <1>5, <1>6, <1>9
<1>11. \/ /\ connected /\ ~ loop.subscription_sent
          /\ s.requests # <<>> /\ Len(s.requests) = Len(session.requests) + 1
          /\ s.requests[Len(session.requests) + 1] = r
          /\ l.subscription_sent = TRUE /\ l.sub_started = now
          /\ asked' = IF Stalled(l) THEN None ELSE now
       \/ /\ connected => loop.subscription_sent
          /\ s.requests = session.requests
          /\ l.subscription_sent = loop.subscription_sent
          /\ l.sub_started = loop.sub_started
          /\ asked' = IF Stalled(l) THEN None ELSE asked
  <2>1. CASE asks
    BY <1>2, <1>3, <1>6, <1>7, <1>9, <2>1
  <2>2. CASE ~ asks
    BY <1>2, <1>4, <1>6, <1>8, <1>9, <2>2
  <2> QED BY <2>1, <2>2
<1>12. l.accepted_count = loop.accepted_count /\ l.accepted_now = loop.accepted_now
  BY <1>6, <1>9
<1> QED BY <1>2, <1>5, <1>9, <1>10, <1>11, <1>12 DEF r

\* The end of a turn, for the local variables of the loop.
LEMMA TurnLoop ==
  ASSUME NEW l \in Loop, now \in Nat
  PROVE  LET g == [(IF Stalled(l) THEN GivenUp(l) ELSE l) EXCEPT !.accepted_now = 0]
         IN  /\ g \in Loop /\ g.accepted_now = 0
             /\ g.accepted_count = l.accepted_count
             /\ Stalled(l) => g.subscription_sent = FALSE /\ g.dispatch_pending = None
             /\ ~ Stalled(l) => /\ g.subscription_sent = l.subscription_sent
                                /\ g.sub_started = l.sub_started
                                /\ g.dispatch_pending = l.dispatch_pending
<1> DEFINE h == IF Stalled(l) THEN GivenUp(l) ELSE l
<1>1. /\ h \in Loop /\ h.accepted_count = l.accepted_count
      /\ Stalled(l) => h.subscription_sent = FALSE /\ h.dispatch_pending = None
      /\ ~ Stalled(l) => h = l
  BY GivenUpLoop
<1> HIDE DEF h
<1>2. LET g == [h EXCEPT !.accepted_now = 0]
      IN  /\ g \in Loop /\ g.accepted_now = 0
          /\ g.accepted_count = h.accepted_count
          /\ g.subscription_sent = h.subscription_sent /\ g.sub_started = h.sub_started
          /\ g.dispatch_pending = h.dispatch_pending
  BY <1>1 DEF Loop
<1> QED BY <1>1, <1>2 DEF h

\* What holds after every turn, whatever becomes of the session.
LEMMA TurnAfter ==
  ASSUME IInv, Turn, loop' \in Loop, loop'.accepted_now = 0,
         session' \in Session \cup {None}, asked' \in OptTime,
         connected' \in BOOLEAN, granted' \in BOOLEAN,
         loop'.dispatch_pending # None =>
           /\ loop'.dispatch_pending <= now
           /\ now < loop'.dispatch_pending + PublishTimeout
  PROVE  /\ TypeOK' /\ ClockInv' /\ ServedInv' /\ WaitingInv'
         /\ loop'.dispatch_pending # None => beat' < loop'.dispatch_pending + PublishTimeout
         /\ calm' <= beat'
<1>1. /\ control' = "tick" /\ beat' = now /\ now' = now /\ wake' = wake
      /\ served' = served /\ stopping' = stopping /\ workers_ok' = workers_ok /\ now \in Nat
      /\ calm' \in Nat /\ calm' <= now
  BY TurnFrame
<1>2. TypeOK'
  BY <1>1 DEF IInv, TypeOK
<1>3. ClockInv'
  <2>1. now <= now + MaxLag
    BY <1>1, Numbers
  <2> QED BY <1>1, <2>1 DEF ClockInv
<1> QED BY <1>1, <1>2, <1>3 DEF ServedInv, WaitingInv

\* A turn after which there is no session.
LEMMA TurnAlone ==
  ASSUME IInv, Turn, loop' \in Loop, loop'.accepted_now = 0,
         session' = None, asked' = None, connected' = FALSE, granted' \in BOOLEAN,
         loop'.dispatch_pending # None =>
           /\ loop'.dispatch_pending <= now
           /\ now < loop'.dispatch_pending + PublishTimeout
  PROVE  IInv'
<1>1. asked' \in OptTime /\ session' \in Session \cup {None} /\ connected' \in BOOLEAN
  BY DEF OptTime
<1>2. TypeOK' /\ ClockInv' /\ ServedInv' /\ WaitingInv' /\ calm' <= beat'
      /\ (loop'.dispatch_pending # None => beat' < loop'.dispatch_pending + PublishTimeout)
  BY <1>1, TurnAfter
<1>3. control' = "tick"
  BY TurnFrame
<1>4. EventInv' /\ SubscribeInv' /\ AskedInv' /\ CountInv' /\ PendingInv'
  BY DEF EventInv, SubscribeInv, AskedInv, CountInv, PendingInv
<1>5. PatienceInv' /\ ReadyIsThisSession'
  BY <1>2 DEF PatienceInv, ReadyIsThisSession, Ready
<1>6. CalmInv'
  BY <1>2 DEF CalmInv
<1> QED BY <1>2, <1>4, <1>5, <1>6 DEF IInv

\* A turn without a session, until the next attempt to connect.
LEMMA TurnWithout ==
  ASSUME IInv, Turn, session = None, ~ Starts
  PROVE  IInv'
<1>1. /\ now \in Nat /\ loop \in Loop /\ loop.accepted_now = 0 /\ connected = FALSE
      /\ control # "tick" /\ asked = None /\ granted \in BOOLEAN
  BY TurnFrame DEF IInv, TypeOK, AskedInv
<1>2. ~ Asks(loop, session) /\ Cleared(loop, session) = loop
  BY DEF Asks, Cleared
<1>3. /\ session' = None
      /\ loop' = [(IF Stalled(loop) THEN GivenUp(loop) ELSE loop) EXCEPT !.accepted_now = 0]
      /\ connected' = (connected /\ ~ Stalled(loop))
      /\ granted' = (granted /\ ~ Stalled(loop))
      /\ asked' = None
  BY <1>1, <1>2 DEF Turn
<1>4. /\ loop' \in Loop /\ loop'.accepted_now = 0
      /\ Stalled(loop) => loop'.dispatch_pending = None
      /\ ~ Stalled(loop) => loop'.dispatch_pending = loop.dispatch_pending
  BY <1>1, <1>3, TurnLoop
<1>5. connected' = FALSE /\ granted' \in BOOLEAN
  BY <1>1, <1>3
<1>6. loop'.dispatch_pending # None =>
        /\ loop'.dispatch_pending <= now
        /\ now < loop'.dispatch_pending + PublishTimeout
  <2>1. loop.dispatch_pending # None =>
          loop.dispatch_pending \in Int /\ loop.dispatch_pending <= now
    BY <1>1 DEF IInv, TypeOK, ClockInv, Loop, OptTime
  <2>2. ~ Stalled(loop) /\ loop.dispatch_pending # None =>
          now < loop.dispatch_pending + PublishTimeout
    BY <1>1, <2>1, Numbers DEF Stalled
  <2> QED BY <1>4, <2>1, <2>2
<1> QED BY <1>3, <1>4, <1>5, <1>6, TurnAlone

\* A turn that starts a session.
LEMMA TurnStarts ==
  ASSUME IInv, Turn, session = None, Starts
  PROVE  IInv'
<1> DEFINE k == Started(loop)
           l == Cleared(k, NewSession)
<1>1. /\ now \in Nat /\ loop \in Loop /\ loop.accepted_now = 0 /\ connected = FALSE
      /\ granted \in BOOLEAN /\ control' = "tick"
  BY TurnFrame DEF IInv, TypeOK
<1>2. ~ Asks(k, NewSession)
  BY <1>1 DEF Asks
<1>3. /\ session' = IF Stalled(l) THEN None ELSE NewSession
      /\ loop' = [(IF Stalled(l) THEN GivenUp(l) ELSE l) EXCEPT !.accepted_now = 0]
      /\ connected' = (connected /\ ~ Stalled(l)) /\ granted' = (granted /\ ~ Stalled(l))
      /\ asked' = IF Stalled(l) THEN None ELSE None
  BY <1>2 DEF Turn
<1>4. /\ k \in Loop /\ k.subscription_sent = FALSE /\ k.dispatch_pending = None
      /\ k.accepted_count = 0 /\ k.accepted_now = 0
  BY <1>1, StartedLoop
<1>5. /\ l \in Loop /\ l.subscription_sent = FALSE /\ l.dispatch_pending = None
      /\ l.accepted_count = 0 /\ l.accepted_now = 0
  <2> HIDE DEF k
  <2> DEFINE n == NewSession
  <2> HIDE DEF n
  <2>1. LET g == Cleared(k, n)
        IN  /\ g \in Loop
            /\ g.subscription_sent = k.subscription_sent
            /\ g.accepted_count = k.accepted_count /\ g.accepted_now = k.accepted_now
            /\ g = k \/ g.dispatch_pending = None
    BY <1>4, ClearedLoop
  <2> QED BY <1>4, <2>1 DEF n
<1> HIDE DEF l
<1>6. ~ Stalled(l)
  BY <1>5 DEF Stalled
<1>7. /\ loop' \in Loop /\ loop'.accepted_now = 0 /\ loop'.accepted_count = 0
      /\ loop'.subscription_sent = FALSE /\ loop'.dispatch_pending = None
  BY <1>1, <1>3, <1>5, <1>6, TurnLoop
<1>8. /\ session' \in Session /\ session' # None
      /\ session'.worker = "polling" /\ session'.net = "down"
      /\ session'.queue = <<>> /\ session'.requests = <<>>
      /\ session'.dispatched = 0
  BY <1>1, <1>3, <1>6, NewSessionIs
<1>9. connected' = FALSE /\ granted' \in BOOLEAN /\ asked' = None /\ asked' \in OptTime
  BY <1>1, <1>3 DEF OptTime
<1>10. TypeOK' /\ ClockInv' /\ ServedInv' /\ WaitingInv' /\ calm' <= beat'
  BY <1>7, <1>8, <1>9, TurnAfter
<1>11. Len(session'.requests) = 0 /\ Len(session'.queue) = 0 /\ Publications(session') = 0
  BY <1>8, PublicationsAre
<1>12. EventInv' /\ SubscribeInv' /\ AskedInv' /\ PendingInv'
  BY <1>7, <1>8, <1>9, <1>11 DEF EventInv, SubscribeInv, AskedInv, PendingInv
<1>13. CountInv'
  BY <1>7, <1>8, <1>11 DEF CountInv
<1>14. PatienceInv' /\ ReadyIsThisSession'
  BY <1>7, <1>9 DEF PatienceInv, ReadyIsThisSession, Ready
<1>15. CalmInv'
  BY <1>7, <1>10 DEF CalmInv
<1> QED BY <1>10, <1>12, <1>13, <1>14, <1>15 DEF IInv

\* A turn with a session.
LEMMA TurnWith ==
  ASSUME IInv, Turn, session # None
  PROVE  IInv'
<1>1. PICK l \in Loop, s \in Session :
        /\ s # None /\ s.worker = session.worker /\ s.event = session.event
        /\ s.queue = session.queue /\ s.net = session.net
        /\ s.dispatched = session.dispatched
        /\ l.accepted_count = loop.accepted_count /\ l.accepted_now = loop.accepted_now
        /\ \/ /\ connected /\ ~ loop.subscription_sent
              /\ s.requests # <<>> /\ Len(s.requests) = Len(session.requests) + 1
              /\ s.requests[Len(session.requests) + 1] = [kind |-> "subscribe", at |-> now]
              /\ l.subscription_sent = TRUE /\ l.sub_started = now
              /\ asked' = IF Stalled(l) THEN None ELSE now
           \/ /\ connected => loop.subscription_sent
              /\ s.requests = session.requests
              /\ l.subscription_sent = loop.subscription_sent
              /\ l.sub_started = loop.sub_started
              /\ asked' = IF Stalled(l) THEN None ELSE asked
        /\ \/ /\ l.dispatch_pending = loop.dispatch_pending
              /\ ~ (session.dispatched >= loop.accepted_count)
           \/ l.dispatch_pending = None /\ session.dispatched >= loop.accepted_count
        /\ session' = IF Stalled(l) THEN None ELSE s
        /\ loop' = [(IF Stalled(l) THEN GivenUp(l) ELSE l) EXCEPT !.accepted_now = 0]
        /\ connected' = (connected /\ ~ Stalled(l)) /\ granted' = (granted /\ ~ Stalled(l))
  BY TurnOfSession
<1>2. /\ control # "tick" /\ control' = "tick" /\ beat' = now
      /\ now \in Nat /\ loop \in Loop /\ session \in Session /\ loop.accepted_now = 0
      /\ (connected => session.net # "down") /\ (Ready => session.net = "subscribed")
      /\ connected \in BOOLEAN /\ granted \in BOOLEAN
  BY TurnFrame DEF IInv, TypeOK
<1>3. /\ loop' \in Loop /\ loop'.accepted_now = 0
      /\ loop'.accepted_count = l.accepted_count
      /\ Stalled(l) => loop'.subscription_sent = FALSE /\ loop'.dispatch_pending = None
      /\ ~ Stalled(l) => /\ loop'.subscription_sent = l.subscription_sent
                         /\ loop'.sub_started = l.sub_started
                         /\ loop'.dispatch_pending = l.dispatch_pending
  BY <1>1, <1>2, TurnLoop
<1>4. CASE Stalled(l)
  <2>1. session' = None /\ asked' = None /\ connected' = FALSE /\ granted' \in BOOLEAN
    BY <1>1, <1>2, <1>4
  <2> QED BY <1>3, <1>4, <2>1, TurnAlone
<1>5. CASE ~ Stalled(l)
  <2>1. /\ session' = s /\ session' \in Session /\ session' # None
        /\ connected' = connected /\ granted' = granted /\ Ready' = Ready
    BY <1>1, <1>2, <1>5 DEF Ready
  <2>2. /\ loop'.subscription_sent = l.subscription_sent
        /\ loop'.sub_started = l.sub_started
        /\ loop'.dispatch_pending = l.dispatch_pending
        /\ loop'.accepted_count = loop.accepted_count
    BY <1>1, <1>3, <1>5
  <2>3. l.dispatch_pending # None =>
          l.dispatch_pending <= now /\ now < l.dispatch_pending + PublishTimeout
    <3>1. l.dispatch_pending # None =>
            l.dispatch_pending \in Int /\ l.dispatch_pending <= now
      BY <1>1, <1>2 DEF IInv, TypeOK, ClockInv, Loop, OptTime
    <3> QED BY <1>2, <1>5, <3>1, Numbers DEF Stalled
  <2>4. asked' = now \/ asked' = asked
    BY <1>1, <1>5
  <2>5. asked' \in OptTime
    BY <1>2, <2>4 DEF IInv, TypeOK, OptTime
  <2>6. TypeOK' /\ ClockInv' /\ ServedInv' /\ WaitingInv' /\ calm' <= beat'
        /\ (loop'.dispatch_pending # None => beat' < loop'.dispatch_pending + PublishTimeout)
    BY <1>2, <1>3, <2>1, <2>2, <2>3, <2>5, TurnAfter
  <2>11. CalmInv'
    <3> SUFFICES ASSUME l.dispatch_pending # None PROVE calm' <= l.dispatch_pending
      BY <2>2, <2>6 DEF CalmInv
    <3>1. ~ (session.dispatched >= loop.accepted_count)
            /\ l.dispatch_pending = loop.dispatch_pending
      BY <1>1
    <3>2. calm' = calm
      BY <1>2, <3>1, PendingIsOwed, TurnFrame
    <3> QED BY <3>1, <3>2 DEF IInv, CalmInv
  <2>7. EventInv'
    BY <1>1, <2>1 DEF IInv, EventInv, Honest
  <2>8. ReadyIsThisSession'
    BY <1>1, <1>2, <2>1 DEF ReadyIsThisSession, Ready
\* The subscription that is asked for in this turn is the only request.
  <2>9. CASE /\ connected /\ ~ loop.subscription_sent
             /\ s.requests # <<>> /\ Len(s.requests) = Len(session.requests) + 1
             /\ s.requests[Len(session.requests) + 1] = [kind |-> "subscribe", at |-> now]
             /\ l.subscription_sent = TRUE /\ l.sub_started = now
             /\ asked' = IF Stalled(l) THEN None ELSE now
    <3>1. session.requests = <<>> /\ session.net \in {"down", "up"}
      BY <2>9 DEF IInv, SubscribeInv
    <3>2. Len(session.requests) = 0 /\ Publications(session) = 0
      BY <1>2, <3>1, PublicationsAre
    <3>3. Len(s.requests) = 1 /\ s.requests[1].kind = "subscribe"
      BY <2>9, <3>2
    <3>4. Publications(s) = 0
      BY <3>3, PublicationsAre
    <3>5. asked' = now /\ asked' # None
      BY <1>2, <1>5, <2>9, NoneAssumption
    <3>6. SubscribeInv'
      BY <1>1, <2>1, <2>2, <2>9, <3>1, <3>3 DEF SubscribeInv
    <3>7. AskedInv'
      BY <2>1, <2>2, <2>9, <3>5 DEF AskedInv
    <3>8. CountInv'
      <4>1. Publications(session') = Publications(session)
        BY <2>1, <3>2, <3>4
      <4>2. session'.dispatched = session.dispatched
        BY <1>1, <2>1
      <4> QED BY <1>2, <1>3, <2>2, <4>1, <4>2 DEF IInv, CountInv
    <3>9. PendingInv'
      BY <2>1, <3>3 DEF PendingInv
    <3>10. PatienceInv'
      BY <1>2, <2>2, <2>6, <2>9, <3>5, Numbers DEF PatienceInv
    <3> QED BY <2>6, <2>7, <2>8, <2>11, <3>6, <3>7, <3>8, <3>9, <3>10 DEF IInv
\* Otherwise the requests stay what they were.
  <2>10. CASE /\ connected => loop.subscription_sent
              /\ s.requests = session.requests
              /\ l.subscription_sent = loop.subscription_sent
              /\ l.sub_started = loop.sub_started
              /\ asked' = IF Stalled(l) THEN None ELSE asked
    <3>1. asked' = asked
      BY <1>5, <2>10
    <3>2. SubscribeInv' /\ AskedInv'
      BY <1>1, <2>1, <2>2, <2>10, <3>1 DEF IInv, SubscribeInv, AskedInv
    <3>3. Publications(session') = Publications(session)
            /\ session'.dispatched = session.dispatched
      BY <1>1, <2>1, <2>10 DEF Publications
    <3>4. CountInv'
      BY <1>2, <1>3, <2>2, <3>3 DEF IInv, CountInv
    <3>5. PendingInv'
      <4> SUFFICES ASSUME NEW i \in 1 .. Len(session.requests),
                          session.requests[i].kind = "publish"
                   PROVE  /\ loop'.dispatch_pending # None
                          /\ loop'.dispatch_pending <= session.requests[i].at
        BY <2>1, <2>10 DEF PendingInv
      <4>1. Len(session.requests) \in Nat /\ Len(session.requests) > 0
              /\ 1 \in 1 .. Len(session.requests)
        BY <1>2, PublicationsAre
      <4>2. session.requests[1].kind # "subscribe"
        <5> SUFFICES ASSUME session.requests[1].kind = "subscribe" PROVE FALSE
          OBVIOUS
        <5>1. Len(session.requests) = 1
          BY <4>1 DEF IInv, SubscribeInv
        <5> QED BY <5>1
      <4>3. Publications(session) = Len(session.requests)
        BY <1>2, <4>1, <4>2, PublicationsAre
      <4>4. Publications(session) + session.dispatched = loop.accepted_count + loop.accepted_now
        BY DEF IInv, CountInv
      <4>5. session.dispatched \in Nat /\ loop.accepted_count \in Nat
        BY <1>2 DEF Session, Loop
      <4>6. ~ (session.dispatched >= loop.accepted_count)
        BY <1>2, <4>1, <4>3, <4>4, <4>5
      <4>7. l.dispatch_pending = loop.dispatch_pending
        BY <1>1, <4>6
      <4> QED BY <1>2, <2>2, <4>7 DEF IInv, PendingInv
    <3>6. PatienceInv'
      <4>1. loop.subscription_sent /\ ~ Ready => now < loop.sub_started + PublishTimeout
        <5>1. loop.sub_started \in Nat
          BY <1>2 DEF Loop
        <5> QED BY <1>2, <1>5, <2>10, <5>1, Numbers DEF Stalled
      <4>2. connected => asked # None
        BY <2>10 DEF IInv, AskedInv
      <4> QED BY <1>2, <2>1, <2>2, <2>6, <2>10, <3>1, <4>1, <4>2 DEF PatienceInv
    <3> QED BY <2>6, <2>7, <2>8, <2>11, <3>2, <3>4, <3>5, <3>6 DEF IInv
  <2> QED BY <1>1, <2>9, <2>10
<1> QED BY <1>4, <1>5

LEMMA TurnStep ==
  ASSUME IInv, Turn
  PROVE  IInv'
BY TurnWith, TurnStarts, TurnWithout

----------------------------------------------------------------------------
(* The steps that receive an event.                                        *)

LEMMA ReceiveAfter ==
  ASSUME IInv, control = "wait", control' = "turn",
         UNCHANGED <<now, stopping, workers_ok, beat, wake, served, calm>>,
         session' # None => session # None,
         loop' \in Loop, loop'.dispatch_pending = loop.dispatch_pending,
         session' \in Session \cup {None}, asked' \in OptTime,
         connected' \in BOOLEAN, granted' \in BOOLEAN
  PROVE  TypeOK' /\ PatienceInv' /\ ClockInv' /\ ServedInv' /\ WaitingInv' /\ CalmInv'
<1>1. now \in Nat /\ beat \in Nat /\ wake \in Nat
  BY DEF IInv, TypeOK
<1>2. TypeOK'
  BY DEF IInv, TypeOK
<1>3. PatienceInv' /\ WaitingInv'
  BY DEF PatienceInv, WaitingInv
<1>4. ClockInv'
  BY DEF IInv, ClockInv
<1>5. ServedInv'
  <2> SUFFICES ASSUME served PROVE now <= beat + LaterOf(SessionWait, MaxLag)
    BY DEF ServedInv
  <2>1. wake <= beat + SessionWait /\ now <= LaterOf(wake, beat + MaxLag)
    BY DEF IInv, ServedInv, ClockInv
  <2> QED BY <1>1, <2>1, Numbers DEF LaterOf
<1>6. CalmInv'
  BY DEF IInv, CalmInv
<1> QED BY <1>2, <1>3, <1>4, <1>5, <1>6

\* An event is received that leaves the session.
LEMMA TakenStep ==
  ASSUME IInv, session \in Session, session # None, session.queue # <<>>,
         control' # "tick", control # "tick",
         session' = Dequeued, asked' = asked,
         loop'.subscription_sent = loop.subscription_sent,
         loop'.sub_started = loop.sub_started,
         loop'.dispatch_pending = loop.dispatch_pending,
         loop'.accepted_count = loop.accepted_count,
         loop'.accepted_now = loop.accepted_now,
         connected' => session.net # "down",
         connected' /\ granted' => session.net = "subscribed"
  PROVE  EventInv' /\ SubscribeInv' /\ AskedInv' /\ CountInv' /\ PendingInv'
           /\ ReadyIsThisSession'
<1>1. /\ session' # None
      /\ session'.worker = session.worker /\ session'.event = session.event
      /\ session'.net = session.net /\ session'.dispatched = session.dispatched
      /\ session'.requests = session.requests
      /\ Len(session'.queue) = Len(session.queue) - 1
      /\ \A i \in 1 .. Len(session'.queue) : session'.queue[i] = session.queue[i + 1]
  BY Taken
<1>2. EventInv'
  <2>1. ASSUME NEW i \in 1 .. Len(session'.queue)
        PROVE  Honest(session'.queue[i], session')
    <3>1. Len(session.queue) \in Nat
      BY DEF Session
    <3>2. i + 1 \in 1 .. Len(session.queue)
      BY <1>1, <3>1
    <3> QED BY <1>1, <3>2 DEF IInv, EventInv, Honest
  <2> QED BY <1>1, <2>1 DEF IInv, EventInv, Honest
<1>3. SubscribeInv' /\ AskedInv'
  BY <1>1 DEF IInv, SubscribeInv, AskedInv
<1>4. Publications(session') = Publications(session)
  BY <1>1 DEF Publications
<1>5. CountInv'
  BY <1>1, <1>4 DEF IInv, CountInv
<1>6. PendingInv'
  BY <1>1 DEF IInv, PendingInv
<1>7. ReadyIsThisSession'
  BY <1>1 DEF ReadyIsThisSession, Ready
<1> QED BY <1>2, <1>3, <1>5, <1>6, <1>7

LEMMA ReceiveStep ==
  ASSUME IInv, Receive
  PROVE  IInv'
<1> DEFINE e == Head(session.queue)
<1>1. /\ control = "wait" /\ control' = "turn"
      /\ UNCHANGED <<now, stopping, workers_ok, beat, wake, served, calm>>
      /\ session # None /\ session \in Session /\ session.queue # <<>>
      /\ now \in Nat /\ loop \in Loop /\ asked \in OptTime
      /\ connected \in BOOLEAN /\ granted \in BOOLEAN
  BY DEF Receive, Receives, Arrived, IInv, TypeOK
<1>2. e \in Event /\ Honest(e, session)
  BY <1>1, Taken DEF IInv, EventInv
<1>3. Dequeued \in Session
  BY <1>1, Taken
<1>4. connected => session.net # "down"
  BY <1>1 DEF IInv, ReadyIsThisSession
<1>5. connected /\ granted => session.net = "subscribed"
  BY <1>1 DEF IInv, ReadyIsThisSession, Ready
<1>6. \/ e.kind = "connack" /\ ConnAck
      \/ e.kind = "subscribe" /\ Subscribed
      \/ e.kind = "suback" /\ SubAck(e.granted)
      \/ e.kind = "error" /\ Lost
      \/ Ignored
  BY Zenon DEF Receive
<1> HIDE DEF e
<1>7. CASE e.kind = "connack" /\ ConnAck
  <2>1. /\ connected' = TRUE /\ granted' = FALSE /\ session' = Dequeued /\ asked' = asked
        /\ loop' = [loop EXCEPT !.backoff = BackoffInitial]
    BY <1>7 DEF ConnAck
  <2>2. BackoffInitial \in BackoffInitial .. BackoffMax
    BY Numbers
  <2>3. /\ loop' \in Loop
        /\ loop'.subscription_sent = loop.subscription_sent
        /\ loop'.sub_started = loop.sub_started
        /\ loop'.dispatch_pending = loop.dispatch_pending
        /\ loop'.accepted_count = loop.accepted_count
        /\ loop'.accepted_now = loop.accepted_now
    BY <1>1, <2>1, <2>2 DEF Loop
  <2>4. session.net # "down"
    BY <1>2, <1>7 DEF Honest
  <2> QED BY <1>1, <1>3, <2>1, <2>3, <2>4, ReceiveAfter, TakenStep DEF IInv
<1>8. CASE e.kind = "subscribe" /\ Subscribed
  <2>1. /\ connected' = connected /\ granted' = granted /\ session' = Dequeued /\ asked' = asked
        /\ loop' = [loop EXCEPT !.subscription_known = TRUE]
    BY <1>8 DEF Subscribed, engine
  <2>2. /\ loop' \in Loop
        /\ loop'.subscription_sent = loop.subscription_sent
        /\ loop'.sub_started = loop.sub_started
        /\ loop'.dispatch_pending = loop.dispatch_pending
        /\ loop'.accepted_count = loop.accepted_count
        /\ loop'.accepted_now = loop.accepted_now
    BY <1>1, <2>1 DEF Loop
  <2> QED BY <1>1, <1>3, <1>4, <1>5, <2>1, <2>2, ReceiveAfter, TakenStep DEF IInv
<1>9. CASE e.kind = "suback" /\ SubAck(e.granted)
  <2>1. /\ connected' = connected /\ session' = Dequeued /\ asked' = asked
        /\ granted' = IF loop.subscription_known THEN e.granted ELSE granted
        /\ loop' = [loop EXCEPT !.subscription_known = FALSE]
    BY <1>9 DEF SubAck
  <2>2. /\ loop' \in Loop
        /\ loop'.subscription_sent = loop.subscription_sent
        /\ loop'.sub_started = loop.sub_started
        /\ loop'.dispatch_pending = loop.dispatch_pending
        /\ loop'.accepted_count = loop.accepted_count
        /\ loop'.accepted_now = loop.accepted_now
    BY <1>1, <2>1 DEF Loop
  <2>3. e.granted => session.net = "subscribed"
    BY <1>2, <1>9 DEF Honest
  <2>4. e.granted \in BOOLEAN
    BY <1>2, <1>9 DEF Event
  <2>5. granted' \in BOOLEAN
    BY <1>1, <2>1, <2>4
  <2>6. connected' => session.net # "down"
    BY <1>4, <2>1
  <2>7. connected' /\ granted' => session.net = "subscribed"
    BY <1>5, <2>1, <2>3
  <2> QED BY <1>1, <1>3, <2>1, <2>2, <2>5, <2>6, <2>7, ReceiveAfter, TakenStep DEF IInv
<1>10. CASE e.kind = "error" /\ Lost
  <2>1. /\ session' = None /\ connected' = FALSE /\ granted' = FALSE /\ asked' = None
        /\ loop' = Backed(loop)
    BY <1>10 DEF Lost
  <2>2. loop' \in Loop /\ loop'.dispatch_pending = loop.dispatch_pending
          /\ loop'.accepted_now = loop.accepted_now
    <3>1. Backed(loop).accepted_now = loop.accepted_now
      BY <1>1 DEF Backed, Loop
    <3> QED BY <1>1, <2>1, <3>1, BackedLoop
  <2>3. asked' \in OptTime
    BY <2>1 DEF OptTime
  <2>4. TypeOK' /\ PatienceInv' /\ ClockInv' /\ ServedInv' /\ WaitingInv' /\ CalmInv'
    BY <1>1, <2>1, <2>2, <2>3, ReceiveAfter
  <2>5. EventInv' /\ SubscribeInv' /\ AskedInv' /\ PendingInv' /\ ReadyIsThisSession'
    BY <2>1 DEF EventInv, SubscribeInv, AskedInv, PendingInv, ReadyIsThisSession, Ready
  <2>6. CountInv'
    BY <1>1, <2>1, <2>2 DEF IInv, CountInv
  <2> QED BY <2>4, <2>5, <2>6 DEF IInv
<1>11. CASE Ignored
  <2>1. /\ connected' = connected /\ granted' = granted /\ session' = Dequeued /\ asked' = asked
        /\ loop' = loop
    BY <1>11 DEF Ignored, engine
  <2> QED BY <1>1, <1>3, <1>4, <1>5, <2>1, ReceiveAfter, TakenStep DEF IInv
<1> QED BY <1>6, <1>7, <1>8, <1>9, <1>10, <1>11

----------------------------------------------------------------------------
(* The invariant.                                                          *)

\* The end of the loop.
LEMMA Ends ==
  ASSUME IInv, Halt \/ Fail \/ ReceiveNothing
  PROVE  IInv' /\ control' = "ended"
<1>1. End /\ control # "tick"
  BY DEF Halt, Fail, Begins, ReceiveNothing, Receives
<1> QED BY <1>1, EndStep DEF End

\* The monitor and the signal.
LEMMA Watched ==
  ASSUME IInv, Look \/ Signal
  PROVE  IInv' /\ session' = session
<1>1. /\ UNCHANGED <<now, control, beat, wake, loop, session, engine, served, asked, calm>>
      /\ stopping' \in BOOLEAN /\ workers_ok' \in BOOLEAN
  <2>1. CASE Look
    BY <2>1 DEF Look, IInv, TypeOK, history
  <2>2. CASE Signal
    BY <2>2 DEF Signal, IInv, TypeOK, history
  <2> QED BY <2>1, <2>2
<1>2. TypeOK'
  BY <1>1 DEF IInv, TypeOK, engine
<1>3. EventInv' /\ SubscribeInv' /\ AskedInv'
  BY <1>1 DEF IInv, EventInv, SubscribeInv, AskedInv, Honest
<1>4. CountInv' /\ PendingInv'
  BY <1>1 DEF IInv, CountInv, PendingInv, Publications
<1>5. PatienceInv' /\ ClockInv' /\ WaitingInv' /\ CalmInv'
  BY <1>1 DEF IInv, PatienceInv, ClockInv, WaitingInv, CalmInv, Ready, engine
<1>6. ServedInv' /\ ReadyIsThisSession'
  BY <1>1 DEF IInv, ServedInv, ReadyIsThisSession, Ready, engine
<1> QED BY <1>1, <1>2, <1>3, <1>4, <1>5, <1>6 DEF IInv

LEMMA PassStep ==
  ASSUME IInv, Pass
  PROVE  IInv' /\ session' = session
<1>1. /\ UNCHANGED <<stopping, workers_ok, control, beat, wake, loop, session, engine, served,
                     asked, calm>>
      /\ now' = now + 1 /\ now \in Nat /\ beat \in Nat /\ wake \in Nat
  BY DEF Pass, IInv, TypeOK, history
<1>2. \/ control = "wait" /\ now < wake
      \/ control = "tick" /\ now < beat + MaxLag
  BY Zenon DEF Pass
<1>3. TypeOK'
  BY <1>1 DEF IInv, TypeOK, engine
<1>4. EventInv' /\ SubscribeInv' /\ AskedInv'
  BY <1>1 DEF IInv, EventInv, SubscribeInv, AskedInv, Honest
<1>5. CountInv' /\ PendingInv'
  BY <1>1 DEF IInv, CountInv, PendingInv, Publications
<1>6. PatienceInv' /\ WaitingInv' /\ CalmInv'
  BY <1>1 DEF IInv, PatienceInv, WaitingInv, CalmInv, Ready, engine
<1>7. ClockInv'
  BY <1>1, <1>2, Numbers DEF IInv, ClockInv, LaterOf
<1>8. ServedInv' /\ ReadyIsThisSession'
  BY <1>1, <1>2 DEF IInv, ServedInv, ReadyIsThisSession, Ready, engine
<1> QED BY <1>1, <1>3, <1>4, <1>5, <1>6, <1>7, <1>8 DEF IInv

LEMMA StillStep ==
  ASSUME IInv, UNCHANGED vars
  PROVE  IInv' /\ session' = session
<1> USE DEF vars, engine, history
<1>1. TypeOK'
  BY DEF IInv, TypeOK
<1>2. EventInv' /\ SubscribeInv' /\ AskedInv'
  BY DEF IInv, EventInv, SubscribeInv, AskedInv, Honest
<1>3. CountInv' /\ PendingInv'
  BY DEF IInv, CountInv, PendingInv, Publications
<1>4. PatienceInv' /\ ClockInv' /\ WaitingInv' /\ CalmInv'
  BY DEF IInv, PatienceInv, ClockInv, WaitingInv, CalmInv, Ready
<1>5. ServedInv' /\ ReadyIsThisSession'
  BY DEF IInv, ServedInv, ReadyIsThisSession, Ready
<1> QED BY <1>1, <1>2, <1>3, <1>4, <1>5 DEF IInv

LEMMA InitIInv ==
  ASSUME Init
  PROVE  IInv
<1>1. BackoffInitial \in BackoffInitial .. BackoffMax
  BY Numbers
<1>2. loop \in Loop /\ loop.subscription_sent = FALSE /\ loop.accepted_now = 0
        /\ loop.dispatch_pending = None
  BY <1>1 DEF Init, Loop, OptTime
<1>3. TypeOK
  <2>1. {stopping, workers_ok, connected, granted, served} \subseteq BOOLEAN
    BY DEF Init
  <2>2. {now, beat, wake} \subseteq Nat /\ asked \in OptTime /\ calm \in Nat
          /\ control \in {"turn", "tick", "wait", "ended"} /\ session \in Session \cup {None}
    BY DEF Init, OptTime
  <2> QED BY <1>2, <2>1, <2>2 DEF TypeOK
<1>4. EventInv /\ SubscribeInv /\ AskedInv /\ CountInv /\ PendingInv
  BY <1>2 DEF Init, EventInv, SubscribeInv, AskedInv, CountInv, PendingInv
<1>5. PatienceInv /\ ServedInv /\ WaitingInv /\ ReadyIsThisSession
  BY DEF Init, PatienceInv, ServedInv, WaitingInv, ReadyIsThisSession, Ready
<1>6. ClockInv /\ CalmInv
  BY <1>2, Numbers DEF Init, ClockInv, CalmInv
<1> QED BY <1>3, <1>4, <1>5, <1>6 DEF IInv

LEMMA NextStep ==
  ASSUME IInv, [Next]_vars
  PROVE  IInv'
<1>1. CASE Halt \/ Fail \/ ReceiveNothing
  BY <1>1, Ends
<1>2. CASE Turn
  BY <1>2, TurnStep
<1>3. CASE Submit
  BY <1>3, SubmitStep
<1>4. CASE Wait
  BY <1>4, WaitStep
<1>5. CASE Receive
  BY <1>5, ReceiveStep
<1>6. CASE Dispatch
  BY <1>6, DispatchStep
<1>7. CASE Network
  BY <1>7, NetworkStep
<1>8. CASE Send
  BY <1>8, SendStep
<1>9. CASE Progress
  BY <1>9, ProgressStep
<1>10. CASE Look \/ Signal
  BY <1>10, Watched
<1>11. CASE Pass
  BY <1>11, PassStep
<1>12. CASE Ended \/ UNCHANGED vars
  BY <1>12, StillStep DEF Ended
<1> QED BY <1>1, <1>2, <1>3, <1>4, <1>5, <1>6, <1>7, <1>8, <1>9, <1>10, <1>11, <1>12 DEF Next

----------------------------------------------------------------------------
(* The theorems.                                                           *)

\* What the loop and the worker know of one another holds for ever.
THEOREM Invariant == Spec => []IInv
<1>1. Init => IInv
  BY InitIInv
<1>2. IInv /\ [Next]_vars => IInv'
  BY NextStep
<1> QED BY <1>1, <1>2, PTL DEF Spec

\* The types of the variables; the delay between attempts to connect stays within the
\* bounds of mqtt.reconnect.
THEOREM TypeCorrect == Spec => []TypeOK
<1>1. IInv => TypeOK
  BY DEF IInv
<1> QED BY <1>1, Invariant, PTL

\* The engine's connection and its granted subscriptions are those of the session there
\* is, however the ones before it ended (src/runtime.rs, set_connected and grant).
THEOREM ConnectionIsTheSessions == Spec => []ReadyIsThisSession
<1>1. IInv => ReadyIsThisSession
  BY DEF IInv
<1> QED BY <1>1, Invariant, PTL

\* Whatever the broker answers, or does not answer, to the subscription.
THEOREM DeafSessionsAreGivenUp == Spec => []DeafSessionsEnd
<1>1. ASSUME IInv PROVE DeafSessionsEnd
  <2>1. control \in {"tick", "wait"} /\ connected => asked # None
    BY <1>1 DEF IInv, PatienceInv, WaitingInv
  <2>2. control = "tick" /\ asked # None /\ ~ Ready => beat < asked + PublishTimeout
    BY <1>1 DEF IInv, PatienceInv, AskedInv
  <2> QED BY <2>1, <2>2 DEF DeafSessionsEnd
<1> QED BY <1>1, Invariant, PTL

\* One timer for all accepted publications is enough to notice any of them that stays.
THEOREM OneTimerIsEnough == Spec => []StuckDispatchNoticed
<1>1. ASSUME IInv PROVE StuckDispatchNoticed
  <2> SUFFICES ASSUME control = "tick", session # None,
                      NEW i \in DOMAIN session.requests,
                      session.requests[i].kind = "publish"
               PROVE  beat < session.requests[i].at + PublishTimeout
    BY DEF StuckDispatchNoticed
  <2>1. session.requests \in Seq(Request)
    BY <1>1 DEF IInv, TypeOK, Session
  <2>2. i \in 1 .. Len(session.requests) /\ session.requests[i] \in Request
    BY <2>1
  <2>3. session.requests[i].at \in Nat
    BY <2>2 DEF Request
  <2>4. beat \in Nat /\ loop.dispatch_pending \in OptTime
    BY <1>1 DEF IInv, TypeOK, Loop
  <2>5. \/ loop.dispatch_pending # None /\ loop.dispatch_pending <= session.requests[i].at
        \/ beat <= session.requests[i].at
    BY <1>1, <2>2 DEF IInv, PendingInv
  <2>6. loop.dispatch_pending # None => beat < loop.dispatch_pending + PublishTimeout
    BY <1>1 DEF IInv, PatienceInv
  <2> QED BY <2>3, <2>4, <2>5, <2>6, Numbers DEF OptTime
<1> QED BY <1>1, Invariant, PTL

\* At every instant a probe of /readyz may read the snapshot and the flag.
THEOREM ReadyzTellsTheTruth == Spec => []ReadyzIsHonest
<1>1. ASSUME IInv PROVE ReadyzIsHonest
  <2> SUFFICES ASSUME served
               PROVE  \/ session # None /\ session.net = "subscribed"
                      \/ control \in {"turn", "tick"}
                           /\ now <= beat + LaterOf(SessionWait, MaxLag)
    BY DEF ReadyzIsHonest, Readyz
  <2>1. control \in {"turn", "tick", "wait", "ended"} /\ now \in Nat /\ beat \in Nat
    BY <1>1 DEF IInv, TypeOK
  <2>2. control # "ended"
    BY <1>1 DEF IInv, ServedInv
  <2>3. CASE control = "wait"
    BY <1>1, <2>3 DEF IInv, ServedInv, ReadyIsThisSession
  <2>4. CASE control = "turn"
    BY <1>1, <2>4 DEF IInv, ServedInv
  <2>5. CASE control = "tick"
    BY <1>1, <2>1, <2>5, Numbers DEF IInv, ClockInv, LaterOf
  <2> QED BY <2>1, <2>2, <2>3, <2>4, <2>5
<1> QED BY <1>1, Invariant, PTL

\* What a turn gives up was the session's own: what is pending has been accepted from
\* this session and is not dispatched, or this session was asked to subscribe; and it was
\* missing at every turn of the timeout.
LEMMA EarnedByTurn ==
  ASSUME IInv, Turn, session # None, session' = None
  PROVE  \/ asked # None /\ now >= asked + PublishTimeout /\ ~ Ready
         \/ Owes(session) /\ now >= calm + PublishTimeout
<1>1. PICK l \in Loop, s \in Session :
        /\ s # None
        /\ \/ l.subscription_sent = TRUE /\ l.sub_started = now
           \/ /\ l.subscription_sent = loop.subscription_sent
              /\ l.sub_started = loop.sub_started
        /\ \/ /\ l.dispatch_pending = loop.dispatch_pending
              /\ ~ (session.dispatched >= loop.accepted_count)
           \/ l.dispatch_pending = None /\ session.dispatched >= loop.accepted_count
        /\ session' = IF Stalled(l) THEN None ELSE s
  BY TurnOfSession
<1>2. Stalled(l)
  BY <1>1
<1>3. now \in Nat /\ loop \in Loop /\ session \in Session /\ loop.accepted_now = 0
  BY TurnFrame
<1>4. CASE l.dispatch_pending # None /\ now - l.dispatch_pending >= PublishTimeout
  <2>1. ~ (session.dispatched >= loop.accepted_count)
          /\ l.dispatch_pending = loop.dispatch_pending
    BY <1>1, <1>4
  <2>2. Owes(session)
    BY <1>3, <2>1, PendingIsOwed
  <2>3. /\ l.dispatch_pending \in Nat /\ l.dispatch_pending <= now
        /\ calm \in Nat /\ calm <= l.dispatch_pending
    BY <1>3, <1>4, <2>1 DEF IInv, TypeOK, CalmInv, ClockInv, Loop, OptTime
  <2> QED BY <1>3, <1>4, <2>2, <2>3, Numbers
<1>5. CASE l.subscription_sent /\ ~ Ready /\ now - l.sub_started >= PublishTimeout
  <2>1. l.subscription_sent /\ ~ Ready /\ now - l.sub_started >= PublishTimeout
    BY <1>5
  <2>2. l.sub_started # now
    BY <1>3, <2>1, Numbers
  <2>3. loop.subscription_sent /\ loop.sub_started = l.sub_started
    BY <1>1, <2>1, <2>2
  <2>4. asked # None /\ asked = l.sub_started /\ l.sub_started \in Nat
    BY <1>1, <2>3 DEF IInv, AskedInv, Loop
  <2> QED BY <1>3, <2>1, <2>4, Numbers
<1> QED BY <1>2, <1>4, <1>5 DEF Stalled

\* "MQTT dispatch or subscription acknowledgement timed out" (src/runtime.rs), and of
\* this session, for as long as the timeout: it is given up neither for another's debts nor
\* for what it has caught up with at any turn of the last timeout.
THEOREM StallsAreTheSessions == Spec => StallsAreEarned
<1> DEFINE A == control' = "tick" /\ session # None /\ session' = None =>
                  \/ asked # None /\ now >= asked + PublishTimeout /\ ~ Ready
                  \/ Owes(session) /\ now >= calm + PublishTimeout
<1>1. ASSUME IInv, [Next]_vars PROVE A
  <2> SUFFICES ASSUME control' = "tick", session # None, session' = None
               PROVE  \/ asked # None /\ now >= asked + PublishTimeout /\ ~ Ready
                      \/ Owes(session) /\ now >= calm + PublishTimeout
    OBVIOUS
  <2>1. CASE Turn
    BY <1>1, <2>1, EarnedByTurn
  <2>2. CASE Halt \/ Fail \/ ReceiveNothing
    BY <1>1, <2>2, Ends
  <2>3. CASE Submit
    <3>1. session \in Session
      BY <1>1 DEF IInv, TypeOK
    <3>2. now \in Nat
      BY <1>1 DEF IInv, TypeOK
    <3>3. [kind |-> "publish", at |-> now] \in Request
      BY <3>2 DEF Request
    <3>4. session' # None
      BY <2>3, <3>1, <3>3, Requested DEF Submit
    <3> QED BY <3>4
  <2>4. CASE Wait
    BY <2>4 DEF Wait
  <2>5. CASE Receive
    BY <2>5 DEF Receive
  <2>6. CASE Dispatch \/ Network \/ Send \/ Progress
    BY <1>1, <2>6, DispatchStep, NetworkStep, SendStep, ProgressStep
  <2>7. CASE Look \/ Signal \/ Pass \/ Ended \/ UNCHANGED vars
    BY <1>1, <2>7, Watched, PassStep, StillStep DEF Ended
  <2> QED BY <1>1, <2>1, <2>2, <2>3, <2>4, <2>5, <2>6, <2>7 DEF Next
<1>2. Spec => [][A]_vars
  <2>1. IInv /\ [Next]_vars => A
    BY <1>1
  <2> HIDE DEF A
  <2> QED BY <2>1, Invariant, PTL DEF Spec
<1> QED BY <1>2 DEF StallsAreEarned

\* Only the monitor raises the alarm without ending the task, and only late.
LEMMA AlarmIsLate ==
  ASSUME IInv, [Next]_vars, workers_ok, ~ workers_ok', control' # "ended", control # "tick"
  PROVE  now - beat >= Stall /\ wake <= beat + IdleCap
<1>1. now \in Nat /\ beat \in Nat
  BY DEF IInv, TypeOK
<1>2. Look
  <2>1. ~ (Halt \/ Fail \/ ReceiveNothing)
    BY DEF Halt, Fail, ReceiveNothing, End
  <2>2. ~ (Turn \/ Submit \/ Wait \/ Receive)
    BY DEF Turn, Submit, Wait, Receive
  <2>3. ~ Dispatch /\ ~ Network /\ ~ Send /\ ~ Progress
    BY DEF Dispatch, Network, Send, Progress, Emit, Worker
  <2>4. ~ Signal /\ ~ Pass /\ ~ Ended
    BY DEF Signal, Pass, Ended, vars
  <2> QED BY <2>1, <2>2, <2>3, <2>4 DEF Next, vars
<1>3. ~ (now - beat < Stall)
  BY <1>2 DEF Look
<1> QED BY <1>1, <1>3, Numbers DEF IInv, ClockInv

\* For every setting the configuration check lets through, the alarm is not raised before
\* the wait is over, but during a tick.
THEOREM NoEarlyAlarm ==
  Spec => [][workers_ok /\ ~ workers_ok' /\ control' # "ended" =>
               control = "tick" \/ now >= wake]_vars
<1> DEFINE A == workers_ok /\ ~ workers_ok' /\ control' # "ended" =>
                  control = "tick" \/ now >= wake
<1>1. ASSUME IInv, [Next]_vars PROVE A
  <2>1. now \in Nat /\ beat \in Nat /\ wake \in Nat
    BY <1>1 DEF IInv, TypeOK
  <2> QED BY <1>1, <2>1, AlarmIsLate, Numbers
<1>2. IInv /\ [Next]_vars => A
  BY <1>1
<1> HIDE DEF A
<1>3. Spec => [][A]_vars
  BY <1>2, Invariant, PTL DEF Spec
<1> QED BY <1>3 DEF A

\* With worker_stall_seconds longer than the longest wait, that is of two seconds or more,
\* a loop that is about to begin its turn on time is not accused either.  With one second
\* it can be: the wait of a second and the limit end together.
THEOREM NoAlarmWhileWaiting ==
  ASSUME IdleCap < Stall
  PROVE  Spec => NoFalseAlarm
<1> DEFINE A == workers_ok /\ ~ workers_ok' /\ control' # "ended" =>
                  control = "tick" \/ now > wake
<1>1. ASSUME IInv, [Next]_vars PROVE A
  <2>1. now \in Nat /\ beat \in Nat /\ wake \in Nat
    BY <1>1 DEF IInv, TypeOK
  <2> QED BY <1>1, <2>1, AlarmIsLate, Numbers
<1>2. IInv /\ [Next]_vars => A
  BY <1>1
<1> HIDE DEF A
<1>3. Spec => [][A]_vars
  BY <1>2, Invariant, PTL DEF Spec
<1> QED BY <1>3 DEF A, NoFalseAlarm

=============================================================================
