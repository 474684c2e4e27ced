--------------------------- MODULE ControllerProofs ---------------------------
(***************************************************************************)
(* Proofs about Controller, for every number of outputs and devices, every *)
(* rule table, heartbeat, timeout and configuration of topics, and however *)
(* long submissions take: the engine's state keeps its types, a pulse      *)
(* proves delivery, commands go only to what can be reached, the telemetry *)
(* timeout silences every ON, each output runs its own scheduler and keeps *)
(* its own holds, a quiet loop may sleep until the deadline it chose, and  *)
(* only an output that changes its mind can hold the pulses back.          *)
(*                                                                         *)
(* The invariant says what an open pass has left to deliver: whatever is   *)
(* not forced was delivered in this pass, as the value that the engine     *)
(* takes for the relay's.                                                  *)
(*                                                                         *)
(* That nothing is slept through rests on RestInv: at every instant before *)
(* the wake, and not just now, no choice or resend is due.  Waiting keeps  *)
(* that because it only moves the clock towards the wake; choosing the     *)
(* wake establishes it because whatever a selection depends on, a timed    *)
(* rule, a hold, a back-off or a delay, is among the deadlines.            *)
(*                                                                         *)
(* That pulses come in time rests on FeedInv: the wake the loop chose is   *)
(* no later than the instant by which it last promised to act.             *)
(*                                                                         *)
(* What RelayScheduler says of retries and episodes is proved here again   *)
(* of every output of the controller, from the same lemmas about the       *)
(* operators and the samples of the clock that a tick has for each output. *)
(***************************************************************************)
EXTENDS Controller, OutputsProofs

Trace == [decided_at : Nat, sent : OptTime, settled : Nat, delivered : Truth]

TraceInv ==
  /\ trace \in [Output -> Trace]
  /\ \A i \in Output : trace[i].settled <= now

\* A device that is online said so after the latest recovery of its outputs.
OnlineInv ==
  \A i \in Output :
    DeviceOf[i] # None /\ devices[DeviceOf[i]].value = Yes =>
      /\ devices[DeviceOf[i]].received # None
      /\ devices[DeviceOf[i]].received >= trace[i].settled

\* The latest decision was made from the admitted values there are, but for the last
\* tick, that decides nothing.
SeenInv ==
  /\ seen \in [State -> Tracked]
  /\ seen = ctrl \/ (stopping /\ waiting)

\* While a pass is open, an output that is not to be sent again has been delivered.
PassInv ==
  heartbeat.pass =>
    \A i \in Output : ~ outs[i].force => trace[i].delivered = Previous(outs[i])

IInv ==
  TypeOK /\ TraceInv /\ OnlineInv /\ SeenInv /\ PassInv /\ PulseProvesDelivery

----------------------------------------------------------------------------
(* Constants, times and facts.                                             *)

LEMMA Numbers ==
  /\ N \in Nat /\ N > 0 /\ Idle \in Nat /\ Idle > 0 /\ SubmitLag \in Nat /\ Horizon \in Nat
  /\ Timeout \in Nat \cup {None} /\ Interval \in Nat \cup {None}
  /\ Timeout # None => Timeout > 0
  /\ Interval # None => Interval > 0
BY ControllerAssumption

LEMMA OutputIs ==
  ASSUME NEW i \in Output
  PROVE  /\ i \in Nat /\ i >= 1 /\ i <= N
         /\ RulesOf[i] \in SUBSET Rule /\ Ranked(RulesOf[i]) /\ None \notin RulesOf[i]
         /\ DefaultOf[i] \in Known
         /\ DeviceOf[i] \in Device \cup {None}
<1>1. i \in Nat /\ i >= 1 /\ i <= N
  BY Numbers DEF Output
<1>2. ValidRules(RulesOf[i]) /\ None \notin RulesOf[i]
  BY ControllerAssumption
<1>3. RulesOf[i] \in SUBSET Rule /\ Ranked(RulesOf[i])
  BY <1>2 DEF ValidRules, Ranked
<1>4. DefaultOf[i] \in Known /\ DeviceOf[i] \in Device \cup {None}
  BY ControllerAssumption
<1> QED BY <1>1, <1>2, <1>3, <1>4

LEMMA StaleIs ==
  ASSUME NEW d \in Device
  PROVE  d # None /\ StaleAfter[d] \in OptTime
BY ControllerAssumption DEF OptTime

LEMMA UnknownFact ==
  ASSUME NEW f \in BoolFact
  PROVE  /\ FactUnknown(f) \in BoolFact /\ FactUnknown(f).value = Unknown
         /\ FactUnknown(f).received = f.received
BY DEF FactUnknown, BoolFact, Truth

LEMMA ReceivedFact ==
  ASSUME NEW v \in Truth, NEW t \in Int
  PROVE  /\ FactReceive(v, t) \in BoolFact /\ FactReceive(v, t).value = v
         /\ FactReceive(v, t).received = t
BY DEF FactReceive, BoolFact, OptTime

\* Expiry only makes a fact unknown, and leaves none that is past its deadline.
LEMMA ExpiredFact ==
  ASSUME NEW f \in BoolFact, NEW stale \in OptTime, NEW t \in Int
  PROVE  LET g == FactExpire(f, stale, t)
         IN  /\ g \in BoolFact /\ g.received = f.received
             /\ g = f \/ g.value = Unknown
             /\ g.value = Yes => f.value = Yes /\ ~ Passed(FactDeadline(g, stale), t)
<1>1. CASE Passed(FactDeadline(f, stale), t)
  <2>1. FactExpire(f, stale, t) = FactUnknown(f)
    BY <1>1 DEF FactExpire
  <2>2. Unknown # Yes
    BY DEF Unknown, Yes
  <2> QED BY <2>1, <2>2, UnknownFact
<1>2. CASE ~ Passed(FactDeadline(f, stale), t)
  <2>1. FactExpire(f, stale, t) = f
    BY <1>2 DEF FactExpire
  <2> QED BY <1>2, <2>1
<1> QED BY <1>1, <1>2

LEMMA ExpiredDevices ==
  ASSUME TypeOK
  PROVE  /\ Expired \in [Device -> BoolFact]
         /\ \A d \in Device :
              /\ Expired[d].received = devices[d].received
              /\ Expired[d].value = Yes =>
                   /\ devices[d].value = Yes
                   /\ ~ Passed(FactDeadline(Expired[d], StaleAfter[d]), now)
<1>1. now \in Nat /\ devices \in [Device -> BoolFact]
  BY DEF TypeOK
<1>2. ASSUME NEW d \in Device
      PROVE  LET g == FactExpire(devices[d], StaleAfter[d], now)
             IN  /\ g \in BoolFact /\ g.received = devices[d].received
                 /\ g.value = Yes =>
                      /\ devices[d].value = Yes
                      /\ ~ Passed(FactDeadline(g, StaleAfter[d]), now)
  BY <1>1, StaleIs, ExpiredFact
<1>3. \A d \in Device : Expired[d] = FactExpire(devices[d], StaleAfter[d], now)
  BY DEF Expired
<1>4. Expired \in [Device -> BoolFact]
  BY <1>2 DEF Expired
<1> QED BY <1>2, <1>3, <1>4

\* The samples of one tick are instants from its beginning on.
LEMMA SampleIs ==
  ASSUME now \in Nat, NEW c \in Samples, NEW k \in 1 .. 2 * N + 2
  PROVE  c[k] \in Nat /\ now <= c[k] /\ c[k] <= now + SubmitLag /\ c[k] <= Horizon
BY Numbers DEF Samples, SoonerOf

LEMMA SamplesAre ==
  ASSUME now \in Nat, NEW c \in Samples
  PROVE  /\ \A i \in Output :
              /\ DecidedAt(c, i) \in Nat /\ now <= DecidedAt(c, i)
              /\ BookedAt(c, i) \in Nat /\ DecidedAt(c, i) <= BookedAt(c, i)
         /\ PulseAt(c) \in Nat /\ PulseBookedAt(c) \in Nat
         /\ now <= PulseAt(c) /\ now <= PulseBookedAt(c)
<1>1. ASSUME NEW i \in Output
      PROVE  /\ 2 * i - 1 \in 1 .. 2 * N + 2 /\ 2 * i \in 1 .. 2 * N + 2
             /\ 2 * i - 1 \in 1 .. 2 * N + 1
  BY Numbers, OutputIs
<1>2. 2 * N + 1 \in 1 .. 2 * N + 2 /\ 2 * N + 2 \in 1 .. 2 * N + 2
  BY Numbers
<1>3. \A k \in 1 .. 2 * N + 1 : c[k] <= c[k + 1]
  BY DEF Samples
<1>4. ASSUME NEW i \in Output
      PROVE  c[2 * i - 1] <= c[2 * i]
  <2>1. (2 * i - 1) + 1 = 2 * i
    BY OutputIs
  <2> QED BY <1>1, <1>3, <2>1
<1> QED BY <1>1, <1>2, <1>4, SampleIs DEF DecidedAt, BookedAt, PulseAt, PulseBookedAt

----------------------------------------------------------------------------
(* The heartbeat.                                                          *)

\* A due pass is opened.
Opened(h) == [h EXCEPT !.pass = @ \/ PassDue(h)]

LEMMA EligibleType == ASSUME NEW ds, TypeOK PROVE Eligible(ds) \in BOOLEAN
BY DEF Eligible, TransportReady, DevicesReady, TypeOK

LEMMA ReadiedType ==
  ASSUME TypeOK, NEW ds
  PROVE  LET h == Readied(ds)
         IN  /\ h \in Heartbeat
             /\ h.pass = heartbeat.pass /\ h.next_due <= heartbeat.next_due
             /\ h.pass => h.next_due <= now
<1> DEFINE e == Eligible(ds)
           d == IF Interval # None /\ e /\ ~ heartbeat.was_eligible
                THEN SoonerOf(heartbeat.next_due, now) ELSE heartbeat.next_due
           h == [heartbeat EXCEPT !.next_due = d, !.was_eligible = e]
<1>1. /\ heartbeat \in Heartbeat /\ now \in Nat /\ heartbeat.next_due \in Int
      /\ heartbeat.pass => heartbeat.next_due <= now
  BY DEF TypeOK, Heartbeat
<1>2. e \in BOOLEAN
  BY EligibleType
<1>3. d \in Int /\ d <= heartbeat.next_due
  BY <1>1 DEF SoonerOf
<1>4. Readied(ds) = h
  BY DEF Readied
<1> HIDE DEF d, e
<1>5. h \in Heartbeat /\ h.pass = heartbeat.pass /\ h.next_due = d
  BY <1>1, <1>2, <1>3 DEF Heartbeat
<1> HIDE DEF h
<1> QED BY <1>1, <1>3, <1>4, <1>5

LEMMA OpenedType ==
  ASSUME NEW h \in Heartbeat
  PROVE  /\ Opened(h) \in Heartbeat
         /\ Opened(h).pass <=> h.pass \/ PassDue(h)
         /\ Opened(h).next_due = h.next_due
<1> DEFINE p == h.pass \/ PassDue(h)
<1>1. p \in BOOLEAN
  BY DEF PassDue, Heartbeat
<1>2. Opened(h) = [h EXCEPT !.pass = p]
  BY DEF Opened
<1>3. p <=> h.pass \/ PassDue(h)
  OBVIOUS
<1> HIDE DEF p
<1> QED BY <1>1, <1>2, <1>3 DEF Heartbeat

\* Only a heartbeat that is configured pulses.
LEMMA PulseBookedType ==
  ASSUME NEW h \in Heartbeat, NEW accepted \in BOOLEAN, NEW t \in Nat, Interval # None
  PROVE  /\ PulseBooked(h, accepted, t) \in Heartbeat
         /\ PulseBooked(h, accepted, t).pass = FALSE
<1> DEFINE count == SoonerOf(h.retry_count + 1, RetryCap)
           b == Backoff(count)
<1>1. h.retry_count \in 0 .. RetryCap /\ Interval \in Nat
  BY Numbers DEF Heartbeat
<1>2. count \in 0 .. RetryCap /\ count \in Nat
  BY <1>1, HoldIsPositive DEF SoonerOf
<1>3. b \in Int
  BY <1>2, BackoffType
<1>4. t + Interval \in Int /\ 0 \in 0 .. RetryCap
  BY <1>1, HoldIsPositive
<1>5. CASE accepted
  <2> DEFINE d == t + Interval
  <2>1. PulseBooked(h, accepted, t)
          = [h EXCEPT !.pass = FALSE, !.failed = FALSE, !.retry_count = 0, !.next_due = d]
    BY <1>5 DEF PulseBooked
  <2>2. d \in Int
    BY <1>4
  <2> HIDE DEF d
  <2> QED BY <1>4, <2>1, <2>2 DEF Heartbeat
<1>6. CASE ~ accepted
  <2> DEFINE d == t + b
  <2>1. PulseBooked(h, accepted, t)
          = [h EXCEPT !.pass = FALSE, !.failed = TRUE, !.retry_count = count, !.next_due = d]
    BY <1>6 DEF PulseBooked
  <2>2. d \in Int
    BY <1>3
  <2> HIDE DEF d, count
  <2> QED BY <1>2, <2>1, <2>2 DEF Heartbeat
<1> QED BY <1>5, <1>6

----------------------------------------------------------------------------
(* What a tick makes of one output.                                        *)

LEMMA AdmittedType ==
  ASSUME TypeOK, NEW values \in Readings
  PROVE  Admitted(values) \in Controls
<1>1. values \in [State -> Truth]
  BY ControllerAssumption
<1>2. ASSUME NEW x \in State
      PROVE  SetTracked(ctrl[x], values[x], now) \in Tracked
  BY <1>1, TrackedType DEF TypeOK
<1> QED BY <1>2 DEF Admitted, Controls

\* Resynchronising forces the next command and leaves what is known of the relay.
LEMMA ResyncForces ==
  ASSUME NEW rules, NEW o \in OutputRuntime(rules), NEW t, NEW settle
  PROVE  LET g == Resync(o, t, settle)
         IN  g.force = TRUE /\ Previous(g) = Previous(o)
BY DEF Resync, OutputRuntime, Previous

LEMMA RestartKeepsValue ==
  ASSUME NEW rules, NEW o \in OutputRuntime(rules), NEW before, NEW after, NEW t
  PROVE  LET g == RestartOnTransitions(o, before, after, t)
         IN  g.force = o.force /\ Previous(g) = Previous(o)
BY DEF RestartOnTransitions, OutputRuntime, Previous

\* Deciding changes what is desired, not what is known of the relay; forced off, it
\* desires OFF, whatever the rules say.
LEMMA SelectKeepsValue ==
  ASSUME NEW rules, NEW o \in OutputRuntime(rules), NEW after, NEW t, NEW can_attempt,
         NEW force_off, NEW default
  PROVE  LET g == Select(o, after, t, can_attempt, force_off, default)
         IN  /\ g.force = o.force /\ Previous(g) = Previous(o)
             /\ force_off => g.desired = No
<1> DEFINE advanced == Advanced(o, after, t)
           sel == IF force_off THEN None ELSE Winner(advanced, after)
           eps == IF sel # None /\ Timed(sel) /\ can_attempt /\ MayAttempt(o, t)
                  THEN [advanced EXCEPT ![sel] = EpisodeStart(@, t, sel.duration)]
                  ELSE advanced
           val == CASE force_off -> No
                    [] ~ force_off /\ sel # None -> Drive(sel, eps[sel], t)
                    [] ~ force_off /\ sel = None ->
                         IF \E r \in DOMAIN eps : after[r.state].value # Unknown
                         THEN default ELSE Unknown
           chosen == [o EXCEPT !.episodes = eps, !.selected = sel, !.desired = val]
<1>1. Select(o, after, t, can_attempt, force_off, default)
        = IF Pending(chosen) THEN chosen ELSE ClearFailure(chosen)
  BY Zenon DEF Select
<1>2. force_off => val = No
  BY Zenon
<1> HIDE DEF val, eps, sel
<1>3. /\ chosen.force = o.force /\ Previous(chosen) = Previous(o) /\ chosen.desired = val
  BY DEF OutputRuntime, Previous
<1>4. /\ ClearFailure(chosen).force = chosen.force
      /\ Previous(ClearFailure(chosen)) = Previous(chosen)
      /\ ClearFailure(chosen).desired = chosen.desired
  BY DEF OutputRuntime, Previous, ClearFailure
<1> HIDE DEF chosen
<1> QED BY <1>1, <1>2, <1>3, <1>4

LEMMA DecidedType ==
  ASSUME TypeOK, NEW i \in Output, NEW values \in Readings, NEW h, NEW ds, NEW t \in Nat
  PROVE  LET g == Decided(i, values, h, ds, t)
         IN  /\ g \in OutputRuntime(RulesOf[i])
             /\ g.force = IF PassDue(h) THEN TRUE ELSE outs[i].force
             /\ Previous(g) = Previous(outs[i])
             /\ TimedOut => g.desired = No
             /\ g.eligible_at >= outs[i].eligible_at
<1> DEFINE R == RulesOf[i]
           v == outs[i]
           w == Admitted(values)
           p == Prepared(i, h)
           r == RestartOnTransitions(p, ctrl, w, t)
           g == Decided(i, values, h, ds, t)
<1>1. R \in SUBSET Rule /\ Ranked(R) /\ DefaultOf[i] \in Known
  BY OutputIs
<1>2. now \in Nat /\ v \in OutputRuntime(R) /\ w \in Controls /\ v.eligible_at \in Int
  BY AdmittedType DEF TypeOK, OutputRuntime
<1>3. PICK settle \in BOOLEAN : settle = FALSE
  OBVIOUS
<1>4. p = IF PassDue(h) THEN Resync(v, now, settle) ELSE v
  BY <1>3 DEF Prepared
<1>5. g = Select(r, w, t, Available(i, ds), TimedOut, DefaultOf[i])
  BY DEF Decided
<1> HIDE DEF g, w, p, v, R
<1>6. /\ Resync(v, now, settle) \in OutputRuntime(R)
      /\ Resync(v, now, settle).eligible_at >= v.eligible_at
  BY <1>2, ResyncType
<1>7. Resync(v, now, settle).force = TRUE /\ Previous(Resync(v, now, settle)) = Previous(v)
  BY <1>2, ResyncForces
<1>8. p \in OutputRuntime(R) /\ Previous(p) = Previous(v) /\ p.eligible_at >= v.eligible_at
  BY <1>2, <1>4, <1>6, <1>7
<1>9. p.force = IF PassDue(h) THEN TRUE ELSE v.force
  BY <1>4, <1>7
<1>10. r \in OutputRuntime(R) /\ r.eligible_at = p.eligible_at
  BY <1>1, <1>8, RestartType
<1>11. r.force = p.force /\ Previous(r) = Previous(p)
  BY <1>8, RestartKeepsValue
<1> HIDE DEF r
<1>12. g \in OutputRuntime(R) /\ g.eligible_at = r.eligible_at
  BY <1>1, <1>2, <1>5, <1>10, SelectType
<1>13. g.force = r.force /\ Previous(g) = Previous(r) /\ (TimedOut => g.desired = No)
  BY <1>5, <1>10, SelectKeepsValue
<1> QED BY <1>8, <1>9, <1>10, <1>11, <1>12, <1>13 DEF g, v, R

Answer == {"accepted", "rejected", "ambiguous"}

\* What is accepted is the relay's value from then on; what fails changes nothing of it.
LEMMA BookType ==
  ASSUME NEW rules, NEW o \in OutputRuntime(rules), NEW s, NEW f \in Nat,
         NEW outcome \in Answer
  PROVE  LET g == Book(o, s, f, outcome)
         IN  /\ g \in OutputRuntime(rules) /\ g.desired = o.desired
             /\ outcome = "accepted" => Previous(g) = o.desired
             /\ outcome # "accepted" => g.force = o.force /\ Previous(g) = Previous(o)
             /\ g.eligible_at >= o.eligible_at \/ g.eligible_at >= f + Hold
             /\ outcome # "rejected" => g.eligible_at >= f + Hold
<1>1. o.desired \in Truth
  BY DEF OutputRuntime
<1>2. CASE outcome = "accepted"
  <2>1. Book(o, s, f, outcome) = Accepted(o, o.desired, f)
    BY <1>2 DEF Book
  <2>2. /\ Accepted(o, o.desired, f) \in OutputRuntime(rules)
        /\ Accepted(o, o.desired, f).eligible_at = f + Hold
    BY <1>1, AcceptedType
  <2>3. /\ Accepted(o, o.desired, f).desired = o.desired
        /\ Previous(Accepted(o, o.desired, f)) = o.desired
    BY DEF Accepted, OutputRuntime, Previous
  <2>4. f + Hold >= f + Hold
    BY HoldIsPositive
  <2> QED BY <1>2, <2>1, <2>2, <2>3, <2>4
<1>3. CASE outcome # "accepted"
  <2>1. PICK ambiguous \in BOOLEAN : ambiguous <=> outcome = "ambiguous"
    OBVIOUS
  <2>2. ambiguous = (outcome = "ambiguous")
    BY <2>1
  <2>3. Book(o, s, f, outcome) = Failed(o, f, ambiguous)
    BY <1>3, <2>2 DEF Book
  <2>4. /\ Failed(o, f, ambiguous) \in OutputRuntime(rules)
        /\ Failed(o, f, ambiguous).eligible_at >= o.eligible_at
        /\ ambiguous => Failed(o, f, ambiguous).eligible_at >= f + Hold
    BY FailedType
  <2>5. /\ Failed(o, f, ambiguous).desired = o.desired
        /\ Failed(o, f, ambiguous).force = o.force
        /\ Previous(Failed(o, f, ambiguous)) = Previous(o)
    BY DEF Failed, OutputRuntime, Previous
  <2>6. outcome # "rejected" => ambiguous
    BY <1>3, <2>1 DEF Answer
  <2> QED BY <1>3, <2>3, <2>4, <2>5, <2>6
<1> QED BY <1>2, <1>3

----------------------------------------------------------------------------
(* The next deadline is one: among the instants ahead there is a first.    *)

\* The sets of the members below each of them are finite, so that one is smallest.
LEMMA LeastNatural ==
  ASSUME NEW S \in SUBSET Nat, S # {}
  PROVE  \E m \in S : \A n \in S : m <= n
<1> DEFINE Below(m) == {n \in S : n <= m}
           T == {Below(m) : m \in S}
           R == StrictSubsetOrdering(S)
           F == FiniteSubsetsOf(S)
<1>1. ASSUME NEW m \in S PROVE Below(m) \in F
  <2>1. Below(m) \in SUBSET Nat /\ m \in Nat /\ \A s \in Below(m) : s <= m
    OBVIOUS
  <2>2. IsFiniteSet(Below(m))
    BY <2>1, FS_BoundedSetOfNaturals
  <2> QED BY <2>2 DEF FiniteSubsetsOf
<1>2. T \subseteq F /\ T # {}
  BY <1>1
<1>3. IsWellFoundedOn(R, F)
  BY FS_StrictSubsetOrderingWellFounded
<1>4. PICK X \in T : \A Y \in T : ~ (<<Y, X>> \in R)
  <2> HIDE DEF T, R, F
  <2> QED BY <1>2, <1>3, WFMin
<1>5. PICK m \in S : X = Below(m)
  OBVIOUS
<1>6. ASSUME NEW n \in S, n < m PROVE FALSE
  <2>0. Below(n) \in T
    OBVIOUS
  <2>1. Below(n) \subseteq Below(m) /\ m \in Below(m) /\ m \notin Below(n)
    <3>1. m \in Nat /\ n \in Nat /\ \A s \in S : s \in Nat
      OBVIOUS
    <3>2. m \in Below(m) /\ m \notin Below(n)
      <4>1. m <= m /\ ~ (m <= n)
        BY <1>6, <3>1
      <4> QED BY <4>1
    <3>3. ASSUME NEW k \in Below(n) PROVE k \in Below(m)
      <4>1. k \in S /\ k <= n
        OBVIOUS
      <4>2. k <= m
        BY <1>6, <3>1, <4>1
      <4> QED BY <4>1, <4>2
    <3> QED BY <3>2, <3>3
  <2>2. <<Below(n), X>> \in R
    BY <1>5, <2>1 DEF StrictSubsetOrdering
  <2> QED BY <1>4, <2>0, <2>2
<1>7. \A n \in S : m <= n
  BY <1>6
<1> QED BY <1>7

LEMMA NextPhaseType ==
  ASSUME NEW e \in Episode, NEW t \in Int, NEW half \in Nat, half > 0
  PROVE  NextPhase(e, t, half) \in OptTime
<1>1. e.start \in OptTime /\ e.deadline \in OptTime /\ (e.start # None => e.deadline # None)
  BY DEF Episode
<1>2. CASE e.start = None \/ e.exhausted
  BY <1>2 DEF NextPhase, OptTime
<1>3. CASE ~ (e.start = None \/ e.exhausted)
  <2> DEFINE q == (t - e.start) \div half
             p == (q + 1) * half
  <2>1. e.start \in Int /\ e.deadline \in Int
    BY <1>1, <1>3 DEF OptTime
  <2>2. q \in Int
    BY <2>1
  <2>3. NextPhase(e, t, half) = SoonerOf(e.start + p, e.deadline)
    BY <1>3 DEF NextPhase
  <2> HIDE DEF q
  <2>4. p \in Int
    BY <2>2
  <2> HIDE DEF p
  <2> QED BY <2>1, <2>3, <2>4 DEF SoonerOf, OptTime
<1> QED BY <1>2, <1>3

LEMMA OutputDeadlinesType ==
  ASSUME NEW rules \in SUBSET Rule, NEW o \in OutputRuntime(rules), NEW available,
         NEW t \in Int
  PROVE  OutputDeadlines(o, available, t) \subseteq OptTime
<1>1. o.eligible_at \in OptTime /\ o.retry_at \in OptTime
  BY DEF OutputRuntime, OptTime
<1>2. \A r \in DOMAIN o.episodes : o.episodes[r].deadline \in OptTime
  BY DEF OutputRuntime, Episode
<1>3. ASSUME o.selected # None, o.selected.kind = "blink_for"
      PROVE  NextPhase(o.episodes[o.selected], t, o.selected.half) \in OptTime
  <2>1. o.selected \in rules
    BY <1>3 DEF OutputRuntime
  <2>2. o.selected \in Rule
    BY <2>1
  <2>3. o.selected.half \in Nat /\ o.selected.half > 0
    BY <1>3, <2>2, HoldIsPositive DEF Rule, ValidRule
  <2>4. o.episodes[o.selected] \in Episode
    BY <2>1 DEF OutputRuntime
  <2> QED BY <2>3, <2>4, NextPhaseType
<1> QED BY <1>1, <1>2, <1>3 DEF OutputDeadlines

LEMMA FactDeadlineType ==
  ASSUME NEW f \in BoolFact, NEW stale \in OptTime
  PROVE  FactDeadline(f, stale) \in OptTime
BY DEF FactDeadline, BoolFact, OptTime

\* The loop never sleeps past its cap, never until an instant that has gone by, and past
\* none of the deadlines ahead.
LEMMA NextDeadlineType ==
  ASSUME TypeOK, NEW os, \A i \in Output : os[i] \in OutputRuntime(RulesOf[i]),
         NEW ds \in [Device -> BoolFact], NEW h \in Heartbeat, NEW t \in Nat
  PROVE  /\ NextDeadline(os, ds, h, t) \in Nat
         /\ t < NextDeadline(os, ds, h, t) /\ NextDeadline(os, ds, h, t) <= t + Idle
         /\ \A d :
              /\ d # None /\ d > t
              /\ \/ Timeout # None /\ d = telemetry + Timeout
                 \/ \E x \in Device : d = FactDeadline(ds[x], StaleAfter[x])
                 \/ \E i \in Output : d \in OutputDeadlines(os[i], Available(i, ds), t)
                 \/ Interval # None /\ d = h.next_due
              => NextDeadline(os, ds, h, t) <= d
<1> DEFINE A == IF Timeout # None THEN {telemetry + Timeout} ELSE {}
           B == {FactDeadline(ds[d], StaleAfter[d]) : d \in Device}
           C == UNION {OutputDeadlines(os[i], Available(i, ds), t) : i \in Output}
           D == HeartbeatDeadlines(h)
           deadlines == {t + Idle} \cup A \cup B \cup C \cup D
           ahead == {d \in deadlines \ {None} : d > t}
           least == CHOOSE d \in ahead : \A e \in ahead : d <= e
<1>1. Idle \in Nat /\ Idle > 0 /\ telemetry \in Nat /\ (Timeout # None => Timeout \in Nat)
  BY Numbers DEF TypeOK
<1>2. A \subseteq OptTime
  BY <1>1 DEF OptTime
<1>3. B \subseteq OptTime
  BY StaleIs, FactDeadlineType
<1>4. C \subseteq OptTime
  <2>1. ASSUME NEW i \in Output
        PROVE  OutputDeadlines(os[i], Available(i, ds), t) \subseteq OptTime
    BY OutputIs, OutputDeadlinesType
  <2> QED BY <2>1
<1>5. D \subseteq OptTime
  BY DEF HeartbeatDeadlines, Heartbeat, OptTime
<1>6. NextDeadline(os, ds, h, t) = least
  BY DEF NextDeadline
<1> DEFINE k == t + Idle
<1>13. ASSUME NEW d,
              \/ Timeout # None /\ d = telemetry + Timeout
              \/ \E x \in Device : d = FactDeadline(ds[x], StaleAfter[x])
              \/ \E i \in Output : d \in OutputDeadlines(os[i], Available(i, ds), t)
              \/ Interval # None /\ d = h.next_due
       PROVE  d \in A \cup B \cup C \cup D
  BY <1>13 DEF HeartbeatDeadlines
<1> HIDE DEF A, B, C, D
<1>7. k \in Nat /\ k > t /\ k # None /\ k \in OptTime
  BY <1>1, NoneAssumption DEF OptTime
<1>8. deadlines = {k} \cup A \cup B \cup C \cup D
  OBVIOUS
<1> HIDE DEF deadlines, k
<1>9. deadlines \subseteq OptTime /\ k \in deadlines
  BY <1>2, <1>3, <1>4, <1>5, <1>7, <1>8
<1>10. ahead \in SUBSET Nat /\ k \in ahead /\ \A d \in ahead : t < d
  <2>1. ASSUME NEW d \in ahead PROVE d \in Nat /\ t < d
    BY <1>9 DEF OptTime
  <2>2. k \in ahead
    BY <1>7, <1>9
  <2> QED BY <2>1, <2>2
<1>14. \A d \in deadlines : d # None /\ d > t => d \in ahead
  OBVIOUS
<1> HIDE DEF ahead
<1>11. \E d \in ahead : \A e \in ahead : d <= e
  BY <1>10, LeastNatural
<1>12. least \in ahead /\ \A e \in ahead : least <= e
  BY <1>11
<1> HIDE DEF least
<1>15. ASSUME NEW d, d # None, d > t,
              \/ Timeout # None /\ d = telemetry + Timeout
              \/ \E x \in Device : d = FactDeadline(ds[x], StaleAfter[x])
              \/ \E i \in Output : d \in OutputDeadlines(os[i], Available(i, ds), t)
              \/ Interval # None /\ d = h.next_due
       PROVE  least <= d
  BY <1>8, <1>12, <1>13, <1>14, <1>15
<1> QED BY <1>6, <1>12, <1>10, <1>15 DEF k

----------------------------------------------------------------------------
(* A tick, opened: what it decides, what it submits and what it books.     *)

\* The outputs of a tick after their decisions and after their submissions.
DecidedAll(values, c) ==
  [i \in Output |-> Decided(i, values, Readied(Expired), Expired, DecidedAt(c, i))]

BookedAll(os, c, outcome) ==
  [i \in Output |-> IF i \in DOMAIN outcome
                    THEN Book(os[i], DecidedAt(c, i), BookedAt(c, i), outcome[i])
                    ELSE os[i]]

Asked(values, c) == Attempted(DecidedAll(values, c), Expired, c)

Answers(values, c) ==
  [Asked(values, c) -> IF Dry THEN {"accepted"} ELSE Outcomes]

Pulsed(values, c, outcome) ==
  PulseDue(Opened(Readied(Expired)), BookedAll(DecidedAll(values, c), c, outcome),
           Expired, PulseAt(c))

\* What a tick with these answers does.
Ticked(values, c, outcome, accepted) ==
  LET h  == Readied(Expired)
      os == DecidedAll(values, c)
      pulse == Pulsed(values, c, outcome)
  IN  /\ outs' = BookedAll(os, c, outcome)
      /\ heartbeat' = IF pulse THEN PulseBooked(Opened(h), accepted, PulseBookedAt(c))
                      ELSE Opened(h)
      /\ wake' = NextDeadline(BookedAll(os, c, outcome), Expired, heartbeat', now)
      /\ sink' = [commands |-> [i \in Output |->
                                  IF i \in DOMAIN outcome /\ ~ Dry
                                  THEN os[i].desired ELSE Unknown],
                  pulse |-> pulse]
      /\ trace' = [i \in Output |->
           [trace[i] EXCEPT
              !.decided_at = DecidedAt(c, i),
              !.sent = IF i \notin DOMAIN outcome \/ Dry THEN @
                       ELSE IF outcome[i] = "rejected" THEN @ ELSE BookedAt(c, i),
              !.delivered = IF i \in DOMAIN outcome /\ outcome[i] = "accepted"
                            THEN os[i].desired
                            ELSE IF PassDue(h) THEN Unknown ELSE @]]

LEMMA TickIs ==
  ASSUME NEW values, NEW c, Tick(values, c)
  PROVE  /\ ~ stopping /\ TickDue /\ waiting' = TRUE
         /\ ctrl' = Admitted(values) /\ seen' = ctrl' /\ devices' = Expired
         /\ now' = PulseBookedAt(c)
         /\ UNCHANGED <<connected, acked, telemetry, stopping>>
         /\ \E outcome \in Answers(values, c), accepted \in BOOLEAN :
              Ticked(values, c, outcome, accepted)
<1>1. (IF Dry THEN {TRUE} ELSE BOOLEAN) \subseteq BOOLEAN
  OBVIOUS
<1>2. /\ ~ stopping /\ TickDue /\ waiting' = TRUE
      /\ ctrl' = Admitted(values) /\ seen' = ctrl' /\ devices' = Expired
      /\ now' = PulseBookedAt(c)
      /\ UNCHANGED <<connected, acked, telemetry, stopping>>
  BY DEF Tick
<1>3. \E outcome \in Answers(values, c), accepted \in IF Dry THEN {TRUE} ELSE BOOLEAN :
        Ticked(values, c, outcome, accepted)
  BY DEF Tick, Answers, Asked, Ticked, Pulsed, DecidedAll, BookedAll, Opened
<1> QED BY <1>1, <1>2, <1>3

LEMMA AnswerIs ==
  ASSUME NEW values, NEW c, NEW outcome \in Answers(values, c)
  PROVE  /\ DOMAIN outcome = Asked(values, c)
         /\ \A i \in DOMAIN outcome : outcome[i] \in Outcomes /\ outcome[i] \in Answer
<1> DEFINE O == IF Dry THEN {"accepted"} ELSE Outcomes
<1>1. O \subseteq Outcomes /\ Outcomes \subseteq Answer
  BY ControllerAssumption DEF Answer
<1>2. outcome \in [Asked(values, c) -> O]
  BY DEF Answers
<1> HIDE DEF O
<1>3. DOMAIN outcome = Asked(values, c) /\ \A i \in DOMAIN outcome : outcome[i] \in O
  BY <1>2
<1> QED BY <1>1, <1>3

\* What one output comes to in a tick: a pass forces whatever is not accepted in it.
LEMMA TickOutput ==
  ASSUME TypeOK, NEW values \in Readings, NEW c \in Samples,
         NEW outcome \in Answers(values, c), NEW i \in Output
  PROVE  LET o == DecidedAll(values, c)[i]
             g == BookedAll(DecidedAll(values, c), c, outcome)[i]
         IN  /\ o \in OutputRuntime(RulesOf[i]) /\ g \in OutputRuntime(RulesOf[i])
             /\ g.desired = o.desired /\ o.desired \in Truth
             /\ TimedOut => o.desired = No
             /\ i \in DOMAIN outcome /\ outcome[i] = "accepted" => Previous(g) = o.desired
             /\ ~ (i \in DOMAIN outcome /\ outcome[i] = "accepted") =>
                  /\ g.force = IF PassDue(Readied(Expired)) THEN TRUE ELSE outs[i].force
                  /\ Previous(g) = Previous(outs[i])
<1> DEFINE h == Readied(Expired)
           R == RulesOf[i]
           o == DecidedAll(values, c)[i]
           g == BookedAll(DecidedAll(values, c), c, outcome)[i]
           s == DecidedAt(c, i)
           f == BookedAt(c, i)
<1>0. \A j \in DOMAIN outcome : outcome[j] \in Answer
  BY AnswerIs
<1>1. now \in Nat
  BY DEF TypeOK
<1>2. s \in Nat /\ f \in Nat
  BY <1>1, SamplesAre
<1>3. o = Decided(i, values, h, Expired, s)
  BY DEF DecidedAll
<1>5. g = IF i \in DOMAIN outcome THEN Book(o, s, f, outcome[i]) ELSE o
  BY DEF BookedAll
<1> HIDE DEF s, h, o, g, f
<1>4. /\ o \in OutputRuntime(R)
      /\ o.force = IF PassDue(h) THEN TRUE ELSE outs[i].force
      /\ Previous(o) = Previous(outs[i])
      /\ TimedOut => o.desired = No
  BY <1>2, <1>3, DecidedType
<1> HIDE DEF R
<1>6. o.desired \in Truth
  BY <1>4 DEF OutputRuntime
<1>7. CASE i \in DOMAIN outcome
  <2> DEFINE a == outcome[i]
  <2>1. g = Book(o, s, f, a)
    BY <1>5, <1>7
  <2>5. a \in Answer
    BY <1>0, <1>7
  <2> HIDE DEF a
  <2> DEFINE b == Book(o, s, f, a)
  <2>3. o \in OutputRuntime(R) /\ f \in Nat
    BY <1>2, <1>4
  <2>4. /\ b \in OutputRuntime(R) /\ b.desired = o.desired
        /\ a = "accepted" => Previous(b) = o.desired
        /\ a # "accepted" => b.force = o.force /\ Previous(b) = Previous(o)
    BY <2>3, <2>5, BookType
  <2> HIDE DEF b
  <2>2. /\ g \in OutputRuntime(R) /\ g.desired = o.desired
        /\ a = "accepted" => Previous(g) = o.desired
        /\ a # "accepted" => g.force = o.force /\ Previous(g) = Previous(o)
    BY <2>1, <2>4 DEF b
  <2> QED BY <1>4, <1>6, <1>7, <2>2 DEF a, o, g, h, R
<1>8. CASE i \notin DOMAIN outcome
  <2>1. g = o
    BY <1>5, <1>8
  <2> QED BY <1>4, <1>6, <1>8, <2>1 DEF o, g, h, R
<1> QED BY <1>7, <1>8

\* The heartbeat after a tick, by whether it pulsed.
LEMMA TickHeartbeat ==
  ASSUME TypeOK, NEW values \in Readings, NEW c \in Samples,
         NEW outcome \in Answers(values, c), NEW accepted \in BOOLEAN,
         Ticked(values, c, outcome, accepted)
  PROVE  /\ heartbeat' \in Heartbeat
         /\ heartbeat'.pass => /\ ~ Pulsed(values, c, outcome)
                               /\ Opened(Readied(Expired)).pass
                               /\ heartbeat'.next_due <= now
<1> DEFINE h == Readied(Expired)
           pulse == Pulsed(values, c, outcome)
           t == PulseBookedAt(c)
<1>1. now \in Nat /\ t \in Nat
  BY SamplesAre DEF TypeOK
<1>2. h \in Heartbeat /\ (h.pass => h.next_due <= now)
  BY ReadiedType
<1>3. heartbeat' = IF pulse THEN PulseBooked(Opened(h), accepted, t) ELSE Opened(h)
  BY DEF Ticked
<1>4. pulse => Interval # None
  BY DEF Pulsed, PulseDue
<1> HIDE DEF h, t, pulse
<1>5. /\ Opened(h) \in Heartbeat
      /\ Opened(h).pass <=> h.pass \/ PassDue(h)
      /\ Opened(h).next_due = h.next_due
  BY <1>2, OpenedType
<1>6. CASE pulse
  <2>1. heartbeat' \in Heartbeat /\ heartbeat'.pass = FALSE
    BY <1>1, <1>3, <1>4, <1>5, <1>6, PulseBookedType
  <2> QED BY <2>1
<1>7. CASE ~ pulse
  <2>1. heartbeat' = Opened(h)
    BY <1>3, <1>7
  <2>2. PassDue(h) => h.next_due <= now
    BY <1>1, <1>2 DEF PassDue, Heartbeat
  <2> QED BY <1>2, <1>5, <1>7, <2>1, <2>2 DEF h, pulse
<1> QED BY <1>6, <1>7

\* The history after a tick.
LEMMA TickTrace ==
  ASSUME TypeOK, TraceInv, NEW values \in Readings, NEW c \in Samples,
         NEW outcome \in Answers(values, c), NEW accepted,
         Ticked(values, c, outcome, accepted), NEW i \in Output
  PROVE  /\ trace'[i] \in Trace
         /\ trace'[i].settled = trace[i].settled
         /\ trace'[i].decided_at = DecidedAt(c, i)
         /\ trace'[i].sent = IF i \notin DOMAIN outcome \/ Dry THEN trace[i].sent
                             ELSE IF outcome[i] = "rejected" THEN trace[i].sent
                             ELSE BookedAt(c, i)
         /\ trace'[i].delivered
              = IF i \in DOMAIN outcome /\ outcome[i] = "accepted"
                THEN DecidedAll(values, c)[i].desired
                ELSE IF PassDue(Readied(Expired)) THEN Unknown ELSE trace[i].delivered
<1> DEFINE v == trace[i]
           a == DecidedAt(c, i)
           s == IF i \notin DOMAIN outcome \/ Dry THEN v.sent
                ELSE IF outcome[i] = "rejected" THEN v.sent ELSE BookedAt(c, i)
           d == IF i \in DOMAIN outcome /\ outcome[i] = "accepted"
                THEN DecidedAll(values, c)[i].desired
                ELSE IF PassDue(Readied(Expired)) THEN Unknown ELSE v.delivered
<1>1. v \in Trace
  BY DEF TraceInv
<1>2. now \in Nat
  BY DEF TypeOK
<1>3. a \in Nat /\ BookedAt(c, i) \in Nat
  BY <1>2, SamplesAre
<1>4. s \in OptTime
  BY <1>1, <1>3 DEF Trace, OptTime
<1>5. DecidedAll(values, c)[i].desired \in Truth
  BY TickOutput
<1>6. d \in Truth
  BY <1>1, <1>5 DEF Trace, Truth
<1>7. trace'[i] = [v EXCEPT !.decided_at = a, !.sent = s, !.delivered = d]
  BY DEF Ticked
<1> DEFINE g == [v EXCEPT !.decided_at = a, !.sent = s, !.delivered = d]
<1> HIDE DEF v, a, s, d
<1>8. /\ g \in Trace
      /\ g.settled = v.settled /\ g.decided_at = a /\ g.sent = s /\ g.delivered = d
  BY <1>1, <1>3, <1>4, <1>6 DEF Trace
<1> HIDE DEF g
<1> QED BY <1>7, <1>8 DEF g, v, a, s, d

----------------------------------------------------------------------------
(* A tick preserves the invariant.                                         *)

\* While a pass is open after the decisions, what need not be sent again was delivered.
LEMMA OpenPassDelivered ==
  ASSUME TypeOK, TraceInv, PassInv, NEW values \in Readings, NEW c \in Samples,
         NEW outcome \in Answers(values, c), NEW accepted,
         Ticked(values, c, outcome, accepted), Opened(Readied(Expired)).pass,
         NEW i \in Output, ~ outs'[i].force
  PROVE  trace'[i].delivered = Previous(outs'[i])
<1> DEFINE h == Readied(Expired)
           o == DecidedAll(values, c)[i]
           g == BookedAll(DecidedAll(values, c), c, outcome)[i]
           given == i \in DOMAIN outcome /\ outcome[i] = "accepted"
<1>1. outs'[i] = g
  BY DEF Ticked
<1>2. /\ given => Previous(g) = o.desired
      /\ ~ given => /\ g.force = IF PassDue(h) THEN TRUE ELSE outs[i].force
                    /\ Previous(g) = Previous(outs[i])
  BY TickOutput
<1>3. trace'[i].delivered
        = IF given THEN o.desired ELSE IF PassDue(h) THEN Unknown ELSE trace[i].delivered
  BY TickTrace
<1>4. h \in Heartbeat /\ (Opened(h).pass <=> h.pass \/ PassDue(h)) /\ h.pass = heartbeat.pass
  BY ReadiedType, OpenedType
<1> HIDE DEF g, o, h, given
<1>5. CASE given
  BY <1>1, <1>2, <1>3, <1>5
<1>6. CASE ~ given
  <2>1. ~ PassDue(h) /\ ~ outs[i].force
    BY <1>1, <1>2, <1>6
  <2>2. heartbeat.pass
    BY <1>4, <2>1 DEF h
  <2>3. trace[i].delivered = Previous(outs[i])
    BY <2>1, <2>2 DEF PassInv
  <2> QED BY <1>1, <1>2, <1>3, <1>6, <2>1, <2>3
<1> QED BY <1>5, <1>6

\* When it pulses, nothing is left to deliver.
LEMMA TickPulse ==
  ASSUME TypeOK, TraceInv, PassInv, NEW values \in Readings, NEW c \in Samples,
         NEW outcome \in Answers(values, c), NEW accepted,
         Tick(values, c), Ticked(values, c, outcome, accepted)
  PROVE  PulseProvesDelivery'
<1>1. SUFFICES ASSUME sink'.pulse
               PROVE  /\ ~ stopping' /\ TransportReady' /\ DevicesReady(devices)'
                      /\ \A i \in Output : outs'[i].desired # Unknown =>
                                             trace'[i].delivered = outs'[i].desired
  BY DEF PulseProvesDelivery
<1> DEFINE os == BookedAll(DecidedAll(values, c), c, outcome)
<1>2. Pulsed(values, c, outcome) /\ outs' = os
  BY <1>1 DEF Ticked
<1>3. /\ Opened(Readied(Expired)).pass
      /\ ~ stopping /\ Eligible(Expired)
      /\ \A i \in Output : ~ Pending(os[i])
  BY <1>2 DEF Pulsed, PulseDue
<1> HIDE DEF os
<1>4. UNCHANGED <<connected, acked, stopping>> /\ devices' = Expired
  BY TickIs
<1>5. ~ stopping' /\ TransportReady' /\ DevicesReady(devices)'
  BY <1>3, <1>4 DEF Eligible, TransportReady, DevicesReady
<1>6. ASSUME NEW i \in Output, outs'[i].desired # Unknown
      PROVE  trace'[i].delivered = outs'[i].desired
  <2> DEFINE g == os[i]
  <2>1. outs'[i] = g /\ ~ Pending(g)
    BY <1>2, <1>3
  <2> HIDE DEF g
  <2>2. outs'[i] \in OutputRuntime(RulesOf[i])
    BY <1>2, TickOutput DEF os
  <2>3. ~ outs'[i].force /\ outs'[i].desired = Previous(outs'[i])
    BY <1>6, <2>1, <2>2 DEF Pending, OutputRuntime
  <2>4. trace'[i].delivered = Previous(outs'[i])
    BY <1>3, <2>3, OpenPassDelivered
  <2> QED BY <2>3, <2>4
<1> QED BY <1>5, <1>6

LEMMA TickPass ==
  ASSUME TypeOK, TraceInv, PassInv, NEW values \in Readings, NEW c \in Samples,
         NEW outcome \in Answers(values, c), NEW accepted \in BOOLEAN,
         Ticked(values, c, outcome, accepted)
  PROVE  PassInv'
<1> SUFFICES ASSUME heartbeat'.pass, NEW i \in Output, ~ outs'[i].force
             PROVE  trace'[i].delivered = Previous(outs'[i])
  BY DEF PassInv, Previous
<1>1. Opened(Readied(Expired)).pass
  BY TickHeartbeat
<1> QED BY <1>1, OpenPassDelivered

LEMMA TickType ==
  ASSUME TypeOK, NEW values \in Readings, NEW c \in Samples,
         NEW outcome \in Answers(values, c), NEW accepted \in BOOLEAN,
         Tick(values, c), Ticked(values, c, outcome, accepted)
  PROVE  TypeOK'
<1>1. /\ UNCHANGED <<connected, acked, telemetry, stopping>>
      /\ waiting' = TRUE /\ ctrl' = Admitted(values) /\ devices' = Expired
      /\ now' = PulseBookedAt(c)
  BY TickIs
<1>2. now \in Nat /\ now' \in Nat /\ now <= now'
  BY <1>1, SamplesAre DEF TypeOK
<1>3. ctrl' \in [State -> Tracked]
  BY <1>1, AdmittedType DEF Controls
<1>4. \A i \in Output : outs'[i] \in OutputRuntime(RulesOf[i])
  <2>1. outs' = BookedAll(DecidedAll(values, c), c, outcome)
    BY DEF Ticked
  <2> QED BY <2>1, TickOutput
<1>5. devices' \in [Device -> BoolFact]
  BY <1>1, ExpiredDevices
<1>6. heartbeat' \in Heartbeat /\ (heartbeat'.pass => heartbeat'.next_due <= now)
  BY TickHeartbeat
<1>7. heartbeat'.pass => heartbeat'.next_due <= now'
  BY <1>2, <1>6 DEF Heartbeat
<1>8. wake' \in Nat
  <2>1. wake' = NextDeadline(outs', devices', heartbeat', now)
    BY <1>1 DEF Ticked
  <2> QED BY <1>2, <1>4, <1>5, <1>6, <2>1, NextDeadlineType
<1> QED BY <1>1, <1>2, <1>3, <1>4, <1>5, <1>6, <1>7, <1>8 DEF TypeOK

LEMMA TickHistory ==
  ASSUME TypeOK, TraceInv, OnlineInv, NEW values \in Readings, NEW c \in Samples,
         NEW outcome \in Answers(values, c), NEW accepted,
         Tick(values, c), Ticked(values, c, outcome, accepted)
  PROVE  TraceInv' /\ OnlineInv' /\ SeenInv'
<1>1. /\ ctrl' = Admitted(values) /\ seen' = ctrl' /\ devices' = Expired
      /\ now' = PulseBookedAt(c)
  BY TickIs
<1>2. now \in Nat /\ now' \in Nat /\ now <= now'
  BY <1>1, SamplesAre DEF TypeOK
<1>3. \A i \in Output : trace'[i] \in Trace /\ trace'[i].settled = trace[i].settled
  BY TickTrace
<1>4. trace' \in [Output -> Trace]
  <2> DEFINE F(i) ==
        [trace[i] EXCEPT
           !.decided_at = DecidedAt(c, i),
           !.sent = IF i \notin DOMAIN outcome \/ Dry THEN @
                    ELSE IF outcome[i] = "rejected" THEN @ ELSE BookedAt(c, i),
           !.delivered = IF i \in DOMAIN outcome /\ outcome[i] = "accepted"
                         THEN DecidedAll(values, c)[i].desired
                         ELSE IF PassDue(Readied(Expired)) THEN Unknown ELSE @]
  <2>1. trace' = [i \in Output |-> F(i)]
    BY DEF Ticked
  <2> HIDE DEF F
  <2> QED BY <1>3, <2>1
<1>5. \A i \in Output : trace[i] \in Trace /\ trace[i].settled <= now
  BY DEF TraceInv
<1>6. TraceInv'
  <2>1. ASSUME NEW i \in Output PROVE trace'[i].settled <= now'
    <3>1. trace[i].settled \in Nat
      BY <1>5 DEF Trace
    <3> QED BY <1>2, <1>3, <1>5, <3>1
  <2> QED BY <1>4, <2>1 DEF TraceInv
<1>7. OnlineInv'
  <2>1. ASSUME NEW i \in Output, DeviceOf[i] # None, devices'[DeviceOf[i]].value = Yes
        PROVE  /\ devices'[DeviceOf[i]].received # None
               /\ devices'[DeviceOf[i]].received >= trace'[i].settled
    <3> DEFINE d == DeviceOf[i]
    <3>1. d \in Device
      BY <2>1, OutputIs
    <3>2. devices[d].value = Yes /\ devices'[d].received = devices[d].received
      BY <1>1, <2>1, <3>1, ExpiredDevices
    <3> QED BY <1>3, <2>1, <3>2 DEF OnlineInv
  <2> QED BY <2>1 DEF OnlineInv
<1>8. SeenInv'
  BY <1>1, AdmittedType DEF SeenInv, Controls
<1> QED BY <1>6, <1>7, <1>8

LEMMA TickKeeps ==
  ASSUME IInv, NEW values \in Readings, NEW c \in Samples, Tick(values, c)
  PROVE  IInv'
<1>1. PICK outcome \in Answers(values, c), accepted \in BOOLEAN :
        Ticked(values, c, outcome, accepted)
  BY TickIs
<1> QED BY <1>1, TickType, TickHistory, TickPass, TickPulse DEF IInv

----------------------------------------------------------------------------
(* The events and the passing of time preserve it.                         *)

LEMMA RecoveredIs ==
  ASSUME TypeOK, NEW S, NEW i \in Output
  PROVE  LET g == Recovered(S)[i]
         IN  /\ g \in OutputRuntime(RulesOf[i])
             /\ i \in S => g.force = TRUE
             /\ i \notin S => g = outs[i]
<1> DEFINE v == outs[i]
           R == RulesOf[i]
<1>1. PICK settle \in BOOLEAN : settle = TRUE
  OBVIOUS
<1>2. Recovered(S)[i] = IF i \in S THEN Resync(v, now, settle) ELSE v
  BY <1>1 DEF Recovered
<1>3. v \in OutputRuntime(R) /\ now \in Int
  BY DEF TypeOK
<1> DEFINE g == Recovered(S)[i]
<1> HIDE DEF v, R, g
<1>4. Resync(v, now, settle) \in OutputRuntime(R) /\ Resync(v, now, settle).force = TRUE
  BY <1>3, ResyncType, ResyncForces
<1>5. g = IF i \in S THEN Resync(v, now, settle) ELSE v
  BY <1>2 DEF g
<1> QED BY <1>3, <1>4, <1>5 DEF g, v, R

LEMMA TraceRecoveryIs ==
  ASSUME TypeOK, TraceInv, NEW S, TraceRecovery(S), now' = now
  PROVE  /\ TraceInv'
         /\ \A i \in Output :
              /\ i \in S => trace'[i].settled = now
              /\ i \notin S => trace'[i] = trace[i]
<1>1. now \in Nat
  BY DEF TypeOK
<1>2. \A i \in Output : trace[i] \in Trace /\ trace[i].settled <= now
  BY DEF TraceInv
<1>3. trace' = [i \in Output |->
                  IF i \in S
                  THEN [trace[i] EXCEPT !.settled = now, !.delivered = Unknown]
                  ELSE trace[i]]
  BY DEF TraceRecovery
<1>4. ASSUME NEW i \in Output
      PROVE  LET g == [trace[i] EXCEPT !.settled = now, !.delivered = Unknown]
             IN  g \in Trace /\ g.settled = now
  BY <1>1, <1>2 DEF Trace, Truth
<1>5. ASSUME NEW i \in Output
      PROVE  trace'[i] \in Trace /\ trace'[i].settled <= now'
  <2> DEFINE g == [trace[i] EXCEPT !.settled = now, !.delivered = Unknown]
  <2>1. g \in Trace /\ g.settled = now
    BY <1>4
  <2>2. trace'[i] = IF i \in S THEN g ELSE trace[i]
    BY <1>3
  <2> HIDE DEF g
  <2> QED BY <1>1, <1>2, <2>1, <2>2
<1>6. trace' \in [Output -> Trace]
  BY <1>3, <1>5
<1>7. ASSUME NEW i \in Output
      PROVE  /\ i \in S => trace'[i].settled = now
             /\ i \notin S => trace'[i] = trace[i]
  BY <1>3, <1>4
<1> QED BY <1>5, <1>6, <1>7 DEF TraceInv

\* The pulse of the latest step is over with the next.
LEMMA SilentProves == ASSUME sink' = Silent PROVE PulseProvesDelivery'
BY DEF PulseProvesDelivery, Silent

LEMMA LastTickKeeps ==
  ASSUME IInv, NEW values \in Readings, LastTick(values)
  PROVE  IInv'
<1> USE DEF IInv
<1>1. /\ stopping /\ ~ waiting /\ ctrl' = Admitted(values) /\ devices' = Expired
      /\ waiting' = TRUE
      /\ UNCHANGED <<now, wake, outs, connected, acked, heartbeat, telemetry, stopping,
                     trace, seen>>
  BY DEF LastTick
<1>2. ctrl' \in [State -> Tracked] /\ devices' \in [Device -> BoolFact]
  BY <1>1, AdmittedType, ExpiredDevices DEF Controls
<1>3. TypeOK'
  BY <1>1, <1>2 DEF TypeOK
<1>4. TraceInv' /\ SeenInv' /\ PassInv'
  BY <1>1 DEF TraceInv, SeenInv, PassInv, Previous
<1>5. OnlineInv'
  <2>1. ASSUME NEW i \in Output, DeviceOf[i] # None, devices'[DeviceOf[i]].value = Yes
        PROVE  /\ devices'[DeviceOf[i]].received # None
               /\ devices'[DeviceOf[i]].received >= trace'[i].settled
    <3> DEFINE d == DeviceOf[i]
    <3>1. d \in Device
      BY <2>1, OutputIs
    <3>2. devices[d].value = Yes /\ devices'[d].received = devices[d].received
      BY <1>1, <2>1, <3>1, ExpiredDevices
    <3> QED BY <1>1, <2>1, <3>2 DEF OnlineInv
  <2> QED BY <2>1 DEF OnlineInv
<1>6. PulseProvesDelivery'
  BY SilentProves DEF LastTick
<1> QED BY <1>3, <1>4, <1>5, <1>6

\* What every event has in common.
LEMMA EventKeeps ==
  ASSUME TypeOK, SeenInv, Event, UNCHANGED <<now, ctrl>>
  PROVE  SeenInv' /\ PulseProvesDelivery' /\ waiting' \in BOOLEAN /\ wake' \in Nat
<1>1. SeenInv'
  BY DEF Event, SeenInv
<1>2. PulseProvesDelivery'
  BY SilentProves DEF Event
<1>3. waiting' \in BOOLEAN /\ wake' \in Nat
  BY DEF Event, TypeOK
<1> QED BY <1>1, <1>2, <1>3

LEMMA ConnectionKeeps ==
  ASSUME IInv, NEW up \in BOOLEAN, Connection(up)
  PROVE  IInv'
<1> USE DEF IInv
<1>1. /\ connected' = up /\ acked' = {} /\ outs' = Recovered(Output)
      /\ devices' = [d \in Device |-> FactUnknown(devices[d])]
      /\ heartbeat' = [heartbeat EXCEPT !.pass = FALSE, !.was_eligible = FALSE,
                                        !.next_due = now]
      /\ Event /\ TraceRecovery(Output)
      /\ UNCHANGED <<now, ctrl, telemetry, stopping>>
  BY DEF Connection
<1>2. SeenInv' /\ PulseProvesDelivery' /\ waiting' \in BOOLEAN /\ wake' \in Nat
  BY <1>1, EventKeeps
<1>3. TraceInv'
  BY <1>1, TraceRecoveryIs
<1>4. \A i \in Output : outs'[i] \in OutputRuntime(RulesOf[i])
  BY <1>1, RecoveredIs
<1>5. /\ devices' \in [Device -> BoolFact]
      /\ \A d \in Device : devices'[d].value = Unknown
  BY <1>1, UnknownFact DEF TypeOK
<1>6. heartbeat' \in Heartbeat /\ heartbeat'.pass = FALSE
  <2>1. PICK no \in BOOLEAN : no = FALSE
    OBVIOUS
  <2>2. heartbeat' = [heartbeat EXCEPT !.pass = no, !.was_eligible = no, !.next_due = now]
    BY <1>1, <2>1
  <2>3. heartbeat \in Heartbeat /\ now \in Int
    BY DEF TypeOK
  <2> QED BY <2>1, <2>2, <2>3 DEF Heartbeat
<1>7. TypeOK'
  BY <1>1, <1>2, <1>4, <1>5, <1>6 DEF TypeOK
<1>8. OnlineInv'
  BY <1>5, OutputIs, Distinct DEF OnlineInv
<1>9. PassInv'
  BY <1>6 DEF PassInv
<1> QED BY <1>2, <1>3, <1>7, <1>8, <1>9

LEMMA ReportKeeps ==
  ASSUME IInv, NEW report \in Reports, ReceiveAvailability(report)
  PROVE  IInv'
<1> USE DEF IInv
<1> DEFINE back == {d \in Device : report[d] = Yes /\ devices[d].value # Yes}
           S == {i \in Output : DeviceOf[i] \in back}
<1>1. /\ devices' = [d \in Device |-> IF report[d] = Unknown THEN devices[d]
                                      ELSE FactReceive(report[d], now)]
      /\ outs' = Recovered(S) /\ Event /\ TraceRecovery(S)
      /\ UNCHANGED <<now, ctrl, connected, acked, heartbeat, telemetry, stopping>>
  BY DEF ReceiveAvailability
<1>2. SeenInv' /\ PulseProvesDelivery' /\ waiting' \in BOOLEAN /\ wake' \in Nat
  BY <1>1, EventKeeps
<1>3. \A i \in Output : i \in S => DeviceOf[i] \in Device /\ devices[DeviceOf[i]].value # Yes
                                     /\ report[DeviceOf[i]] = Yes
  OBVIOUS
<1>4. \A i \in Output : DeviceOf[i] \in Device /\ report[DeviceOf[i]] = Yes
                          /\ devices[DeviceOf[i]].value # Yes => i \in S
  OBVIOUS
<1>5. /\ TraceInv'
      /\ \A i \in Output : /\ i \in S => trace'[i].settled = now
                           /\ i \notin S => trace'[i] = trace[i]
  <2> HIDE DEF S
  <2> QED BY <1>1, TraceRecoveryIs
<1>6. \A i \in Output : /\ outs'[i] \in OutputRuntime(RulesOf[i])
                        /\ i \in S => outs'[i].force = TRUE
                        /\ i \notin S => outs'[i] = outs[i]
  <2> HIDE DEF S
  <2> QED BY <1>1, RecoveredIs
<1> HIDE DEF back, S
<1>7. now \in Nat /\ devices \in [Device -> BoolFact] /\ report \in [Device -> Truth]
  BY ControllerAssumption DEF TypeOK
<1>8. ASSUME NEW d \in Device
      PROVE  /\ FactReceive(report[d], now) \in BoolFact
             /\ FactReceive(report[d], now).value = report[d]
             /\ FactReceive(report[d], now).received = now
  BY <1>7, ReceivedFact
<1>9. ASSUME NEW d \in Device
      PROVE  /\ devices'[d] \in BoolFact
             /\ report[d] = Unknown => devices'[d] = devices[d]
             /\ report[d] # Unknown => devices'[d].value = report[d]
                                         /\ devices'[d].received = now
  BY <1>1, <1>7, <1>8
<1>10. devices' \in [Device -> BoolFact]
  BY <1>1, <1>9
<1>11. TypeOK'
  BY <1>1, <1>2, <1>6, <1>10 DEF TypeOK
<1>12. OnlineInv'
  <2>1. ASSUME NEW i \in Output, DeviceOf[i] # None, devices'[DeviceOf[i]].value = Yes
        PROVE  /\ devices'[DeviceOf[i]].received # None
               /\ devices'[DeviceOf[i]].received >= trace'[i].settled
    <3> DEFINE d == DeviceOf[i]
    <3>1. d \in Device
      BY <2>1, OutputIs
    <3>2. CASE report[d] = Unknown
      <4>1. i \notin S /\ devices'[d] = devices[d]
        BY <1>3, <1>9, <3>1, <3>2, Distinct
      <4> QED BY <1>5, <2>1, <4>1 DEF OnlineInv
    <3>3. CASE report[d] # Unknown
      <4>1. devices'[d].received = now
        BY <1>9, <3>1, <3>3
      <4>2. trace'[i].settled <= now'
        BY <1>5 DEF TraceInv
      <4>3. trace'[i].settled \in Nat
        BY <1>5 DEF TraceInv, Trace
      <4> QED BY <1>1, <1>7, <4>1, <4>2, <4>3, NoneAssumption
    <3> QED BY <3>2, <3>3
  <2> QED BY <2>1 DEF OnlineInv
<1>13. PassInv'
  <2>1. ASSUME heartbeat'.pass, NEW i \in Output, ~ outs'[i].force
        PROVE  trace'[i].delivered = Previous(outs'[i])
    <3>1. i \notin S /\ outs'[i] = outs[i] /\ trace'[i] = trace[i]
      BY <1>5, <1>6, <2>1
    <3> QED BY <1>1, <2>1, <3>1 DEF PassInv
  <2> QED BY <2>1 DEF PassInv, Previous
<1> QED BY <1>2, <1>5, <1>11, <1>12, <1>13

LEMMA QuietEventKeeps ==
  ASSUME IInv,
         \/ \E granted \in SUBSET Topic : Acknowledged(granted)
         \/ ReceiveTelemetry
         \/ Stop
  PROVE  IInv'
<1> USE DEF IInv
<1>1. /\ Event
      /\ UNCHANGED <<now, ctrl, outs, devices, connected, heartbeat, trace>>
  BY DEF Acknowledged, ReceiveTelemetry, Stop
<1>2. SeenInv' /\ PulseProvesDelivery' /\ waiting' \in BOOLEAN /\ wake' \in Nat
  BY <1>1, EventKeeps
<1>3. /\ acked' \subseteq Topic /\ (acked' # {} => connected')
      /\ telemetry' \in Nat /\ stopping' \in BOOLEAN
  <2>1. CASE \E granted \in SUBSET Topic : Acknowledged(granted)
    BY <2>1 DEF Acknowledged, TypeOK
  <2>2. CASE ReceiveTelemetry
    BY <2>2 DEF ReceiveTelemetry, TypeOK
  <2>3. CASE Stop
    BY <2>3 DEF Stop, TypeOK
  <2> QED BY <2>1, <2>2, <2>3
<1>4. TypeOK'
  BY <1>1, <1>2, <1>3 DEF TypeOK
<1>5. TraceInv' /\ OnlineInv' /\ PassInv'
  BY <1>1 DEF TraceInv, OnlineInv, PassInv, Previous
<1> QED BY <1>2, <1>4, <1>5

LEMMA PassKeeps ==
  ASSUME IInv, Pass
  PROVE  IInv'
<1> USE DEF IInv
<1>1. /\ now' = now + 1 /\ sink' = Silent
      /\ UNCHANGED <<ctrl, outs, devices, connected, acked, heartbeat, telemetry, stopping,
                     waiting, wake, trace, seen>>
  BY DEF Pass, engine
<1>2. now \in Nat /\ now' \in Nat /\ now <= now'
  BY <1>1 DEF TypeOK
<1>3. heartbeat'.pass => heartbeat'.next_due <= now'
  BY <1>1, <1>2 DEF TypeOK, Heartbeat
<1>4. TypeOK'
  BY <1>1, <1>2, <1>3 DEF TypeOK
<1>5. TraceInv'
  <2>1. ASSUME NEW i \in Output PROVE trace[i].settled <= now'
    <3>1. trace[i].settled \in Nat /\ trace[i].settled <= now
      BY DEF TraceInv, Trace
    <3> QED BY <1>2, <3>1
  <2> QED BY <1>1, <2>1 DEF TraceInv
<1>6. OnlineInv' /\ PassInv' /\ SeenInv'
  BY <1>1 DEF OnlineInv, PassInv, SeenInv, Previous
<1> QED BY <1>1, <1>4, <1>5, <1>6, SilentProves

LEMMA InitHolds == Init => IInv
<1> SUFFICES ASSUME Init PROVE IInv
  OBVIOUS
<1>1. \A i \in Output : NewOutput(RulesOf[i]) \in OutputRuntime(RulesOf[i])
  BY OutputIs, NewOutputType
<1>2. UntouchedTracked \in Tracked /\ NewFact \in BoolFact
  BY DEF UntouchedTracked, Tracked, NewFact, BoolFact, OptTime, Truth
<1>3. heartbeat \in Heartbeat /\ heartbeat.pass = FALSE
  BY HoldIsPositive DEF Init, Heartbeat
<1>4. TypeOK
  BY <1>1, <1>2, <1>3 DEF Init, TypeOK
<1>5. NewTrace \in Trace /\ NewTrace.settled = 0
  BY DEF NewTrace, Trace, OptTime, Truth
<1>6. TraceInv
  BY <1>5 DEF Init, TraceInv
<1>7. OnlineInv
  BY OutputIs, Distinct DEF Init, OnlineInv, NewFact
<1>8. SeenInv
  BY <1>2 DEF Init, SeenInv
<1>9. PassInv /\ PulseProvesDelivery
  BY <1>3 DEF PassInv, PulseProvesDelivery, Init, Silent
<1> QED BY <1>4, <1>6, <1>7, <1>8, <1>9 DEF IInv

LEMMA StepKeeps == IInv /\ [Next]_vars => IInv'
<1> SUFFICES ASSUME IInv, [Next]_vars PROVE IInv'
  OBVIOUS
<1>1. CASE \E values \in Readings : LastTick(values)
  BY <1>1, LastTickKeeps
<1>2. CASE \E values \in Readings, c \in Samples : Tick(values, c)
  BY <1>2, TickKeeps
<1>3. CASE \E up \in BOOLEAN : Connection(up)
  BY <1>3, ConnectionKeeps
<1>4. CASE \/ \E granted \in SUBSET Topic : Acknowledged(granted)
           \/ ReceiveTelemetry
           \/ Stop
  BY <1>4, QuietEventKeeps
<1>5. CASE \E report \in Reports : ReceiveAvailability(report)
  BY <1>5, ReportKeeps
<1>6. CASE Pass
  BY <1>6, PassKeeps
<1>7. CASE Stopped \/ UNCHANGED vars
  <2>1. UNCHANGED vars
    BY <1>7 DEF Stopped
  <2>2. UNCHANGED <<now, ctrl, outs, devices, connected, acked, heartbeat, telemetry,
                    stopping, waiting, wake, sink, trace, seen>>
    BY <2>1 DEF vars, engine
  <2> QED BY <2>2 DEF IInv, TypeOK, TraceInv, OnlineInv, SeenInv, PassInv, Previous,
                      PulseProvesDelivery, TransportReady, DevicesReady
<1> QED BY <1>1, <1>2, <1>3, <1>4, <1>5, <1>6, <1>7 DEF Next

THEOREM Invariant == Spec => []IInv
BY InitHolds, StepKeeps, PTL DEF Spec

\* The engine's state keeps its types.
THEOREM TypeCorrect == Spec => []TypeOK
BY Invariant, PTL DEF IInv

\* A pulse goes out only when every relay was given what it should have since the pass
\* began, however many failures, recoveries and reconnections came before it.
THEOREM PulsesAreEarned == Spec => []PulseProvesDelivery
BY Invariant, PTL DEF IInv

----------------------------------------------------------------------------
(* What the sink is handed.                                                *)

\* Only a tick hands over a command, and only one it attempts.
LEMMA CommandIs ==
  ASSUME Next, ~ UNCHANGED vars, NEW i \in Output, sink'.commands[i] # Unknown
  PROVE  \E values \in Readings, c \in Samples :
           /\ Tick(values, c)
           /\ i \in Asked(values, c)
           /\ sink'.commands[i] = DecidedAll(values, c)[i].desired
<1>1. sink' # Silent
  BY DEF Silent
<1>2. CASE \E values \in Readings, c \in Samples : Tick(values, c)
  <2>1. PICK values \in Readings, c \in Samples : Tick(values, c)
    BY <1>2
  <2>2. PICK outcome \in Answers(values, c), accepted \in BOOLEAN :
          Ticked(values, c, outcome, accepted)
    BY <2>1, TickIs
  <2> DEFINE os == DecidedAll(values, c)
             commands == [j \in Output |-> IF j \in DOMAIN outcome /\ ~ Dry
                                           THEN os[j].desired ELSE Unknown]
  <2>3. sink'.commands = commands
    BY <2>2 DEF Ticked
  <2> HIDE DEF os
  <2>4. sink'.commands[i] = IF i \in DOMAIN outcome /\ ~ Dry THEN os[i].desired ELSE Unknown
    BY <2>3
  <2>5. i \in DOMAIN outcome /\ sink'.commands[i] = os[i].desired
    BY <2>4
  <2> QED BY <2>1, <2>5, AnswerIs DEF os
<1>3. CASE Stopped
  BY <1>3 DEF Stopped
<1>4. ASSUME NEW values \in Readings, LastTick(values) PROVE sink' = Silent
  BY <1>4 DEF LastTick
<1>5. ASSUME NEW up \in BOOLEAN, Connection(up) PROVE sink' = Silent
  BY <1>5 DEF Connection, Event
<1>6. ASSUME NEW granted \in SUBSET Topic, Acknowledged(granted) PROVE sink' = Silent
  BY <1>6 DEF Acknowledged, Event
<1>7. ASSUME NEW report \in Reports, ReceiveAvailability(report) PROVE sink' = Silent
  BY <1>7 DEF ReceiveAvailability, Event
<1>8. CASE ReceiveTelemetry \/ Stop \/ Pass
  BY <1>1, <1>8 DEF ReceiveTelemetry, Stop, Pass, Event
<1> QED BY <1>1, <1>2, <1>3, <1>4, <1>5, <1>6, <1>7, <1>8 DEF Next

LEMMA ReachableStep ==
  ASSUME IInv, Next, ~ UNCHANGED vars, NEW i \in Output, sink'.commands[i] # Unknown
  PROVE  /\ ~ stopping /\ connected' /\ acked' = Topic
         /\ DeviceOf[i] # None =>
              LET f == devices'[DeviceOf[i]]
              IN  /\ f.value = Yes /\ f.received >= trace'[i].settled
                  /\ ~ Passed(FactDeadline(f, StaleAfter[DeviceOf[i]]), now)
<1>1. PICK values \in Readings, c \in Samples : Tick(values, c) /\ i \in Asked(values, c)
  BY CommandIs
<1>2. UNCHANGED <<connected, acked>> /\ devices' = Expired
  BY <1>1, TickIs
<1>3. /\ ~ stopping /\ connected /\ acked = Topic
      /\ DeviceOf[i] # None => Expired[DeviceOf[i]].value = Yes
  BY <1>1 DEF Asked, Attempted, Available, TransportReady
<1>4. TypeOK /\ OnlineInv'
  BY <1>1, TickKeeps DEF IInv
<1>5. ASSUME DeviceOf[i] # None
      PROVE  LET f == devices'[DeviceOf[i]]
             IN  /\ f.value = Yes /\ f.received >= trace'[i].settled
                 /\ ~ Passed(FactDeadline(f, StaleAfter[DeviceOf[i]]), now)
  <2> DEFINE d == DeviceOf[i]
  <2>1. d \in Device /\ devices'[d].value = Yes
    BY <1>2, <1>3, <1>5, OutputIs
  <2>2. devices'[d].received >= trace'[i].settled
    BY <1>4, <1>5, <2>1 DEF OnlineInv
  <2>3. ~ Passed(FactDeadline(devices'[d], StaleAfter[d]), now)
    BY <1>2, <1>4, <2>1, ExpiredDevices
  <2> QED BY <2>1, <2>2, <2>3
<1> QED BY <1>2, <1>3, <1>5

\* Every command has a complete connection and a device that is there: one that said so
\* over this connection and is not stale.
THEOREM CommandsAreReachable == Spec => CommandsReachable
<1>1. ASSUME IInv, Next, ~ UNCHANGED vars
      PROVE  \A i \in Output : sink'.commands[i] # Unknown =>
               /\ ~ stopping /\ connected' /\ acked' = Topic
               /\ DeviceOf[i] # None =>
                    LET f == devices'[DeviceOf[i]]
                    IN  /\ f.value = Yes /\ f.received >= trace'[i].settled
                        /\ ~ Passed(FactDeadline(f, StaleAfter[DeviceOf[i]]), now)
  BY <1>1, ReachableStep
<1> QED BY <1>1, Invariant, PTL DEF Spec, CommandsReachable

LEMMA SilencedStep ==
  ASSUME IInv, Next, ~ UNCHANGED vars, Timeout # None, now >= telemetry + Timeout,
         NEW i \in Output
  PROVE  sink'.commands[i] # Yes
<1>1. SUFFICES ASSUME sink'.commands[i] # Unknown
               PROVE  sink'.commands[i] # Yes
  BY Distinct
<1>2. PICK values \in Readings, c \in Samples :
        Tick(values, c) /\ sink'.commands[i] = DecidedAll(values, c)[i].desired
  BY <1>1, CommandIs
<1>3. TypeOK /\ TimedOut
  BY DEF IInv, TimedOut
<1>4. PICK outcome \in Answers(values, c), accepted \in BOOLEAN :
        Ticked(values, c, outcome, accepted)
  BY <1>2, TickIs
<1>5. DecidedAll(values, c)[i].desired = No
  BY <1>3, <1>4, TickOutput
<1> QED BY <1>2, <1>5, Distinct

\* Once the telemetry is too old, nothing switches a relay on.
THEOREM OnIsSilenced == Spec => TimeoutSilencesOn
<1>1. ASSUME IInv, Next, ~ UNCHANGED vars
      PROVE  Timeout # None /\ now >= telemetry + Timeout =>
               \A i \in Output : sink'.commands[i] # Yes
  BY <1>1, SilencedStep
<1> QED BY <1>1, Invariant, PTL DEF Spec, TimeoutSilencesOn

----------------------------------------------------------------------------
(* Every output runs its own RelayScheduler.  An instance has its own copy *)
(* of each operator; the copies mean the same.                             *)

LEMMA SameEpisodes ==
  ASSUME NEW i \in Output, NEW e, NEW r, NEW matches, NEW ctl, NEW t, NEW d
  PROVE  /\ Relay(i)!EpisodeUpdate(e, matches, t) = EpisodeUpdate(e, matches, t)
         /\ Relay(i)!EpisodeStart(e, t, d) = EpisodeStart(e, t, d)
         /\ Relay(i)!Timed(r) = Timed(r)
         /\ Relay(i)!Trigger(r, ctl) = Trigger(r, ctl)
         /\ Relay(i)!Drive(r, e, t) = Drive(r, e, t)
         /\ Relay(i)!Anchor(r, e, ctl, t) = Anchor(r, e, ctl, t)
<1>1. Relay(i)!EpisodeUpdate(e, matches, t) = EpisodeUpdate(e, matches, t)
  BY DEF Relay!EpisodeUpdate, Relay!DefaultEpisode, Relay!Passed, Relay!No,
         EpisodeUpdate, DefaultEpisode, Passed, No
<1>2. Relay(i)!EpisodeStart(e, t, d) = EpisodeStart(e, t, d) /\ Relay(i)!Timed(r) = Timed(r)
  BY DEF Relay!EpisodeStart, EpisodeStart, Relay!Timed, Timed
<1>3. Relay(i)!Trigger(r, ctl) = Trigger(r, ctl)
  BY DEF Relay!Trigger, Relay!Matches, Relay!No, Relay!Yes, Relay!Unknown,
         Trigger, Matches, No, Yes, Unknown
<1>4. Relay(i)!Drive(r, e, t) = Drive(r, e, t)
  BY DEF Relay!Drive, Relay!Phase, Relay!Yes, Relay!No, Drive, Phase, Yes, No
<1>5. Relay(i)!Anchor(r, e, ctl, t) = Anchor(r, e, ctl, t)
  BY DEF Relay!Anchor, Relay!EpisodeUpdate, Relay!EpisodeStart, Relay!DefaultEpisode,
         Relay!Passed, Relay!Matches, Relay!Timed, Relay!No, Relay!Yes,
         Anchor, EpisodeUpdate, EpisodeStart, DefaultEpisode, Passed, Matches, Timed, No, Yes
<1> QED BY <1>1, <1>2, <1>3, <1>4, <1>5

LEMMA SameDeliveries ==
  ASSUME NEW i \in Output, NEW o, NEW t
  PROVE  /\ Relay(i)!Pending(o) = Pending(o)
         /\ Relay(i)!MayAttempt(o, t) = MayAttempt(o, t)
         /\ Relay(i)!ClearFailure(o) = ClearFailure(o)
<1>1. Relay(i)!Pending(o) = Pending(o) /\ Relay(i)!ClearFailure(o) = ClearFailure(o)
  BY DEF Relay!Pending, Relay!Previous, Relay!ClearFailure, Relay!Unknown,
         Pending, Previous, ClearFailure, Unknown
<1>2. Relay(i)!MayAttempt(o, t) = MayAttempt(o, t)
  BY DEF Relay!MayAttempt, MayAttempt
<1> QED BY <1>1, <1>2

LEMMA SameResync ==
  ASSUME NEW i \in Output, NEW o, NEW t, NEW settle
  PROVE  Relay(i)!Resync(o, t, settle) = Resync(o, t, settle)
BY DEF Relay!Resync, Relay!LaterOf, Resync, LaterOf

LEMMA SameRestart ==
  ASSUME NEW i \in Output, NEW o, NEW before, NEW after, NEW t
  PROVE  Relay(i)!RestartOnTransitions(o, before, after, t)
           = RestartOnTransitions(o, before, after, t)
BY DEF Relay!RestartOnTransitions, Relay!Restarted, Relay!EpisodeStart,
       Relay!DefaultEpisode, Relay!Timed, Relay!Matches,
       RestartOnTransitions, Restarted, EpisodeStart, DefaultEpisode, Timed, Matches

LEMMA SameAdvance ==
  ASSUME NEW i \in Output, NEW o, NEW ctl, NEW t
  PROVE  Relay(i)!Advanced(o, ctl, t) = Advanced(o, ctl, t)
BY SameEpisodes DEF Relay!Advanced, Advanced

LEMMA SameWinner ==
  ASSUME NEW i \in Output, NEW eps, NEW ctl
  PROVE  Relay(i)!Winner(eps, ctl) = Winner(eps, ctl)
BY DEF Relay!Winner, Relay!Matches, Winner, Matches

LEMMA SameSelect ==
  ASSUME NEW i \in Output, NEW o, NEW ctl, NEW t, NEW can_attempt, NEW force_off, NEW default
  PROVE  Relay(i)!Select(o, ctl, t, can_attempt, force_off, default)
           = Select(o, ctl, t, can_attempt, force_off, default)
<1> DEFINE adv == Advanced(o, ctl, t)
           sel == IF force_off THEN None ELSE Winner(adv, ctl)
           eps == IF sel # None /\ Timed(sel) /\ can_attempt /\ MayAttempt(o, t)
                  THEN [adv EXCEPT ![sel] = EpisodeStart(@, t, sel.duration)]
                  ELSE adv
           val == CASE force_off -> No
                    [] ~ force_off /\ sel # None -> Drive(sel, eps[sel], t)
                    [] ~ force_off /\ sel = None ->
                         IF \E r \in DOMAIN eps : ctl[r.state].value # Unknown
                         THEN default ELSE Unknown
           chosen == [o EXCEPT !.episodes = eps, !.selected = sel, !.desired = val]
           radv == Relay(i)!Advanced(o, ctl, t)
           rsel == IF force_off THEN None ELSE Relay(i)!Winner(radv, ctl)
           reps == IF rsel # None /\ Relay(i)!Timed(rsel) /\ can_attempt
                        /\ Relay(i)!MayAttempt(o, t)
                   THEN [radv EXCEPT ![rsel] = Relay(i)!EpisodeStart(@, t, rsel.duration)]
                   ELSE radv
           rval == CASE force_off -> Relay(i)!No
                     [] ~ force_off /\ rsel # None -> Relay(i)!Drive(rsel, reps[rsel], t)
                     [] ~ force_off /\ rsel = None ->
                          IF \E r \in DOMAIN reps : ctl[r.state].value # Relay(i)!Unknown
                          THEN default ELSE Relay(i)!Unknown
           rchosen == [o EXCEPT !.episodes = reps, !.selected = rsel, !.desired = rval]
<1>1. Select(o, ctl, t, can_attempt, force_off, default)
        = IF Pending(chosen) THEN chosen ELSE ClearFailure(chosen)
  BY Zenon DEF Select
<1>2. Relay(i)!Select(o, ctl, t, can_attempt, force_off, default)
        = IF Relay(i)!Pending(rchosen) THEN rchosen ELSE Relay(i)!ClearFailure(rchosen)
  BY Zenon DEF Relay!Select
<1>3. radv = adv
  BY SameAdvance
<1> HIDE DEF radv, adv
<1>4. rsel = sel
  BY <1>3, SameWinner
<1> HIDE DEF rsel, sel
<1>5. reps = eps
  BY <1>3, <1>4, SameDeliveries, SameEpisodes
<1> HIDE DEF reps, eps
<1>6. Relay(i)!No = No /\ Relay(i)!Unknown = Unknown
  BY DEF Relay!No, Relay!Unknown, No, Unknown
<1>7. Relay(i)!Drive(rsel, reps[rsel], t) = Drive(sel, eps[sel], t)
  BY <1>4, <1>5, SameEpisodes
<1>8. rval = val
  BY <1>4, <1>5, <1>6, <1>7, Zenon
<1> HIDE DEF rval, val
<1>9. rchosen = chosen
  BY <1>4, <1>5, <1>8
<1> HIDE DEF rchosen, chosen
<1> QED BY <1>1, <1>2, <1>9, SameDeliveries

LEMMA SameBook ==
  ASSUME NEW i \in Output, NEW o, NEW s, NEW f, NEW outcome
  PROVE  Relay(i)!Book(o, s, f, outcome) = Book(o, s, f, outcome)
BY DEF Relay!Book, Relay!Accepted, Relay!Failed, Relay!SoonerOf, Relay!LaterOf,
       Relay!Backoff, Book, Accepted, Failed, SoonerOf, LaterOf, Backoff

\* The samples of a tick rise to its end: a first one, from the end, that lies after the
\* end would have a later one that lies after it as well.
LEMMA SamplesRise ==
  ASSUME now \in Nat, NEW c \in Samples, NEW k \in 1 .. 2 * N + 2
  PROVE  c[k] <= c[2 * N + 2]
<1> DEFINE M == 2 * N + 2
           S == {j \in Nat : j < M /\ c[M - j] > c[M]}
<1>1. M \in Nat /\ M >= 1 /\ M - 1 = 2 * N + 1
  BY Numbers
<1>2. \A j \in 1 .. M : c[j] \in Nat
  BY SampleIs
<1>3. \A j \in 1 .. M - 1 : c[j] <= c[j + 1]
  BY <1>1 DEF Samples
<1>4. k \in Nat /\ k >= 1 /\ k <= M
  BY <1>1
<1> HIDE DEF M
<1>5. ASSUME NEW m \in S, \A n \in S : m <= n
      PROVE  FALSE
  <2> DEFINE a == M - m
  <2>1. m \in Nat /\ m < M /\ c[a] > c[M]
    OBVIOUS
  <2>2. a \in Nat /\ a \in 1 .. M /\ M - 0 = M
    BY <1>1, <2>1
  <2>3. m # 0
    BY <1>1, <1>2, <2>1, <2>2
  <2> DEFINE n == m - 1
  <2>4. n \in Nat /\ n < m /\ n < M /\ a \in 1 .. M - 1 /\ M - n = a + 1 /\ a + 1 \in 1 .. M
    BY <1>1, <2>1, <2>2, <2>3
  <2>5. n \notin S
    BY <1>5, <2>1, <2>4
  <2> HIDE DEF a, n
  <2>6. ~ (c[a + 1] > c[M])
    BY <2>4, <2>5
  <2>7. c[a] \in Nat /\ c[a + 1] \in Nat /\ c[M] \in Nat
    BY <1>1, <1>2, <2>2, <2>4
  <2>8. c[a] <= c[a + 1]
    BY <1>3, <2>4
  <2> QED BY <2>1, <2>6, <2>7, <2>8 DEF a
<1>6. S = {}
  BY <1>5, LeastNatural
<1>7. M - k \in Nat /\ M - k < M /\ M - (M - k) = k
  BY <1>1, <1>4
<1>8. ~ (c[k] > c[M])
  BY <1>6, <1>7
<1>9. c[k] \in Nat /\ c[M] \in Nat
  BY <1>1, <1>2, <1>4
<1> QED BY <1>8, <1>9 DEF M

\* The instants of a tick are samples of the scheduler of each output.
LEMMA SamplesFit ==
  ASSUME now \in Nat, NEW c \in Samples, NEW i \in Output
  PROVE  LET s == DecidedAt(c, i)
             f == BookedAt(c, i)
             e == PulseBookedAt(c)
         IN  /\ s \in Relay(i)!Sample(now)
             /\ f \in Relay(i)!Sample(s)
             /\ e \in Relay(i)!Sample(s) /\ e \in Relay(i)!Sample(f)
<1> DEFINE s == DecidedAt(c, i)
           f == BookedAt(c, i)
           e == PulseBookedAt(c)
<1>1. 2 * i - 1 \in 1 .. 2 * N + 2 /\ 2 * i \in 1 .. 2 * N + 2 /\ 2 * N + 2 \in 1 .. 2 * N + 2
  BY Numbers, OutputIs
<1>2. /\ s \in Nat /\ now <= s /\ s <= now + SubmitLag /\ s <= Horizon
      /\ f \in Nat /\ now <= f /\ f <= now + SubmitLag /\ f <= Horizon
      /\ e \in Nat /\ now <= e /\ e <= now + SubmitLag /\ e <= Horizon
  BY <1>1, SampleIs DEF DecidedAt, BookedAt, PulseBookedAt
<1>3. s <= f
  BY SamplesAre
<1>4. f <= e
  BY <1>1, SamplesRise DEF BookedAt, PulseBookedAt
<1> HIDE DEF s, f, e
<1>5. \A t \in Nat : Relay(i)!Sample(t) = t .. (IF t + SubmitLag <= Horizon
                                              THEN t + SubmitLag ELSE Horizon)
  BY DEF Relay!Sample, Relay!SoonerOf
<1>6. s \in Relay(i)!Sample(now)
  BY <1>2, <1>5, Numbers
<1>7. f \in Relay(i)!Sample(s)
  BY <1>2, <1>3, <1>5, Numbers
<1>8. e \in Relay(i)!Sample(s)
  BY <1>2, <1>3, <1>4, <1>5, Numbers
<1>9. e \in Relay(i)!Sample(f)
  BY <1>2, <1>4, <1>5, Numbers
<1> QED BY <1>6, <1>7, <1>8, <1>9 DEF s, f, e

LEMMA SameTick ==
  ASSUME TypeOK, seen = ctrl, NEW values, NEW i \in Output, NEW pass \in BOOLEAN,
         pass = PassDue(Readied(Expired)), NEW available, available = Available(i, Expired),
         NEW timed_out, timed_out = TimedOut, NEW c
  PROVE  /\ Relay(i)!Admitted(values) = Admitted(values)
         /\ Relay(i)!Decided(values, DecidedAt(c, i), available, timed_out, pass)
              = DecidedAll(values, c)[i]
<1> DEFINE w == Admitted(values)
           h == Readied(Expired)
           s == DecidedAt(c, i)
           p == Prepared(i, h)
           r == RestartOnTransitions(p, ctrl, w, s)
<1>1. Relay(i)!Admitted(values) = w
  BY DEF Relay!Admitted, Relay!SetTracked, Admitted, SetTracked
<1>2. Relay(i)!Prepared(pass) = p
  BY SameResync DEF Relay!Prepared, Prepared
<1>3. DecidedAll(values, c)[i] = Select(r, w, s, available, timed_out, DefaultOf[i])
  BY DEF DecidedAll, Decided
<1>4. Relay(i)!Decided(values, s, available, timed_out, pass)
        = Relay(i)!Select(
            Relay(i)!RestartOnTransitions(Relay(i)!Prepared(pass), ctrl,
                                          Relay(i)!Admitted(values), s),
            Relay(i)!Admitted(values), s, available, timed_out, DefaultOf[i])
  BY DEF Relay!Decided
<1> HIDE DEF w, s, p
<1>5. Relay(i)!RestartOnTransitions(p, ctrl, w, s) = r
  BY SameRestart
<1> HIDE DEF r
<1> QED BY <1>1, <1>2, <1>3, <1>4, <1>5, SameSelect DEF w, s

\* A tick of the engine is, for each output, a tick of its scheduler.
LEMMA TickSchedules ==
  ASSUME IInv, NEW values \in Readings, NEW c \in Samples, Tick(values, c), NEW i \in Output
  PROVE  Relay(i)!Next
<1> USE DEF IInv
<1> DEFINE s == DecidedAt(c, i)
           f == BookedAt(c, i)
           o == DecidedAll(values, c)[i]
           v == Available(i, Expired)
<1>1. PICK outcome \in Answers(values, c), accepted \in BOOLEAN :
        Ticked(values, c, outcome, accepted)
  BY TickIs
<1>2. /\ ~ stopping /\ seen = ctrl /\ seen' = Admitted(values) /\ now' = PulseBookedAt(c)
  BY TickIs DEF SeenInv
<1>3. now \in Nat
  BY DEF TypeOK
<1>4. PICK pass \in BOOLEAN : pass = PassDue(Readied(Expired))
  <2>1. Readied(Expired) \in Heartbeat
    BY ReadiedType
  <2>2. PassDue(Readied(Expired)) \in BOOLEAN
    BY <2>1 DEF PassDue, Heartbeat
  <2> QED BY <2>2
<1>5. PICK available \in BOOLEAN : available = v
  <2>1. v \in BOOLEAN
    BY DEF Available, TransportReady, TypeOK
  <2> QED BY <2>1
<1>6. PICK timed_out \in BOOLEAN : timed_out = TimedOut
  <2>1. TimedOut \in BOOLEAN
    BY DEF TimedOut
  <2> QED BY <2>1
<1>7. /\ Relay(i)!Admitted(values) = Admitted(values)
      /\ Relay(i)!Decided(values, s, available, timed_out, pass) = o
  BY <1>2, <1>4, <1>5, <1>6, SameTick
<1>8. /\ s \in Relay(i)!Sample(now)
      /\ f \in Relay(i)!Sample(s)
      /\ now' \in Relay(i)!Sample(s) /\ now' \in Relay(i)!Sample(f)
  BY <1>2, <1>3, SamplesFit
<1>9. Relay(i)!Due(o, s) = Due(o, s)
  BY SameDeliveries DEF Relay!Due, Due
<1>10. i \in DOMAIN outcome <=> v /\ Due(o, s)
  BY AnswerIs DEF Asked, Attempted
<1>11. outs'[i] = IF i \in DOMAIN outcome THEN Book(o, s, f, outcome[i]) ELSE o
  BY <1>1 DEF Ticked, BookedAll
<1>12. /\ trace'[i].settled = trace[i].settled
       /\ trace'[i].decided_at = s
       /\ trace'[i].sent = IF i \notin DOMAIN outcome \/ Dry THEN trace[i].sent
                           ELSE IF outcome[i] = "rejected" THEN trace[i].sent ELSE f
  BY <1>1, TickTrace
<1> HIDE DEF s, f, o, v
<1>13. IF available /\ Relay(i)!Due(o, s)
       THEN \E g \in Relay(i)!Sample(s), answer \in Outcomes : Relay(i)!Submit(o, s, g, answer)
       ELSE Relay(i)!Leave(o, s)
  <2>1. CASE i \in DOMAIN outcome
    <3> DEFINE answer == outcome[i]
    <3>1. answer \in Outcomes /\ (Dry => answer = "accepted")
      BY <2>1, AnswerIs DEF Answers
    <3>2. outs'[i] = Relay(i)!Book(o, s, f, answer)
      BY <1>11, <2>1, SameBook
    <3>3. trace'[i].sent = IF Dry \/ answer = "rejected" THEN trace[i].sent ELSE f
      BY <1>12, <2>1
    <3> HIDE DEF answer
    <3>4. Relay(i)!Submit(o, s, f, answer)
      BY <1>8, <3>1, <3>2, <3>3 DEF Relay!Submit
    <3> QED BY <1>5, <1>8, <1>9, <1>10, <2>1, <3>1, <3>4
  <2>2. CASE i \notin DOMAIN outcome
    <3>1. Relay(i)!Leave(o, s)
      BY <1>8, <1>12, <1>11, <2>2 DEF Relay!Leave
    <3> QED BY <1>5, <1>9, <1>10, <2>2, <3>1
  <2> QED BY <2>1, <2>2
<1>14. Relay(i)!Tick(values, s, available, timed_out, pass)
  BY <1>2, <1>7, <1>12, <1>13 DEF Relay!Tick
<1> QED BY <1>8, <1>14 DEF Relay!Next

\* Any other step is a recovery, a passing of time or nothing to it.
LEMMA OtherSchedules ==
  ASSUME IInv, Next, \A values \in Readings, c \in Samples : ~ Tick(values, c),
         NEW i \in Output
  PROVE  Relay(i)!Next \/ UNCHANGED Relay(i)!vars
<1> USE DEF IInv
<1> DEFINE same == UNCHANGED <<now, seen, outs, trace>>
<1>1. ASSUME UNCHANGED <<now, seen>>, outs'[i] = outs[i], trace'[i] = trace[i]
      PROVE  UNCHANGED Relay(i)!vars
  BY <1>1 DEF Relay!vars
<1>2. ASSUME NEW S, UNCHANGED <<now, seen>>, outs' = Recovered(S), TraceRecovery(S)
      PROVE  Relay(i)!Next \/ UNCHANGED Relay(i)!vars
  <2>1. CASE i \in S
    <3>3. outs'[i] = Relay(i)!Resync(outs[i], now, TRUE)
      BY <1>2, <2>1 DEF Recovered, Resync, LaterOf, Relay!Resync, Relay!LaterOf
    <3>4. trace'[i] = [trace[i] EXCEPT !.settled = now, !.delivered = Unknown]
      BY <1>2, <2>1 DEF TraceRecovery
    <3>5. trace[i] \in Trace
      BY DEF TraceInv
    <3>6. /\ trace'[i].settled = now /\ trace'[i].decided_at = trace[i].decided_at
          /\ trace'[i].sent = trace[i].sent
      BY <3>4, <3>5 DEF Trace
    <3>7. Relay(i)!Resynchronise
      BY <1>2, <3>3, <3>6 DEF Relay!Resynchronise
    <3> QED BY <3>7 DEF Relay!Next
  <2>2. CASE i \notin S
    <3>1. outs'[i] = outs[i] /\ trace'[i] = trace[i]
      BY <1>2, <2>2 DEF Recovered, TraceRecovery
    <3> QED BY <1>1, <1>2, <3>1
  <2> QED BY <2>1, <2>2
<1>3. CASE same
  BY <1>1, <1>3
<1>4. CASE Pass
  <2>1. Relay(i)!Pass
    BY <1>4 DEF Pass, engine, Relay!Pass
  <2> QED BY <2>1 DEF Relay!Next
<1>5. ASSUME NEW values \in Readings, LastTick(values) PROVE same
  BY <1>5 DEF LastTick
<1>6. ASSUME NEW up \in BOOLEAN, Connection(up)
      PROVE  Relay(i)!Next \/ UNCHANGED Relay(i)!vars
  BY <1>2, <1>6 DEF Connection, Event
<1>7. ASSUME NEW granted \in SUBSET Topic, Acknowledged(granted) PROVE same
  BY <1>7 DEF Acknowledged, Event
<1>8. ASSUME NEW report \in Reports, ReceiveAvailability(report)
      PROVE  Relay(i)!Next \/ UNCHANGED Relay(i)!vars
  BY <1>2, <1>8 DEF ReceiveAvailability, Event
<1>9. CASE ReceiveTelemetry \/ Stop \/ Stopped
  <2>1. same
    BY <1>9 DEF ReceiveTelemetry, Stop, Stopped, Event, vars, engine
  <2> QED BY <1>3, <2>1
<1> QED BY <1>3, <1>4, <1>5, <1>6, <1>7, <1>8, <1>9 DEF Next

LEMMA ScheduledInit == ASSUME Init, NEW i \in Output PROVE Relay(i)!Init
<1>1. Relay(i)!NewOutput(RulesOf[i]) = NewOutput(RulesOf[i])
  BY DEF Relay!NewOutput, Relay!DefaultEpisode, Relay!Unknown,
         NewOutput, DefaultEpisode, Unknown
<1>2. Relay(i)!UntouchedTracked = UntouchedTracked
  BY DEF Relay!UntouchedTracked, Relay!Unknown, UntouchedTracked, Unknown
<1>3. trace[i] = NewTrace /\ outs[i] = NewOutput(RulesOf[i])
  BY DEF Init
<1>4. now = 0 /\ seen = [x \in State |-> UntouchedTracked]
  BY DEF Init
<1> QED BY <1>1, <1>2, <1>3, <1>4 DEF Relay!Init, NewTrace

\* What RelayScheduler says of one output holds of every output of the engine.
THEOREM RelaysAreScheduled == Spec => RelaysScheduled
<1>1. Init => \A i \in Output : Relay(i)!Init
  BY ScheduledInit
<1>2. ASSUME IInv, [Next]_vars
      PROVE  [\A i \in Output : Relay(i)!Next \/ UNCHANGED Relay(i)!vars]_vars
  <2>1. SUFFICES ASSUME Next, NEW i \in Output
                 PROVE  Relay(i)!Next \/ UNCHANGED Relay(i)!vars
    BY <1>2
  <2> QED BY <1>2, <2>1, TickSchedules, OtherSchedules
<1> QED BY <1>1, <1>2, Invariant, PTL DEF Spec, RelaysScheduled

----------------------------------------------------------------------------
(* Holds.  Each relay of the configuration is paced: its own commands are  *)
(* a hold apart and a hold after its latest recovery, whatever the other   *)
(* outputs, the heartbeat and the broker do.                               *)

Paced(i) ==
  INSTANCE PacedRelay WITH
    clock <- now, sent <- trace[i].sent, settled <- trace[i].settled

\* The output o waits out the hold after the latest command and the latest recovery.
Holding(o, v) ==
  /\ v.sent # None => o.eligible_at >= v.sent + Hold
  /\ o.eligible_at >= v.settled + Hold

HoldInv == \A i \in Output : Holding(outs[i], trace[i])

\* A tick sends one output at most one command, and waits out the hold before it.
LEMMA TickPaces ==
  ASSUME TypeOK, TraceInv, NEW values \in Readings, NEW c \in Samples, Tick(values, c),
         NEW i \in Output, Holding(outs[i], trace[i])
  PROVE  /\ Holding(outs[i], trace[i])'
         /\ Paced(i)!Pass \/ Paced(i)!Command
<1> DEFINE s == DecidedAt(c, i)
           f == BookedAt(c, i)
           o == DecidedAll(values, c)[i]
           g == outs'[i]
           v == trace[i]
           w == trace'[i]
<1>1. PICK outcome \in Answers(values, c), accepted \in BOOLEAN :
        Ticked(values, c, outcome, accepted)
  BY TickIs
<1>2. now \in Nat /\ s \in Nat /\ f \in Nat /\ now <= s /\ s <= f
  BY SamplesAre DEF TypeOK
<1>3. now' \in Nat /\ f <= now'
  <2>1. 2 * i \in 1 .. 2 * N + 2
    BY Numbers, OutputIs
  <2>2. c[2 * i] <= c[2 * N + 2]
    BY <1>2, <2>1, SamplesRise
  <2>3. now' = PulseBookedAt(c) /\ PulseBookedAt(c) \in Nat
    BY <1>2, TickIs, SamplesAre
  <2> QED BY <2>2, <2>3 DEF BookedAt, PulseBookedAt
<1>4. outs[i].eligible_at \in Int /\ v \in Trace
  BY DEF TypeOK, TraceInv, OutputRuntime
<1>5. o \in OutputRuntime(RulesOf[i]) /\ o.eligible_at >= outs[i].eligible_at
  BY <1>2, DecidedType DEF DecidedAll
<1>6. /\ w.settled = v.settled
      /\ w.sent = IF i \notin DOMAIN outcome \/ Dry THEN v.sent
                  ELSE IF outcome[i] = "rejected" THEN v.sent ELSE f
  BY <1>1, TickTrace
<1>7. g = IF i \in DOMAIN outcome THEN Book(o, s, f, outcome[i]) ELSE o
  BY <1>1 DEF Ticked, BookedAll
<1>8. i \in DOMAIN outcome => Due(o, s) /\ outcome[i] \in Answer
  BY AnswerIs DEF Asked, Attempted
<1>9. Hold \in Nat
  BY HoldIsPositive
<1>10. /\ v.sent # None => outs[i].eligible_at >= v.sent + Hold
       /\ outs[i].eligible_at >= v.settled + Hold
  BY DEF Holding
<1>11. v.settled \in Nat /\ (v.sent # None => v.sent \in Int)
  BY <1>4 DEF Trace, OptTime
<1>12. o.eligible_at \in Int
  BY <1>5 DEF OutputRuntime
<1>13. Holding(outs[i], trace[i])' <=> /\ w.sent # None => g.eligible_at >= w.sent + Hold
                                      /\ g.eligible_at >= w.settled + Hold
  BY DEF Holding
<1> HIDE DEF s, f, o, g, v, w
<1>14. Paced(i)!Later
  BY <1>2, <1>3 DEF Paced!Later
<1>15. w.sent = v.sent => Paced(i)!Pass
  BY <1>6, <1>14 DEF Paced!Pass, v, w
<1>16. CASE i \notin DOMAIN outcome
  <2>1. g = o /\ w.sent = v.sent
    BY <1>6, <1>7, <1>16
  <2> QED BY <1>4, <1>5, <1>6, <1>9, <1>10, <1>11, <1>12, <1>13, <1>15, <2>1
<1>17. CASE i \in DOMAIN outcome
  <2> DEFINE a == outcome[i]
  <2>1. g = Book(o, s, f, a) /\ a \in Answer
    BY <1>7, <1>8, <1>17
  <2>2. s >= o.eligible_at
    BY <1>8, <1>17 DEF Due, MayAttempt
  <2>3. w.sent = IF Dry THEN v.sent ELSE IF a = "rejected" THEN v.sent ELSE f
    BY <1>6, <1>17
  <2> HIDE DEF a
  <2>4. /\ g.eligible_at \in Int
        /\ g.eligible_at >= o.eligible_at \/ g.eligible_at >= f + Hold
        /\ a # "rejected" => g.eligible_at >= f + Hold
    BY <1>2, <1>5, <2>1, BookType DEF OutputRuntime
  <2>5. g.eligible_at >= outs[i].eligible_at
    BY <1>2, <1>4, <1>5, <1>9, <1>12, <2>2, <2>4
  <2>6. g.eligible_at >= w.settled + Hold
    BY <1>4, <1>6, <1>9, <1>10, <1>11, <2>4, <2>5
  <2>7. CASE w.sent = v.sent
    BY <1>4, <1>9, <1>10, <1>11, <1>13, <1>15, <2>4, <2>5, <2>6, <2>7
  <2>8. CASE w.sent = f /\ a # "rejected"
    <3>1. s \in now .. now' /\ f \in s .. now'
      BY <1>2, <1>3
    <3>2. /\ v.sent # None => s >= v.sent + Hold
          /\ s >= v.settled + Hold
      BY <1>2, <1>4, <1>5, <1>9, <1>10, <1>11, <1>12, <2>2
    <3>3. Paced(i)!Command
      BY <1>6, <1>14, <2>8, <3>1, <3>2 DEF Paced!Command, v, w
    <3> QED BY <1>13, <2>4, <2>6, <2>8, <3>3
  <2> QED BY <2>3, <2>7, <2>8
<1> QED BY <1>16, <1>17

\* Any other step is a recovery, a passing of time or nothing to it.
LEMMA OtherPaces ==
  ASSUME TypeOK, TraceInv, [Next]_vars,
         \A values \in Readings, c \in Samples : ~ Tick(values, c),
         NEW i \in Output, Holding(outs[i], trace[i])
  PROVE  /\ Holding(outs[i], trace[i])'
         /\ Paced(i)!Next \/ UNCHANGED Paced(i)!vars
<1> DEFINE Kept == /\ Holding(outs[i], trace[i])'
                   /\ Paced(i)!Next \/ UNCHANGED Paced(i)!vars
           same == UNCHANGED <<now, outs, trace>>
<1>0. SUFFICES Kept
  OBVIOUS
<1>1. ASSUME UNCHANGED now, outs'[i] = outs[i], trace'[i] = trace[i] PROVE Kept
  BY <1>1 DEF Holding, Paced!vars
<1>2. ASSUME NEW S, UNCHANGED now, outs' = Recovered(S), TraceRecovery(S) PROVE Kept
  <2>1. CASE i \in S
    <3> DEFINE v == outs[i]
               g == outs'[i]
    <3>1. PICK settle \in BOOLEAN : settle = TRUE
      OBVIOUS
    <3>2. g = Resync(v, now, settle)
      BY <1>2, <2>1, <3>1 DEF Recovered
    <3>3. now \in Nat /\ v \in OutputRuntime(RulesOf[i]) /\ v.eligible_at \in Int
      BY DEF TypeOK, OutputRuntime
    <3>4. trace[i] \in Trace
      BY DEF TraceInv
    <3>5. trace'[i] = [trace[i] EXCEPT !.settled = now, !.delivered = Unknown]
      BY <1>2, <2>1 DEF TraceRecovery
    <3>6. trace'[i].settled = now /\ trace'[i].sent = trace[i].sent
      BY <3>4, <3>5 DEF Trace
    <3>7. Hold \in Nat /\ (trace[i].sent # None => trace[i].sent \in Int)
      BY <3>4, HoldIsPositive DEF Trace, OptTime
    <3> DEFINE R == RulesOf[i]
    <3> HIDE DEF v, g, R
    <3>8. v \in OutputRuntime(R) /\ now \in Int
      BY <3>3 DEF R
    <3>9. /\ Resync(v, now, settle) \in OutputRuntime(R)
          /\ Resync(v, now, settle).eligible_at >= v.eligible_at
          /\ settle => Resync(v, now, settle).eligible_at >= now + Hold
      BY <3>8, ResyncType
    <3>10. /\ g \in OutputRuntime(RulesOf[i]) /\ g.eligible_at >= v.eligible_at
           /\ g.eligible_at >= now + Hold
      BY <3>1, <3>2, <3>9 DEF R
    <3>11. g.eligible_at \in Int
      BY <3>10 DEF OutputRuntime
    <3>12. trace[i].sent # None => v.eligible_at >= trace[i].sent + Hold
      BY DEF Holding, v
    <3>13. trace[i].sent # None => g.eligible_at >= trace[i].sent + Hold
      BY <3>3, <3>7, <3>10, <3>11, <3>12
    <3>14. Holding(outs[i], trace[i])'
      BY <3>6, <3>10, <3>13 DEF Holding, g
    <3>15. Paced(i)!Recover
      BY <1>2, <3>6 DEF Paced!Recover
    <3> QED BY <3>14, <3>15 DEF Paced!Next
  <2>2. CASE i \notin S
    <3>1. outs'[i] = outs[i] /\ trace'[i] = trace[i]
      BY <1>2, <2>2 DEF Recovered, TraceRecovery
    <3> QED BY <1>1, <1>2, <3>1
  <2> QED BY <2>1, <2>2
<1>3. ASSUME same PROVE Kept
  BY <1>1, <1>3
<1>4. ASSUME Pass PROVE Kept
  <2>1. now \in Nat /\ now' = now + 1 /\ outs' = outs /\ trace' = trace
    BY <1>4 DEF Pass, engine, TypeOK
  <2>2. Paced(i)!Pass
    BY <2>1 DEF Paced!Pass, Paced!Later
  <2> QED BY <2>1, <2>2 DEF Holding, Paced!Next
<1>5. ASSUME NEW values \in Readings, LastTick(values) PROVE same
  BY <1>5 DEF LastTick
<1>6. ASSUME NEW up \in BOOLEAN, Connection(up) PROVE Kept
  BY <1>2, <1>6 DEF Connection
<1>7. ASSUME NEW granted \in SUBSET Topic, Acknowledged(granted) PROVE same
  BY <1>7 DEF Acknowledged
<1>8. ASSUME NEW report \in Reports, ReceiveAvailability(report) PROVE Kept
  BY <1>2, <1>8 DEF ReceiveAvailability
<1>9. ASSUME ReceiveTelemetry \/ Stop \/ Stopped \/ UNCHANGED vars PROVE same
  BY <1>9 DEF ReceiveTelemetry, Stop, Stopped, vars, engine
<1> HIDE DEF Kept, same
<1> QED BY <1>3, <1>4, <1>5, <1>6, <1>7, <1>8, <1>9 DEF Next

LEMMA PacedStep ==
  ASSUME IInv, HoldInv, [Next]_vars
  PROVE  HoldInv' /\ \A i \in Output : Paced(i)!Next \/ UNCHANGED Paced(i)!vars
<1>1. TypeOK /\ TraceInv
  BY DEF IInv
<1>2. SUFFICES ASSUME NEW i \in Output
               PROVE  /\ Holding(outs[i], trace[i])'
                      /\ Paced(i)!Next \/ UNCHANGED Paced(i)!vars
  BY DEF HoldInv
<1>3. Holding(outs[i], trace[i])
  BY DEF HoldInv
<1>4. CASE \E values \in Readings, c \in Samples : Tick(values, c)
  BY <1>1, <1>3, <1>4, TickPaces DEF Paced!Next
<1>5. CASE \A values \in Readings, c \in Samples : ~ Tick(values, c)
  BY <1>1, <1>3, <1>5, OtherPaces
<1> QED BY <1>4, <1>5

RelaysPaced ==
  /\ \A i \in Output : Paced(i)!Init
  /\ [][\A i \in Output : Paced(i)!Next \/ UNCHANGED Paced(i)!vars]_vars

\* What PacedRelay promises one relay holds of every relay of the engine: its commands
\* are a hold apart and a hold after its recoveries, in a tick that submits for many
\* outputs and takes its time over each (src/engine.rs, tick; src/outputs.rs).
THEOREM RelaysArePaced == Spec => RelaysPaced
<1>1. ASSUME Init PROVE HoldInv /\ \A i \in Output : Paced(i)!Init
  <2>1. SUFFICES ASSUME NEW i \in Output
                 PROVE  Holding(outs[i], trace[i]) /\ Paced(i)!Init
    BY DEF HoldInv
  <2>2. now = 0 /\ outs[i] = NewOutput(RulesOf[i]) /\ trace[i] = NewTrace
    BY <1>1 DEF Init
  <2>3. outs[i].eligible_at = Hold /\ trace[i].sent = None /\ trace[i].settled = 0
    BY <2>2 DEF NewOutput, NewTrace
  <2>4. Holding(outs[i], trace[i])
    BY <2>3, HoldIsPositive DEF Holding
  <2>5. Paced(i)!Init
    BY <2>2, <2>3 DEF Paced!Init
  <2> QED BY <2>4, <2>5
<1>2. IInv /\ HoldInv /\ [Next]_vars => HoldInv'
  BY PacedStep
<1>3. IInv /\ HoldInv /\ [Next]_vars
        => [\A i \in Output : Paced(i)!Next \/ UNCHANGED Paced(i)!vars]_vars
  BY PacedStep
<1> QED BY <1>1, <1>2, <1>3, Invariant, PTL DEF Spec, RelaysPaced

----------------------------------------------------------------------------
(* Nothing is slept through.  A tick leaves the engine at rest at every    *)
(* instant before the deadline it asks for: by then no fact is stale, no   *)
(* pass begins, no pulse is due that was not, no episode ends and no hold  *)
(* or back-off is over.                                                    *)

TimedOutAt(u) == Timeout # None /\ u >= telemetry + Timeout

DeviceRests(d, u) == FactExpire(devices[d], StaleAfter[d], u) = devices[d]

\* A pass that is open still has something to deliver.
HeartbeatRests(u) ==
  Interval # None /\ heartbeat.was_eligible /\ u >= heartbeat.next_due =>
    heartbeat.pass /\ \E i \in Output : Pending(outs[i])

OutputRests(i, u) ==
  LET o == Select(outs[i], ctrl, u, Available(i, devices), TimedOutAt(u), DefaultOf[i])
  IN  o.desired = outs[i].desired /\ ~ (Available(i, devices) /\ Due(o, u))

RestInv ==
  waiting /\ ~ stopping =>
    /\ heartbeat.was_eligible = Eligible(devices)
    /\ \A u \in Nat : now <= u /\ u < wake =>
         /\ \A d \in Device : DeviceRests(d, u)
         /\ HeartbeatRests(u)
         /\ \A i \in Output : OutputRests(i, u)

LEMMA TickWake ==
  ASSUME TypeOK, NEW values \in Readings, NEW c \in Samples,
         NEW outcome \in Answers(values, c), NEW accepted \in BOOLEAN,
         Tick(values, c), Ticked(values, c, outcome, accepted),
         NEW d, d # None, d > now,
         \/ Timeout # None /\ d = telemetry + Timeout
         \/ \E x \in Device : d = FactDeadline(devices'[x], StaleAfter[x])
         \/ \E i \in Output : d \in OutputDeadlines(outs'[i], Available(i, devices'), now)
         \/ Interval # None /\ d = heartbeat'.next_due
  PROVE  wake' \in Nat /\ wake' <= d
<1> DEFINE os == outs'
           ds == devices'
           h == heartbeat'
<1>1. devices' = Expired /\ outs' = BookedAll(DecidedAll(values, c), c, outcome)
  BY TickIs DEF Ticked
<1>2. wake' = NextDeadline(os, ds, h, now)
  BY <1>1 DEF Ticked
<1>3. \A i \in Output : os[i] \in OutputRuntime(RulesOf[i])
  BY <1>1, TickOutput
<1>4. ds \in [Device -> BoolFact] /\ h \in Heartbeat /\ now \in Nat
  BY <1>1, ExpiredDevices, TickHeartbeat DEF TypeOK
<1>5. \/ Timeout # None /\ d = telemetry + Timeout
      \/ \E x \in Device : d = FactDeadline(ds[x], StaleAfter[x])
      \/ \E i \in Output : d \in OutputDeadlines(os[i], Available(i, ds), now)
      \/ Interval # None /\ d = h.next_due
  OBVIOUS
<1> HIDE DEF os, ds, h
<1>6. NextDeadline(os, ds, h, now) \in Nat /\ NextDeadline(os, ds, h, now) <= d
  BY <1>3, <1>4, <1>5, NextDeadlineType
<1> QED BY <1>2, <1>6

\* A fact that is still known is so until its deadline, which is waited for; one that is
\* not stays so.
LEMMA TickDeviceRests ==
  ASSUME TypeOK, NEW values \in Readings, NEW c \in Samples,
         NEW outcome \in Answers(values, c), NEW accepted \in BOOLEAN,
         Tick(values, c), Ticked(values, c, outcome, accepted),
         NEW u \in Nat, now <= u, u < wake', NEW d \in Device
  PROVE  FactExpire(devices'[d], StaleAfter[d], u) = devices'[d]
<1> DEFINE f == devices[d]
           g == devices'[d]
           D == FactDeadline(f, StaleAfter[d])
<1>1. f \in BoolFact /\ now \in Nat
  BY DEF TypeOK
<1>2. g = FactExpire(f, StaleAfter[d], now)
  BY TickIs DEF Expired
<1>3. g.received = f.received
  BY <1>2, ExpiredDevices, TickIs
<1>4. FactDeadline(g, StaleAfter[d]) = D
  BY <1>3 DEF FactDeadline
<1>5. D \in OptTime
  BY <1>1, StaleIs, FactDeadlineType
<1>6. ASSUME D # None, D > now PROVE ~ Passed(D, u)
  <2>1. wake' \in Nat /\ wake' <= D
    BY <1>4, <1>6, TickWake
  <2>2. D \in Int
    BY <1>5, <1>6 DEF OptTime
  <2> QED BY <2>1, <2>2 DEF Passed
<1>7. CASE Passed(D, u)
  <2>1. Passed(D, now)
    BY <1>1, <1>5, <1>6, <1>7 DEF Passed, OptTime
  <2>2. g = FactUnknown(f)
    BY <1>2, <2>1 DEF FactExpire
  <2>3. FactUnknown(g) = g
    BY <1>1, <2>2 DEF FactUnknown, BoolFact
  <2> HIDE DEF g, D
  <2> QED BY <1>4, <1>7, <2>3 DEF FactExpire, g
<1>8. CASE ~ Passed(D, u)
  <2> HIDE DEF g, D
  <2> QED BY <1>4, <1>8 DEF FactExpire, g
<1> QED BY <1>7, <1>8

\* What a tick selects from.
LEMMA RestartedOutput ==
  ASSUME TypeOK, NEW values \in Readings, NEW i \in Output, NEW h, NEW s \in Nat
  PROVE  RestartOnTransitions(Prepared(i, h), ctrl, Admitted(values), s)
           \in OutputRuntime(RulesOf[i])
<1> DEFINE R == RulesOf[i]
           v == outs[i]
           p == Prepared(i, h)
<1>1. R \in SUBSET Rule /\ Ranked(R) /\ v \in OutputRuntime(R) /\ now \in Nat
  BY OutputIs DEF TypeOK
<1>2. PICK settle \in BOOLEAN : settle = FALSE
  OBVIOUS
<1>3. p = IF PassDue(h) THEN Resync(v, now, settle) ELSE v
  BY <1>2 DEF Prepared
<1> HIDE DEF p, v, R
<1>4. p \in OutputRuntime(R)
  BY <1>1, <1>3, ResyncType
<1> QED BY <1>1, <1>4, RestartType DEF R, p

\* The next pulse is waited for, unless its pass is open and was not delivered.
LEMMA TickHeartbeatRests ==
  ASSUME TypeOK, NEW values \in Readings, NEW c \in Samples,
         NEW outcome \in Answers(values, c), NEW accepted \in BOOLEAN,
         Tick(values, c), Ticked(values, c, outcome, accepted)
  PROVE  /\ heartbeat'.was_eligible = Eligible(devices')
         /\ \A u \in Nat :
              /\ now <= u /\ u < wake'
              /\ Interval # None /\ heartbeat'.was_eligible /\ u >= heartbeat'.next_due
              => heartbeat'.pass /\ \E i \in Output : Pending(outs'[i])
<1> DEFINE h == Readied(Expired)
           open == Opened(h)
           t == PulseBookedAt(c)
           pulse == Pulsed(values, c, outcome)
           booked == PulseBooked(open, accepted, t)
           os == BookedAll(DecidedAll(values, c), c, outcome)
<1>1. /\ ~ stopping /\ devices' = Expired /\ outs' = os
      /\ heartbeat' = IF pulse THEN booked ELSE open
  BY TickIs DEF Ticked
<1>2. /\ now \in Nat /\ t \in Nat /\ now <= t
      /\ PulseAt(c) \in Nat /\ now <= PulseAt(c)
  BY SamplesAre DEF TypeOK
<1>3. h \in Heartbeat /\ h.was_eligible = Eligible(Expired)
  BY ReadiedType DEF Readied, TypeOK, Heartbeat
<1>4. /\ open \in Heartbeat /\ open.next_due = h.next_due
      /\ open.pass <=> h.pass \/ PassDue(h)
  <2> HIDE DEF h
  <2> QED BY <1>3, OpenedType
<1>5. open.was_eligible = h.was_eligible
  <2> HIDE DEF h
  <2> QED BY <1>3 DEF Opened, Heartbeat
<1>6. pulse = PulseDue(open, os, Expired, PulseAt(c))
  BY DEF Pulsed
<1>7. ASSUME pulse
      PROVE  /\ booked \in Heartbeat /\ booked.was_eligible = open.was_eligible
             /\ booked.next_due > now
  <2>1. Interval # None
    BY <1>6, <1>7 DEF PulseDue
  <2>2. Interval \in Nat /\ Interval > 0
    BY <2>1, Numbers
  <2> HIDE DEF open, t
  <2>3. booked \in Heartbeat
    BY <1>2, <1>4, <2>1, PulseBookedType
  <2>4. booked.was_eligible = open.was_eligible
    BY <1>4 DEF PulseBooked, Heartbeat
  <2>5. booked.next_due > now
    <3> DEFINE count == SoonerOf(open.retry_count + 1, RetryCap)
               b == Backoff(count)
    <3>1. count \in Nat /\ count >= 1
      BY <1>4, HoldIsPositive DEF Heartbeat, SoonerOf
    <3> HIDE DEF count
    <3>2. b \in Int /\ b >= 1
      BY <3>1, BackoffIsPositive
    <3>3. booked.next_due = IF accepted THEN t + Interval ELSE t + b
      BY <1>4 DEF PulseBooked, Heartbeat, count
    <3> HIDE DEF b, booked
    <3> QED BY <1>2, <2>2, <3>2, <3>3
  <2> QED BY <2>3, <2>4, <2>5
<1>8. heartbeat' \in Heartbeat /\ heartbeat'.was_eligible = Eligible(devices')
  BY <1>1, <1>3, <1>4, <1>5, <1>7
<1>9. ASSUME NEW u \in Nat, now <= u, u < wake',
             Interval # None, heartbeat'.was_eligible, u >= heartbeat'.next_due
      PROVE  heartbeat'.pass /\ \E i \in Output : Pending(outs'[i])
  <2>1. heartbeat'.next_due \in Int
    BY <1>8 DEF Heartbeat
  <2>2. ~ (heartbeat'.next_due > now)
    <3> SUFFICES ASSUME heartbeat'.next_due > now PROVE FALSE
      OBVIOUS
    <3>1. heartbeat'.next_due # None
      BY <2>1, NoneAssumption
    <3>2. wake' \in Nat /\ wake' <= heartbeat'.next_due
      BY <1>9, <3>1, TickWake
    <3> QED BY <1>9, <2>1, <3>2
  <2>3. ~ pulse /\ heartbeat' = open
    BY <1>1, <1>7, <2>2
  <2> HIDE DEF pulse, open, os
  <2>4. h.was_eligible /\ now >= h.next_due
    BY <1>2, <1>4, <1>5, <1>9, <2>1, <2>2, <2>3
  <2>5. open.pass
    <3> HIDE DEF h
    <3> QED BY <1>4, <1>9, <2>4 DEF PassDue
  <2>6. PulseAt(c) >= open.next_due /\ Eligible(Expired)
    <3>1. open.next_due \in Int
      BY <1>4 DEF Heartbeat
    <3> QED BY <1>2, <1>3, <1>4, <2>4, <3>1
  <2>7. PICK i \in Output : os[i].unresolved \/ Pending(os[i])
    BY <1>1, <1>6, <1>9, <2>3, <2>5, <2>6 DEF PulseDue
  <2>8. Pending(os[i])
    <3> DEFINE o == DecidedAll(values, c)[i]
               s == DecidedAt(c, i)
               f == BookedAt(c, i)
    <3>1. o \in OutputRuntime(RulesOf[i])
      BY TickOutput
    <3>2. o.unresolved => Pending(o)
      <4> DEFINE r == RestartOnTransitions(Prepared(i, h), ctrl, Admitted(values), s)
      <4>1. o = Select(r, Admitted(values), s, Available(i, Expired), TimedOut, DefaultOf[i])
        BY DEF DecidedAll, Decided
      <4>2. r \in OutputRuntime(RulesOf[i])
        <5>1. s \in Nat
          BY <1>2, SamplesAre
        <5> HIDE DEF h, s
        <5> QED BY <5>1, RestartedOutput
      <4> HIDE DEF r, o
      <4> QED BY <4>1, <4>2, SelectKeepsRetry
    <3>3. os[i] = IF i \in DOMAIN outcome THEN Book(o, s, f, outcome[i]) ELSE o
      BY DEF BookedAll, os
    <3>4. i \in DOMAIN outcome => Pending(o)
      <4>1. DOMAIN outcome = Asked(values, c)
        BY AnswerIs
      <4> QED BY <4>1 DEF Asked, Attempted, Due
    <3> DEFINE g == os[i]
    <3>5. g.unresolved \/ Pending(g)
      BY <2>7
    <3>6. g = IF i \in DOMAIN outcome THEN Book(o, s, f, outcome[i]) ELSE o
      BY <3>3
    <3> HIDE DEF o, s, f, g
    <3>7. CASE i \notin DOMAIN outcome
      BY <3>2, <3>5, <3>6, <3>7 DEF g
    <3>8. CASE i \in DOMAIN outcome
      <4>1. Pending(o) /\ (g = Accepted(o, o.desired, f) \/ \E a : g = Failed(o, f, a))
        BY <3>4, <3>6, <3>8 DEF Book
      <4>2. CASE g = Accepted(o, o.desired, f)
        <5>1. g.unresolved = FALSE
          BY <3>1, <4>2 DEF Accepted, OutputRuntime
        <5> QED BY <3>5, <5>1 DEF g
      <4>3. ASSUME NEW a, g = Failed(o, f, a) PROVE Pending(g)
        <5>1. g.desired = o.desired /\ g.force = o.force /\ Previous(g) = Previous(o)
          BY <3>1, <4>3 DEF Failed, OutputRuntime, Previous
        <5> QED BY <4>1, <5>1 DEF Pending
      <4> QED BY <4>1, <4>2, <4>3 DEF g
    <3> QED BY <3>7, <3>8
  <2> QED BY <1>1, <2>3, <2>5, <2>8
<1> QED BY <1>8, <1>9

\* Until its next deadline an output desires what it does and has nothing to send.
LEMMA TickOutputRests ==
  ASSUME TypeOK, NEW values \in Readings, NEW c \in Samples,
         NEW outcome \in Answers(values, c), NEW accepted \in BOOLEAN,
         Tick(values, c), Ticked(values, c, outcome, accepted),
         NEW u \in Nat, now' <= u, u < wake', NEW i \in Output
  PROVE  LET k == Select(outs'[i], ctrl', u, Available(i, devices'), TimedOutAt(u),
                         DefaultOf[i])
         IN  k.desired = outs'[i].desired /\ ~ (Available(i, devices') /\ Due(k, u))
<1> DEFINE R == RulesOf[i]
           w == Admitted(values)
           s == DecidedAt(c, i)
           f == BookedAt(c, i)
           ready == Available(i, Expired)
           r == RestartOnTransitions(Prepared(i, Readied(Expired)), ctrl, w, s)
           o == DecidedAll(values, c)[i]
           g == outs'[i]
           off == TimedOut
           k == Select(g, w, u, ready, off, DefaultOf[i])
<1>1. /\ R \in SUBSET Rule /\ Ranked(R) /\ None \notin R /\ DefaultOf[i] \in Known
      /\ w \in Controls
  BY OutputIs, AdmittedType
<1>2. /\ now \in Nat /\ s \in Nat /\ f \in Nat /\ now <= s /\ s <= f
      /\ s \in Int /\ s <= u /\ now <= u /\ u \in Int
  <2>1. now \in Nat /\ s \in Nat /\ f \in Nat /\ now <= s /\ s <= f
    BY SamplesAre DEF TypeOK
  <2>2. 2 * i - 1 \in 1 .. 2 * N + 2
    BY Numbers, OutputIs
  <2>3. s <= now' /\ now' \in Nat
    BY <2>1, <2>2, SamplesRise, SamplesAre, TickIs DEF DecidedAt, PulseBookedAt
  <2> QED BY <2>1, <2>3
<1>3. ctrl' = w /\ devices' = Expired
  BY TickIs
<1>4. r \in OutputRuntime(R)
  BY <1>2, RestartedOutput
<1>5. o = Select(r, w, s, ready, off, DefaultOf[i])
  BY DEF DecidedAll, Decided
<1>6. g = IF i \in DOMAIN outcome THEN Book(o, s, f, outcome[i]) ELSE o
  BY DEF Ticked, BookedAll
<1>7. o \in OutputRuntime(R) /\ g \in OutputRuntime(R) /\ g.desired = o.desired
  BY TickOutput DEF Ticked
<1>8. DOMAIN outcome = {j \in Output : Available(j, Expired)
                                         /\ Due(DecidedAll(values, c)[j], DecidedAt(c, j))}
  BY AnswerIs DEF Asked, Attempted
<1>9. i \in DOMAIN outcome <=> ready /\ Due(o, s)
  BY <1>8
<1>10. TimedOutAt(u) = off
  <2>1. Timeout # None => Timeout \in Nat /\ telemetry + Timeout \in Nat
    BY Numbers DEF TypeOK
  <2>2. ASSUME Timeout # None, telemetry + Timeout > now PROVE u < telemetry + Timeout
    <3>1. telemetry + Timeout # None
      BY <2>1, <2>2, NoneAssumption
    <3>2. wake' \in Nat /\ wake' <= telemetry + Timeout
      BY <2>2, <3>1, TickWake
    <3> QED BY <2>1, <2>2, <3>2
  <2> QED BY <1>2, <2>1, <2>2 DEF TimedOutAt, TimedOut
<1>11. ASSUME NEW d \in OutputDeadlines(g, ready, now), d # None, d > now
       PROVE  d \in Int /\ u < d
  <2>1. wake' \in Nat /\ wake' <= d
    BY <1>3, <1>11, TickWake
  <2>2. d \in OptTime
    BY <1>1, <1>2, <1>7, <1>11, OutputDeadlinesType
  <2> QED BY <2>1, <2>2, <1>11 DEF OptTime
<1> HIDE DEF r, o, g, w, s, f, ready, off, R
<1>12. g.episodes = o.episodes /\ g.selected = o.selected
  BY <1>6, <1>7, BookKeepsEpisodes
<1>13. /\ \A x \in R : Open(g.episodes[x], s) /\ g.episodes[x] \in Episode
       /\ g.selected # None => g.selected \in R /\ ~ g.episodes[g.selected].exhausted
  <2>1. g.episodes \in [R -> Episode]
    BY <1>7 DEF OutputRuntime
  <2> QED BY <1>1, <1>2, <1>4, <1>5, <1>12, <2>1, SelectOpens
<1>14. ASSUME NEW x \in R, ~ g.episodes[x].exhausted, g.episodes[x].deadline # None
       PROVE  u < g.episodes[x].deadline
  <2> DEFINE d == g.episodes[x].deadline
  <2>1. g.episodes[x].start # None /\ d \in Int
    BY <1>13, <1>14 DEF Episode, OptTime
  <2>2. s < d
    BY <1>13, <1>14, <2>1 DEF Open
  <2>3. d \in OutputDeadlines(g, ready, now)
    BY <1>7 DEF OutputDeadlines, OutputRuntime
  <2> HIDE DEF d
  <2>4. u < d
    BY <1>2, <1>11, <1>14, <2>1, <2>2, <2>3 DEF d
  <2> QED BY <2>4 DEF d
<1>15. ASSUME g.selected # None, g.selected.kind = "blink_for",
              g.episodes[g.selected].start # None
       PROVE  Phase(g.episodes[g.selected], u, g.selected.half)
                = Phase(g.episodes[g.selected], s, g.selected.half)
  <2> DEFINE x == g.selected
             e == g.episodes[x]
             half == x.half
             flip == e.start + ((now - e.start) \div half + 1) * half
             d == SoonerOf(flip, e.deadline)
  <2>1. x \in R /\ x \in Rule /\ e \in Episode /\ ~ e.exhausted /\ Open(e, s)
    BY <1>1, <1>13, <1>15
  <2>2. half \in Nat /\ half > 0
    BY <1>15, <2>1, HoldIsPositive DEF Rule, ValidRule
  <2>3. e.start \in Int /\ e.deadline \in Int /\ s < e.deadline
    BY <1>15, <2>1 DEF Episode, OptTime, Open
  <2>4. flip \in Int /\ flip > now
    <3> DEFINE b == now - e.start
               q == b \div half
               high == (q + 1) * half
    <3>1. b \in Int
      BY <1>2, <2>3
    <3>2. q \in Int /\ b < high
      <4> HIDE DEF b
      <4> QED BY <2>2, <3>1, HalfIs
    <3> HIDE DEF q
    <3>3. high \in Int
      BY <2>2, <3>2
    <3> HIDE DEF high
    <3>4. e.start + high \in Int /\ e.start + high > now
      BY <1>2, <2>3, <3>2, <3>3
    <3> QED BY <3>4 DEF high, q
  <2>5. d = NextPhase(e, now, half)
    BY <1>15, <2>1 DEF NextPhase
  <2>6. d \in OutputDeadlines(g, ready, now)
    BY <1>15, <2>5 DEF OutputDeadlines
  <2> DEFINE fl == flip
  <2>7. d = SoonerOf(fl, e.deadline)
    OBVIOUS
  <2>8. fl \in Int /\ fl > now
    BY <2>4
  <2> HIDE DEF d, fl, e, x
  <2>9. d \in Int /\ d > now /\ d <= fl
    BY <1>2, <2>3, <2>7, <2>8 DEF SoonerOf
  <2>10. u < d
    BY <1>11, <2>6, <2>9, NoneAssumption
  <2>11. u < fl
    BY <1>2, <2>8, <2>9, <2>10
  <2>12. e.start # None
    BY <2>3, NoneAssumption
  <2> QED BY <1>2, <2>1, <2>2, <2>11, <2>12, PhaseRests DEF fl, e, x
<1>16. k.desired = g.desired
  <2>1. SameChoice(g, Select(r, w, s, ready, off, DefaultOf[i]))
    BY <1>5, <1>7, <1>12 DEF SameChoice
  <2>2. Undisturbed(R, g, s, u)
    BY <1>14, <1>15 DEF Undisturbed
  <2> QED BY <1>1, <1>2, <1>4, <1>7, <2>1, <2>2, SelectRests
<1>17. ASSUME ready, Due(k, u) PROVE FALSE
  <2>1. /\ k.force = g.force /\ Previous(k) = Previous(g)
        /\ k.eligible_at = g.eligible_at
        /\ Pending(k) => k.retry_at = g.retry_at
    BY <1>1, <1>2, <1>7, SelectKeepsValue, SelectType, SelectKeepsRetry
  <2> HIDE DEF k
  <2>2. Pending(g)
    BY <1>16, <1>17, <2>1 DEF Due, Pending
  <2>3. u >= g.eligible_at /\ (g.retry_at # None => u >= g.retry_at)
    BY <1>17, <2>1 DEF Due, MayAttempt
  <2>4. g.eligible_at \in Int /\ g.retry_at \in OptTime
    BY <1>7 DEF OutputRuntime
  <2>5. {g.eligible_at, g.retry_at} \subseteq OutputDeadlines(g, ready, now)
    BY <1>17, <2>2 DEF OutputDeadlines
  <2>6. g.eligible_at <= now
    <3>1. g.eligible_at # None
      BY <2>4, NoneAssumption
    <3> QED BY <1>2, <1>11, <2>3, <2>4, <2>5, <3>1
  <2>7. g.retry_at # None => g.retry_at <= now
    BY <1>2, <1>11, <2>3, <2>4, <2>5 DEF OptTime
  <2>8. CASE i \notin DOMAIN outcome
    <3>1. g = o
      BY <1>6, <2>8
    <3>2. MayAttempt(g, s)
      BY <1>2, <2>4, <2>6, <2>7 DEF MayAttempt, OptTime
    <3> QED BY <1>9, <1>17, <2>2, <2>8, <3>1, <3>2 DEF Due
  <2>9. CASE i \in DOMAIN outcome
    <3>1. g = Accepted(o, o.desired, f) \/ \E a : g = Failed(o, f, a)
      BY <1>6, <2>9 DEF Book
    <3>2. g # Accepted(o, o.desired, f)
      BY <1>7, <2>2, AcceptedIsDone
    <3>3. ASSUME NEW a, g = Failed(o, f, a) PROVE FALSE
      <4>1. g.retry_at \in Int /\ g.retry_at > f /\ g.retry_at # None
        BY <1>2, <1>7, <3>3, FailedWaits
      <4> QED BY <1>2, <2>7, <4>1
    <3> QED BY <3>1, <3>2, <3>3
  <2> QED BY <2>8, <2>9
<1> QED BY <1>3, <1>10, <1>16, <1>17 DEF g, ready, w, off

LEMMA TickRests ==
  ASSUME TypeOK, NEW values \in Readings, NEW c \in Samples, Tick(values, c)
  PROVE  RestInv'
<1>1. PICK outcome \in Answers(values, c), accepted \in BOOLEAN :
        Ticked(values, c, outcome, accepted)
  BY TickIs
<1>2. UNCHANGED <<connected, acked, telemetry, stopping>> /\ now' = PulseBookedAt(c)
  BY TickIs
<1>3. now \in Nat /\ now' \in Nat /\ now <= now'
  BY <1>2, SamplesAre DEF TypeOK
<1>4. heartbeat'.was_eligible = Eligible(devices)'
  BY <1>1, <1>2, TickHeartbeatRests DEF Eligible, TransportReady, DevicesReady
<1>5. ASSUME NEW u \in Nat, now' <= u, u < wake'
      PROVE  /\ \A d \in Device : DeviceRests(d, u)'
             /\ HeartbeatRests(u)'
             /\ \A i \in Output : OutputRests(i, u)'
  <2>1. now <= u
    BY <1>3, <1>5
  <2>2. ASSUME NEW d \in Device PROVE DeviceRests(d, u)'
    BY <1>1, <1>5, <2>1, TickDeviceRests DEF DeviceRests
  <2>3. HeartbeatRests(u)'
    BY <1>1, <1>5, <2>1, TickHeartbeatRests DEF HeartbeatRests
  <2>4. ASSUME NEW i \in Output PROVE OutputRests(i, u)'
    <3>1. TimedOutAt(u)' = TimedOutAt(u)
      BY <1>2 DEF TimedOutAt
    <3>2. Available(i, devices)' = Available(i, devices')
      BY <1>2 DEF Available, TransportReady
    <3>3. LET k == Select(outs'[i], ctrl', u, Available(i, devices'), TimedOutAt(u),
                          DefaultOf[i])
          IN  k.desired = outs'[i].desired /\ ~ (Available(i, devices') /\ Due(k, u))
      BY <1>1, <1>5, TickOutputRests
    <3> QED BY <3>1, <3>2, <3>3 DEF OutputRests
  <2> QED BY <2>2, <2>3, <2>4
<1> QED BY <1>4, <1>5 DEF RestInv

\* No event leaves the loop waiting, and waiting changes nothing.
LEMMA RestStep == TypeOK /\ RestInv /\ [Next]_vars => RestInv'
<1> SUFFICES ASSUME TypeOK, RestInv, [Next]_vars PROVE RestInv'
  OBVIOUS
<1>1. CASE \E values \in Readings, c \in Samples : Tick(values, c)
  BY <1>1, TickRests
<1>2. CASE \E values \in Readings : LastTick(values)
  BY <1>2 DEF LastTick, RestInv
<1>3. ASSUME Event PROVE RestInv'
  BY <1>3 DEF Event, RestInv
<1>4. CASE \/ \E up \in BOOLEAN : Connection(up)
           \/ \E granted \in SUBSET Topic : Acknowledged(granted)
           \/ \E report \in Reports : ReceiveAvailability(report)
           \/ ReceiveTelemetry
           \/ Stop
  BY <1>3, <1>4 DEF Connection, Acknowledged, ReceiveAvailability, ReceiveTelemetry, Stop
<1>5. CASE Pass \/ Stopped \/ UNCHANGED vars
  <2>1. /\ now \in Nat /\ now' \in Nat /\ now <= now'
        /\ UNCHANGED <<ctrl, outs, devices, connected, acked, heartbeat, telemetry, stopping,
                       waiting, wake>>
    BY <1>5 DEF Pass, Stopped, vars, engine, TypeOK
  <2> SUFFICES ASSUME waiting, ~ stopping
               PROVE  /\ (heartbeat.was_eligible = Eligible(devices))'
                      /\ \A u \in Nat : now' <= u /\ u < wake' =>
                           /\ \A d \in Device : DeviceRests(d, u)'
                           /\ HeartbeatRests(u)'
                           /\ \A i \in Output : OutputRests(i, u)'
    BY <2>1 DEF RestInv
  <2>2. (heartbeat.was_eligible = Eligible(devices))'
    BY <2>1 DEF RestInv, Eligible, TransportReady, DevicesReady
  <2>3. ASSUME NEW u \in Nat, now' <= u, u < wake'
        PROVE  /\ \A d \in Device : DeviceRests(d, u)'
               /\ HeartbeatRests(u)'
               /\ \A i \in Output : OutputRests(i, u)'
    <3>1. now <= u /\ u < wake
      BY <2>1, <2>3
    <3>2. /\ \A d \in Device : DeviceRests(d, u)
          /\ HeartbeatRests(u)
          /\ \A i \in Output : OutputRests(i, u)
      BY <3>1 DEF RestInv
    <3>3. TimedOutAt(u)' = TimedOutAt(u)
      BY <2>1 DEF TimedOutAt
    <3>4. \A i \in Output : Available(i, devices)' = Available(i, devices)
      BY <2>1 DEF Available, TransportReady
    <3>5. \A i \in Output : OutputRests(i, u)'
      BY <2>1, <3>2, <3>3, <3>4 DEF OutputRests
    <3> QED BY <2>1, <3>2, <3>5 DEF DeviceRests, HeartbeatRests, Pending, Previous
  <2> QED BY <2>2, <2>3
<1> QED BY <1>1, <1>2, <1>4, <1>5 DEF Next

\* The same values again are no edge and change nothing.
LEMMA AdmittedAgain ==
  ASSUME TypeOK
  PROVE  Admitted([x \in State |-> ctrl[x].value]) = ctrl
<1>1. ctrl \in [State -> Tracked]
  BY DEF TypeOK
<1> QED BY <1>1 DEF Admitted, SetTracked

\* The loop may sleep until the deadline that a tick returns: before it, another tick
\* would hand over nothing, send no pulse, begin no pass, change no desired value and
\* lose no device, whatever the rules, holds, back-offs, blinks and stale periods
\* (src/engine.rs, next_deadline).
THEOREM NothingIsSleptThrough == Spec => []QuiescentUntilWake
<1>1. Init => RestInv
  BY DEF Init, RestInv
<1>2. Spec => []RestInv
  BY <1>1, TypeCorrect, RestStep, PTL DEF Spec
<1>3. ASSUME TypeOK, RestInv PROVE QuiescentUntilWake
  <2> DEFINE h == Readied(devices)
             again == [x \in State |-> ctrl[x].value]
             D(i) == Decided(i, again, h, devices, now)
             os == [i \in Output |-> D(i)]
  <2> SUFFICES ASSUME waiting, now < wake, ~ stopping
               PROVE  /\ Expired = devices
                      /\ ~ PassDue(h) /\ ~ PulseDue(h, os, devices, now)
                      /\ \A i \in Output : /\ os[i].desired = outs[i].desired
                                           /\ ~ (Available(i, devices) /\ Due(os[i], now))
    BY DEF QuiescentUntilWake
  <2>1. /\ now \in Nat /\ now <= now /\ heartbeat \in Heartbeat
        /\ devices \in [Device -> BoolFact]
        /\ \A i \in Output : outs[i] \in OutputRuntime(RulesOf[i])
    BY <1>3 DEF TypeOK
  <2>2. /\ heartbeat.was_eligible = Eligible(devices)
        /\ \A d \in Device : DeviceRests(d, now)
        /\ HeartbeatRests(now)
        /\ \A i \in Output : OutputRests(i, now)
    BY <1>3, <2>1 DEF RestInv
  <2>3. Expired = devices
    BY <2>1, <2>2 DEF Expired, DeviceRests
  <2>4. h = heartbeat
    BY <2>1, <2>2 DEF Readied, Heartbeat
  <2> HIDE DEF h
  <2>5. ~ PassDue(h)
    BY <2>2, <2>4 DEF PassDue, HeartbeatRests
  <2>6. ASSUME NEW i \in Output
        PROVE  /\ D(i).desired = outs[i].desired
               /\ ~ (Available(i, devices) /\ Due(D(i), now))
               /\ Pending(outs[i]) => Pending(D(i))
    <3> DEFINE k == Select(outs[i], ctrl, now, Available(i, devices), TimedOut, DefaultOf[i])
    <3>1. Admitted(again) = ctrl
      BY <1>3, AdmittedAgain
    <3>2. Prepared(i, h) = outs[i]
      BY <2>5 DEF Prepared
    <3>3. RestartOnTransitions(outs[i], ctrl, ctrl, now) = outs[i]
      BY <2>1, OutputIs, RestartAgain
    <3> HIDE DEF again
    <3>4. D(i) = k
      BY <3>1, <3>2, <3>3 DEF Decided
    <3>5. TimedOutAt(now) = TimedOut
      BY DEF TimedOutAt, TimedOut
    <3>6. k.desired = outs[i].desired /\ ~ (Available(i, devices) /\ Due(k, now))
      BY <2>2, <3>5 DEF OutputRests
    <3>7. k.force = outs[i].force /\ Previous(k) = Previous(outs[i])
      BY <2>1, SelectKeepsValue
    <3> HIDE DEF k
    <3>8. Pending(outs[i]) => Pending(k)
      BY <3>6, <3>7 DEF Pending
    <3> HIDE DEF D
    <3> QED BY <3>4, <3>6, <3>8
  <2> HIDE DEF D
  <2>7. ~ PulseDue(h, os, devices, now)
    <3> SUFFICES ASSUME PulseDue(h, os, devices, now) PROVE FALSE
      OBVIOUS
    <3>1. /\ Interval # None /\ now >= heartbeat.next_due /\ heartbeat.was_eligible
          /\ \A i \in Output : ~ Pending(os[i])
      BY <2>2, <2>4 DEF PulseDue
    <3>2. PICK i \in Output : Pending(outs[i])
      BY <2>2, <3>1 DEF HeartbeatRests
    <3> QED BY <2>6, <3>1, <3>2
  <2> QED BY <2>3, <2>5, <2>6, <2>7
<1> QED BY <1>2, <1>3, TypeCorrect, PTL

----------------------------------------------------------------------------
(* Pulses in time.  The watchdog's timeout counts from the latest pulse,   *)
(* or from the latest reason there was not to pulse: FeedInv bounds, from  *)
(* there, until when the loop may sleep while the relays wait for a pulse. *)
(*                                                                         *)
(* Before a pass the loop sleeps no longer than until the next pulse is    *)
(* due.  A pass that is opened waits at most for the end of a hold or of a *)
(* back-off; only an output that was delivered in the pass already, and    *)
(* has changed its mind since, can hold the pulse back for longer, for     *)
(* each delivery begins a hold of its own.                                 *)

LateBy == LaterOf(Lateness, SubmitLag)

\* The longest wait from one pulse, or failed attempt, to the next.
Pause == LaterOf(Interval, RetryMax)

\* By then the pass of the next pulse is open.
OpenBy == fed + Pause + LateBy + Lateness

Margin == Pause + Hold + 2 * LateBy + 3 * Lateness

\* Delivered in this pass, and no longer what the output desires.
Undone(i) ==
  /\ trace[i].delivered # Unknown /\ outs[i].desired # Unknown
  /\ outs[i].desired # trace[i].delivered

Held == N > 1 /\ heartbeat.pass /\ \E i \in Output : Undone(i)

\* How far the wake may be past an instant that the latest tick waits for.
Slack == IF stopping THEN LateBy + Lateness ELSE IF waiting THEN 0 ELSE LateBy

Awaits(d) == wake <= d + Slack

OutputFeeds(o) ==
  /\ ~ o.force => Previous(o) # Unknown
  /\ o.eligible_at <= now + Hold
  /\ o.retry_at # None => o.retry_at <= fed + Pause
  /\ ~ heartbeat.was_eligible => o.eligible_at <= fed + Hold
  /\ heartbeat.pass /\ (o.force \/ N = 1) => o.eligible_at <= OpenBy + Hold

LoopFeeds ==
  /\ fed \in Nat /\ fed <= now
  /\ now <= wake + IF waiting /\ ~ stopping THEN LateBy ELSE Lateness
  /\ heartbeat.next_due <= fed + Pause

WakeFeeds ==
  /\ heartbeat.was_eligible /\ ~ heartbeat.pass => Awaits(heartbeat.next_due)
  /\ heartbeat.was_eligible /\ heartbeat.pass /\ ~ Held => Awaits(OpenBy + Hold)

FeedInv == LoopFeeds /\ WakeFeeds /\ \A i \in Output : OutputFeeds(outs[i])

LEMMA FeedNumbers ==
  ASSUME Interval # None
  PROVE  /\ Hold \in Nat /\ Hold > 0 /\ RetryMax \in Nat /\ Interval \in Nat
         /\ Lateness \in Nat /\ SubmitLag \in Nat
         /\ LateBy \in Nat /\ Lateness <= LateBy /\ SubmitLag <= LateBy
         /\ Pause \in Nat /\ Interval <= Pause /\ RetryMax <= Pause
<1>1. Lateness \in Nat /\ SubmitLag \in Nat /\ Interval \in Nat /\ RetryMax \in Nat
  BY ControllerAssumption, OutputsAssumption
<1> QED BY <1>1, HoldIsPositive DEF LateBy, Pause, LaterOf

\* What a failure makes of the hold and the back-off of an output.
LEMMA FailedUntil ==
  ASSUME NEW rules, NEW o \in OutputRuntime(rules), NEW t \in Nat, NEW ambiguous \in BOOLEAN
  PROVE  LET g == Failed(o, t, ambiguous)
         IN  /\ g.eligible_at = o.eligible_at \/ g.eligible_at <= t + Hold
             /\ g.retry_at \in Int /\ g.retry_at <= t + RetryMax
<1> DEFINE count == SoonerOf(o.retry_count + 1, RetryCap)
           e == IF ambiguous THEN LaterOf(o.eligible_at, t + Hold) ELSE o.eligible_at
           b == Backoff(count)
           g == Failed(o, t, ambiguous)
<1>1. count \in Nat
  BY HoldIsPositive DEF OutputRuntime, SoonerOf
<1>2. e = o.eligible_at \/ e <= t + Hold
  BY HoldIsPositive DEF OutputRuntime, LaterOf
<1> HIDE DEF count, e
<1>3. b \in Int /\ b <= RetryMax /\ RetryMax \in Nat
  BY <1>1, BackoffType, OutputsAssumption
<1> HIDE DEF b
<1>4. g.eligible_at = e /\ g.retry_at = t + b
  BY DEF Failed, OutputRuntime, count, e, b
<1> HIDE DEF g
<1> QED BY <1>2, <1>3, <1>4 DEF g

\* A decision moves no hold and no back-off, and forgets a failure only with its command.
LEMMA DecidedWaits ==
  ASSUME TypeOK, NEW i \in Output, NEW values \in Readings, NEW h, NEW ds, NEW t \in Nat
  PROVE  LET g == Decided(i, values, h, ds, t)
         IN  /\ g.eligible_at = outs[i].eligible_at
             /\ g.retry_at # None => g.retry_at = outs[i].retry_at
             /\ g.unresolved => Pending(g)
<1> DEFINE R == RulesOf[i]
           v == outs[i]
           w == Admitted(values)
           p == Prepared(i, h)
           r == RestartOnTransitions(p, ctrl, w, t)
           g == Decided(i, values, h, ds, t)
<1>1. R \in SUBSET Rule /\ Ranked(R) /\ DefaultOf[i] \in Known
  BY OutputIs
<1>2. now \in Nat /\ v \in OutputRuntime(R) /\ w \in Controls
  BY AdmittedType DEF TypeOK
<1>3. PICK settle \in BOOLEAN : settle = FALSE
  OBVIOUS
<1>4. p = IF PassDue(h) THEN Resync(v, now, settle) ELSE v
  BY <1>3 DEF Prepared
<1>5. g = Select(r, w, t, Available(i, ds), TimedOut, DefaultOf[i])
  BY DEF Decided
<1>6. r \in OutputRuntime(R)
  BY RestartedOutput
<1> DEFINE q == Resync(v, now, settle)
<1> HIDE DEF g, w, p, v, R
<1>7. q.eligible_at = v.eligible_at /\ q.retry_at = v.retry_at /\ q \in OutputRuntime(R)
  <2>1. q \in OutputRuntime(R) /\ q.eligible_at = v.eligible_at
    BY <1>2, <1>3, ResyncType
  <2>2. q.retry_at = v.retry_at
    BY <1>2 DEF Resync, OutputRuntime
  <2> QED BY <2>1, <2>2
<1> HIDE DEF q
<1>8. p.eligible_at = v.eligible_at /\ p.retry_at = v.retry_at /\ p \in OutputRuntime(R)
  BY <1>2, <1>4, <1>7 DEF q
<1>9. r.eligible_at = p.eligible_at /\ r.retry_at = p.retry_at
  <2>1. r.eligible_at = p.eligible_at
    BY <1>1, <1>8, RestartType
  <2>2. r.retry_at = p.retry_at
    BY <1>8 DEF RestartOnTransitions, OutputRuntime
  <2> QED BY <2>1, <2>2
<1> HIDE DEF r
<1>10. g.eligible_at = r.eligible_at
  BY <1>1, <1>2, <1>5, <1>6, SelectType
<1>11. /\ Pending(g) => g.retry_at = r.retry_at
       /\ g.unresolved => Pending(g)
       /\ ~ Pending(g) => g.retry_at = None
  BY <1>5, <1>6, SelectKeepsRetry
<1> QED BY <1>8, <1>9, <1>10, <1>11 DEF g, v

\* What one output comes to in a tick: not attempted it is as decided and was not due,
\* accepted it is done, and failed it waits for its retry.
LEMMA TickWaits ==
  ASSUME TypeOK, NEW values \in Readings, NEW c \in Samples,
         NEW outcome \in Answers(values, c), NEW i \in Output
  PROVE  LET o == DecidedAll(values, c)[i]
             g == BookedAll(DecidedAll(values, c), c, outcome)[i]
             s == DecidedAt(c, i)
             f == BookedAt(c, i)
         IN  /\ i \notin DOMAIN outcome =>
                  /\ g.eligible_at = outs[i].eligible_at
                  /\ g.retry_at # None => g.retry_at = outs[i].retry_at
                  /\ g.unresolved => Pending(g)
                  /\ Available(i, Expired) => ~ Due(g, s)
             /\ i \in DOMAIN outcome /\ outcome[i] = "accepted" =>
                  /\ g.eligible_at = f + Hold /\ g.retry_at = None
                  /\ ~ g.force /\ ~ g.unresolved /\ ~ Pending(g)
                  /\ Previous(g) # Unknown
             /\ i \in DOMAIN outcome /\ outcome[i] # "accepted" =>
                  /\ g.eligible_at = outs[i].eligible_at \/ g.eligible_at <= f + Hold
                  /\ g.retry_at \in Int /\ g.retry_at # None
                  /\ f < g.retry_at /\ g.retry_at <= f + RetryMax
<1> DEFINE o == DecidedAll(values, c)[i]
           g == BookedAll(DecidedAll(values, c), c, outcome)[i]
           s == DecidedAt(c, i)
           f == BookedAt(c, i)
           R == RulesOf[i]
<1>1. s \in Nat /\ f \in Nat
  BY SamplesAre DEF TypeOK
<1>2. o = Decided(i, values, Readied(Expired), Expired, s)
  BY DEF DecidedAll
<1>3. g = IF i \in DOMAIN outcome THEN Book(o, s, f, outcome[i]) ELSE o
  BY DEF BookedAll
<1>4. o \in OutputRuntime(R) /\ o.desired \in Truth
  BY TickOutput
<1>5. i \in DOMAIN outcome <=> Available(i, Expired) /\ Due(o, s)
  BY AnswerIs DEF Asked, Attempted
<1>6. /\ o.eligible_at = outs[i].eligible_at
      /\ o.retry_at # None => o.retry_at = outs[i].retry_at
      /\ o.unresolved => Pending(o)
  <2> DEFINE d == Decided(i, values, Readied(Expired), Expired, s)
  <2>1. /\ d.eligible_at = outs[i].eligible_at
        /\ d.retry_at # None => d.retry_at = outs[i].retry_at
        /\ d.unresolved => Pending(d)
    BY <1>1, DecidedWaits
  <2>2. o = d
    BY <1>2
  <2> HIDE DEF d, o
  <2> QED BY <2>1, <2>2
<1> HIDE DEF o, g, s, f
<1>7. CASE i \notin DOMAIN outcome
  <2>1. g = o
    BY <1>3, <1>7
  <2> QED BY <1>5, <1>6, <1>7, <2>1 DEF o, g, s, f
<1>8. CASE i \in DOMAIN outcome /\ outcome[i] = "accepted"
  <2>1. g = Accepted(o, o.desired, f)
    BY <1>3, <1>8 DEF Book
  <2>2. o.desired # Unknown
    BY <1>5, <1>8 DEF Due, Pending
  <2>3. g.eligible_at = f + Hold
    BY <1>1, <1>4, <2>1, AcceptedType
  <2>4. ~ Pending(g)
    BY <1>4, <2>1, AcceptedIsDone
  <2>5. g.retry_at = None /\ g.force = FALSE /\ g.unresolved = FALSE
        /\ Previous(g) = o.desired
    BY <1>4, <2>1 DEF Accepted, OutputRuntime, Previous
  <2> QED BY <1>8, <2>2, <2>3, <2>4, <2>5 DEF o, g, s, f
<1>9. CASE i \in DOMAIN outcome /\ outcome[i] # "accepted"
  <2>1. PICK ambiguous \in BOOLEAN : ambiguous = (outcome[i] = "ambiguous")
    OBVIOUS
  <2>2. g = Failed(o, f, ambiguous)
    BY <1>3, <1>9, <2>1 DEF Book
  <2>3. /\ g.eligible_at = o.eligible_at \/ g.eligible_at <= f + Hold
        /\ g.retry_at \in Int /\ g.retry_at <= f + RetryMax
    BY <1>1, <1>4, <2>2, FailedUntil
  <2>4. g.retry_at > f /\ g.retry_at # None
    BY <1>1, <1>4, <2>2, FailedWaits
  <2>5. f < g.retry_at
    BY <1>1, <2>3, <2>4
  <2> QED BY <1>6, <1>9, <2>3, <2>4, <2>5 DEF o, g, s, f
<1> QED BY <1>7, <1>8, <1>9

\* A tick, with what it makes of the measure of the watchdog.
Measured(values, c, outcome) ==
  fed' = IF /\ Interval # None
            /\ \/ Pulsed(values, c, outcome) \/ ~ Eligible(Expired)
               \/ \E i \in DOMAIN outcome : outcome[i] # "accepted"
         THEN PulseBookedAt(c) ELSE fed

LEMMA TickMeasures ==
  ASSUME NEW values, NEW c, Tick(values, c)
  PROVE  \E outcome \in Answers(values, c), accepted \in BOOLEAN :
           Ticked(values, c, outcome, accepted) /\ Measured(values, c, outcome)
<1>1. (IF Dry THEN {TRUE} ELSE BOOLEAN) \subseteq BOOLEAN
  OBVIOUS
<1>2. \E outcome \in Answers(values, c), accepted \in IF Dry THEN {TRUE} ELSE BOOLEAN :
        Ticked(values, c, outcome, accepted) /\ Measured(values, c, outcome)
  BY DEF Tick, Answers, Asked, Ticked, Measured, Pulsed, DecidedAll, BookedAll, Opened
<1> QED BY <1>1, <1>2

LEMMA TickFed ==
  ASSUME TypeOK, LoopFeeds, Interval # None, NEW values \in Readings, NEW c \in Samples,
         NEW outcome \in Answers(values, c), NEW accepted \in BOOLEAN, Tick(values, c),
         Ticked(values, c, outcome, accepted), Measured(values, c, outcome)
  PROVE  /\ now \in Nat /\ now' \in Nat /\ fed \in Nat /\ fed' \in Nat /\ wake' \in Nat
         /\ now <= now' /\ now' <= now + SubmitLag
         /\ now < wake' /\ fed <= now /\ fed <= fed' /\ fed' <= now'
         /\ \A i \in Output : /\ now <= DecidedAt(c, i) /\ now <= BookedAt(c, i)
                              /\ BookedAt(c, i) <= now'
                              /\ DecidedAt(c, i) \in Nat /\ BookedAt(c, i) \in Nat
         /\ fed' = now' \/ /\ fed' = fed /\ ~ Pulsed(values, c, outcome)
                           /\ Eligible(devices')
                           /\ \A i \in DOMAIN outcome : outcome[i] = "accepted"
<1>1. /\ now' = PulseBookedAt(c) /\ devices' = Expired
      /\ UNCHANGED <<connected, acked, telemetry, stopping>>
  BY TickIs
<1>2. /\ now \in Nat /\ now' \in Nat /\ now <= now' /\ now' <= now + SubmitLag
      /\ \A i \in Output : /\ DecidedAt(c, i) \in Nat /\ now <= DecidedAt(c, i)
                           /\ BookedAt(c, i) \in Nat /\ DecidedAt(c, i) <= BookedAt(c, i)
  <2>1. 2 * N + 2 \in 1 .. 2 * N + 2 /\ now \in Nat
    BY Numbers DEF TypeOK
  <2>2. PulseBookedAt(c) <= now + SubmitLag
    BY <2>1, SampleIs DEF PulseBookedAt
  <2> QED BY <1>1, <2>1, <2>2, SamplesAre
<1>3. ASSUME NEW i \in Output
      PROVE  now <= BookedAt(c, i) /\ BookedAt(c, i) <= now'
  <2>1. 2 * i \in 1 .. 2 * N + 2
    BY Numbers, OutputIs
  <2>2. c[2 * i] <= c[2 * N + 2]
    BY <1>2, <2>1, SamplesRise
  <2>3. BookedAt(c, i) <= now'
    BY <1>1, <2>2 DEF BookedAt, PulseBookedAt
  <2>4. /\ DecidedAt(c, i) \in Nat /\ now <= DecidedAt(c, i)
        /\ BookedAt(c, i) \in Nat /\ DecidedAt(c, i) <= BookedAt(c, i)
    BY <1>2
  <2> QED BY <1>2, <2>3, <2>4
<1>4. fed \in Nat /\ fed <= now
  BY DEF LoopFeeds
<1>5. fed' = now' \/ /\ fed' = fed /\ ~ Pulsed(values, c, outcome)
                     /\ Eligible(devices')
                     /\ \A i \in DOMAIN outcome : outcome[i] = "accepted"
  BY <1>1 DEF Measured
<1>6. wake' \in Nat /\ now < wake'
  <2>1. \A i \in Output : outs'[i] \in OutputRuntime(RulesOf[i])
    BY TickOutput DEF Ticked
  <2>2. wake' = NextDeadline(outs', devices', heartbeat', now)
    BY <1>1 DEF Ticked
  <2> QED BY <1>1, <1>2, <2>1, <2>2, ExpiredDevices, TickHeartbeat, NextDeadlineType
<1> QED BY <1>2, <1>3, <1>4, <1>5, <1>6

\* The next pulse is due no longer than a pause from then.
LEMMA TickNextDue ==
  ASSUME TypeOK, LoopFeeds, Interval # None, NEW values \in Readings, NEW c \in Samples,
         NEW outcome \in Answers(values, c), NEW accepted \in BOOLEAN, Tick(values, c),
         Ticked(values, c, outcome, accepted), Measured(values, c, outcome)
  PROVE  /\ heartbeat' \in Heartbeat /\ heartbeat'.next_due <= fed' + Pause
         /\ heartbeat'.pass => /\ ~ Pulsed(values, c, outcome)
                               /\ heartbeat.pass \/ PassDue(Readied(Expired))
<1> DEFINE h == Readied(Expired)
           open == Opened(h)
           t == PulseBookedAt(c)
           pulse == Pulsed(values, c, outcome)
           booked == PulseBooked(open, accepted, t)
           n == heartbeat'
<1>1. /\ now \in Nat /\ t \in Nat /\ now' = t /\ fed \in Nat /\ fed' \in Nat /\ fed <= fed'
      /\ pulse => fed' = t
  <2>1. t \in Nat /\ now' = t
    BY TickIs, SamplesAre DEF TypeOK
  <2> HIDE DEF t
  <2> QED BY <2>1, TickFed
<1>2. n = IF pulse THEN booked ELSE open
  BY DEF Ticked
<1>3. /\ h \in Heartbeat /\ h.pass = heartbeat.pass /\ h.next_due <= heartbeat.next_due
      /\ heartbeat \in Heartbeat
  BY ReadiedType DEF TypeOK
<1> HIDE DEF h, t, pulse
<1>4. open \in Heartbeat /\ (open.pass <=> h.pass \/ PassDue(h)) /\ open.next_due = h.next_due
  BY <1>3, OpenedType
<1>5. heartbeat.next_due <= fed + Pause
  BY DEF LoopFeeds
<1> HIDE DEF open
<1>6. CASE pulse
  <2> DEFINE count == SoonerOf(open.retry_count + 1, RetryCap)
             b == Backoff(count)
  <2>1. count \in Nat
    BY <1>4, HoldIsPositive DEF Heartbeat, SoonerOf
  <2> HIDE DEF count
  <2>2. b \in Int /\ b <= RetryMax
    BY <2>1, BackoffType
  <2>3. booked.next_due = IF accepted THEN t + Interval ELSE t + b
    BY <1>4 DEF PulseBooked, Heartbeat, count
  <2>4. booked \in Heartbeat /\ booked.pass = FALSE
    BY <1>1, <1>4, PulseBookedType
  <2> HIDE DEF b, booked, n
  <2>5. n = booked
    BY <1>2, <1>6
  <2>6. n.next_due <= t + Pause
    BY <1>1, <2>2, <2>3, <2>5, FeedNumbers
  <2> QED BY <1>1, <1>6, <2>4, <2>5, <2>6 DEF n
<1>7. CASE ~ pulse
  <2> HIDE DEF n, booked
  <2>1. n = open
    BY <1>2, <1>7
  <2>2. n.next_due <= fed' + Pause
    BY <1>1, <1>3, <1>4, <1>5, <2>1, FeedNumbers DEF Heartbeat
  <2> QED BY <1>3, <1>4, <1>7, <2>1, <2>2 DEF n, h, pulse
<1> QED BY <1>6, <1>7

\* The pass of the next pulse opens in time, by the wake that waited for it.
LEMMA OpensInTime ==
  ASSUME TypeOK, LoopFeeds, WakeFeeds, Interval # None, ~ stopping,
         PassDue(Readied(Expired)), heartbeat.was_eligible
  PROVE  now <= OpenBy
<1> DEFINE h == Readied(Expired)
<1>1. ~ heartbeat.pass
  <2>1. h.pass = heartbeat.pass
    BY ReadiedType
  <2> HIDE DEF h
  <2> QED BY <2>1 DEF PassDue, h
<1>2. wake <= heartbeat.next_due + IF waiting THEN 0 ELSE LateBy
  BY <1>1 DEF WakeFeeds, Awaits, Slack
<1>3. /\ now <= wake + IF waiting THEN LateBy ELSE Lateness
      /\ heartbeat.next_due <= fed + Pause /\ fed \in Nat
  BY DEF LoopFeeds
<1>4. now \in Nat /\ wake \in Nat /\ heartbeat.next_due \in Int
  BY DEF TypeOK, Heartbeat
<1> QED BY <1>2, <1>3, <1>4, FeedNumbers DEF OpenBy

\* What a tick waits for once the devices are there: the next pulse, or what is left to
\* deliver in the pass.
LEMMA TickAwaits ==
  ASSUME TypeOK, LoopFeeds, Interval # None, NEW values \in Readings, NEW c \in Samples,
         NEW outcome \in Answers(values, c), NEW accepted \in BOOLEAN, Tick(values, c),
         Ticked(values, c, outcome, accepted), Measured(values, c, outcome)
  PROVE  /\ heartbeat'.was_eligible = Eligible(devices')
         /\ heartbeat'.was_eligible /\ ~ heartbeat'.pass => wake' <= heartbeat'.next_due
         /\ heartbeat'.was_eligible /\ heartbeat'.pass => \E i \in Output : Pending(outs'[i])
<1>1. /\ heartbeat'.was_eligible = Eligible(devices')
      /\ \A u \in Nat :
           /\ now <= u /\ u < wake'
           /\ heartbeat'.was_eligible /\ u >= heartbeat'.next_due
           => heartbeat'.pass /\ \E i \in Output : Pending(outs'[i])
  BY TickHeartbeatRests
<1>2. /\ now \in Nat /\ wake' \in Nat /\ now < wake' /\ heartbeat'.next_due \in Int
      /\ heartbeat'.pass => heartbeat'.next_due <= now
  BY TickFed, TickHeartbeat DEF Heartbeat
<1>3. ASSUME heartbeat'.was_eligible, ~ heartbeat'.pass
      PROVE  wake' <= heartbeat'.next_due
  <2> DEFINE u == LaterOf(now, heartbeat'.next_due)
             d == heartbeat'.next_due
             w == wake'
  <2>1. u \in Nat /\ now <= u /\ u >= d /\ (u = now \/ u = d)
    BY <1>2 DEF LaterOf
  <2>2. ~ (u < w)
    BY <1>1, <1>3, <2>1
  <2> HIDE DEF u, d, w
  <2>3. now < w /\ w \in Nat /\ d \in Int
    BY <1>2 DEF w, d
  <2>4. w <= d
    BY <1>2, <2>1, <2>2, <2>3
  <2> QED BY <2>4 DEF w, d
<1>4. ASSUME heartbeat'.was_eligible, heartbeat'.pass
      PROVE  \E i \in Output : Pending(outs'[i])
  BY <1>1, <1>2, <1>4
<1> QED BY <1>1, <1>3, <1>4

\* In a pass that is open after a tick, what is still to be sent was not to wait longer
\* than the hold that began before the pass did.
LEMMA TickPassHolds ==
  ASSUME TypeOK, FeedInv, Interval # None, NEW values \in Readings, NEW c \in Samples,
         NEW outcome \in Answers(values, c), NEW accepted \in BOOLEAN, Tick(values, c),
         Ticked(values, c, outcome, accepted), Measured(values, c, outcome),
         NEW i \in Output, fed' # now', heartbeat'.pass, outs'[i].force \/ N = 1
  PROVE  outs'[i].eligible_at <= OpenBy + Hold
<1> DEFINE g == outs'[i]
           v == outs[i]
           due == PassDue(Readied(Expired))
           given == i \in DOMAIN outcome
<1>0. LoopFeeds /\ WakeFeeds /\ OutputFeeds(v)
  BY DEF FeedInv
<1>1. /\ Eligible(devices') /\ \A j \in DOMAIN outcome : outcome[j] = "accepted"
      /\ now \in Nat /\ fed \in Nat
  BY <1>0, TickFed
<1>2. heartbeat.pass \/ due
  BY <1>0, TickNextDue
<1>3. g = BookedAll(DecidedAll(values, c), c, outcome)[i]
  BY DEF Ticked
<1>4. /\ ~ given => g.eligible_at = v.eligible_at
      /\ given => ~ g.force /\ ~ Pending(g)
  BY <1>1, <1>3, TickWaits
<1>5. ~ given => g.force = IF due THEN TRUE ELSE v.force
  <2> DEFINE b == BookedAll(DecidedAll(values, c), c, outcome)[i]
  <2>1. ~ (given /\ outcome[i] = "accepted") => b.force = IF due THEN TRUE ELSE v.force
    BY TickOutput
  <2> HIDE DEF b, g, given
  <2> QED BY <1>3, <2>1 DEF b
<1>6. ~ given
  <2>1. SUFFICES ASSUME given PROVE FALSE
    OBVIOUS
  <2>2. N = 1
    BY <1>4, <2>1
  <2>3. PICK j \in Output : Pending(outs'[j])
    BY <1>0, <1>1, TickAwaits
  <2>4. i = j
    BY <2>2 DEF Output
  <2> QED BY <1>4, <2>1, <2>3, <2>4
<1>7. v.eligible_at \in Int /\ ~ stopping
  BY TickIs DEF TypeOK, OutputRuntime
<1> HIDE DEF g, v, due, given
<1>8. /\ v.eligible_at <= now + Hold
      /\ ~ heartbeat.was_eligible => v.eligible_at <= fed + Hold
      /\ heartbeat.pass /\ (v.force \/ N = 1) => v.eligible_at <= OpenBy + Hold
  BY <1>0 DEF OutputFeeds
<1>9. OpenBy \in Nat /\ fed <= OpenBy /\ Hold \in Nat
  BY <1>1, FeedNumbers DEF OpenBy
<1>10. g.eligible_at = v.eligible_at
  BY <1>4, <1>6
<1>11. CASE due
  <2>1. CASE heartbeat.was_eligible
    <3>1. now <= OpenBy
      BY <1>0, <1>7, <1>11, <2>1, OpensInTime DEF due
    <3> QED BY <1>1, <1>7, <1>8, <1>9, <1>10, <3>1 DEF g
  <2>2. CASE ~ heartbeat.was_eligible
    BY <1>1, <1>7, <1>8, <1>9, <1>10, <2>2 DEF g
  <2> QED BY <2>1, <2>2
<1>12. CASE ~ due
  <2>1. v.force \/ N = 1
    BY <1>5, <1>6, <1>12 DEF g
  <2> QED BY <1>2, <1>8, <1>10, <1>12, <2>1 DEF g
<1> QED BY <1>11, <1>12

LEMMA TickOutputFeeds ==
  ASSUME TypeOK, FeedInv, Interval # None, NEW values \in Readings, NEW c \in Samples,
         NEW outcome \in Answers(values, c), NEW accepted \in BOOLEAN, Tick(values, c),
         Ticked(values, c, outcome, accepted), Measured(values, c, outcome),
         NEW i \in Output
  PROVE  OutputFeeds(outs[i])'
<1> DEFINE g == outs'[i]
           v == outs[i]
           f == BookedAt(c, i)
           n == now'
           m == fed'
           h == heartbeat'
           given == i \in DOMAIN outcome
<1>1. LoopFeeds /\ OutputFeeds(v)
  BY DEF FeedInv
<1>2. /\ now \in Nat /\ n \in Nat /\ fed \in Nat /\ m \in Nat /\ f \in Nat
      /\ now <= n /\ now <= f /\ f <= n /\ fed <= m /\ m <= n
      /\ m = n \/ /\ m = fed /\ Eligible(devices')
                  /\ \A j \in DOMAIN outcome : outcome[j] = "accepted"
  <2> HIDE DEF n, m, f
  <2> QED BY <1>1, TickFed DEF n, m, f
<1>3. g = BookedAll(DecidedAll(values, c), c, outcome)[i]
  BY DEF Ticked
<1>4. /\ ~ given => /\ g.eligible_at = v.eligible_at
                    /\ g.retry_at # None => g.retry_at = v.retry_at
      /\ given /\ outcome[i] = "accepted" =>
           /\ g.eligible_at = f + Hold /\ g.retry_at = None /\ Previous(g) # Unknown
      /\ given /\ outcome[i] # "accepted" =>
           /\ g.eligible_at = v.eligible_at \/ g.eligible_at <= f + Hold
           /\ g.retry_at \in Int /\ g.retry_at <= f + RetryMax
  BY <1>3, TickWaits
<1>5. ~ (given /\ outcome[i] = "accepted") =>
        (~ g.force => ~ v.force) /\ Previous(g) = Previous(v)
  BY <1>3, TickOutput
<1>6. v.eligible_at \in Int /\ (v.retry_at # None => v.retry_at \in Int)
  BY DEF TypeOK, OutputRuntime, OptTime
<1>7. /\ ~ v.force => Previous(v) # Unknown
      /\ v.eligible_at <= now + Hold
      /\ v.retry_at # None => v.retry_at <= fed + Pause
  BY <1>1 DEF OutputFeeds
<1>8. h.was_eligible = Eligible(devices')
  BY <1>1, TickAwaits
<1>9. m # n /\ h.pass /\ (g.force \/ N = 1) => g.eligible_at <= OpenBy + Hold
  BY TickPassHolds
<1>10. /\ Hold \in Nat /\ Pause \in Nat /\ RetryMax \in Nat /\ RetryMax <= Pause
       /\ LateBy \in Nat /\ Lateness \in Nat
  BY FeedNumbers
<1> DEFINE open == m + Pause + LateBy + Lateness
<1>11. OpenBy' = open
  BY DEF OpenBy
<1>12. m # n => OpenBy = open
  BY <1>2 DEF OpenBy
<1> HIDE DEF g, v, f, n, m, h, given, open
<1>13. ~ g.force => Previous(g) # Unknown
  BY <1>4, <1>5, <1>7
<1>14. g.eligible_at \in Int
  BY <1>3, TickOutput DEF OutputRuntime
<1>15. g.eligible_at <= n + Hold
  <2>1. CASE ~ given
    BY <1>2, <1>4, <1>6, <1>7, <1>10, <2>1
  <2>2. CASE given /\ outcome[i] = "accepted"
    BY <1>2, <1>4, <1>10, <2>2
  <2>3. CASE given /\ outcome[i] # "accepted"
    BY <1>2, <1>4, <1>6, <1>7, <1>10, <1>14, <2>3
  <2> QED BY <2>1, <2>2, <2>3
<1>16. g.retry_at # None => g.retry_at <= m + Pause
  BY <1>2, <1>4, <1>6, <1>7, <1>10 DEF given
<1>17. ~ h.was_eligible => g.eligible_at <= m + Hold
  BY <1>2, <1>8, <1>15
<1>18. h.pass /\ (g.force \/ N = 1) => g.eligible_at <= open + Hold
  <2>1. CASE m # n
    BY <1>9, <1>12, <2>1
  <2>2. CASE m = n
    BY <1>2, <1>10, <1>15, <1>14, <2>2 DEF open
  <2> QED BY <2>1, <2>2
<1> QED BY <1>11, <1>13, <1>15, <1>16, <1>17, <1>18
        DEF OutputFeeds, Previous, g, n, m, h

\* The wake of a tick that leaves the pass open, and no output that has changed its
\* mind since its delivery, is the end of a hold or of a back-off.
LEMMA TickPassWakes ==
  ASSUME IInv, IInv', FeedInv, Interval # None, NEW values \in Readings, NEW c \in Samples,
         NEW outcome \in Answers(values, c), NEW accepted \in BOOLEAN, Tick(values, c),
         Ticked(values, c, outcome, accepted), Measured(values, c, outcome),
         heartbeat'.was_eligible, heartbeat'.pass, ~ Held'
  PROVE  wake' <= OpenBy' + Hold
<1> DEFINE m == fed'
           limit == m + Pause + LateBy + Lateness + Hold
<1>1. TypeOK /\ LoopFeeds
  BY DEF IInv, FeedInv
<1>2. PICK i \in Output : Pending(outs'[i])
  BY <1>1, TickAwaits
<1> DEFINE g == outs'[i]
           s == DecidedAt(c, i)
           f == BookedAt(c, i)
           given == i \in DOMAIN outcome
<1>3. OutputFeeds(outs[i])'
  BY <1>1, TickOutputFeeds
<1>4. /\ ~ g.force => Previous(g) # Unknown
      /\ g.retry_at # None => g.retry_at <= m + Pause
      /\ g.force \/ N = 1 => g.eligible_at <= limit
  BY <1>3 DEF OutputFeeds, OpenBy, Previous
<1>5. g \in OutputRuntime(RulesOf[i])
  BY <1>1, TickOutput DEF Ticked
<1>6. g.force \/ N = 1
  <2>1. SUFFICES ASSUME ~ g.force, N # 1 PROVE FALSE
    BY <1>5 DEF OutputRuntime
  <2>2. trace'[i].delivered = Previous(g)
    BY <2>1 DEF IInv, PassInv, Previous
  <2>3. Previous(g) # Unknown /\ g.desired # Unknown /\ g.desired # Previous(g)
    BY <1>2, <1>4, <2>1 DEF Pending
  <2>4. N > 1
    BY <2>1, Numbers
  <2>5. ~ Undone(i)'
    BY <2>4 DEF Held
  <2> QED BY <2>2, <2>3, <2>5 DEF Undone
<1>7. /\ now \in Nat /\ m \in Nat /\ s \in Nat /\ f \in Nat /\ now <= s /\ now <= f
  <2> HIDE DEF m, s, f
  <2> QED BY <1>1, TickFed DEF m, s, f
<1>8. Available(i, devices') /\ devices' = Expired
  <2>1. Eligible(devices') /\ ~ stopping /\ devices' = Expired
    BY <1>1, TickIs, TickAwaits
  <2>2. DeviceOf[i] # None => DeviceOf[i] \in Device
    BY OutputIs
  <2> QED BY <2>1, <2>2 DEF Eligible, DevicesReady, Available
<1>9. g = BookedAll(DecidedAll(values, c), c, outcome)[i]
  BY DEF Ticked
<1>10. /\ ~ given => ~ Due(g, s)
       /\ given /\ outcome[i] = "accepted" => ~ Pending(g)
       /\ given /\ outcome[i] # "accepted" =>
            g.retry_at \in Int /\ g.retry_at # None /\ f < g.retry_at
  <2>1. TypeOK
    BY <1>1
  <2> QED BY <1>8, <1>9, <2>1, TickWaits
<1>11. ASSUME NEW d \in {g.eligible_at, g.retry_at}, d # None, d > now
       PROVE  wake' \in Nat /\ wake' <= d
  <2>1. d \in OutputDeadlines(outs'[i], Available(i, devices'), now)
    BY <1>2, <1>8, <1>11 DEF OutputDeadlines
  <2> QED BY <1>1, <1>11, <2>1, TickWake
<1>12. /\ g.eligible_at \in Int /\ g.eligible_at # None
       /\ g.retry_at # None => g.retry_at \in Int
  BY <1>5, NoneAssumption DEF OutputRuntime, OptTime
<1>13. /\ Hold \in Nat /\ Pause \in Nat /\ LateBy \in Nat /\ Lateness \in Nat
  BY FeedNumbers
<1>14. \/ s < g.eligible_at
       \/ g.retry_at # None /\ (s < g.retry_at \/ f < g.retry_at)
  <2>1. CASE ~ given
    <3>1. ~ MayAttempt(g, s)
      BY <1>2, <1>10, <2>1 DEF Due
    <3> HIDE DEF g, s
    <3> QED BY <1>7, <1>12, <3>1 DEF MayAttempt
  <2>2. CASE given
    BY <1>2, <1>10, <2>2
  <2> QED BY <2>1, <2>2
<1> DEFINE w == wake'
<1>15. OpenBy' + Hold = limit
  BY DEF OpenBy
<1> HIDE DEF g, s, f, m, given
<1>16. CASE s < g.eligible_at
  <2>1. w \in Nat /\ w <= g.eligible_at
    BY <1>7, <1>11, <1>12, <1>16
  <2>2. g.eligible_at <= limit
    BY <1>4, <1>6
  <2> HIDE DEF w
  <2> QED BY <1>7, <1>12, <1>13, <1>15, <2>1, <2>2 DEF w
<1>17. CASE g.retry_at # None /\ (s < g.retry_at \/ f < g.retry_at)
  <2>1. w \in Nat /\ w <= g.retry_at
    BY <1>7, <1>11, <1>12, <1>17
  <2>2. g.retry_at <= m + Pause
    BY <1>4, <1>17
  <2> HIDE DEF w
  <2> QED BY <1>7, <1>12, <1>13, <1>15, <1>17, <2>1, <2>2 DEF w
<1> QED BY <1>14, <1>16, <1>17

LEMMA TickFeeds ==
  ASSUME IInv, IInv', FeedInv, Interval # None, NEW values \in Readings, NEW c \in Samples,
         Tick(values, c)
  PROVE  FeedInv'
<1>1. TypeOK /\ LoopFeeds
  BY DEF IInv, FeedInv
<1>2. PICK outcome \in Answers(values, c), accepted \in BOOLEAN :
        Ticked(values, c, outcome, accepted) /\ Measured(values, c, outcome)
  BY TickMeasures
<1>3. waiting' = TRUE /\ ~ stopping'
  BY TickIs
<1>4. \A i \in Output : OutputFeeds(outs[i])'
  BY <1>1, <1>2, TickOutputFeeds
<1>5. LoopFeeds'
  <2> DEFINE n == now'
             m == fed'
             w == wake'
  <2>1. /\ now \in Nat /\ n \in Nat /\ m \in Nat /\ w \in Nat
        /\ n <= now + SubmitLag /\ now < w /\ m <= n
    <3> HIDE DEF n, m, w
    <3> QED BY <1>1, <1>2, TickFed DEF n, m, w
  <2>2. heartbeat'.next_due <= m + Pause
    BY <1>1, <1>2, TickNextDue
  <2> HIDE DEF n, m, w
  <2>3. n <= w + LateBy
    BY <2>1, FeedNumbers
  <2> QED BY <1>3, <2>1, <2>2, <2>3 DEF LoopFeeds, n, m, w
<1>6. WakeFeeds'
  <2>1. Slack' = 0
    BY <1>3 DEF Slack
  <2>2. ASSUME heartbeat'.was_eligible, ~ heartbeat'.pass
        PROVE  wake' <= heartbeat'.next_due /\ heartbeat'.next_due \in Int
    BY <1>1, <1>2, <2>2, TickAwaits, TickHeartbeat DEF Heartbeat
  <2>3. ASSUME heartbeat'.was_eligible, heartbeat'.pass, ~ Held'
        PROVE  wake' <= OpenBy' + Hold
    BY <1>2, <2>3, TickPassWakes
  <2>4. OpenBy' + Hold \in Nat
    <3> DEFINE m == fed'
    <3>1. m \in Nat
      BY <1>5 DEF LoopFeeds
    <3>2. OpenBy' = m + Pause + LateBy + Lateness
      BY DEF OpenBy
    <3> HIDE DEF m
    <3> QED BY <3>1, <3>2, FeedNumbers
  <2>5. ASSUME NEW d \in Int, wake' <= d PROVE Awaits(d)'
    <3>1. wake' <= d + 0
      BY <2>5
    <3> QED BY <2>1, <3>1 DEF Awaits
  <2> QED BY <2>2, <2>3, <2>4, <2>5 DEF WakeFeeds, Awaits
<1> QED BY <1>4, <1>5, <1>6 DEF FeedInv

\* A recovery begins a hold and keeps the back-off.
LEMMA RecoveredWaits ==
  ASSUME TypeOK, NEW S, NEW i \in Output
  PROVE  LET g == Recovered(S)[i]
         IN  /\ i \in S => g.force = TRUE
             /\ i \notin S => g = outs[i]
             /\ g.eligible_at = outs[i].eligible_at \/ g.eligible_at = now + Hold
             /\ g.retry_at = outs[i].retry_at
<1> DEFINE v == outs[i]
           q == Resync(v, now, TRUE)
           g == Recovered(S)[i]
<1>1. now \in Nat /\ v \in OutputRuntime(RulesOf[i])
  BY DEF TypeOK
<1>2. g = IF i \in S THEN q ELSE v
  BY DEF Recovered
<1> HIDE DEF v, g
<1>3. /\ q.force = TRUE /\ q.retry_at = v.retry_at
      /\ q.eligible_at = LaterOf(v.eligible_at, now + Hold)
  BY <1>1 DEF Resync, OutputRuntime
<1> HIDE DEF q
<1> QED BY <1>2, <1>3 DEF LaterOf, v, g

\* What begins with a recovery, or with the loss of the connection, is measured anew.
LEMMA RecoveryFeeds ==
  ASSUME TypeOK, FeedInv, Interval # None, NEW S, TraceRecovery(S), Event,
         outs' = Recovered(S), now' = now,
         \/ heartbeat' = heartbeat
         \/ heartbeat'.next_due = now /\ ~ heartbeat'.pass /\ ~ heartbeat'.was_eligible,
         heartbeat'.was_eligible => waiting /\ ~ stopping'
  PROVE  FeedInv'
<1>1. /\ now \in Nat /\ fed' = now /\ waiting' = FALSE /\ wake' = now
      /\ heartbeat.next_due \in Int
  BY DEF TypeOK, Heartbeat, TraceRecovery, Event
<1>2. /\ Hold \in Nat /\ Pause \in Nat /\ LateBy \in Nat /\ Lateness \in Nat
      /\ Lateness <= LateBy
  BY FeedNumbers
<1>3. /\ fed \in Nat /\ fed <= now /\ heartbeat.next_due <= fed + Pause
      /\ now <= wake + IF waiting /\ ~ stopping THEN LateBy ELSE Lateness
  BY DEF FeedInv, LoopFeeds
<1>4. OpenBy' = now + Pause + LateBy + Lateness
  BY <1>1 DEF OpenBy
<1>5. LoopFeeds'
  <2>1. heartbeat'.next_due <= now + Pause
    BY <1>1, <1>2, <1>3
  <2>2. now <= now + Lateness
    BY <1>1, <1>2
  <2> QED BY <1>1, <2>1, <2>2 DEF LoopFeeds
<1>6. ASSUME NEW i \in Output PROVE OutputFeeds(outs[i])'
  <2> DEFINE g == outs'[i]
             v == outs[i]
  <2>1. /\ i \in S => g.force = TRUE
        /\ i \notin S => g = v
        /\ g.eligible_at = v.eligible_at \/ g.eligible_at = now + Hold
        /\ g.retry_at = v.retry_at
    BY RecoveredWaits
  <2>2. /\ ~ v.force => Previous(v) # Unknown
        /\ v.eligible_at <= now + Hold
        /\ v.retry_at # None => v.retry_at <= fed + Pause
    BY DEF FeedInv, OutputFeeds
  <2>3. v.eligible_at \in Int /\ (v.retry_at # None => v.retry_at \in Int)
    BY DEF TypeOK, OutputRuntime, OptTime
  <2> HIDE DEF g, v
  <2>4. ~ g.force => Previous(g) # Unknown
    BY <2>1, <2>2
  <2>5. g.eligible_at <= now + Hold /\ g.eligible_at <= OpenBy' + Hold
    BY <1>1, <1>2, <1>4, <2>1, <2>2, <2>3
  <2>6. g.retry_at # None => g.retry_at <= now + Pause
    BY <1>1, <1>2, <1>3, <2>1, <2>2, <2>3
  <2> QED BY <1>1, <2>4, <2>5, <2>6 DEF OutputFeeds, Previous, g
<1>7. WakeFeeds'
  <2>1. SUFFICES ASSUME heartbeat'.was_eligible
                 PROVE  /\ ~ heartbeat'.pass => wake' <= heartbeat'.next_due + Slack'
                        /\ wake' <= OpenBy' + Hold + Slack'
    BY DEF WakeFeeds, Awaits
  <2>2. heartbeat' = heartbeat /\ Slack' = LateBy /\ waiting /\ ~ stopping
    BY <1>1, <2>1 DEF Slack, Event
  <2>3. ASSUME ~ heartbeat'.pass PROVE wake' <= heartbeat'.next_due + Slack'
    <3>1. wake <= heartbeat.next_due + 0
      BY <2>1, <2>2, <2>3 DEF FeedInv, WakeFeeds, Awaits, Slack
    <3>2. wake \in Nat /\ now <= wake + LateBy
      BY <1>3, <2>2 DEF TypeOK
    <3>3. now <= heartbeat.next_due + LateBy
      BY <1>1, <1>2, <3>1, <3>2
    <3> QED BY <1>1, <2>2, <3>3
  <2>4. wake' <= OpenBy' + Hold + Slack'
    BY <1>1, <1>2, <1>4, <2>2
  <2> QED BY <2>3, <2>4
<1> QED BY <1>5, <1>6, <1>7 DEF FeedInv

\* An event about nothing of the relays wakes the loop at once.
LEMMA QuietEventFeeds ==
  ASSUME TypeOK, FeedInv, Interval # None, Event,
         UNCHANGED <<now, outs, heartbeat, trace, fed>>,
         stopping' \/ waiting
  PROVE  FeedInv'
<1>1. /\ now \in Nat /\ waiting' = FALSE /\ wake' = now /\ ~ stopping /\ wake \in Nat
      /\ heartbeat.next_due \in Int /\ fed \in Nat
  BY DEF TypeOK, Heartbeat, Event, FeedInv, LoopFeeds
<1>2. /\ Hold \in Nat /\ Pause \in Nat /\ LateBy \in Nat /\ Lateness \in Nat
      /\ Lateness <= LateBy
  BY FeedNumbers
<1>3. /\ fed \in Nat /\ fed <= now /\ heartbeat.next_due <= fed + Pause
      /\ now <= wake + IF waiting THEN LateBy ELSE Lateness
  BY <1>1 DEF FeedInv, LoopFeeds
<1>4. OpenBy' = OpenBy /\ OpenBy \in Nat /\ (Held' <=> Held)
  BY <1>2, <1>3 DEF OpenBy, Held, Undone
<1>5. LoopFeeds'
  <2>1. now <= now + Lateness
    BY <1>1, <1>2
  <2> QED BY <1>1, <1>3, <2>1 DEF LoopFeeds
<1>6. \A i \in Output : OutputFeeds(outs[i])'
  BY <1>4 DEF FeedInv, OutputFeeds, Previous
<1>7. ASSUME NEW d \in Int, wake <= d + Slack
      PROVE  wake' <= d + Slack'
  <2>1. wake <= d + IF waiting THEN 0 ELSE LateBy
    BY <1>1, <1>7 DEF Slack
  <2>2. now <= d + LateBy + IF waiting THEN 0 ELSE Lateness
    BY <1>1, <1>2, <1>3, <2>1
  <2>3. CASE stopping'
    <3>1. now <= d + (LateBy + Lateness)
      BY <1>1, <1>2, <2>2
    <3> QED BY <1>1, <2>3, <3>1 DEF Slack
  <2>4. CASE ~ stopping'
    <3>1. now <= d + LateBy
      BY <1>1, <1>2, <2>2, <2>4
    <3> QED BY <1>1, <2>4, <3>1 DEF Slack
  <2> QED BY <2>3, <2>4
<1>8. WakeFeeds'
  <2> DEFINE d == heartbeat.next_due
             e == OpenBy + Hold
  <2>1. d \in Int /\ e \in Int /\ heartbeat'.next_due = d /\ OpenBy' + Hold = e
    BY <1>1, <1>2, <1>4
  <2>2. /\ heartbeat.was_eligible /\ ~ heartbeat.pass => wake <= d + Slack
        /\ heartbeat.was_eligible /\ heartbeat.pass /\ ~ Held => wake <= e + Slack
    BY DEF FeedInv, WakeFeeds, Awaits
  <2> HIDE DEF d, e
  <2>3. /\ wake <= d + Slack => wake' <= d + Slack'
        /\ wake <= e + Slack => wake' <= e + Slack'
    BY <1>7, <2>1
  <2> QED BY <1>4, <2>1, <2>2, <2>3 DEF WakeFeeds, Awaits
<1> QED BY <1>5, <1>6, <1>8 DEF FeedInv

\* Time passes to the wake, or to a lateness past it; the last tick leaves things alone.
LEMMA RestFeeds ==
  ASSUME TypeOK, FeedInv, Interval # None,
         UNCHANGED <<outs, heartbeat, wake, trace, fed, stopping>>,
         \/ now' = now /\ (waiting' = waiting \/ stopping)
         \/ now' = now + 1 /\ now < wake + Lateness /\ waiting' = waiting
  PROVE  FeedInv'
<1>1. now \in Nat /\ wake \in Nat /\ fed \in Nat /\ fed <= now
  BY DEF TypeOK, FeedInv, LoopFeeds
<1>2. /\ Hold \in Nat /\ LateBy \in Nat /\ Lateness \in Nat /\ Lateness <= LateBy
  BY FeedNumbers
<1>3. now' \in Nat /\ now <= now'
  BY <1>1
<1>4. LoopFeeds'
  <2> DEFINE L == IF waiting /\ ~ stopping THEN LateBy ELSE Lateness
             M == IF waiting' /\ ~ stopping' THEN LateBy ELSE Lateness
  <2>1. now <= wake + L /\ heartbeat.next_due <= fed + Pause
    BY DEF FeedInv, LoopFeeds
  <2>2. M \in Nat /\ Lateness <= M /\ (now' = now => M = L)
    BY <1>1, <1>2
  <2> HIDE DEF L, M
  <2>3. now' <= wake + M
    BY <1>1, <1>2, <2>1, <2>2
  <2>4. fed <= now'
    BY <1>1, <1>3
  <2> QED BY <1>1, <2>1, <2>3, <2>4 DEF LoopFeeds, M
<1>5. OpenBy' = OpenBy /\ (Held' <=> Held) /\ Slack' = Slack
  BY DEF OpenBy, Held, Undone, Slack
<1>6. WakeFeeds'
  BY <1>5 DEF FeedInv, WakeFeeds, Awaits
<1>7. ASSUME NEW i \in Output PROVE OutputFeeds(outs[i])'
  <2>1. outs[i].eligible_at \in Int
    BY DEF TypeOK, OutputRuntime
  <2>2. outs[i].eligible_at <= now' + Hold
    <3>1. outs[i].eligible_at <= now + Hold
      BY DEF FeedInv, OutputFeeds
    <3> QED BY <1>1, <1>2, <1>3, <2>1, <3>1
  <2> QED BY <1>5, <2>2 DEF FeedInv, OutputFeeds, Previous
<1> QED BY <1>4, <1>6, <1>7 DEF FeedInv

LEMMA InitFeeds == ASSUME Interval # None, Init PROVE FeedInv
<1>1. /\ now = 0 /\ wake = 0 /\ fed = 0 /\ waiting = FALSE
      /\ heartbeat.next_due = 0 /\ heartbeat.pass = FALSE /\ heartbeat.was_eligible = FALSE
  BY DEF Init
<1>2. /\ Hold \in Nat /\ Pause \in Nat /\ LateBy \in Nat /\ Lateness \in Nat
  BY FeedNumbers
<1>3. LoopFeeds /\ WakeFeeds
  BY <1>1, <1>2 DEF LoopFeeds, WakeFeeds
<1>4. ASSUME NEW i \in Output PROVE OutputFeeds(outs[i])
  <2>1. outs[i].force = TRUE /\ outs[i].eligible_at = Hold /\ outs[i].retry_at = None
    BY DEF Init, NewOutput
  <2> QED BY <1>1, <1>2, <2>1 DEF OutputFeeds
<1> QED BY <1>3, <1>4 DEF FeedInv

LEMMA FeedStep ==
  ASSUME IInv, IInv', FeedInv, Interval # None, [Next]_vars
  PROVE  FeedInv'
<1>0. TypeOK
  BY DEF IInv
<1>1. CASE \E values \in Readings : LastTick(values)
  BY <1>0, <1>1, RestFeeds DEF LastTick
<1>2. CASE \E values \in Readings, c \in Samples : Tick(values, c)
  BY <1>2, TickFeeds
<1>3. CASE \E up \in BOOLEAN : Connection(up)
  <2>1. /\ TraceRecovery(Output) /\ Event /\ outs' = Recovered(Output) /\ now' = now
        /\ heartbeat' = [heartbeat EXCEPT !.pass = FALSE, !.was_eligible = FALSE,
                                          !.next_due = now]
    BY <1>3 DEF Connection
  <2>2. heartbeat'.next_due = now /\ ~ heartbeat'.pass /\ ~ heartbeat'.was_eligible
    BY <1>0, <2>1 DEF TypeOK, Heartbeat
  <2> QED BY <1>0, <2>1, <2>2, RecoveryFeeds
<1>4. CASE \E report \in Reports : ReceiveAvailability(report)
  <2>1. PICK report \in Reports : ReceiveAvailability(report)
    BY <1>4
  <2> DEFINE S == {i \in Output : DeviceOf[i] \in
                     {d \in Device : report[d] = Yes /\ devices[d].value # Yes}}
  <2>2. /\ TraceRecovery(S) /\ Event /\ outs' = Recovered(S) /\ now' = now
        /\ heartbeat' = heartbeat /\ waiting /\ ~ stopping'
    BY <2>1 DEF ReceiveAvailability, Event
  <2> HIDE DEF S
  <2> QED BY <1>0, <2>2, RecoveryFeeds
<1>5. CASE \/ \E granted \in SUBSET Topic : Acknowledged(granted)
           \/ ReceiveTelemetry
           \/ Stop
  <2>1. /\ Event /\ UNCHANGED <<now, outs, heartbeat, trace, fed>>
        /\ stopping' \/ waiting
    BY <1>5 DEF Acknowledged, ReceiveTelemetry, Stop, Event
  <2> QED BY <1>0, <2>1, QuietEventFeeds
<1>6. CASE Pass
  BY <1>0, <1>6, RestFeeds DEF Pass, engine
<1>7. CASE Stopped \/ UNCHANGED vars
  BY <1>0, <1>7, RestFeeds DEF Stopped, vars, engine
<1> QED BY <1>1, <1>2, <1>3, <1>4, <1>5, <1>6, <1>7 DEF Next

\* The wake that the loop chose comes in time.
LEMMA FedInTime ==
  ASSUME TypeOK, FeedInv, Interval # None, heartbeat.was_eligible, ~ Held
  PROVE  now <= fed + Margin
<1>1. /\ now \in Nat /\ wake \in Nat /\ fed \in Nat /\ heartbeat.next_due \in Int
      /\ heartbeat.next_due <= fed + Pause
      /\ now <= wake + IF waiting /\ ~ stopping THEN LateBy ELSE Lateness
  BY DEF TypeOK, Heartbeat, FeedInv, LoopFeeds
<1>2. /\ Hold \in Nat /\ Pause \in Nat /\ LateBy \in Nat /\ Lateness \in Nat
      /\ Lateness <= LateBy
  BY FeedNumbers
<1> DEFINE e == fed + Pause + LateBy + Lateness + Hold
<1>3. wake <= e + Slack
  <2>1. CASE heartbeat.pass
    BY <2>1 DEF FeedInv, WakeFeeds, Awaits, OpenBy
  <2>2. CASE ~ heartbeat.pass
    <3>1. wake <= heartbeat.next_due + Slack
      BY <2>2 DEF FeedInv, WakeFeeds, Awaits
    <3>2. Slack \in Nat
      BY <1>2 DEF Slack
    <3> QED BY <1>1, <1>2, <3>1, <3>2
  <2> QED BY <2>1, <2>2
<1>4. now <= e + LateBy + 2 * Lateness
  <2>1. e \in Nat
    BY <1>1, <1>2
  <2> HIDE DEF e
  <2>2. CASE stopping
    BY <1>1, <1>2, <1>3, <2>1, <2>2 DEF Slack
  <2>3. CASE ~ stopping
    BY <1>1, <1>2, <1>3, <2>1, <2>3 DEF Slack
  <2> QED BY <2>2, <2>3
<1> QED BY <1>1, <1>2, <1>4 DEF Margin

\* While broker and devices are there and nothing fails, the next pulse follows the
\* latest, or the latest reason not to pulse, within the longest of the pauses between
\* pulses, one hold and the lateness of the loop, unless an output of several was
\* delivered in the open pass and desires another value since (src/engine.rs,
\* next_deadline and tick_heartbeat).
THEOREM OnlyChangesHoldPulsesBack ==
  ASSUME Interval # None
  PROVE  Spec => [](heartbeat.was_eligible => now <= fed + Margin \/ Held)
<1>1. Init => FeedInv
  BY InitFeeds
<1>2. IInv /\ IInv' /\ FeedInv /\ [Next]_vars => FeedInv'
  BY FeedStep
<1>3. IInv /\ FeedInv => (heartbeat.was_eligible => now <= fed + Margin \/ Held)
  BY FedInTime DEF IInv
<1> QED BY <1>1, <1>2, <1>3, Invariant, PTL DEF Spec

\* With a single output the watchdog never falls back under a working controller, if its
\* timeout covers a back-off as well as the interval, and the lateness of the loop.
THEOREM OneOutputPulsesInTime ==
  ASSUME Interval # None, N = 1, WatchdogTimeout > Margin
  PROVE  Spec => []PulsesInTime
<1>1. IInv /\ FeedInv => PulsesInTime
  <2> SUFFICES ASSUME IInv, FeedInv, heartbeat.was_eligible
               PROVE  now < fed + WatchdogTimeout
    BY DEF PulsesInTime
  <2>1. ~ Held /\ TypeOK
    BY DEF Held, IInv
  <2>2. now <= fed + Margin
    BY <2>1, FedInTime
  <2>3. now \in Nat /\ fed \in Nat /\ Margin \in Nat /\ WatchdogTimeout \in Nat
    BY FeedNumbers, ControllerAssumption
       DEF TypeOK, FeedInv, LoopFeeds, Margin, IInv, ValidWatchdog
  <2> QED BY <2>2, <2>3
<1>2. Init => FeedInv
  BY InitFeeds
<1>3. IInv /\ IInv' /\ FeedInv /\ [Next]_vars => FeedInv'
  BY FeedStep
<1> QED BY <1>1, <1>2, <1>3, Invariant, PTL DEF Spec

----------------------------------------------------------------------------
(* Retries and episodes, relay by relay: what RelayScheduler promises of   *)
(* an output holds of each output of a controller.  A tick decides each    *)
(* output from what it was; every other step leaves it alone or            *)
(* resynchronises it.                                                      *)

\* What a step that is not a tick does to an output and its history.
LEMMA OtherSteps ==
  ASSUME IInv, Next, \A values \in Readings, c \in Samples : ~ Tick(values, c),
         NEW i \in Output
  PROVE  /\ seen' = seen /\ trace'[i].decided_at = trace[i].decided_at
         /\ now \in Nat /\ now' \in Nat /\ now <= now'
         /\ \/ outs'[i] = outs[i]
            \/ \E settle \in BOOLEAN : outs'[i] = Resync(outs[i], now, settle)
<1> USE DEF IInv
<1> DEFINE same == outs'[i] = outs[i] /\ trace'[i] = trace[i]
           back == \E settle \in BOOLEAN : outs'[i] = Resync(outs[i], now, settle)
           kept == trace'[i].decided_at = trace[i].decided_at
<1>1. now \in Nat /\ trace[i] \in Trace
  BY DEF TypeOK, TraceInv
<1>2. ASSUME NEW S, UNCHANGED <<now, seen>>, outs' = Recovered(S), TraceRecovery(S)
      PROVE  UNCHANGED <<now, seen>> /\ kept /\ (outs'[i] = outs[i] \/ back)
  <2>1. CASE i \in S
    <3>1. outs'[i] = Resync(outs[i], now, TRUE)
      BY <1>2, <2>1 DEF Recovered
    <3>2. trace'[i] = [trace[i] EXCEPT !.settled = now, !.delivered = Unknown]
      BY <1>2, <2>1 DEF TraceRecovery
    <3>3. kept
      BY <1>1, <3>2 DEF Trace
    <3>4. PICK settle \in BOOLEAN : settle = TRUE
      OBVIOUS
    <3>5. outs'[i] = Resync(outs[i], now, settle)
      BY <3>1, <3>4
    <3> QED BY <1>2, <3>3, <3>5
  <2>2. CASE i \notin S
    BY <1>2, <2>2 DEF Recovered, TraceRecovery
  <2> QED BY <2>1, <2>2
<1>3. ASSUME Pass PROVE seen' = seen /\ now' = now + 1 /\ same
  BY <1>3 DEF Pass, engine
<1>4. ASSUME NEW values \in Readings, LastTick(values)
      PROVE  UNCHANGED <<now, seen>> /\ same
  BY <1>4 DEF LastTick
<1>5. ASSUME NEW up \in BOOLEAN, Connection(up)
      PROVE  UNCHANGED <<now, seen>> /\ kept /\ (outs'[i] = outs[i] \/ back)
  BY <1>2, <1>5 DEF Connection, Event
<1>6. ASSUME NEW granted \in SUBSET Topic, Acknowledged(granted)
      PROVE  UNCHANGED <<now, seen>> /\ same
  BY <1>6 DEF Acknowledged, Event
<1>7. ASSUME NEW report \in Reports, ReceiveAvailability(report)
      PROVE  UNCHANGED <<now, seen>> /\ kept /\ (outs'[i] = outs[i] \/ back)
  BY <1>2, <1>7 DEF ReceiveAvailability, Event
<1>8. ASSUME ReceiveTelemetry \/ Stop \/ Stopped
      PROVE  UNCHANGED <<now, seen>> /\ same
  BY <1>8 DEF ReceiveTelemetry, Stop, Stopped, Event, vars, engine
<1> HIDE DEF back
<1>9. /\ seen' = seen /\ kept /\ (outs'[i] = outs[i] \/ back)
      /\ now' = now \/ now' = now + 1
  BY <1>3, <1>4, <1>5, <1>6, <1>7, <1>8 DEF Next
<1> QED BY <1>1, <1>9 DEF back

\* What a tick makes of an output is what it decides, or that with its outcome booked.
LEMMA TickSteps ==
  ASSUME IInv, NEW values \in Readings, NEW c \in Samples, Tick(values, c), NEW i \in Output
  PROVE  LET o == DecidedAll(values, c)[i]
             s == DecidedAt(c, i)
             f == BookedAt(c, i)
         IN  /\ seen = ctrl /\ seen' = Admitted(values) /\ trace'[i].decided_at = s
             /\ now \in Nat /\ s \in Nat /\ f \in Nat /\ now' \in Nat
             /\ now <= s /\ s <= f /\ f <= now'
             /\ o \in OutputRuntime(RulesOf[i])
             /\ \/ outs'[i] = o
                \/ Pending(o) /\ \E a \in Answer : outs'[i] = Book(o, s, f, a)
<1> USE DEF IInv
<1> DEFINE s == DecidedAt(c, i)
           f == BookedAt(c, i)
           o == DecidedAll(values, c)[i]
<1>1. PICK outcome \in Answers(values, c), accepted \in BOOLEAN :
        Ticked(values, c, outcome, accepted)
  BY TickIs
<1>2. /\ ~ stopping /\ seen = ctrl /\ seen' = Admitted(values) /\ now' = PulseBookedAt(c)
  BY TickIs DEF SeenInv
<1>3. now \in Nat
  BY DEF TypeOK
<1>4. /\ s \in Nat /\ f \in Nat /\ now' \in Nat /\ now <= s /\ s <= f /\ f <= now'
  <2>1. s \in Nat /\ f \in Nat /\ now' \in Nat /\ now <= s /\ s <= f
    BY <1>2, <1>3, SamplesAre
  <2>2. f <= now'
    BY <1>2, <1>3, Numbers, OutputIs, SamplesRise DEF BookedAt, PulseBookedAt
  <2> QED BY <2>1, <2>2
<1>5. trace'[i].decided_at = s
  BY <1>1, TickTrace
<1>6. o \in OutputRuntime(RulesOf[i])
  BY <1>1, TickOutput
<1>7. i \in DOMAIN outcome => Pending(o) /\ outcome[i] \in Answer
  BY AnswerIs DEF Asked, Attempted, Due
<1>8. outs'[i] = IF i \in DOMAIN outcome THEN Book(o, s, f, outcome[i]) ELSE o
  BY <1>1 DEF Ticked, BookedAll
<1> HIDE DEF s, f, o
<1>9. \/ outs'[i] = o
      \/ Pending(o) /\ \E a \in Answer : outs'[i] = Book(o, s, f, a)
  BY <1>7, <1>8
<1> HIDE DEF IInv
<1> QED BY <1>2, <1>3, <1>4, <1>5, <1>6, <1>9, Zenon DEF s, f, o

RetryInv == \A i \in Output : Unfinished(outs[i], now)

\* An output whose failures are to be retried decides so again.
LEMMA DecidedRetries ==
  ASSUME TypeOK, NEW i \in Output, NEW values \in Readings, NEW h, NEW ds, NEW t \in Nat,
         Unfinished(outs[i], now)
  PROVE  Unfinished(Decided(i, values, h, ds, t), now)
<1> DEFINE R == RulesOf[i]
           v == outs[i]
           w == Admitted(values)
           p == Prepared(i, h)
           r == RestartOnTransitions(p, ctrl, w, t)
           g == Decided(i, values, h, ds, t)
<1>1. R \in SUBSET Rule /\ Ranked(R) /\ DefaultOf[i] \in Known
  BY OutputIs
<1>2. now \in Nat /\ v \in OutputRuntime(R) /\ w \in Controls
  BY AdmittedType DEF TypeOK
<1>3. PICK settle \in BOOLEAN : settle = FALSE
  OBVIOUS
<1>4. p = IF PassDue(h) THEN Resync(v, now, settle) ELSE v
  BY <1>3 DEF Prepared
<1>5. g = Select(r, w, t, Available(i, ds), TimedOut, DefaultOf[i])
  BY DEF Decided
<1> HIDE DEF g, w, p, v, R
<1>6. Resync(v, now, settle) \in OutputRuntime(R) /\ Unfinished(Resync(v, now, settle), now)
  BY <1>2, ResyncType, ResyncRetries DEF v
<1>7. p \in OutputRuntime(R) /\ Unfinished(p, now)
  BY <1>2, <1>4, <1>6 DEF v
<1>8. r \in OutputRuntime(R) /\ Retried(r, now)
  BY <1>1, <1>7, RestartType, RestartRetries DEF Unfinished
<1> HIDE DEF r
<1>9. Unfinished(g, now)
  BY <1>1, <1>2, <1>5, <1>8, SelectRetries
<1> QED BY <1>9 DEF g

LEMMA BookRetries ==
  ASSUME NEW rules, NEW o \in OutputRuntime(rules), NEW s, NEW f \in Nat, NEW a, Pending(o)
  PROVE  Unfinished(Book(o, s, f, a), f)
<1>1. PICK ambiguous \in BOOLEAN : ambiguous = (a = "ambiguous")
  OBVIOUS
<1>2. Book(o, s, f, a) = IF a = "accepted" THEN Accepted(o, o.desired, f)
                         ELSE Failed(o, f, ambiguous)
  BY <1>1 DEF Book
<1> QED BY <1>2, AcceptedRetries, FailedRetries

LEMMA RetryStep == IInv /\ IInv' /\ RetryInv /\ [Next]_vars => RetryInv'
<1> SUFFICES ASSUME IInv, IInv', RetryInv, [Next]_vars, NEW i \in Output
             PROVE  Unfinished(outs'[i], now')
  BY DEF RetryInv
<1>1. now \in Nat /\ outs[i] \in OutputRuntime(RulesOf[i]) /\ Unfinished(outs[i], now)
      /\ outs'[i] \in OutputRuntime(RulesOf[i])
  BY DEF IInv, TypeOK, RetryInv
<1>2. ASSUME NEW values \in Readings, NEW c \in Samples, Tick(values, c)
      PROVE  Unfinished(outs'[i], now')
  <2> DEFINE o == DecidedAll(values, c)[i]
             s == DecidedAt(c, i)
             f == BookedAt(c, i)
  <2>1. /\ s \in Nat /\ f \in Nat /\ now' \in Nat
        /\ now <= s /\ s <= f /\ f <= now'
        /\ o \in OutputRuntime(RulesOf[i])
        /\ \/ outs'[i] = o
           \/ Pending(o) /\ \E a \in Answer : outs'[i] = Book(o, s, f, a)
    BY <1>2, TickSteps
  <2>2. Unfinished(o, now)
    BY <1>1, <2>1, DecidedRetries DEF DecidedAll, IInv
  <2> HIDE DEF o, s, f
  <2>3. CASE outs'[i] = o
    <3>1. now <= now'
      BY <1>1, <2>1
    <3> QED BY <1>1, <2>1, <2>2, <2>3, <3>1, RetriedLater
  <2>4. ASSUME Pending(o), NEW a \in Answer, outs'[i] = Book(o, s, f, a)
        PROVE  Unfinished(outs'[i], now')
    <3>1. Unfinished(outs'[i], f)
      BY <2>1, <2>4, BookRetries
    <3> QED BY <1>1, <2>1, <3>1, RetriedLater
  <2> QED BY <2>1, <2>3, <2>4
<1>3. CASE Next /\ \A values \in Readings, c \in Samples : ~ Tick(values, c)
  <2>1. /\ now' \in Nat /\ now <= now'
        /\ \/ outs'[i] = outs[i]
           \/ \E settle \in BOOLEAN : outs'[i] = Resync(outs[i], now, settle)
    BY <1>3, OtherSteps
  <2>2. Unfinished(outs'[i], now)
    BY <1>1, <2>1, ResyncRetries
  <2> QED BY <1>1, <2>1, <2>2, RetriedLater
<1>4. CASE UNCHANGED vars
  <2>1. outs'[i] = outs[i] /\ now' = now
    BY <1>4 DEF vars, engine
  <2> QED BY <1>1, <2>1
<1> QED BY <1>2, <1>3, <1>4

\* Whatever the other outputs, the heartbeat and the recoveries do meanwhile, no output
\* withholds readiness for a failure that nobody will retry (src/outputs.rs, failed,
\* select and resync as the engine calls them).
THEOREM RelaysRetry == Spec => [](\A i \in Output : Relay(i)!UnresolvedIsRetried)
<1>1. Init => RetryInv
  BY DEF Init, NewOutput, RetryInv, Unfinished, Retried
<1>2. RetryInv => \A i \in Output : Relay(i)!UnresolvedIsRetried
  BY SameDeliveries DEF RetryInv, Unfinished, Retried, Relay!UnresolvedIsRetried
<1> QED BY <1>1, <1>2, RetryStep, Invariant, PTL DEF Spec

\* The episode of a rule after the restarts and updates of a tick.
NextEpisode(i, r, values, s) ==
  AfterAdvance(r, outs[i].episodes[r], ctrl, Admitted(values), s)

LEMMA DecidedEpisodes ==
  ASSUME TypeOK, NEW i \in Output, NEW values \in Readings, NEW h, NEW ds, NEW s \in Nat
  PROVE  LET o == Decided(i, values, h, ds, s)
         IN  /\ \A x \in RulesOf[i] :
                  \/ o.episodes[x] = NextEpisode(i, x, values, s)
                  \/ /\ o.episodes[x] = EpisodeStart(NextEpisode(i, x, values, s), s, x.duration)
                     /\ Timed(x) /\ Matches(x, Admitted(values))
             /\ o.selected # None =>
                  o.selected \in RulesOf[i] /\ ~ NextEpisode(i, o.selected, values, s).exhausted
<1> DEFINE R == RulesOf[i]
           v == outs[i]
           w == Admitted(values)
           p == Prepared(i, h)
           r == RestartOnTransitions(p, ctrl, w, s)
           a == Advanced(r, w, s)
           o == Decided(i, values, h, ds, s)
<1>1. R \in SUBSET Rule /\ Ranked(R) /\ DefaultOf[i] \in Known /\ None \notin R
  BY OutputIs
<1>2. now \in Nat /\ v \in OutputRuntime(R) /\ w \in Controls
  BY AdmittedType DEF TypeOK
<1>3. PICK settle \in BOOLEAN : settle = FALSE
  OBVIOUS
<1>4. p = IF PassDue(h) THEN Resync(v, now, settle) ELSE v
  BY <1>3 DEF Prepared
<1>5. o = Select(r, w, s, Available(i, ds), TimedOut, DefaultOf[i])
  BY DEF Decided
<1>6. r \in OutputRuntime(R)
  BY RestartedOutput
<1> HIDE DEF p
<1>7. p \in OutputRuntime(R) /\ p.episodes = v.episodes
  <2> HIDE DEF v, R
  <2> QED BY <1>2, <1>4, ResyncType, ResyncKeepsEpisodes
<1>8. \A x \in R : a[x] = NextEpisode(i, x, values, s)
  <2> HIDE DEF w
  <2>1. \A x \in R : a[x] = AfterAdvance(x, p.episodes[x], ctrl, w, s)
    BY <1>1, <1>7, AdvancedEach
  <2> QED BY <1>7, <2>1 DEF NextEpisode, w
<1> HIDE DEF r, o, w, R, v
<1>9. /\ \A x \in R : \/ o.episodes[x] = a[x]
                      \/ /\ o.episodes[x] = EpisodeStart(a[x], s, x.duration)
                         /\ Timed(x) /\ Matches(x, w)
      /\ o.selected # None => o.selected \in R /\ ~ a[o.selected].exhausted
  BY <1>1, <1>2, <1>5, <1>6, SelectEpisodes
<1> HIDE DEF a
<1>10. \A x \in R :
         \/ o.episodes[x] = NextEpisode(i, x, values, s)
         \/ /\ o.episodes[x] = EpisodeStart(NextEpisode(i, x, values, s), s, x.duration)
            /\ Timed(x) /\ Matches(x, w)
  BY <1>8, <1>9
<1>11. o.selected # None =>
         o.selected \in R /\ ~ NextEpisode(i, o.selected, values, s).exhausted
  BY <1>8, <1>9
<1> QED BY <1>10, <1>11 DEF o, w, R

\* A tick leaves the episodes it decided, whatever becomes of the command.
LEMMA TickEpisodes ==
  ASSUME IInv, NEW values \in Readings, NEW c \in Samples, Tick(values, c), NEW i \in Output
  PROVE  LET s == DecidedAt(c, i)
         IN  /\ \A x \in RulesOf[i] :
                  \/ outs'[i].episodes[x] = NextEpisode(i, x, values, s)
                  \/ /\ outs'[i].episodes[x]
                          = EpisodeStart(NextEpisode(i, x, values, s), s, x.duration)
                     /\ Timed(x) /\ Matches(x, Admitted(values))
             /\ outs'[i].selected # None =>
                  /\ outs'[i].selected \in RulesOf[i]
                  /\ ~ NextEpisode(i, outs'[i].selected, values, s).exhausted
<1> DEFINE s == DecidedAt(c, i)
           f == BookedAt(c, i)
           o == DecidedAll(values, c)[i]
           d == Decided(i, values, Readied(Expired), Expired, s)
<1>1. /\ s \in Nat /\ o \in OutputRuntime(RulesOf[i])
      /\ \/ outs'[i] = o
         \/ Pending(o) /\ \E a \in Answer : outs'[i] = Book(o, s, f, a)
  BY TickSteps
<1>2. o = d
  BY DEF DecidedAll
<1>3. /\ \A x \in RulesOf[i] :
           \/ d.episodes[x] = NextEpisode(i, x, values, s)
           \/ /\ d.episodes[x] = EpisodeStart(NextEpisode(i, x, values, s), s, x.duration)
              /\ Timed(x) /\ Matches(x, Admitted(values))
      /\ d.selected # None =>
           d.selected \in RulesOf[i] /\ ~ NextEpisode(i, d.selected, values, s).exhausted
  BY <1>1, DecidedEpisodes DEF IInv
<1> HIDE DEF d, o, f, s
<1>4. outs'[i].episodes = o.episodes /\ outs'[i].selected = o.selected
  BY <1>1, BookKeepsEpisodes
<1> QED BY <1>2, <1>3, <1>4 DEF s

\* Any other step leaves the episodes and the choice alone.
LEMMA OtherEpisodes ==
  ASSUME IInv, NEW i \in Output,
         \/ Next /\ \A values \in Readings, c \in Samples : ~ Tick(values, c)
         \/ UNCHANGED vars
  PROVE  /\ outs'[i].episodes = outs[i].episodes /\ outs'[i].selected = outs[i].selected
         /\ seen' = seen /\ trace'[i].decided_at = trace[i].decided_at
         /\ now \in Nat /\ now' \in Nat /\ now <= now'
<1>1. now \in Nat /\ outs[i] \in OutputRuntime(RulesOf[i])
  BY DEF IInv, TypeOK
<1>2. CASE Next /\ \A values \in Readings, c \in Samples : ~ Tick(values, c)
  <2>1. /\ seen' = seen /\ trace'[i].decided_at = trace[i].decided_at
        /\ now' \in Nat /\ now <= now'
        /\ \/ outs'[i] = outs[i]
           \/ \E settle \in BOOLEAN : outs'[i] = Resync(outs[i], now, settle)
    BY <1>2, OtherSteps
  <2>2. outs'[i].episodes = outs[i].episodes /\ outs'[i].selected = outs[i].selected
    BY <1>1, <2>1, ResyncKeepsEpisodes
  <2> QED BY <1>1, <2>1, <2>2
<1>3. CASE UNCHANGED vars
  BY <1>1, <1>3 DEF vars, engine
<1> QED BY <1>2, <1>3

\* Control states have changed, and episodes have begun, no later than now.
BegunInv ==
  /\ \A x \in State : seen[x].last_changed # None => seen[x].last_changed <= now
  /\ \A i \in Output : /\ trace[i].decided_at <= now
                       /\ \A r \in RulesOf[i] : Begun(outs[i].episodes[r], now)

\* A timed rule that drives an output is before its deadline.
BeforeDeadline(i) ==
  outs[i].selected # None /\ Timed(outs[i].selected) =>
    LET e == outs[i].episodes[outs[i].selected]
    IN  e.start # None => e.start <= trace[i].decided_at /\ trace[i].decided_at < e.deadline

DeadlineInv == BegunInv /\ \A i \in Output : BeforeDeadline(i)

\* What a tick admits has changed no later than the tick.
LEMMA AdmittedBegun ==
  ASSUME IInv, BegunInv, seen = ctrl, NEW values \in Readings, NEW x \in State
  PROVE  LET k == Admitted(values)[x].last_changed IN k # None => k \in Int /\ k <= now
<1>1. now \in Nat /\ ctrl[x] \in Tracked
  BY DEF IInv, TypeOK
<1>2. Admitted(values)[x] = SetTracked(ctrl[x], values[x], now)
  BY DEF Admitted
<1>3. \/ Admitted(values)[x].last_changed = ctrl[x].last_changed
      \/ Admitted(values)[x].last_changed = now
  BY <1>1, <1>2 DEF SetTracked
<1>4. ctrl[x].last_changed # None => ctrl[x].last_changed \in Int /\ ctrl[x].last_changed <= now
  BY <1>1 DEF BegunInv, Tracked, OptTime
<1> QED BY <1>1, <1>3, <1>4

\* What an output has of a rule after a tick began by the output's sample of the clock, and
\* is not over then unless the rule is exhausted.
LEMMA TickBegun ==
  ASSUME IInv, BegunInv, NEW values \in Readings, NEW c \in Samples, Tick(values, c),
         NEW i \in Output, NEW r \in RulesOf[i]
  PROVE  LET s == DecidedAt(c, i)
             e == outs'[i].episodes[r]
         IN  e.start # None =>
               /\ e.start \in Int /\ e.start <= s
               /\ Timed(r) /\ ~ NextEpisode(i, r, values, s).exhausted => s < e.deadline
<1> DEFINE s == DecidedAt(c, i)
           e == outs'[i].episodes[r]
           v == outs[i].episodes[r]
           w == Admitted(values)
<1>1. seen = ctrl /\ now \in Nat /\ s \in Nat /\ now <= s
  BY TickSteps
<1>2. /\ r \in Rule /\ r.state \in State /\ v \in Episode
  <2>1. r \in Rule
    BY OutputIs
  <2>2. v \in Episode
    BY DEF IInv, TypeOK, OutputRuntime
  <2> QED BY <2>1, <2>2, TimedType
<1>3. w \in Controls
  BY AdmittedType DEF IInv
<1>4. w[r.state].last_changed # None => w[r.state].last_changed <= s
  <2>1. w[r.state].last_changed # None
          => w[r.state].last_changed \in Int /\ w[r.state].last_changed <= now
    BY <1>1, <1>2, AdmittedBegun
  <2> QED BY <1>1, <2>1
<1>5. Begun(v, s)
  <2>1. v.start # None => v.start \in Int /\ v.start <= now
    BY <1>2 DEF BegunInv, Begun, Episode, OptTime
  <2> QED BY <1>1, <2>1 DEF Begun
<1>6. LET b == AfterAdvance(r, v, ctrl, w, s)
      IN  e = b \/ (e = EpisodeStart(b, s, r.duration) /\ Timed(r))
  BY TickEpisodes DEF NextEpisode
<1> HIDE DEF s, e, v, w
<1>7. e.start # None =>
        /\ e.start \in Int /\ e.start <= s
        /\ Timed(r) /\ ~ AfterAdvance(r, v, ctrl, w, s).exhausted => s < e.deadline
  BY <1>1, <1>2, <1>3, <1>4, <1>5, <1>6, ChosenOpens
<1> QED BY <1>7 DEF s, e, v, w, NextEpisode

LEMMA TickDeadline ==
  ASSUME IInv, DeadlineInv, NEW values \in Readings, NEW c \in Samples, Tick(values, c)
  PROVE  DeadlineInv'
<1>1. ASSUME NEW x \in State, seen'[x].last_changed # None
      PROVE  seen'[x].last_changed <= now'
  <2>1. PICK i : i \in Output
    BY Numbers DEF Output
  <2>2. seen = ctrl /\ seen' = Admitted(values) /\ now \in Nat /\ now' \in Nat /\ now <= now'
    <3>1. /\ seen = ctrl /\ seen' = Admitted(values)
          /\ now \in Nat /\ DecidedAt(c, i) \in Nat /\ BookedAt(c, i) \in Nat /\ now' \in Nat
          /\ now <= DecidedAt(c, i) /\ DecidedAt(c, i) <= BookedAt(c, i)
          /\ BookedAt(c, i) <= now'
      BY <2>1, TickSteps
    <3> QED BY <3>1
  <2>3. seen'[x].last_changed \in Int /\ seen'[x].last_changed <= now
    BY <1>1, <2>2, AdmittedBegun DEF DeadlineInv
  <2> QED BY <2>2, <2>3
<1>2. ASSUME NEW i \in Output
      PROVE  /\ trace'[i].decided_at <= now'
             /\ \A r \in RulesOf[i] : Begun(outs'[i].episodes[r], now')
             /\ outs'[i].selected # None /\ Timed(outs'[i].selected) =>
                  LET e == outs'[i].episodes[outs'[i].selected]
                  IN  e.start # None => /\ e.start <= trace'[i].decided_at
                                        /\ trace'[i].decided_at < e.deadline
  <2> DEFINE s == DecidedAt(c, i)
  <2>1. /\ trace'[i].decided_at = s /\ s \in Nat /\ now' \in Nat /\ s <= now'
    <3>1. /\ trace'[i].decided_at = s
          /\ s \in Nat /\ BookedAt(c, i) \in Nat /\ now' \in Nat
          /\ s <= BookedAt(c, i) /\ BookedAt(c, i) <= now'
      BY TickSteps
    <3> QED BY <3>1
  <2>2. \A r \in RulesOf[i] :
          LET e == outs'[i].episodes[r]
          IN  e.start # None =>
                /\ e.start \in Int /\ e.start <= s
                /\ Timed(r) /\ ~ NextEpisode(i, r, values, s).exhausted => s < e.deadline
    BY TickBegun DEF DeadlineInv
  <2>3. outs'[i].selected # None =>
          /\ outs'[i].selected \in RulesOf[i]
          /\ ~ NextEpisode(i, outs'[i].selected, values, s).exhausted
    BY TickEpisodes
  <2> HIDE DEF s
  <2>4. \A r \in RulesOf[i] : Begun(outs'[i].episodes[r], now')
    BY <2>1, <2>2 DEF Begun
  <2> QED BY <2>1, <2>2, <2>3, <2>4
<1> QED BY <1>1, <1>2 DEF DeadlineInv, BegunInv, BeforeDeadline, Begun

LEMMA DeadlineStep == IInv /\ DeadlineInv /\ [Next]_vars => DeadlineInv'
<1> SUFFICES ASSUME IInv, DeadlineInv, [Next]_vars PROVE DeadlineInv'
  OBVIOUS
<1>1. CASE \E values \in Readings, c \in Samples : Tick(values, c)
  BY <1>1, TickDeadline
<1>2. CASE ~ \E values \in Readings, c \in Samples : Tick(values, c)
  <2>1. ASSUME NEW i \in Output
        PROVE  /\ outs'[i].episodes = outs[i].episodes /\ outs'[i].selected = outs[i].selected
               /\ seen' = seen /\ trace'[i].decided_at = trace[i].decided_at
               /\ now \in Nat /\ now' \in Nat /\ now <= now'
    BY <1>2, OtherEpisodes
  <2>2. seen' = seen /\ now \in Nat /\ now' \in Nat /\ now <= now'
    <3>1. PICK i : i \in Output
      BY Numbers DEF Output
    <3> QED BY <2>1, <3>1
  <2>3. ASSUME NEW x \in State, seen[x].last_changed # None
        PROVE  seen[x].last_changed <= now'
    <3>1. seen[x].last_changed \in Int /\ seen[x].last_changed <= now
      BY <2>3 DEF IInv, SeenInv, DeadlineInv, BegunInv, Tracked, OptTime
    <3> QED BY <2>2, <3>1
  <2>4. ASSUME NEW i \in Output
        PROVE  trace[i].decided_at <= now'
    <3>1. trace[i].decided_at \in Nat /\ trace[i].decided_at <= now
      BY DEF IInv, TraceInv, Trace, DeadlineInv, BegunInv
    <3> QED BY <2>2, <3>1
  <2>5. ASSUME NEW i \in Output, NEW r \in RulesOf[i]
        PROVE  Begun(outs[i].episodes[r], now')
    <3>1. outs[i].episodes[r] \in Episode /\ Begun(outs[i].episodes[r], now)
      BY DEF IInv, TypeOK, OutputRuntime, DeadlineInv, BegunInv
    <3> QED BY <2>2, <3>1 DEF Begun, Episode, OptTime
  <2>6. BegunInv'
    BY <2>1, <2>2, <2>3, <2>4, <2>5 DEF BegunInv, Begun
  <2>7. \A i \in Output : BeforeDeadline(i)'
    BY <2>1 DEF DeadlineInv, BeforeDeadline
  <2> QED BY <2>6, <2>7 DEF DeadlineInv
<1> QED BY <1>1, <1>2

LEMMA DeadlineInit == Init => DeadlineInv
<1> SUFFICES ASSUME Init PROVE DeadlineInv
  OBVIOUS
<1>1. \A i \in Output : outs[i].selected = None
                        /\ \A r \in RulesOf[i] : outs[i].episodes[r].start = None
  BY DEF Init, NewOutput, DefaultEpisode
<1>2. \A x \in State : seen[x].last_changed = None
  BY DEF Init, UntouchedTracked
<1>3. now = 0 /\ \A i \in Output : trace[i].decided_at = 0
  BY DEF Init, NewTrace
<1> QED BY <1>1, <1>2, <1>3 DEF DeadlineInv, BegunInv, BeforeDeadline, Begun

\* No timed rule drives a relay at or after its deadline, whichever outputs a tick decided
\* before it and however long their submissions took (src/outputs.rs, select).
THEOREM RelaysMeetDeadlines == Spec => [](\A i \in Output : Relay(i)!NeverPastDeadline)
<1>1. DeadlineInv => \A i \in Output : Relay(i)!NeverPastDeadline
  BY SameEpisodes DEF DeadlineInv, BeforeDeadline, Relay!NeverPastDeadline, Relay!Timed, Timed
<1> QED BY <1>1, DeadlineInit, DeadlineStep, Invariant, PTL DEF Spec

\* The step form of EpisodesAnchored, for all outputs.
Anchored(i, r) ==
  LET e == outs[i].episodes[r]
      g == outs[i]'.episodes[r]
  IN  e.start # None =>
        \/ g.start = e.start /\ g.deadline = e.deadline /\ (e.exhausted => g.exhausted)
        \/ Relay(i)!Trigger(r, seen') = Relay(i)!No
        \/ Relay(i)!Restarted(r, seen, seen')

LEMMA AnchoredStep ==
  ASSUME IInv, [Next]_vars, NEW i \in Output, NEW r \in RulesOf[i]
  PROVE  Anchored(i, r)
<1> DEFINE e == outs[i].episodes[r]
           g == outs'[i].episodes[r]
<1> SUFFICES ASSUME e.start # None, Trigger(r, seen') # No, ~ Restarted(r, seen, seen')
             PROVE  g.start = e.start /\ g.deadline = e.deadline /\ (e.exhausted => g.exhausted)
  <2>1. Relay(i)!Trigger(r, seen') = Trigger(r, seen') /\ Relay(i)!No = No
    BY DEF Relay!Trigger, Relay!Matches, Relay!No, Relay!Yes, Relay!Unknown,
           Trigger, Matches, No, Yes, Unknown
  <2>2. Relay(i)!Restarted(r, seen, seen') <=> Restarted(r, seen, seen')
    BY DEF Relay!Restarted, Relay!Timed, Relay!Matches, Restarted, Timed, Matches
  <2> QED BY <2>1, <2>2 DEF Anchored
<1>1. r \in Rule /\ e \in Episode
  BY OutputIs DEF IInv, TypeOK, OutputRuntime
<1>2. ASSUME NEW values \in Readings, NEW c \in Samples, Tick(values, c)
      PROVE  g.start = e.start /\ g.deadline = e.deadline /\ (e.exhausted => g.exhausted)
  <2> DEFINE s == DecidedAt(c, i)
             b == NextEpisode(i, r, values, s)
  <2>1. seen = ctrl /\ seen' = Admitted(values) /\ s \in Nat
    BY <1>2, TickSteps
  <2>2. g = b \/ g = EpisodeStart(b, s, r.duration)
    BY <1>2, TickEpisodes
  <2>3. Admitted(values) \in Controls
    BY AdmittedType DEF IInv
  <2>4. b.start = e.start /\ b.deadline = e.deadline /\ (e.exhausted => b.exhausted)
    BY <1>1, <2>1, <2>3, AdvanceAnchored DEF NextEpisode
  <2> HIDE DEF b, e, g, s
  <2>5. EpisodeStart(b, s, r.duration) = b
    BY <2>4, StartedStays DEF e
  <2> QED BY <2>2, <2>4, <2>5
<1>3. CASE ~ \E values \in Readings, c \in Samples : Tick(values, c)
  <2>1. g = e
    BY <1>3, OtherEpisodes
  <2> QED BY <2>1
<1> QED BY <1>2, <1>3

\* In a controller, too, nothing but a rule's own trigger extends or re-arms its episode:
\* not the other outputs, the heartbeat's passes, an outage or a recovery.
THEOREM RelaysKeepAnchors == ASSUME NEW i \in Output PROVE Spec => Relay(i)!EpisodesAnchored
<1>1. IInv /\ [Next]_vars => [\A r \in RulesOf[i] : Anchored(i, r)]_(Relay(i)!vars)
  BY AnchoredStep
<1>2. Relay(i)!EpisodesAnchored <=> [][\A r \in RulesOf[i] : Anchored(i, r)]_(Relay(i)!vars)
  BY DEF Relay!EpisodesAnchored, Anchored
<1> QED BY <1>1, <1>2, Invariant, PTL DEF Spec

LEMMA SharedStep ==
  ASSUME IInv, DeadlineInv, [Next]_vars, NEW i \in Output, Relay(i)!SharedDeadline
  PROVE  (Relay(i)!SharedDeadline)'
<1> SUFFICES ASSUME NEW q \in RulesOf[i], NEW r \in RulesOf[i], Relay(i)!Twins(q, r)
             PROVE  outs'[i].episodes[q] = outs'[i].episodes[r]
  BY DEF Relay!SharedDeadline, Relay!Twins
<1>1. outs[i].episodes[q] = outs[i].episodes[r]
  BY DEF Relay!SharedDeadline
<1>2. ASSUME NEW values \in Readings, NEW c \in Samples, Tick(values, c)
      PROVE  outs'[i].episodes[q] = outs'[i].episodes[r]
  <2> DEFINE s == DecidedAt(c, i)
  \* A twin that could be started by its selection has been anchored before.
  <2>1. ASSUME NEW x \in RulesOf[i], x.start_on_match
        PROVE  outs'[i].episodes[x] = NextEpisode(i, x, values, s)
    <3> DEFINE v == outs[i].episodes[x]
               w == Admitted(values)
               b == AfterAdvance(x, v, ctrl, w, s)
    <3>1. seen = ctrl /\ now \in Nat /\ s \in Nat /\ now <= s
      BY <1>2, TickSteps
    <3>2. x \in Rule /\ v \in Episode /\ w \in Controls /\ x.state \in State
      <4>1. x \in Rule /\ w \in Controls
        BY OutputIs, AdmittedType DEF IInv
      <4>2. v \in Episode
        BY DEF IInv, TypeOK, OutputRuntime
      <4> QED BY <4>1, <4>2, TimedType
    <3>3. w[x.state].last_changed # None => w[x.state].last_changed <= s
      <4>1. w[x.state].last_changed # None
              => w[x.state].last_changed \in Int /\ w[x.state].last_changed <= now
        BY <3>1, <3>2, AdmittedBegun DEF DeadlineInv
      <4> QED BY <3>1, <4>1
    <3>4. Begun(v, s)
      <4>1. v.start # None => v.start \in Int /\ v.start <= now
        BY <3>2 DEF DeadlineInv, BegunInv, Begun, Episode, OptTime
      <4> QED BY <3>1, <4>1 DEF Begun
    <3>5. \/ outs'[i].episodes[x] = b
          \/ /\ outs'[i].episodes[x] = EpisodeStart(b, s, x.duration)
             /\ Timed(x) /\ Matches(x, w)
      BY <1>2, TickEpisodes DEF NextEpisode
    <3> HIDE DEF s, v, w
    <3>6. Timed(x) /\ Matches(x, w) => b.start # None
      BY <2>1, <3>1, <3>2, <3>3, <3>4, AdvanceOpens
    <3> HIDE DEF b
    <3>7. outs'[i].episodes[x] = b
      BY <3>5, <3>6, StartedStays
    <3> QED BY <3>7 DEF b, v, w, NextEpisode
  <2>2. /\ outs'[i].episodes[q] = NextEpisode(i, q, values, s)
        /\ outs'[i].episodes[r] = NextEpisode(i, r, values, s)
    BY <2>1 DEF Relay!Twins
  <2>3. NextEpisode(i, q, values, s) = NextEpisode(i, r, values, s)
    BY <1>1, AlikeAdvance DEF NextEpisode, Relay!Twins
  <2> QED BY <2>2, <2>3
<1>3. CASE ~ \E values \in Readings, c \in Samples : Tick(values, c)
  BY <1>1, <1>3, OtherEpisodes
<1> QED BY <1>2, <1>3

\* In each output rules of the same trigger and time are in the same episode throughout.
THEOREM RelaysShareDeadlines == Spec => [](\A i \in Output : Relay(i)!SharedDeadline)
<1> DEFINE Shared == \A i \in Output : Relay(i)!SharedDeadline
<1>1. Init => Shared
  BY DEF Init, NewOutput, Relay!SharedDeadline
<1>2. IInv /\ DeadlineInv /\ Shared /\ [Next]_vars => Shared'
  BY SharedStep
<1> QED BY <1>1, <1>2, DeadlineInit, DeadlineStep, Invariant, PTL DEF Spec

=============================================================================
