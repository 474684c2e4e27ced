--------------------------- MODULE OutputsProofs ---------------------------
(***************************************************************************)
(* What the operators of Outputs return, for every output, rule and time:  *)
(* each keeps the record an OutputRuntime, and each is accounted for by    *)
(* what it does to eligible_at, the end of the current hold.               *)
(***************************************************************************)
EXTENDS Outputs, FiniteSetTheorems, TLAPS

\* The control states as the rules see them.
Controls == [State -> Tracked]

\* Among any of the rules there is one of the highest priority, as in every
\* finite set of them.
Ranked(rules) ==
  \A S \in SUBSET rules : S # {} => \E r \in S : \A q \in S : q.priority <= r.priority

LEMMA HoldIsPositive == Hold \in Nat /\ Hold > 0 /\ RetryCap \in Nat /\ RetryCap > 0
BY OutputsAssumption

\* An optional deadline that is reached is a time.
LEMMA PassedType ==
  ASSUME NEW d \in OptTime, NEW t \in Int
  PROVE  Passed(d, t) \in BOOLEAN /\ (Passed(d, t) => d # None)
BY DEF Passed, OptTime

\* Tracked::set yields a tracked value.
LEMMA TrackedType ==
  ASSUME NEW x \in Tracked, NEW v \in Truth, NEW t \in Int
  PROVE  SetTracked(x, v, t) \in Tracked
BY DEF SetTracked, Tracked, OptTime

\* A timed rule has a duration.
LEMMA TimedType ==
  ASSUME NEW r \in Rule
  PROVE  /\ Timed(r) => r.duration \in Nat
         /\ r.state \in State /\ r.when \in Known /\ r.value \in Known
         /\ r.priority \in Int /\ r.start_on_match \in BOOLEAN
BY DEF Rule, ValidRule, Timed

----------------------------------------------------------------------------
(* Episodes.                                                               *)

LEMMA DefaultEpisodeType == DefaultEpisode \in Episode
BY DEF DefaultEpisode, Episode, OptTime

LEMMA EpisodeUpdateType ==
  ASSUME NEW e \in Episode, NEW m \in Truth, NEW t \in Int
  PROVE  EpisodeUpdate(e, m, t) \in Episode
<1> DEFINE g == [e EXCEPT !.exhausted = e.exhausted \/ Passed(e.deadline, t)]
<1>1. e.deadline \in OptTime /\ (Passed(e.deadline, t) => e.start # None)
  BY PassedType DEF Episode
<1>2. g \in Episode
  BY <1>1 DEF Episode
<1> QED BY <1>2, DefaultEpisodeType DEF EpisodeUpdate

LEMMA EpisodeStartType ==
  ASSUME NEW e \in Episode, NEW t \in Int, NEW d \in Nat
  PROVE  EpisodeStart(e, t, d) \in Episode
<1>1. CASE e.start = None
  <2> DEFINE Raw == [start : OptTime, deadline : OptTime, exhausted : BOOLEAN]
             h == [e EXCEPT !.start = t]
             g == [h EXCEPT !.deadline = t + d]
  <2>1. e \in Raw
    BY DEF Episode
  <2>2. h \in Raw /\ h.start = t
    BY <2>1 DEF OptTime
  <2>3. g \in Raw /\ g.start = t /\ g.deadline = t + d
    <3> HIDE DEF h
    <3> QED BY <2>2 DEF OptTime
  <2>4. g \in Episode
    <3> HIDE DEF g
    <3> QED BY <2>3, NoneAssumption DEF Episode
  <2>5. EpisodeStart(e, t, d) = g
    BY <1>1 DEF EpisodeStart
  <2> QED BY <2>4, <2>5
<1>2. CASE e.start # None
  BY <1>2 DEF EpisodeStart
<1> QED BY <1>1, <1>2

LEMMA PhaseType ==
  ASSUME NEW e, NEW t, NEW half
  PROVE  Phase(e, t, half) \in Known
BY DEF Phase, Known

LEMMA TriggerType ==
  ASSUME NEW r, NEW ctrl
  PROVE  Trigger(r, ctrl) \in Truth
BY DEF Trigger, Truth, Known

LEMMA AnchorType ==
  ASSUME NEW r \in Rule, NEW e \in Episode, NEW ctrl \in Controls, NEW t \in Int
  PROVE  Anchor(r, e, ctrl, t) \in Episode
<1> DEFINE c == ctrl[r.state].last_changed
           at == IF c = None THEN t ELSE c
<1>1. at \in Int
  BY TimedType DEF Controls, Tracked, OptTime
<1>2. ASSUME Timed(r)
      PROVE  EpisodeUpdate(EpisodeStart(e, at, r.duration), Yes, t) \in Episode
  <2>1. EpisodeStart(e, at, r.duration) \in Episode
    BY <1>1, <1>2, TimedType, EpisodeStartType
  <2> QED BY <2>1, EpisodeUpdateType DEF Truth, Known
<1> QED BY <1>2 DEF Anchor

\* Every rule of an output keeps exactly one episode.
LEMMA AdvancedType ==
  ASSUME NEW rules \in SUBSET Rule, NEW o \in OutputRuntime(rules),
         NEW ctrl \in Controls, NEW t \in Int
  PROVE  Advanced(o, ctrl, t) \in [rules -> Episode]
<1>1. o.episodes \in [rules -> Episode]
  BY DEF OutputRuntime
<1>2. ASSUME NEW r \in rules
      PROVE  Anchor(r, EpisodeUpdate(o.episodes[r], Trigger(r, ctrl), t), ctrl, t) \in Episode
  <2>1. EpisodeUpdate(o.episodes[r], Trigger(r, ctrl), t) \in Episode
    BY <1>1, TriggerType, EpisodeUpdateType
  <2> QED BY <2>1, AnchorType
<1> QED BY <1>1, <1>2 DEF Advanced

\* The winner is one of the rules, its trigger matches, it is not exhausted and
\* no such rule outranks it.
LEMMA WinnerType ==
  ASSUME NEW rules \in SUBSET Rule, Ranked(rules), NEW eps \in [rules -> Episode], NEW ctrl
  PROVE  LET w == Winner(eps, ctrl)
         IN  \/ w = None
             \/ /\ w \in rules /\ Matches(w, ctrl) /\ ~ eps[w].exhausted
                /\ \A q \in rules : Matches(q, ctrl) /\ ~ eps[q].exhausted
                                      => q.priority <= w.priority
<1> DEFINE applicable == {r \in DOMAIN eps : Matches(r, ctrl) /\ ~ eps[r].exhausted}
<1>1. CASE applicable = {}
  BY <1>1 DEF Winner
<1>2. CASE applicable # {}
  <2>1. \E r \in applicable : \A q \in applicable : q.priority <= r.priority
    BY <1>2 DEF Ranked
  <2>2. Winner(eps, ctrl) =
          CHOOSE r \in applicable : \A q \in applicable : q.priority <= r.priority
    BY <1>2 DEF Winner
  <2>3. /\ Winner(eps, ctrl) \in applicable
        /\ \A q \in applicable : q.priority <= Winner(eps, ctrl).priority
    BY <2>1, <2>2
  <2> QED BY <2>3
<1> QED BY <1>1, <1>2

----------------------------------------------------------------------------
(* The operators on the record of an output.                               *)

LEMMA NewOutputType ==
  ASSUME NEW rules \in SUBSET Rule
  PROVE  NewOutput(rules) \in OutputRuntime(rules)
BY DefaultEpisodeType, HoldIsPositive DEF NewOutput, OutputRuntime, OptTime, Truth

LEMMA ResyncType ==
  ASSUME NEW rules, NEW o \in OutputRuntime(rules), NEW t \in Int, NEW settle \in BOOLEAN
  PROVE  /\ Resync(o, t, settle) \in OutputRuntime(rules)
         /\ Resync(o, t, settle).eligible_at >= o.eligible_at
         /\ settle => Resync(o, t, settle).eligible_at >= t + Hold
         /\ ~ settle => Resync(o, t, settle).eligible_at = o.eligible_at
<1> DEFINE e == IF settle THEN LaterOf(o.eligible_at, t + Hold) ELSE o.eligible_at
           h == [o EXCEPT !.force = TRUE]
<1>1. /\ e \in Int /\ e >= o.eligible_at /\ (settle => e >= t + Hold)
      /\ ~ settle => e = o.eligible_at
  BY HoldIsPositive DEF OutputRuntime, LaterOf
<1>2. h \in OutputRuntime(rules)
  BY DEF OutputRuntime
<1>3. [h EXCEPT !.eligible_at = e] \in OutputRuntime(rules)
  <2> HIDE DEF h, e
  <2> QED BY <1>1, <1>2 DEF OutputRuntime
<1>4. Resync(o, t, settle) = [o EXCEPT !.force = TRUE, !.eligible_at = e]
  BY DEF Resync
<1>5. [o EXCEPT !.force = TRUE, !.eligible_at = e].eligible_at = e
  <2> HIDE DEF e
  <2> QED BY DEF OutputRuntime
<1> QED BY <1>1, <1>3, <1>4, <1>5

LEMMA RestartType ==
  ASSUME NEW rules \in SUBSET Rule, NEW o \in OutputRuntime(rules), NEW before,
         NEW ctrl, NEW t \in Int
  PROVE  /\ RestartOnTransitions(o, before, ctrl, t) \in OutputRuntime(rules)
         /\ RestartOnTransitions(o, before, ctrl, t).eligible_at = o.eligible_at
<1> DEFINE eps == [r \in DOMAIN o.episodes |->
                     IF ~ Restarted(r, before, ctrl) THEN o.episodes[r]
                     ELSE IF r.start_on_match THEN EpisodeStart(DefaultEpisode, t, r.duration)
                     ELSE DefaultEpisode]
<1>1. o.episodes \in [rules -> Episode]
  BY DEF OutputRuntime
<1>2. ASSUME NEW r \in rules, Restarted(r, before, ctrl)
      PROVE  EpisodeStart(DefaultEpisode, t, r.duration) \in Episode
  BY <1>2, TimedType, DefaultEpisodeType, EpisodeStartType DEF Restarted
<1>3. eps \in [rules -> Episode]
  BY <1>1, <1>2, DefaultEpisodeType
<1>4. RestartOnTransitions(o, before, ctrl, t) = [o EXCEPT !.episodes = eps]
  BY DEF RestartOnTransitions
<1> HIDE DEF eps
<1> QED BY <1>3, <1>4 DEF OutputRuntime

LEMMA ClearFailureType ==
  ASSUME NEW rules, NEW o \in OutputRuntime(rules)
  PROVE  /\ ClearFailure(o) \in OutputRuntime(rules)
         /\ ClearFailure(o).eligible_at = o.eligible_at
<1> DEFINE a == [o EXCEPT !.unresolved = FALSE]
           b == [a EXCEPT !.retry_at = None]
           c == [b EXCEPT !.retry_count = 0]
<1>1. a \in OutputRuntime(rules)
  BY DEF OutputRuntime
<1>2. b \in OutputRuntime(rules)
  <2> HIDE DEF a
  <2> QED BY <1>1 DEF OutputRuntime, OptTime
<1>3. c \in OutputRuntime(rules)
  <2> HIDE DEF b
  <2> QED BY <1>2, HoldIsPositive DEF OutputRuntime
<1>4. ClearFailure(o) = c
  BY DEF ClearFailure
<1> QED BY <1>3, <1>4 DEF OutputRuntime

\* select never moves the hold.
LEMMA SelectType ==
  ASSUME NEW rules \in SUBSET Rule, Ranked(rules), NEW o \in OutputRuntime(rules),
         NEW ctrl \in Controls, NEW t \in Int,
         NEW can_attempt, NEW force_off, NEW default \in Known
  PROVE  LET g == Select(o, ctrl, t, can_attempt, force_off, default)
         IN  g \in OutputRuntime(rules) /\ g.eligible_at = o.eligible_at
<1> DEFINE advanced == Advanced(o, ctrl, t)
           selected == IF force_off THEN None ELSE Winner(advanced, ctrl)
           eps == IF selected # None /\ Timed(selected) /\ can_attempt /\ MayAttempt(o, t)
                  THEN [advanced EXCEPT ![selected] =
                          EpisodeStart(advanced[selected], t, selected.duration)]
                  ELSE advanced
           value ==
             CASE force_off -> No
               [] ~ force_off /\ selected # None -> Drive(selected, eps[selected], t)
               [] ~ force_off /\ selected = None ->
                    IF \E r \in DOMAIN eps : ctrl[r.state].value # Unknown
                    THEN default ELSE Unknown
           chosen == [o EXCEPT !.episodes = eps, !.selected = selected, !.desired = value]
<1>1. advanced \in [rules -> Episode]
  BY AdvancedType
<1> HIDE DEF advanced
<1>2. selected \in rules \cup {None}
  BY <1>1, WinnerType
<1> HIDE DEF selected
<1>3. eps \in [rules -> Episode]
  <2>1. ASSUME selected # None, Timed(selected)
        PROVE  EpisodeStart(advanced[selected], t, selected.duration) \in Episode
    BY <2>1, <1>1, <1>2, TimedType, EpisodeStartType
  <2> QED BY <2>1, <1>1, <1>2
<1> HIDE DEF eps
<1>4. value \in Truth
  <2>1. selected # None => Drive(selected, eps[selected], t) \in Known
    BY <1>2, PhaseType, TimedType DEF Drive
  <2> QED BY <2>1 DEF Truth, Known
<1> HIDE DEF value
<1>5. chosen \in OutputRuntime(rules) /\ chosen.eligible_at = o.eligible_at
  <2> DEFINE a == [o EXCEPT !.episodes = eps]
             b == [a EXCEPT !.selected = selected]
             c == [b EXCEPT !.desired = value]
  <2>1. a \in OutputRuntime(rules) /\ a.eligible_at = o.eligible_at
    BY <1>3 DEF OutputRuntime
  <2> HIDE DEF a
  <2>2. b \in OutputRuntime(rules) /\ b.eligible_at = o.eligible_at
    BY <1>2, <2>1 DEF OutputRuntime
  <2> HIDE DEF b
  <2>3. c \in OutputRuntime(rules) /\ c.eligible_at = o.eligible_at
    BY <1>4, <2>2 DEF OutputRuntime
  <2> QED BY <2>3 DEF a, b
<1>6. Select(o, ctrl, t, can_attempt, force_off, default) =
        IF Pending(chosen) THEN chosen ELSE ClearFailure(chosen)
  BY DEF Select, advanced, selected, eps, value
<1> HIDE DEF chosen
<1> QED BY <1>5, <1>6, ClearFailureType

\* An accepted command opens a full hold.
LEMMA AcceptedType ==
  ASSUME NEW rules, NEW o \in OutputRuntime(rules), NEW v \in Truth, NEW t \in Int
  PROVE  /\ Accepted(o, v, t) \in OutputRuntime(rules)
         /\ Accepted(o, v, t).eligible_at = t + Hold
<1> DEFINE a == [o EXCEPT !.last_submitted = IF Dry THEN o.last_submitted ELSE v]
           b == [a EXCEPT !.simulated_value = IF Dry THEN v ELSE a.simulated_value]
           c == [b EXCEPT !.eligible_at = t + Hold]
           d == [c EXCEPT !.force = FALSE]
<1>1. a \in OutputRuntime(rules)
  BY DEF OutputRuntime
<1>2. b \in OutputRuntime(rules)
  <2> HIDE DEF a
  <2> QED BY <1>1 DEF OutputRuntime
<1>3. c \in OutputRuntime(rules) /\ c.eligible_at = t + Hold
  <2> HIDE DEF b
  <2> QED BY <1>2, HoldIsPositive DEF OutputRuntime
<1>4. d \in OutputRuntime(rules) /\ d.eligible_at = t + Hold
  <2> HIDE DEF c
  <2> QED BY <1>3 DEF OutputRuntime
<1>5. ClearFailure(d) \in OutputRuntime(rules) /\ ClearFailure(d).eligible_at = t + Hold
  <2> HIDE DEF d
  <2> QED BY <1>4, ClearFailureType
<1>6. Accepted(o, v, t) = ClearFailure(d)
  BY DEF Accepted, ClearFailure, OutputRuntime
<1> QED BY <1>5, <1>6

LEMMA BackoffType ==
  ASSUME NEW count \in Nat
  PROVE  Backoff(count) \in Int /\ Backoff(count) <= RetryMax
<1>1. 2 ^ (count - 1) \in Int
  OBVIOUS
<1> DEFINE p == 2 ^ (count - 1)
<1>2. RetryInitial * p \in Int
  <2> HIDE DEF p
  <2> QED BY <1>1, OutputsAssumption DEF p
<1> DEFINE q == RetryInitial * p
<1>3. SoonerOf(q, RetryMax) \in Int /\ SoonerOf(q, RetryMax) <= RetryMax
  <2> HIDE DEF q
  <2> QED BY <1>2, OutputsAssumption DEF SoonerOf, q
<1> QED BY <1>3 DEF Backoff

\* A failure never shortens the hold, and an ambiguous one opens a new one.
LEMMA FailedType ==
  ASSUME NEW rules, NEW o \in OutputRuntime(rules), NEW t \in Int, NEW ambiguous \in BOOLEAN
  PROVE  /\ Failed(o, t, ambiguous) \in OutputRuntime(rules)
         /\ Failed(o, t, ambiguous).eligible_at >= o.eligible_at
         /\ ambiguous => Failed(o, t, ambiguous).eligible_at >= t + Hold
<1> DEFINE count == SoonerOf(o.retry_count + 1, RetryCap)
           e == IF ambiguous THEN LaterOf(o.eligible_at, t + Hold) ELSE o.eligible_at
           a == [o EXCEPT !.retry_count = count]
           b == [a EXCEPT !.unresolved = TRUE]
           c == [b EXCEPT !.retry_at = t + Backoff(count)]
           d == [c EXCEPT !.eligible_at = e]
<1>1. count \in 0 .. RetryCap /\ count \in Nat
  BY HoldIsPositive DEF OutputRuntime, SoonerOf
<1>2. e \in Int /\ e >= o.eligible_at /\ (ambiguous => e >= t + Hold)
  BY HoldIsPositive DEF OutputRuntime, LaterOf
<1> HIDE DEF count, e
<1>3. a \in OutputRuntime(rules)
  BY <1>1 DEF OutputRuntime
<1>4. b \in OutputRuntime(rules)
  <2> HIDE DEF a
  <2> QED BY <1>3 DEF OutputRuntime
<1>5. t + Backoff(count) \in OptTime
  BY <1>1, BackoffType DEF OptTime
<1>6. c \in OutputRuntime(rules)
  <2> HIDE DEF b
  <2> QED BY <1>4, <1>5 DEF OutputRuntime
<1>7. d \in OutputRuntime(rules) /\ d.eligible_at = e
  <2> HIDE DEF c
  <2> QED BY <1>6, <1>2 DEF OutputRuntime
<1>8. Failed(o, t, ambiguous) = d
  BY DEF Failed, count, e
<1> QED BY <1>2, <1>7, <1>8

----------------------------------------------------------------------------
(* Retries: what the operators do to an unresolved submission.             *)

\* A failure has a retry within the longest back-off of t, and nothing else has one.
Retried(o, t) ==
  /\ o.unresolved <=> o.retry_at # None
  /\ o.unresolved => o.retry_at <= t + RetryMax

\* What is unresolved is also still to be sent.
Unfinished(o, t) == Retried(o, t) /\ (o.unresolved => Pending(o))

\* Waiting takes nothing away.
LEMMA RetriedLater ==
  ASSUME NEW rules, NEW o \in OutputRuntime(rules), NEW t \in Int, NEW u \in Int, t <= u
  PROVE  /\ Retried(o, t) => Retried(o, u)
         /\ Unfinished(o, t) => Unfinished(o, u)
<1>1. o.retry_at # None => o.retry_at \in Int
  BY DEF OutputRuntime, OptTime
<1>2. RetryMax \in Int
  BY OutputsAssumption
<1>3. Retried(o, t) => Retried(o, u)
  BY <1>1, <1>2 DEF Retried
<1> QED BY <1>3 DEF Unfinished

\* A forced command is pending as much as before.
LEMMA ResyncRetries ==
  ASSUME NEW rules, NEW o \in OutputRuntime(rules), NEW t \in Int, NEW u \in Int,
         NEW settle \in BOOLEAN, Unfinished(o, u)
  PROVE  Unfinished(Resync(o, t, settle), u)
<1> DEFINE g == Resync(o, t, settle)
<1>1. /\ g.force = TRUE /\ g.unresolved = o.unresolved /\ g.retry_at = o.retry_at
      /\ g.desired = o.desired
  BY DEF Resync, OutputRuntime
<1> HIDE DEF g
<1>2. o.unresolved => Pending(g)
  BY <1>1 DEF Pending, Unfinished
<1> QED BY <1>1, <1>2 DEF Unfinished, Retried, g

LEMMA RestartRetries ==
  ASSUME NEW rules, NEW o \in OutputRuntime(rules), NEW before, NEW ctrl, NEW t, NEW u,
         Retried(o, u)
  PROVE  Retried(RestartOnTransitions(o, before, ctrl, t), u)
<1> DEFINE g == RestartOnTransitions(o, before, ctrl, t)
<1>1. g.unresolved = o.unresolved /\ g.retry_at = o.retry_at
  BY DEF RestartOnTransitions, OutputRuntime
<1> QED BY <1>1 DEF Retried

LEMMA ClearFailureRetries ==
  ASSUME NEW rules, NEW o \in OutputRuntime(rules), NEW u
  PROVE  Unfinished(ClearFailure(o), u)
<1>1. ClearFailure(o).unresolved = FALSE /\ ClearFailure(o).retry_at = None
  BY DEF ClearFailure, OutputRuntime
<1> QED BY <1>1 DEF Unfinished, Retried

\* select drops the retry of what is no longer to be sent.
LEMMA SelectRetries ==
  ASSUME NEW rules \in SUBSET Rule, Ranked(rules), NEW o \in OutputRuntime(rules),
         NEW ctrl \in Controls, NEW t \in Int, NEW u,
         NEW can_attempt, NEW force_off, NEW default \in Known, Retried(o, u)
  PROVE  Unfinished(Select(o, ctrl, t, can_attempt, force_off, default), u)
<1> DEFINE advanced == Advanced(o, ctrl, t)
           sel == IF force_off THEN None ELSE Winner(advanced, ctrl)
           eps == IF sel # None /\ Timed(sel) /\ can_attempt /\ MayAttempt(o, t)
                  THEN [advanced EXCEPT ![sel] = EpisodeStart(advanced[sel], t, sel.duration)]
                  ELSE advanced
           val ==
             CASE force_off -> No
               [] ~ force_off /\ sel # None -> Drive(sel, eps[sel], t)
               [] ~ force_off /\ sel = None ->
                    IF \E r \in DOMAIN eps : ctrl[r.state].value # Unknown
                    THEN default ELSE Unknown
           chosen == [o EXCEPT !.episodes = eps, !.selected = sel, !.desired = val]
<1>1. Select(o, ctrl, t, can_attempt, force_off, default) =
        IF Pending(chosen) THEN chosen ELSE ClearFailure(chosen)
  BY DEF Select, advanced, sel, eps, val
<1> HIDE DEF advanced, sel, eps, val
<1>2. chosen.unresolved = o.unresolved /\ chosen.retry_at = o.retry_at
  BY DEF OutputRuntime
<1>3. /\ ClearFailure(chosen).unresolved = FALSE
      /\ ClearFailure(chosen).retry_at = None
  BY DEF ClearFailure, OutputRuntime
<1>4. CASE Pending(chosen)
  <2> HIDE DEF chosen
  <2> QED BY <1>1, <1>2, <1>4 DEF Unfinished, Retried, chosen
<1>5. CASE ~ Pending(chosen)
  <2> HIDE DEF chosen
  <2> QED BY <1>1, <1>3, <1>5 DEF Unfinished, Retried, chosen
<1> QED BY <1>4, <1>5

LEMMA AcceptedRetries ==
  ASSUME NEW rules, NEW o \in OutputRuntime(rules), NEW v, NEW t, NEW u
  PROVE  Unfinished(Accepted(o, v, t), u)
<1>1. Accepted(o, v, t).unresolved = FALSE /\ Accepted(o, v, t).retry_at = None
  BY DEF Accepted, OutputRuntime
<1> QED BY <1>1 DEF Unfinished, Retried

\* What failed was pending and still is, and its retry is within the longest back-off.
LEMMA FailedRetries ==
  ASSUME NEW rules, NEW o \in OutputRuntime(rules), NEW t \in Int, NEW ambiguous \in BOOLEAN,
         Pending(o)
  PROVE  Unfinished(Failed(o, t, ambiguous), t)
<1> DEFINE count == SoonerOf(o.retry_count + 1, RetryCap)
           g == Failed(o, t, ambiguous)
<1>1. count \in Nat
  BY HoldIsPositive DEF OutputRuntime, SoonerOf
<1>2. Backoff(count) \in Int /\ Backoff(count) <= RetryMax /\ RetryMax \in Int
  BY <1>1, BackoffType, OutputsAssumption
<1>3. /\ g.unresolved = TRUE /\ g.retry_at = t + Backoff(count)
      /\ g.desired = o.desired /\ g.force = o.force
      /\ g.last_submitted = o.last_submitted /\ g.simulated_value = o.simulated_value
  BY DEF Failed, OutputRuntime
<1> HIDE DEF g, count
<1>4. g.retry_at \in Int /\ g.retry_at <= t + RetryMax
  BY <1>2, <1>3
<1>5. g.retry_at # None
  BY <1>4, NoneAssumption
<1>6. Pending(g)
  BY <1>3 DEF Pending, Previous
<1> QED BY <1>3, <1>4, <1>5, <1>6 DEF Unfinished, Retried, g

----------------------------------------------------------------------------
(* What becomes of episodes: of each the restarted and advanced one, except *)
(* that the first eligible attempt of the selected rule starts its episode  *)
(* if nothing has started it before.                                       *)

\* A started episode is not started again.
LEMMA StartedStays ==
  ASSUME NEW e, NEW t, NEW d, e.start # None
  PROVE  EpisodeStart(e, t, d) = e
BY DEF EpisodeStart

LEMMA StartedNow ==
  ASSUME NEW e \in Episode, NEW t \in Int, NEW d \in Nat, e.start = None
  PROVE  LET g == EpisodeStart(e, t, d)
         IN  g.start = t /\ g.deadline = t + d /\ g.exhausted = e.exhausted
BY DEF EpisodeStart, Episode

LEMMA Distinct == Yes # No /\ Yes # Unknown /\ No # Unknown
BY DEF Yes, No, Unknown

\* Anything but a known non-match keeps the anchor, and exhausts what is over.
LEMMA UpdateKeeps ==
  ASSUME NEW e \in Episode, NEW m, NEW t \in Int, m # No
  PROVE  LET g == EpisodeUpdate(e, m, t)
         IN  /\ g.start = e.start /\ g.deadline = e.deadline
             /\ e.exhausted => g.exhausted
             /\ ~ g.exhausted => ~ Passed(e.deadline, t)
<1> DEFINE g == [e EXCEPT !.exhausted = e.exhausted \/ Passed(e.deadline, t)]
<1>1. e.exhausted \in BOOLEAN /\ Passed(e.deadline, t) \in BOOLEAN
  BY PassedType DEF Episode
<1>2. /\ g.start = e.start /\ g.deadline = e.deadline
      /\ g.exhausted = (e.exhausted \/ Passed(e.deadline, t))
  BY DEF Episode
<1>3. EpisodeUpdate(e, m, t) = g
  BY DEF EpisodeUpdate
<1> HIDE DEF g
<1> QED BY <1>1, <1>2, <1>3

\* An episode is past t when it has not started later, and open when it is not over then.
Begun(e, t) == e.start # None => e.start <= t

Open(e, t) == e.start # None /\ ~ e.exhausted => t < e.deadline

LEMMA UpdateOpens ==
  ASSUME NEW e \in Episode, NEW m \in Truth, NEW t \in Int, Begun(e, t)
  PROVE  LET g == EpisodeUpdate(e, m, t) IN Begun(g, t) /\ Open(g, t)
<1> DEFINE g == EpisodeUpdate(e, m, t)
<1>1. CASE m = No
  <2>1. g.start = None
    BY <1>1 DEF EpisodeUpdate, DefaultEpisode
  <2> QED BY <2>1 DEF Begun, Open
<1>2. CASE m # No
  <2>1. /\ g.start = e.start /\ g.deadline = e.deadline
        /\ ~ g.exhausted => ~ Passed(e.deadline, t)
    BY <1>2, UpdateKeeps
  <2>2. e.start # None => e.deadline \in Int /\ e.deadline # None
    BY DEF Episode, OptTime
  <2> HIDE DEF g
  <2>3. g.start # None /\ ~ g.exhausted => t < g.deadline
    BY <2>1, <2>2 DEF Passed
  <2> QED BY <2>1, <2>3 DEF Begun, Open, g
<1> QED BY <1>1, <1>2

\* Anchoring leaves a started episode alone, and starts one no later than now.
LEMMA AnchorKeeps ==
  ASSUME NEW r, NEW e, NEW ctrl, NEW t, e.start # None
  PROVE  Anchor(r, e, ctrl, t) = e
BY DEF Anchor

LEMMA AnchorOpens ==
  ASSUME NEW r \in Rule, NEW e \in Episode, NEW ctrl \in Controls, NEW t \in Int,
         ctrl[r.state].last_changed # None => ctrl[r.state].last_changed <= t,
         Begun(e, t), Open(e, t)
  PROVE  LET g == Anchor(r, e, ctrl, t)
         IN  /\ Begun(g, t) /\ Open(g, t)
             /\ r.start_on_match /\ Timed(r) /\ Matches(r, ctrl) => g.start # None
<1> DEFINE c == ctrl[r.state].last_changed
           at == IF c = None THEN t ELSE c
           s == EpisodeStart(e, at, r.duration)
           g == EpisodeUpdate(s, Yes, t)
<1>1. at \in Int /\ at <= t
  BY TimedType DEF Controls, Tracked, OptTime
<1>2. CASE r.start_on_match /\ Timed(r) /\ Matches(r, ctrl) /\ e.start = None
  <2>1. r.duration \in Nat
    BY <1>2, TimedType
  <2>2. s \in Episode /\ s.start = at
    BY <1>1, <1>2, <2>1, EpisodeStartType, StartedNow
  <2> HIDE DEF s, at
  <2>3. Begun(s, t)
    BY <1>1, <2>2 DEF Begun
  <2>4. Begun(g, t) /\ Open(g, t)
    BY <2>2, <2>3, UpdateOpens DEF Truth, Known
  <2>5. g.start = at
    BY <2>2, Distinct, UpdateKeeps
  <2>6. g.start # None
    BY <1>1, <2>5, NoneAssumption
  <2>7. Anchor(r, e, ctrl, t) = g
    BY <1>2 DEF Anchor, s, at
  <2> HIDE DEF g
  <2> QED BY <2>4, <2>6, <2>7
<1>3. CASE ~ (r.start_on_match /\ Timed(r) /\ Matches(r, ctrl) /\ e.start = None)
  BY <1>3 DEF Anchor
<1> QED BY <1>2, <1>3

\* What select leaves of the episodes, and which rule it selects.
LEMMA SelectEpisodes ==
  ASSUME NEW rules \in SUBSET Rule, Ranked(rules), None \notin rules,
         NEW o \in OutputRuntime(rules), NEW ctrl \in Controls, NEW t \in Int,
         NEW can_attempt, NEW force_off, NEW default \in Known
  PROVE  LET g == Select(o, ctrl, t, can_attempt, force_off, default)
             a == Advanced(o, ctrl, t)
         IN  /\ a \in [rules -> Episode]
             /\ \A x \in rules :
                  \/ g.episodes[x] = a[x]
                  \/ /\ g.episodes[x] = EpisodeStart(a[x], t, x.duration)
                     /\ Timed(x) /\ Matches(x, ctrl)
             /\ g.selected # None => g.selected \in rules /\ ~ a[g.selected].exhausted
<1> DEFINE advanced == Advanced(o, ctrl, t)
           sel == IF force_off THEN None ELSE Winner(advanced, ctrl)
           eps == IF sel # None /\ Timed(sel) /\ can_attempt /\ MayAttempt(o, t)
                  THEN [advanced EXCEPT ![sel] = EpisodeStart(advanced[sel], t, sel.duration)]
                  ELSE advanced
           val ==
             CASE force_off -> No
               [] ~ force_off /\ sel # None -> Drive(sel, eps[sel], t)
               [] ~ force_off /\ sel = None ->
                    IF \E r \in DOMAIN eps : ctrl[r.state].value # Unknown
                    THEN default ELSE Unknown
           chosen == [o EXCEPT !.episodes = eps, !.selected = sel, !.desired = val]
           g == Select(o, ctrl, t, can_attempt, force_off, default)
<1>1. g = IF Pending(chosen) THEN chosen ELSE ClearFailure(chosen)
  BY DEF Select, advanced, sel, eps, val
<1>2. advanced \in [rules -> Episode]
  BY AdvancedType
<1>3. sel # None => sel \in rules /\ Matches(sel, ctrl) /\ ~ advanced[sel].exhausted
  <2> HIDE DEF advanced
  <2> QED BY <1>2, WinnerType
<1> HIDE DEF sel, val
<1>4. \A x \in rules : \/ eps[x] = advanced[x]
                       \/ /\ eps[x] = EpisodeStart(advanced[x], t, x.duration)
                          /\ Timed(x) /\ Matches(x, ctrl)
  <2> HIDE DEF advanced
  <2> QED BY <1>2, <1>3
<1> HIDE DEF eps
<1>5. chosen.episodes = eps /\ chosen.selected = sel
  BY DEF OutputRuntime
<1>6. ClearFailure(chosen).episodes = eps /\ ClearFailure(chosen).selected = sel
  BY DEF ClearFailure, OutputRuntime
<1>7. g.episodes = eps /\ g.selected = sel
  <2> HIDE DEF g, chosen
  <2> QED BY <1>1, <1>5, <1>6
<1> HIDE DEF g, advanced
<1> QED BY <1>2, <1>3, <1>4, <1>7 DEF g, advanced

\* Of the other operators only a restart touches episodes.
LEMMA BookKeepsEpisodes ==
  ASSUME NEW rules, NEW o \in OutputRuntime(rules), NEW s, NEW f, NEW outcome
  PROVE  LET g == Book(o, s, f, outcome)
         IN  g.episodes = o.episodes /\ g.selected = o.selected
BY DEF Book, Accepted, Failed, OutputRuntime

LEMMA ResyncKeepsEpisodes ==
  ASSUME NEW rules, NEW o \in OutputRuntime(rules), NEW t, NEW settle
  PROVE  LET g == Resync(o, t, settle)
         IN  g.episodes = o.episodes /\ g.selected = o.selected
BY DEF Resync, OutputRuntime

\* The episode of a rule after the restarts of a tick.
AfterRestart(r, e, before, after, t) ==
  IF ~ Restarted(r, before, after) THEN e
  ELSE IF r.start_on_match THEN EpisodeStart(DefaultEpisode, t, r.duration)
  ELSE DefaultEpisode

\* And after it has been advanced.
AfterAdvance(r, e, before, after, t) ==
  Anchor(r, EpisodeUpdate(AfterRestart(r, e, before, after, t), Trigger(r, after), t),
         after, t)

LEMMA AdvancedEach ==
  ASSUME NEW rules \in SUBSET Rule, NEW o \in OutputRuntime(rules), NEW before, NEW after,
         NEW t, NEW r \in rules
  PROVE  Advanced(RestartOnTransitions(o, before, after, t), after, t)[r]
           = AfterAdvance(r, o.episodes[r], before, after, t)
<1> DEFINE eps == [x \in DOMAIN o.episodes |-> AfterRestart(x, o.episodes[x], before, after, t)]
           g == RestartOnTransitions(o, before, after, t)
<1>1. DOMAIN o.episodes = rules
  BY DEF OutputRuntime
<1>2. g = [o EXCEPT !.episodes = eps]
  BY DEF RestartOnTransitions, AfterRestart
<1> HIDE DEF g
<1>3. g.episodes = eps
  <2> HIDE DEF eps
  <2> QED BY <1>2 DEF OutputRuntime
<1>4. DOMAIN g.episodes = rules /\ g.episodes[r] = AfterRestart(r, o.episodes[r], before, after, t)
  BY <1>1, <1>3
<1>5. Advanced(g, after, t)[r]
        = Anchor(r, EpisodeUpdate(g.episodes[r], Trigger(r, after), t), after, t)
  BY <1>4 DEF Advanced
<1> QED BY <1>4, <1>5 DEF AfterAdvance, g

\* A started episode comes out of a tick's restarts and updates with its anchor.
LEMMA AdvanceAnchored ==
  ASSUME NEW r \in Rule, NEW e \in Episode, NEW before, NEW after \in Controls, NEW t \in Int,
         e.start # None, ~ Restarted(r, before, after), Trigger(r, after) # No
  PROVE  LET g == AfterAdvance(r, e, before, after, t)
         IN  g.start = e.start /\ g.deadline = e.deadline /\ (e.exhausted => g.exhausted)
<1> DEFINE u == EpisodeUpdate(e, Trigger(r, after), t)
<1>1. u.start = e.start /\ u.deadline = e.deadline /\ (e.exhausted => u.exhausted)
  <2> DEFINE m == Trigger(r, after)
  <2> HIDE DEF m
  <2> QED BY UpdateKeeps DEF m
<1>2. AfterAdvance(r, e, before, after, t) = Anchor(r, u, after, t)
  BY DEF AfterAdvance, AfterRestart
<1> HIDE DEF u
<1>3. Anchor(r, u, after, t) = u
  BY <1>1, AnchorKeeps
<1> QED BY <1>1, <1>2, <1>3

\* Whatever comes out of them has begun, and is not over unless it is exhausted.
LEMMA AdvanceOpens ==
  ASSUME NEW r \in Rule, NEW e \in Episode, NEW before, NEW after \in Controls, NEW t \in Int,
         after[r.state].last_changed # None => after[r.state].last_changed <= t, Begun(e, t)
  PROVE  LET g == AfterAdvance(r, e, before, after, t)
         IN  /\ g \in Episode /\ Begun(g, t) /\ Open(g, t)
             /\ r.start_on_match /\ Timed(r) /\ Matches(r, after) => g.start # None
<1> DEFINE b == AfterRestart(r, e, before, after, t)
           u == EpisodeUpdate(b, Trigger(r, after), t)
<1>1. b \in Episode /\ Begun(b, t)
  <2>1. DefaultEpisode \in Episode /\ DefaultEpisode.start = None
    BY DefaultEpisodeType DEF DefaultEpisode
  <2>2. CASE b = e
    BY <2>2
  <2>3. CASE b = DefaultEpisode
    BY <2>1, <2>3 DEF Begun
  <2>4. ASSUME Timed(r), b = EpisodeStart(DefaultEpisode, t, r.duration)
        PROVE  b \in Episode /\ Begun(b, t)
    <3>1. r.duration \in Nat
      BY <2>4, TimedType
    <3>2. b \in Episode /\ b.start = t
      <4> HIDE DEF b
      <4> QED BY <2>1, <2>4, <3>1, EpisodeStartType, StartedNow
    <3> HIDE DEF b
    <3> QED BY <3>2 DEF Begun
  <2> QED BY <2>2, <2>3, <2>4 DEF AfterRestart, Restarted
<1> HIDE DEF b
<1>2. u \in Episode /\ Begun(u, t) /\ Open(u, t)
  BY <1>1, TriggerType, UpdateOpens, EpisodeUpdateType
<1> HIDE DEF u
<1>3. /\ Anchor(r, u, after, t) \in Episode
      /\ Begun(Anchor(r, u, after, t), t) /\ Open(Anchor(r, u, after, t), t)
      /\ r.start_on_match /\ Timed(r) /\ Matches(r, after) => Anchor(r, u, after, t).start # None
  BY <1>2, AnchorOpens, AnchorType
<1> QED BY <1>3 DEF AfterAdvance, u, b

\* A rule that selection has started, or left as it was advanced, began no later than it
\* was decided, and what is not exhausted is not over then.
LEMMA ChosenOpens ==
  ASSUME NEW r \in Rule, NEW e \in Episode, NEW before, NEW after \in Controls, NEW t \in Nat,
         after[r.state].last_changed # None => after[r.state].last_changed <= t, Begun(e, t),
         NEW g,
         LET b == AfterAdvance(r, e, before, after, t)
         IN  g = b \/ (g = EpisodeStart(b, t, r.duration) /\ Timed(r))
  PROVE  LET b == AfterAdvance(r, e, before, after, t)
         IN  g.start # None =>
               /\ g.start \in Int /\ g.start <= t
               /\ Timed(r) /\ ~ b.exhausted => t < g.deadline
<1> DEFINE b == AfterAdvance(r, e, before, after, t)
           f == EpisodeStart(b, t, r.duration)
<1>1. b \in Episode /\ Begun(b, t) /\ Open(b, t)
  BY AdvanceOpens
<1>2. g = b \/ (g = f /\ Timed(r))
  OBVIOUS
<1> HIDE DEF b
<1>3. CASE b.start # None
  <2>1. g = b
    BY <1>2, <1>3, StartedStays
  <2> QED BY <1>1, <1>3, <2>1 DEF Begun, Open, Episode, OptTime, b
<1>4. CASE b.start = None /\ g = b
  BY <1>4
<1>5. CASE b.start = None /\ g = f /\ Timed(r)
  <2>1. r.duration \in Nat /\ r.duration >= Hold
    <3>1. r.duration \in Nat
      BY <1>5, TimedType
    <3>2. r.duration >= Hold
      BY <1>5 DEF Rule, ValidRule, Timed
    <3> QED BY <3>1, <3>2
  <2>2. f.start = t /\ f.deadline = t + r.duration
    BY <1>1, <1>5, <2>1, StartedNow
  <2> HIDE DEF f
  <2>3. g.start = t /\ t < g.deadline
    BY <1>5, <2>1, <2>2, HoldIsPositive
  <2> QED BY <2>3
<1> QED BY <1>2, <1>3, <1>4, <1>5

\* Rules of one trigger, duration and set of restarts come out of a tick's restarts and
\* updates as they went in: alike.
LEMMA AlikeAdvance ==
  ASSUME NEW q, NEW r, NEW e, NEW before, NEW after, NEW t,
         q.start_on_match, r.start_on_match, q.state = r.state, q.when = r.when,
         q.duration = r.duration, q.restart_on = r.restart_on
  PROVE  AfterAdvance(q, e, before, after, t) = AfterAdvance(r, e, before, after, t)
<1>1. (Matches(q, after) <=> Matches(r, after)) /\ (Timed(q) <=> Timed(r))
  BY DEF Matches, Timed
<1>2. Trigger(q, after) = Trigger(r, after)
  BY <1>1 DEF Trigger
<1>3. Restarted(q, before, after) <=> Restarted(r, before, after)
  BY <1>1 DEF Restarted
<1>4. AfterRestart(q, e, before, after, t) = AfterRestart(r, e, before, after, t)
  BY <1>3 DEF AfterRestart
<1>5. \A u : Anchor(q, u, after, t) = Anchor(r, u, after, t)
  BY <1>1 DEF Anchor
<1> QED BY <1>2, <1>4, <1>5 DEF AfterAdvance

----------------------------------------------------------------------------
(* Between two of its deadlines an output decides the same again.          *)

\* The half intervals between two flips.
LEMMA HalfIs ==
  ASSUME NEW a \in Int, NEW half \in Nat, half > 0
  PROVE  LET q == a \div half
         IN  q \in Int /\ q * half <= a /\ a < (q + 1) * half
OBVIOUS

LEMMA HalfIsOne ==
  ASSUME NEW a \in Int, NEW half \in Nat, half > 0, NEW q \in Int,
         q * half <= a, a < (q + 1) * half
  PROVE  a \div half = q
OBVIOUS

\* No flip comes before the next one.
LEMMA PhaseRests ==
  ASSUME NEW e \in Episode, e.start # None, NEW half \in Nat, half > 0,
         NEW t \in Int, NEW s \in Int, NEW u \in Int, t <= s, s <= u,
         u < e.start + ((t - e.start) \div half + 1) * half
  PROVE  Phase(e, u, half) = Phase(e, s, half)
<1> DEFINE b == e.start
           a == t - b
           q == a \div half
           low == q * half
           high == (q + 1) * half
<1>1. b \in Int
  BY DEF Episode, OptTime
<1>2. q \in Int /\ low <= a
  <2>1. a \in Int
    BY <1>1
  <2> HIDE DEF a
  <2> QED BY <2>1, HalfIs
<1>3. u < b + high
  OBVIOUS
<1> HIDE DEF q
<1>4. low \in Int /\ high \in Int
  BY <1>2
<1> HIDE DEF low, high
<1>5. /\ s - b \in Int /\ low <= s - b /\ s - b < high
      /\ u - b \in Int /\ low <= u - b /\ u - b < high
  BY <1>1, <1>2, <1>3, <1>4 DEF a
<1>6. (s - b) \div half = q /\ (u - b) \div half = q
  BY <1>2, <1>5, HalfIsOne DEF low, high
<1> QED BY <1>6 DEF Phase

\* What select leaves of an episode it would leave again until the deadline.
LEMMA EpisodeRests ==
  ASSUME NEW r \in Rule, NEW x \in Episode, NEW ctrl \in Controls, NEW s \in Int,
         NEW u \in Int, NEW e,
         LET a == Anchor(r, EpisodeUpdate(x, Trigger(r, ctrl), s), ctrl, s)
         IN  \/ e = a
             \/ e = EpisodeStart(a, s, r.duration) /\ Timed(r) /\ Matches(r, ctrl),
         ~ e.exhausted /\ e.deadline # None => u < e.deadline
  PROVE  e \in Episode /\ Anchor(r, EpisodeUpdate(e, Trigger(r, ctrl), u), ctrl, u) = e
<1> DEFINE m == Trigger(r, ctrl)
           w == EpisodeUpdate(x, m, s)
           a == Anchor(r, w, ctrl, s)
<1>1. m \in Truth /\ w \in Episode /\ a \in Episode
  BY TriggerType, EpisodeUpdateType, AnchorType
<1>2. CASE m = No
  <2>1. ~ Matches(r, ctrl)
    BY <1>2, Distinct DEF Trigger
  <2>2. w = DefaultEpisode
    BY <1>2 DEF EpisodeUpdate
  <2>3. a = w
    BY <2>1 DEF Anchor
  <2>4. e = DefaultEpisode
    BY <2>1, <2>2, <2>3
  <2>5. EpisodeUpdate(e, m, u) = e
    BY <1>2, <2>4 DEF EpisodeUpdate
  <2> QED BY <1>1, <2>1, <2>3, <2>2, <2>4, <2>5 DEF Anchor
<1>3. CASE m # No
  <2>1. /\ e \in Episode
        /\ r.start_on_match /\ Timed(r) /\ Matches(r, ctrl) => e.start # None
    <3>1. r.start_on_match /\ Timed(r) /\ Matches(r, ctrl) => a.start # None
      <4> SUFFICES ASSUME r.start_on_match, Timed(r), Matches(r, ctrl), w.start = None
                   PROVE  a.start # None
        <5> HIDE DEF w
        <5> QED BY AnchorKeeps
      <4> DEFINE c == ctrl[r.state].last_changed
                 at == IF c = None THEN s ELSE c
                 v == EpisodeStart(w, at, r.duration)
      <4>1. at \in Int
        BY TimedType DEF Controls, Tracked, OptTime
      <4>2. r.duration \in Nat
        BY TimedType
      <4>3. a = EpisodeUpdate(v, Yes, s)
        BY DEF Anchor
      <4> HIDE DEF w, at, a
      <4>4. v \in Episode /\ v.start = at
        BY <1>1, <4>1, <4>2, EpisodeStartType, StartedNow
      <4> HIDE DEF v
      <4>5. a.start = at
        BY <4>3, <4>4, Distinct, UpdateKeeps
      <4> QED BY <4>1, <4>5, NoneAssumption
    <3> HIDE DEF w, a, m
    <3>2. CASE e = a
      BY <1>1, <3>1, <3>2
    <3>3. CASE e = EpisodeStart(a, s, r.duration) /\ Timed(r) /\ Matches(r, ctrl)
      <4>1. r.duration \in Nat
        BY <3>3, TimedType
      <4>2. e \in Episode
        BY <1>1, <3>3, <4>1, EpisodeStartType
      <4>3. e.start # None
        <5>1. CASE a.start = None
          <6>1. e.start = s
            BY <1>1, <3>3, <4>1, <5>1, StartedNow
          <6> QED BY <6>1, NoneAssumption
        <5>2. CASE a.start # None
          BY <3>3, <5>2, StartedStays
        <5> QED BY <5>1, <5>2
      <4> QED BY <4>2, <4>3
    <3> QED BY <3>2, <3>3 DEF a, w, m
  <2>2. EpisodeUpdate(e, m, u) = e
    <3> HIDE DEF m
    <3>1. EpisodeUpdate(e, m, u) = [e EXCEPT !.exhausted = e.exhausted \/ Passed(e.deadline, u)]
      BY <1>3 DEF EpisodeUpdate
    <3>2. e.exhausted \in BOOLEAN /\ (e.deadline # None => e.deadline \in Int)
      BY <2>1 DEF Episode, OptTime
    <3>3. (e.exhausted \/ Passed(e.deadline, u)) = e.exhausted
      BY <3>2 DEF Passed
    <3> QED BY <2>1, <3>1, <3>3 DEF Episode
  <2>3. Anchor(r, e, ctrl, u) = e
    BY <2>1 DEF Anchor
  <2> QED BY <2>1, <2>2, <2>3
<1> QED BY <1>2, <1>3

SameChoice(g, d) ==
  g.episodes = d.episodes /\ g.selected = d.selected /\ g.desired = d.desired

\* From s until u no episode ends and no blink flips.
Undisturbed(rules, g, s, u) ==
  /\ \A r \in rules :
       ~ g.episodes[r].exhausted /\ g.episodes[r].deadline # None =>
         u < g.episodes[r].deadline
  /\ g.selected # None =>
       LET e == g.episodes[g.selected]
       IN  g.selected.kind = "blink_for" /\ e.start # None =>
             Phase(e, u, g.selected.half) = Phase(e, s, g.selected.half)

\* Left alone, an output decides at u what it decided at s, if it is undisturbed.
LEMMA SelectRests ==
  ASSUME NEW rules \in SUBSET Rule, Ranked(rules), None \notin rules,
         NEW o \in OutputRuntime(rules), NEW g \in OutputRuntime(rules),
         NEW ctrl \in Controls, NEW s \in Int, NEW u \in Int, s <= u,
         NEW before, NEW after, NEW force_off, NEW default \in Known,
         SameChoice(g, Select(o, ctrl, s, before, force_off, default)),
         Undisturbed(rules, g, s, u)
  PROVE  LET k == Select(g, ctrl, u, after, force_off, default)
         IN  k.desired = g.desired
<1> DEFINE sadv == Advanced(o, ctrl, s)
           ssel == IF force_off THEN None ELSE Winner(sadv, ctrl)
           seps == IF ssel # None /\ Timed(ssel) /\ before /\ MayAttempt(o, s)
                   THEN [sadv EXCEPT ![ssel] = EpisodeStart(sadv[ssel], s, ssel.duration)]
                   ELSE sadv
           sval == CASE force_off -> No
                     [] ~ force_off /\ ssel # None -> Drive(ssel, seps[ssel], s)
                     [] ~ force_off /\ ssel = None ->
                          IF \E r \in DOMAIN seps : ctrl[r.state].value # Unknown
                          THEN default ELSE Unknown
           schosen == [o EXCEPT !.episodes = seps, !.selected = ssel, !.desired = sval]
           d == Select(o, ctrl, s, before, force_off, default)
           uadv == Advanced(g, ctrl, u)
           usel == IF force_off THEN None ELSE Winner(uadv, ctrl)
           ueps == IF usel # None /\ Timed(usel) /\ after /\ MayAttempt(g, u)
                   THEN [uadv EXCEPT ![usel] = EpisodeStart(uadv[usel], u, usel.duration)]
                   ELSE uadv
           uval == CASE force_off -> No
                     [] ~ force_off /\ usel # None -> Drive(usel, ueps[usel], u)
                     [] ~ force_off /\ usel = None ->
                          IF \E r \in DOMAIN ueps : ctrl[r.state].value # Unknown
                          THEN default ELSE Unknown
           uchosen == [g EXCEPT !.episodes = ueps, !.selected = usel, !.desired = uval]
           k == Select(g, ctrl, u, after, force_off, default)
<1>1. d = IF Pending(schosen) THEN schosen ELSE ClearFailure(schosen)
  BY DEF Select, sadv, ssel, seps, sval
<1>2. k = IF Pending(uchosen) THEN uchosen ELSE ClearFailure(uchosen)
  BY DEF Select, uadv, usel, ueps, uval
<1>3. sadv \in [rules -> Episode]
  BY AdvancedType
<1>4. uadv \in [rules -> Episode]
  BY AdvancedType
<1>5. ssel # None => ssel \in rules /\ Matches(ssel, ctrl) /\ ~ sadv[ssel].exhausted
  <2> HIDE DEF sadv
  <2> QED BY <1>3, WinnerType
<1>6. \A r \in rules : sadv[r] = Anchor(r, EpisodeUpdate(o.episodes[r], Trigger(r, ctrl), s),
                                        ctrl, s)
  BY DEF Advanced, OutputRuntime
<1>7. \A r \in rules : uadv[r] = Anchor(r, EpisodeUpdate(g.episodes[r], Trigger(r, ctrl), u),
                                        ctrl, u)
  BY DEF Advanced, OutputRuntime
<1>8. /\ seps \in [rules -> Episode]
      /\ \A r \in rules : \/ seps[r] = sadv[r]
                          \/ /\ seps[r] = EpisodeStart(sadv[r], s, r.duration)
                             /\ Timed(r) /\ Matches(r, ctrl) /\ ~ sadv[r].exhausted
  <2> HIDE DEF sadv, ssel
  <2>1. CASE ssel # None /\ Timed(ssel) /\ before /\ MayAttempt(o, s)
    <3>1. EpisodeStart(sadv[ssel], s, ssel.duration) \in Episode
      BY <1>3, <1>5, <2>1, TimedType, EpisodeStartType
    <3> QED BY <1>3, <1>5, <2>1, <3>1
  <2>2. CASE ~ (ssel # None /\ Timed(ssel) /\ before /\ MayAttempt(o, s))
    BY <1>3, <2>2
  <2> QED BY <2>1, <2>2
<1> DEFINE noval == IF \E r \in rules : ctrl[r.state].value # Unknown
                    THEN default ELSE Unknown
<1>9. sval = IF force_off THEN No ELSE IF ssel # None THEN Drive(ssel, seps[ssel], s)
             ELSE noval
  <2>1. DOMAIN seps = rules
    BY <1>8
  <2> HIDE DEF seps, ssel
  <2> QED BY <2>1, Zenon
<1> HIDE DEF sval
<1>10. ssel = IF force_off THEN None ELSE Winner(sadv, ctrl)
  OBVIOUS
<1> HIDE DEF seps, ssel, sadv
<1>11. d.episodes = seps /\ d.selected = ssel /\ d.desired = sval
  <2>1. schosen.episodes = seps /\ schosen.selected = ssel /\ schosen.desired = sval
    BY DEF OutputRuntime
  <2>2. LET c == ClearFailure(schosen)
        IN  c.episodes = seps /\ c.selected = ssel /\ c.desired = sval
    BY DEF OutputRuntime, ClearFailure
  <2> HIDE DEF schosen, d
  <2> QED BY <1>1, <2>1, <2>2
<1>12. g.episodes = seps /\ g.selected = ssel /\ g.desired = sval
  BY <1>11 DEF SameChoice
<1> HIDE DEF d
<1>13. uadv = seps
  <2>1. ASSUME NEW r \in rules PROVE uadv[r] = seps[r]
    <3> DEFINE x == o.episodes[r]
               e == seps[r]
               a == Anchor(r, EpisodeUpdate(x, Trigger(r, ctrl), s), ctrl, s)
    <3>1. x \in Episode /\ r \in Rule
      BY DEF OutputRuntime
    <3>2. \/ e = a
          \/ e = EpisodeStart(a, s, r.duration) /\ Timed(r) /\ Matches(r, ctrl)
      BY <1>6, <1>8
    <3>3. ~ e.exhausted /\ e.deadline # None => u < e.deadline
      BY <1>12 DEF Undisturbed
    <3>4. uadv[r] = Anchor(r, EpisodeUpdate(e, Trigger(r, ctrl), u), ctrl, u)
      BY <1>7, <1>12
    <3> HIDE DEF x, e
    <3>5. Anchor(r, EpisodeUpdate(e, Trigger(r, ctrl), u), ctrl, u) = e
      BY <3>1, <3>2, <3>3, EpisodeRests
    <3> QED BY <3>4, <3>5 DEF e
  <2> HIDE DEF uadv
  <2> QED BY <1>4, <1>8, <2>1
<1>14. Winner(seps, ctrl) = Winner(sadv, ctrl)
  <2>1. ASSUME NEW r \in rules, Timed(r)
        PROVE  EpisodeStart(sadv[r], s, r.duration).exhausted = sadv[r].exhausted
    <3>1. r.duration \in Nat /\ sadv[r] \in Episode
      BY <1>3, <2>1, TimedType
    <3>2. CASE sadv[r].start = None
      BY <3>1, <3>2, StartedNow
    <3>3. CASE sadv[r].start # None
      BY <3>3, StartedStays
    <3> QED BY <3>2, <3>3
  <2>2. \A r \in rules : seps[r].exhausted = sadv[r].exhausted
    BY <1>8, <2>1
  <2> DEFINE A == {r \in DOMAIN seps : Matches(r, ctrl) /\ ~ seps[r].exhausted}
             B == {r \in DOMAIN sadv : Matches(r, ctrl) /\ ~ sadv[r].exhausted}
  <2>3. A = B
    BY <1>3, <1>8, <2>2
  <2>4. /\ Winner(seps, ctrl)
              = IF A = {} THEN None
                ELSE CHOOSE r \in A : \A q \in A : q.priority <= r.priority
        /\ Winner(sadv, ctrl)
              = IF B = {} THEN None
                ELSE CHOOSE r \in B : \A q \in B : q.priority <= r.priority
    BY DEF Winner
  <2> HIDE DEF A, B
  <2> QED BY <2>3, <2>4
<1>15. usel = ssel
  BY <1>10, <1>13, <1>14
<1> HIDE DEF uadv, usel
<1>16. DOMAIN ueps = rules
  BY <1>4
<1>17. ASSUME ssel # None
       PROVE  \/ ueps[ssel] = seps[ssel]
              \/ ueps[ssel] = EpisodeStart(seps[ssel], u, ssel.duration) /\ Timed(ssel)
  BY <1>5, <1>8, <1>13, <1>15, <1>17
<1>18. uval = IF force_off THEN No ELSE IF usel # None THEN Drive(usel, ueps[usel], u)
              ELSE noval
  <2> HIDE DEF ueps
  <2> QED BY <1>16, Zenon
<1> HIDE DEF uval, ueps
<1>19. ASSUME ssel # None
       PROVE  Drive(ssel, ueps[ssel], u) = Drive(ssel, seps[ssel], s)
  <2> DEFINE e == seps[ssel]
             f == ueps[ssel]
  <2>1. ssel \in Rule /\ e \in Episode
    BY <1>5, <1>8, <1>19
  <2>2. CASE ssel.kind # "blink_for"
    BY <2>2 DEF Drive
  <2>3. CASE ssel.kind = "blink_for"
    <3> DEFINE half == ssel.half
    <3>1. half \in Nat /\ half > 0
      BY <2>1, <2>3, HoldIsPositive DEF Rule, ValidRule
    <3>2. f = e \/ (f = EpisodeStart(e, u, ssel.duration) /\ ssel.duration \in Nat)
      BY <1>17, <1>19, <2>1, TimedType
    <3>3. e.start # None => Phase(e, u, half) = Phase(e, s, half)
      BY <1>12, <1>19, <2>3 DEF Undisturbed
    <3> HIDE DEF e, f, half
    <3>4. CASE e.start # None
      <4>1. f = e
        BY <3>2, <3>4, StartedStays
      <4> QED BY <2>3, <3>3, <3>4, <4>1 DEF Drive, half, e, f
    <3>5. CASE e.start = None
      <4>1. Phase(e, s, half) = Yes /\ Phase(e, u, half) = Yes
        BY <3>5 DEF Phase
      <4>2. Phase(f, u, half) = Yes
        <5>1. CASE f = e
          BY <4>1, <5>1
        <5>2. CASE f # e
          <6>1. f.start = u
            BY <2>1, <3>2, <3>5, <5>2, StartedNow DEF e
          <6>2. (u - u) \div half = 0
            BY <3>1, HalfIsOne
          <6> QED BY <6>1, <6>2 DEF Phase
        <5> QED BY <5>1, <5>2
      <4> QED BY <2>3, <4>1, <4>2 DEF Drive, half, e, f
    <3> QED BY <3>4, <3>5
  <2> QED BY <2>2, <2>3
<1>20. uval = sval
  BY <1>9, <1>15, <1>18, <1>19
<1>21. k.desired = uval
  <2>1. uchosen.desired = uval
    BY DEF OutputRuntime
  <2>2. ClearFailure(uchosen).desired = uval
    BY DEF OutputRuntime, ClearFailure
  <2> HIDE DEF uchosen, k
  <2> QED BY <1>2, <2>1, <2>2
<1> HIDE DEF k, uval, sval
<1>22. k.desired = g.desired
  BY <1>12, <1>20, <1>21
<1> QED BY <1>22 DEF k

\* A set of k elements has 2 ^ k subsets, hence at least one.
LEMMA PowerIsPositive ==
  ASSUME NEW k \in Nat
  PROVE  2 ^ k \in Nat /\ 2 ^ k >= 1
<1> DEFINE S == 1 .. k
<1>1. IsFiniteSet(S) /\ Cardinality(S) = k
  BY FS_Interval
<1>2. Cardinality(SUBSET S) = 2 ^ k /\ IsFiniteSet(SUBSET S)
  BY <1>1, FS_SUBSET
<1>3. Cardinality(SUBSET S) # 0 /\ Cardinality(SUBSET S) \in Nat
  <2>1. SUBSET S # {}
    OBVIOUS
  <2> HIDE DEF S
  <2> QED BY <1>2, <2>1, FS_EmptySet, FS_CardinalityType
<1> QED BY <1>2, <1>3

\* There is always some time to wait.
LEMMA BackoffIsPositive ==
  ASSUME NEW count \in Nat, count >= 1
  PROVE  Backoff(count) \in Int /\ Backoff(count) >= 1
<1> DEFINE p == 2 ^ (count - 1)
           q == RetryInitial * p
<1>1. p \in Nat /\ p >= 1
  <2>1. count - 1 \in Nat
    OBVIOUS
  <2> QED BY <2>1, PowerIsPositive
<1>2. RetryInitial \in Nat /\ RetryInitial >= 1 /\ RetryMax \in Nat /\ RetryMax >= 1
  BY OutputsAssumption
<1> HIDE DEF p
<1>3. q \in Nat /\ q >= 1
  BY <1>1, <1>2
<1>4. Backoff(count) = SoonerOf(q, RetryMax)
  BY DEF Backoff, p
<1> HIDE DEF q
<1> QED BY <1>2, <1>3, <1>4 DEF SoonerOf

\* select forgets a retry, and the failure, only with the command itself.
LEMMA SelectKeepsRetry ==
  ASSUME NEW rules, NEW o \in OutputRuntime(rules), NEW ctrl, NEW t, NEW can_attempt,
         NEW force_off, NEW default
  PROVE  LET g == Select(o, ctrl, t, can_attempt, force_off, default)
         IN  /\ Pending(g) => g.retry_at = o.retry_at
             /\ g.unresolved => Pending(g)
             /\ ~ Pending(g) => g.retry_at = None
<1> DEFINE advanced == Advanced(o, ctrl, t)
           sel == IF force_off THEN None ELSE Winner(advanced, ctrl)
           eps == IF sel # None /\ Timed(sel) /\ can_attempt /\ MayAttempt(o, t)
                  THEN [advanced EXCEPT ![sel] = EpisodeStart(advanced[sel], t, sel.duration)]
                  ELSE advanced
           val ==
             CASE force_off -> No
               [] ~ force_off /\ sel # None -> Drive(sel, eps[sel], t)
               [] ~ force_off /\ sel = None ->
                    IF \E r \in DOMAIN eps : ctrl[r.state].value # Unknown
                    THEN default ELSE Unknown
           chosen == [o EXCEPT !.episodes = eps, !.selected = sel, !.desired = val]
           g == Select(o, ctrl, t, can_attempt, force_off, default)
<1>1. g = IF Pending(chosen) THEN chosen ELSE ClearFailure(chosen)
  BY DEF Select, advanced, sel, eps, val
<1> HIDE DEF eps, sel, val
<1>2. chosen.retry_at = o.retry_at
  BY DEF OutputRuntime
<1>3. /\ ClearFailure(chosen).force = chosen.force
      /\ ClearFailure(chosen).desired = chosen.desired
      /\ Previous(ClearFailure(chosen)) = Previous(chosen)
      /\ ClearFailure(chosen).unresolved = FALSE /\ ClearFailure(chosen).retry_at = None
  BY DEF OutputRuntime, ClearFailure, Previous
<1> HIDE DEF chosen, g
<1>4. Pending(ClearFailure(chosen)) <=> Pending(chosen)
  BY <1>3 DEF Pending
<1> QED BY <1>1, <1>2, <1>3, <1>4 DEF g

\* After its booking there is nothing to send at once: it was delivered, or it waits.
LEMMA AcceptedIsDone ==
  ASSUME NEW rules, NEW o \in OutputRuntime(rules), NEW t
  PROVE  ~ Pending(Accepted(o, o.desired, t))
<1> DEFINE g == Accepted(o, o.desired, t)
<1>1. g.desired = o.desired /\ g.force = FALSE /\ Previous(g) = o.desired
  BY DEF Accepted, OutputRuntime, Previous
<1> HIDE DEF g
<1> QED BY <1>1 DEF Pending, g

LEMMA FailedWaits ==
  ASSUME NEW rules, NEW o \in OutputRuntime(rules), NEW t \in Int, NEW ambiguous
  PROVE  LET g == Failed(o, t, ambiguous)
         IN  g.retry_at \in Int /\ g.retry_at > t /\ g.retry_at # None
<1> DEFINE count == SoonerOf(o.retry_count + 1, RetryCap)
           g == Failed(o, t, ambiguous)
<1>1. count \in Nat /\ count >= 1
  BY HoldIsPositive DEF OutputRuntime, SoonerOf
<1>2. Backoff(count) \in Int /\ Backoff(count) >= 1
  BY <1>1, BackoffIsPositive
<1>3. g.retry_at = t + Backoff(count)
  BY DEF Failed, OutputRuntime
<1> HIDE DEF g, count
<1> QED BY <1>2, <1>3, NoneAssumption DEF g

\* What select leaves of an episode is over by then or exhausted.
LEMMA EpisodeOpens ==
  ASSUME NEW r \in Rule, NEW x \in Episode, NEW ctl \in Controls, NEW s \in Int, NEW e,
         LET a == Anchor(r, EpisodeUpdate(x, Trigger(r, ctl), s), ctl, s)
         IN  \/ e = a
             \/ e = EpisodeStart(a, s, r.duration) /\ Timed(r) /\ Matches(r, ctl)
  PROVE  Open(e, s)
<1> DEFINE m == Trigger(r, ctl)
           w == EpisodeUpdate(x, m, s)
           a == Anchor(r, w, ctl, s)
<1>1. ASSUME NEW y \in Episode, NEW n \in Truth PROVE Open(EpisodeUpdate(y, n, s), s)
  <2> DEFINE g == EpisodeUpdate(y, n, s)
  <2>1. CASE n = No
    BY <2>1 DEF EpisodeUpdate, DefaultEpisode, Open
  <2>2. CASE n # No
    <3>1. /\ g.start = y.start /\ g.deadline = y.deadline
          /\ ~ g.exhausted => ~ Passed(y.deadline, s)
      BY <2>2, UpdateKeeps
    <3>2. y.start # None => y.deadline \in Int /\ y.deadline # None
      BY DEF Episode, OptTime
    <3> HIDE DEF g
    <3> QED BY <3>1, <3>2 DEF Open, Passed, g
  <2> QED BY <2>1, <2>2
<1>2. m \in Truth /\ w \in Episode /\ a \in Episode
  BY TriggerType, EpisodeUpdateType, AnchorType
<1>3. Open(a, s)
  <2>1. CASE a = w
    BY <1>1, <1>2, <2>1
  <2>2. CASE a # w
    <3> DEFINE c == ctl[r.state].last_changed
               at == IF c = None THEN s ELSE c
               v == EpisodeStart(w, at, r.duration)
    <3>1. a = EpisodeUpdate(v, Yes, s) /\ Timed(r)
      BY <2>2 DEF Anchor
    <3>2. at \in Int /\ r.duration \in Nat
      BY <3>1, TimedType DEF Controls, Tracked, OptTime
    <3> HIDE DEF at, w, a
    <3>3. v \in Episode
      BY <1>2, <3>2, EpisodeStartType
    <3> HIDE DEF v
    <3> QED BY <1>1, <3>1, <3>3 DEF Truth, Known
  <2> QED BY <2>1, <2>2
<1> HIDE DEF w, a, m
<1>4. CASE e = a
  BY <1>3, <1>4
<1>5. CASE e = EpisodeStart(a, s, r.duration) /\ Timed(r)
  <2>1. r.duration \in Nat /\ r.duration > 0
    <3>1. r.kind # "steady"
      BY <1>5 DEF Rule, ValidRule, Timed
    <3>2. r.duration \in Nat /\ r.duration >= Hold
      BY <1>5, <3>1, TimedType DEF Rule, ValidRule
    <3> QED BY <3>2, HoldIsPositive
  <2>2. CASE a.start = None
    <3>1. e.deadline = s + r.duration
      BY <1>2, <1>5, <2>1, <2>2, StartedNow
    <3> QED BY <2>1, <3>1 DEF Open
  <2>3. CASE a.start # None
    BY <1>3, <1>5, <2>3, StartedStays
  <2> QED BY <2>2, <2>3
<1> QED BY <1>4, <1>5 DEF a, w, m

LEMMA SelectOpens ==
  ASSUME NEW rules \in SUBSET Rule, Ranked(rules), None \notin rules,
         NEW o \in OutputRuntime(rules), NEW ctl \in Controls, NEW s \in Int,
         NEW can_attempt, NEW force_off, NEW default \in Known
  PROVE  LET g == Select(o, ctl, s, can_attempt, force_off, default)
         IN  /\ \A r \in rules : Open(g.episodes[r], s)
             /\ g.selected # None =>
                  g.selected \in rules /\ ~ g.episodes[g.selected].exhausted
<1> DEFINE g == Select(o, ctl, s, can_attempt, force_off, default)
           a == Advanced(o, ctl, s)
<1>1. /\ a \in [rules -> Episode]
      /\ \A x \in rules :
           \/ g.episodes[x] = a[x]
           \/ /\ g.episodes[x] = EpisodeStart(a[x], s, x.duration)
              /\ Timed(x) /\ Matches(x, ctl)
      /\ g.selected # None => g.selected \in rules /\ ~ a[g.selected].exhausted
  BY SelectEpisodes
<1>2. \A x \in rules :
        /\ o.episodes[x] \in Episode /\ x \in Rule
        /\ a[x] = Anchor(x, EpisodeUpdate(o.episodes[x], Trigger(x, ctl), s), ctl, s)
  BY DEF Advanced, OutputRuntime
<1> HIDE DEF g, a
<1>3. ASSUME NEW r \in rules PROVE Open(g.episodes[r], s)
  <2> DEFINE x == o.episodes[r]
             e == g.episodes[r]
  <2>1. x \in Episode /\ r \in Rule
    BY <1>2
  <2>2. LET b == Anchor(r, EpisodeUpdate(x, Trigger(r, ctl), s), ctl, s)
        IN  \/ e = b
            \/ e = EpisodeStart(b, s, r.duration) /\ Timed(r) /\ Matches(r, ctl)
    BY <1>1, <1>2
  <2> HIDE DEF x, e
  <2>3. Open(e, s)
    BY <2>1, <2>2, EpisodeOpens
  <2> QED BY <2>3 DEF e
<1>4. ASSUME g.selected # None
      PROVE  g.selected \in rules /\ ~ g.episodes[g.selected].exhausted
  <2> DEFINE z == g.selected
  <2>1. z \in rules /\ ~ a[z].exhausted /\ a[z] \in Episode /\ z \in Rule
    BY <1>1, <1>4
  <2>2. CASE g.episodes[z] = a[z]
    BY <2>1, <2>2
  <2>3. CASE g.episodes[z] = EpisodeStart(a[z], s, z.duration) /\ Timed(z)
    <3>1. z.duration \in Nat
      BY <2>1, <2>3, TimedType
    <3>2. g.episodes[z].exhausted = a[z].exhausted
      <4>1. CASE a[z].start = None
        BY <2>1, <2>3, <3>1, <4>1, StartedNow
      <4>2. CASE a[z].start # None
        BY <2>3, <4>2, StartedStays
      <4> QED BY <4>1, <4>2
    <3> QED BY <2>1, <3>2
  <2> QED BY <1>1, <2>1, <2>2, <2>3
<1> QED BY <1>3, <1>4 DEF g

\* Without an edge nothing restarts.
LEMMA RestartAgain ==
  ASSUME NEW rules \in SUBSET Rule, NEW o \in OutputRuntime(rules), NEW ctl, NEW t
  PROVE  RestartOnTransitions(o, ctl, ctl, t) = o
<1>1. ASSUME NEW r \in rules PROVE ~ Restarted(r, ctl, ctl)
  <2>1. r \in Rule
    OBVIOUS
  <2>2. \A e \in r.restart_on : e.from # e.to
    BY <2>1 DEF Rule, ValidRule
  <2> QED BY <2>2 DEF Restarted
<1> DEFINE eps == [r \in DOMAIN o.episodes |->
                     IF ~ Restarted(r, ctl, ctl) THEN o.episodes[r]
                     ELSE IF r.start_on_match THEN EpisodeStart(DefaultEpisode, t, r.duration)
                     ELSE DefaultEpisode]
<1>2. RestartOnTransitions(o, ctl, ctl, t) = [o EXCEPT !.episodes = eps]
  BY DEF RestartOnTransitions
<1>3. eps = o.episodes
  BY <1>1 DEF OutputRuntime
<1> HIDE DEF eps
<1> QED BY <1>2, <1>3 DEF OutputRuntime

===============================================================================
