------------------------ MODULE RelaySchedulerProofs ------------------------
(***************************************************************************)
(* The relay scheduler is type-correct and implements PacedRelay, and its  *)
(* behaviours keep the deadlines and anchors of their episodes, for every  *)
(* rule table, hold, back-off, horizon and sequence of outcomes.           *)
(*                                                                         *)
(* The pace is one inductive invariant: eligible_at never lies before the  *)
(* end of the hold that the latest command, or the latest recovery,        *)
(* opened.  It survives select and restart because they do not touch       *)
(* eligible_at, a rejected attempt because it leaves nothing to wait for,  *)
(* and an accepted or ambiguous one because its time is sampled after it.  *)
(*                                                                         *)
(* The episodes rest on TimeInv: what has changed or begun did so no later *)
(* than now, so that no deadline computed at a tick lies in its future by  *)
(* more than the duration.  Twins share an episode although only one of    *)
(* them is ever selected, because a matching rule that starts on its match *)
(* is anchored before the selection, which then starts nothing.            *)
(***************************************************************************)
EXTENDS RelayScheduler, OutputsProofs

HoldInv ==
  /\ sent # None => sent <= now /\ out.eligible_at >= sent + Hold
  /\ settled <= now /\ out.eligible_at >= settled + Hold

IInv == TypeOK /\ HoldInv

\* The assumptions about the rules in the form the lemmas about them need.
LEMMA RulesFacts == Rules \in SUBSET Rule /\ Ranked(Rules) /\ Default \in Known
BY SchedulerAssumption DEF Ranked, ValidRules

\* The samples of a tick do not precede its start.
LEMMA SampleType ==
  ASSUME NEW t \in Nat, NEW s \in Sample(t)
  PROVE  s \in Nat /\ t <= s
BY SchedulerAssumption DEF Sample, SoonerOf

\* The evaluation yields the controls the rules read.
LEMMA AdmittedType ==
  ASSUME TypeOK, NEW values \in Readings
  PROVE  Admitted(values) \in Controls
<1>1. values \in [State -> Truth]
  BY SchedulerAssumption
<1>2. ASSUME NEW x \in State
      PROVE  SetTracked(ctrl[x], values[x], now) \in Tracked
  BY <1>1, TrackedType DEF TypeOK
<1> QED BY <1>2 DEF Admitted, Controls

\* Deciding yields an output with the hold it had.
LEMMA DecidedType ==
  ASSUME TypeOK, NEW values \in Readings, NEW s \in Nat, NEW available, NEW timed_out,
         NEW pass \in BOOLEAN
  PROVE  LET o == Decided(values, s, available, timed_out, pass)
         IN  o \in OutputRuntime(Rules) /\ o.eligible_at = out.eligible_at
<1> DEFINE p == Prepared(pass)
           r == RestartOnTransitions(p, ctrl, Admitted(values), s)
<1>0. p \in OutputRuntime(Rules) /\ p.eligible_at = out.eligible_at
  <2>1. now \in Nat /\ out \in OutputRuntime(Rules)
    BY DEF TypeOK
  <2>2. CASE pass
    BY <2>1, <2>2, ResyncType DEF Prepared, Resync, OutputRuntime
  <2>3. CASE ~ pass
    BY <2>1, <2>3 DEF Prepared
  <2> QED BY <2>2, <2>3
<1> HIDE DEF p
<1>1. r \in OutputRuntime(Rules) /\ r.eligible_at = out.eligible_at
  BY <1>0, RestartType, RulesFacts DEF TypeOK
<1>2. Admitted(values) \in Controls
  BY AdmittedType
<1> HIDE DEF r
<1> QED BY <1>1, <1>2, SelectType, RulesFacts DEF Decided, r, p

LEMMA BookType ==
  ASSUME NEW o \in OutputRuntime(Rules), NEW s \in Nat, NEW f \in Nat, NEW outcome
  PROVE  LET g == Book(o, s, f, outcome)
         IN  /\ g \in OutputRuntime(Rules)
             /\ g.eligible_at >= o.eligible_at \/ g.eligible_at = f + Hold
             /\ outcome \in {"accepted", "ambiguous"} => g.eligible_at >= f + Hold
<1>1. o.desired \in Truth /\ o.eligible_at \in Int
  BY DEF OutputRuntime
<1>2. CASE outcome = "accepted"
  <2>1. Book(o, s, f, outcome) = Accepted(o, o.desired, f)
    BY <1>2 DEF Book
  <2>2. /\ Accepted(o, o.desired, f) \in OutputRuntime(Rules)
        /\ Accepted(o, o.desired, f).eligible_at = f + Hold
    BY <1>1, AcceptedType
  <2>3. f + Hold >= f + Hold
    BY HoldIsPositive
  <2> QED BY <2>1, <2>2, <2>3
<1>3. CASE outcome # "accepted"
  <2>1. PICK ambiguous \in BOOLEAN : ambiguous <=> outcome = "ambiguous"
    OBVIOUS
  <2>2. ambiguous = (outcome = "ambiguous")
    BY <2>1
  <2>3. Book(o, s, f, outcome) = Failed(o, f, ambiguous)
    BY <1>3, <2>2 DEF Book
  <2>4. /\ Failed(o, f, ambiguous) \in OutputRuntime(Rules)
        /\ Failed(o, f, ambiguous).eligible_at >= o.eligible_at
        /\ ambiguous => Failed(o, f, ambiguous).eligible_at >= f + Hold
    BY FailedType
  <2> QED BY <1>3, <2>1, <2>3, <2>4
<1> QED BY <1>2, <1>3

LEMMA InitIInv == Init => IInv
<1> SUFFICES ASSUME Init PROVE IInv
  OBVIOUS
<1>1. out \in OutputRuntime(Rules)
  BY NewOutputType, RulesFacts DEF Init
<1>2. ctrl \in [State -> Tracked]
  BY DEF Init, UntouchedTracked, Tracked, Truth, OptTime
<1>3. TypeOK
  BY <1>1, <1>2 DEF Init, TypeOK, OptTime
<1>4. HoldInv
  BY HoldIsPositive DEF Init, HoldInv, NewOutput
<1> QED BY <1>3, <1>4 DEF IInv

\* A tick preserves the invariant, and what it lets out is a paced command.
LEMMA TickStep ==
  ASSUME IInv, NEW values \in Readings, NEW s \in Sample(now),
         NEW available \in BOOLEAN, NEW timed_out \in BOOLEAN,
         NEW pass \in BOOLEAN,
         Tick(values, s, available, timed_out, pass)
  PROVE  IInv' /\ (Paced!Pass \/ Paced!Command)
<1> DEFINE o == Decided(values, s, available, timed_out, pass)
<1>1. /\ now \in Nat /\ s \in Nat /\ now <= s
      /\ out \in OutputRuntime(Rules) /\ out.eligible_at \in Int
      /\ sent \in OptTime /\ settled \in Nat
  BY SampleType DEF IInv, TypeOK, OutputRuntime
<1>2. o \in OutputRuntime(Rules) /\ o.eligible_at = out.eligible_at
  BY <1>1, DecidedType DEF IInv
<1>3. ctrl' \in [State -> Tracked] /\ decided_at' = s /\ settled' = settled
  BY AdmittedType DEF Tick, IInv, Controls
<1>4. /\ sent # None => sent \in Int /\ sent <= now /\ out.eligible_at >= sent + Hold
      /\ settled <= now /\ out.eligible_at >= settled + Hold
  BY <1>1 DEF IInv, HoldInv, OptTime
<1>5. \/ /\ Due(o, s)
         /\ \E f \in Sample(s), outcome \in Outcomes : Submit(o, s, f, outcome)
      \/ Leave(o, s)
  BY DEF Tick
<1> HIDE DEF o
<1>6. CASE Leave(o, s)
  <2>1. out' = o /\ now' \in Nat /\ s <= now' /\ sent' = sent
    BY <1>1, <1>6, SampleType DEF Leave
  <2>2. TypeOK'
    BY <2>1, <1>1, <1>2, <1>3 DEF TypeOK
  <2>3. HoldInv'
    BY <2>1, <1>1, <1>2, <1>3, <1>4 DEF HoldInv
  <2>4. Paced!Pass
    BY <2>1, <1>1, <1>3 DEF Paced!Pass, Paced!Later
  <2> QED BY <2>2, <2>3, <2>4 DEF IInv
<1>7. ASSUME Due(o, s), NEW f \in Sample(s), NEW outcome \in Outcomes, Submit(o, s, f, outcome)
      PROVE  IInv' /\ (Paced!Pass \/ Paced!Command)
  <2>1. /\ out' = Book(o, s, f, outcome) /\ now' \in Sample(f)
        /\ sent' = IF Dry \/ outcome = "rejected" THEN sent ELSE f
        /\ Dry => outcome = "accepted"
    BY <1>7 DEF Submit
  <2>2. f \in Nat /\ s <= f /\ now' \in Nat /\ f <= now'
    BY <1>1, <2>1, SampleType
  <2>3. outcome \in {"accepted", "rejected", "ambiguous"}
    BY SchedulerAssumption
  <2>4. /\ out' \in OutputRuntime(Rules) /\ out'.eligible_at \in Int
        /\ out'.eligible_at >= o.eligible_at \/ out'.eligible_at = f + Hold
        /\ outcome # "rejected" => out'.eligible_at >= f + Hold
    BY <2>1, <2>2, <2>3, <1>1, <1>2, BookType DEF OutputRuntime
  <2>5. s >= out.eligible_at
    BY <1>7, <1>2 DEF Due, MayAttempt
  <2>6. sent' \in OptTime
    BY <2>1, <2>2, <1>1 DEF OptTime
  <2>7. TypeOK'
    BY <2>1, <2>2, <2>4, <2>6, <1>1, <1>3 DEF TypeOK
  <2>8. out'.eligible_at >= out.eligible_at
    BY <2>2, <2>4, <2>5, <1>1, <1>2, HoldIsPositive
  <2>9. HoldInv'
    <3>1. CASE sent' = sent
      BY <3>1, <2>1, <2>2, <2>4, <2>8, <1>1, <1>3, <1>4, HoldIsPositive DEF HoldInv
    <3>2. CASE sent' = f /\ outcome # "rejected"
      BY <3>2, <2>1, <2>2, <2>4, <2>8, <1>1, <1>3, <1>4, HoldIsPositive DEF HoldInv
    <3> QED BY <3>1, <3>2, <2>1
  <2>10. Paced!Later
    BY <2>1, <2>2, <1>1 DEF Paced!Later
  <2>11. ASSUME sent' = sent PROVE Paced!Pass
    BY <2>10, <2>11, <1>3 DEF Paced!Pass
  <2>12. ASSUME sent' = f PROVE Paced!Command
    <3>1. /\ s \in now .. f
          /\ sent # None => s >= sent + Hold
          /\ s >= settled + Hold
      BY <2>2, <2>5, <1>1, <1>4, HoldIsPositive
    <3>2. sent' \in s .. now' /\ s \in now .. now'
      BY <2>2, <2>12, <1>1
    <3>3. \E q \in now .. now' : /\ sent # None => q >= sent + Hold
                                /\ q >= settled + Hold
                                /\ sent' \in q .. now'
      BY <3>1, <3>2
    <3> QED BY <3>3, <2>10, <1>3 DEF Paced!Command
  <2>13. sent' = sent \/ sent' = f
    BY <2>1
  <2> QED BY <2>7, <2>9, <2>11, <2>12, <2>13 DEF IInv
<1> QED BY <1>5, <1>6, <1>7

\* A resynchronisation is a recovery the relay is given a hold for.
LEMMA ResynchroniseStep ==
  ASSUME IInv, Resynchronise
  PROVE  IInv' /\ Paced!Recover
<1>1. /\ now \in Nat /\ out \in OutputRuntime(Rules) /\ out.eligible_at \in Int
      /\ settled \in Nat /\ sent \in OptTime
  BY DEF IInv, TypeOK, OutputRuntime
<1>2. /\ out' \in OutputRuntime(Rules) /\ out'.eligible_at \in Int
      /\ out'.eligible_at >= out.eligible_at
      /\ out'.eligible_at >= now + Hold
  <2>1. PICK settle \in BOOLEAN : settle = TRUE
    OBVIOUS
  <2>2. out' = Resync(out, now, settle)
    BY <2>1 DEF Resynchronise
  <2>3. /\ Resync(out, now, settle) \in OutputRuntime(Rules)
        /\ Resync(out, now, settle).eligible_at >= out.eligible_at
        /\ settle => Resync(out, now, settle).eligible_at >= now + Hold
    BY <1>1, ResyncType
  <2>4. Resync(out, now, settle).eligible_at \in Int
    BY <2>3 DEF OutputRuntime
  <2> QED BY <2>1, <2>2, <2>3, <2>4
<1>3. TypeOK'
  BY <1>1, <1>2 DEF Resynchronise, IInv, TypeOK
<1>4. HoldInv'
  <2>1. now' = now /\ sent' = sent /\ settled' = now
    BY DEF Resynchronise
  <2>2. sent # None => sent \in Int /\ sent <= now /\ out.eligible_at >= sent + Hold
    BY <1>1 DEF IInv, HoldInv, OptTime
  <2> QED BY <1>1, <1>2, <2>1, <2>2, HoldIsPositive DEF HoldInv
<1>5. Paced!Recover
  BY DEF Resynchronise, Paced!Recover
<1> QED BY <1>3, <1>4, <1>5 DEF IInv

LEMMA PassStep ==
  ASSUME IInv, Pass
  PROVE  IInv' /\ Paced!Pass
<1>1. now \in Nat /\ settled \in Nat /\ sent \in OptTime
  BY DEF IInv, TypeOK
<1>2. TypeOK'
  BY <1>1 DEF Pass, IInv, TypeOK
<1>3. HoldInv'
  BY <1>1 DEF Pass, IInv, HoldInv, OptTime
<1>4. Paced!Pass
  BY <1>1 DEF Pass, Paced!Pass, Paced!Later
<1> QED BY <1>2, <1>3, <1>4 DEF IInv

\* Every step preserves the invariant and is a step of the paced relay.
LEMMA NextStep == IInv /\ [Next]_vars => IInv' /\ [Paced!Next]_(Paced!vars)
<1> SUFFICES ASSUME IInv, [Next]_vars PROVE IInv' /\ [Paced!Next]_(Paced!vars)
  OBVIOUS
<1>1. CASE \E values \in Readings, s \in Sample(now), available, timed_out, pass \in BOOLEAN :
             Tick(values, s, available, timed_out, pass)
  BY <1>1, TickStep DEF Paced!Next
<1>2. CASE Resynchronise
  BY <1>2, ResynchroniseStep DEF Paced!Next
<1>3. CASE Pass
  BY <1>3, PassStep DEF Paced!Next
<1>4. CASE UNCHANGED vars
  BY <1>4 DEF vars, IInv, TypeOK, HoldInv, Paced!vars
<1> QED BY <1>1, <1>2, <1>3, <1>4 DEF Next

\* The scheduler's state keeps its types: one episode per rule with a deadline
\* exactly when it has a start, a back-off count within its bound, and so on.
THEOREM TypeCorrect == Spec => []TypeOK
<1>1. IInv => TypeOK
  BY DEF IInv
<1> QED BY <1>1, InitIInv, NextStep, PTL DEF Spec

\* No two commands that may reach the relay are less than a hold apart, and none
\* leaves within a hold of a recovery, whatever made the scheduler send it.
THEOREM PacedHolds == Spec => PacedSpec
<1>1. Init => Paced!Init
  BY DEF Init, Paced!Init
<1> QED BY <1>1, InitIInv, NextStep, PTL DEF Spec, PacedSpec, Paced!Spec

----------------------------------------------------------------------------
(* Retries.  The property is inductive given the types: select drops the   *)
(* retry of what is no longer pending, only what is pending is attempted,  *)
(* and a failed attempt books its retry at a sample of the clock that the  *)
(* end of the tick does not precede.                                       *)

RetryInv == Unfinished(out, now)

\* What a tick decides has its retry, if it is unresolved, and is then pending.
LEMMA DecidedRetries ==
  ASSUME TypeOK, RetryInv, NEW values \in Readings, NEW s \in Nat, NEW available,
         NEW timed_out, NEW pass \in BOOLEAN
  PROVE  Unfinished(Decided(values, s, available, timed_out, pass), now)
<1> DEFINE p == Prepared(pass)
           r == RestartOnTransitions(p, ctrl, Admitted(values), s)
<1>1. now \in Nat /\ out \in OutputRuntime(Rules)
  BY DEF TypeOK
<1>2. p \in OutputRuntime(Rules) /\ Unfinished(p, now)
  <2>1. CASE pass
    <3>1. PICK settle \in BOOLEAN : settle = FALSE
      OBVIOUS
    <3>2. p = Resync(out, now, settle)
      BY <2>1, <3>1 DEF Prepared
    <3> QED BY <1>1, <3>2, ResyncType, ResyncRetries DEF RetryInv
  <2>2. CASE ~ pass
    BY <1>1, <2>2 DEF Prepared, RetryInv
  <2> QED BY <2>1, <2>2
<1> HIDE DEF p
<1>3. r \in OutputRuntime(Rules) /\ Retried(r, now)
  BY <1>2, RestartType, RestartRetries, RulesFacts DEF Unfinished
<1> HIDE DEF r
<1> QED BY <1>3, AdmittedType, SelectRetries, RulesFacts DEF Decided, r, p

LEMMA BookRetries ==
  ASSUME NEW o \in OutputRuntime(Rules), NEW s \in Nat, NEW f \in Nat, NEW outcome, Pending(o)
  PROVE  Unfinished(Book(o, s, f, outcome), f)
<1>1. CASE outcome = "accepted"
  BY <1>1, AcceptedRetries DEF Book
<1>2. CASE outcome # "accepted"
  <2>1. PICK ambiguous \in BOOLEAN : ambiguous <=> outcome = "ambiguous"
    OBVIOUS
  <2>2. ambiguous = (outcome = "ambiguous")
    BY <2>1
  <2>3. Book(o, s, f, outcome) = Failed(o, f, ambiguous)
    BY <1>2, <2>2 DEF Book
  <2> QED BY <2>3, FailedRetries
<1> QED BY <1>1, <1>2

LEMMA TickRetries ==
  ASSUME TypeOK, RetryInv, NEW values \in Readings, NEW s \in Sample(now),
         NEW available \in BOOLEAN, NEW timed_out \in BOOLEAN, NEW pass \in BOOLEAN,
         Tick(values, s, available, timed_out, pass)
  PROVE  RetryInv'
<1> DEFINE o == Decided(values, s, available, timed_out, pass)
<1>1. now \in Nat /\ s \in Nat /\ now <= s
  BY SampleType DEF TypeOK
<1>2. o \in OutputRuntime(Rules) /\ Unfinished(o, now)
  BY <1>1, DecidedType, DecidedRetries
<1>3. \/ /\ Due(o, s)
         /\ \E f \in Sample(s), outcome \in Outcomes : Submit(o, s, f, outcome)
      \/ Leave(o, s)
  BY DEF Tick
<1> HIDE DEF o
<1>4. CASE Leave(o, s)
  <2>1. out' = o /\ now' \in Nat /\ now <= now'
    BY <1>1, <1>4, SampleType DEF Leave
  <2> QED BY <1>1, <1>2, <2>1, RetriedLater DEF RetryInv
<1>5. ASSUME Due(o, s), NEW f \in Sample(s), NEW outcome \in Outcomes, Submit(o, s, f, outcome)
      PROVE  RetryInv'
  <2>1. out' = Book(o, s, f, outcome) /\ now' \in Sample(f)
    BY <1>5 DEF Submit
  <2>2. f \in Nat /\ now' \in Nat /\ f <= now'
    BY <1>1, <2>1, SampleType
  <2>3. out' \in OutputRuntime(Rules) /\ Unfinished(out', f)
    BY <1>1, <1>2, <1>5, <2>1, <2>2, BookType, BookRetries DEF Due
  <2> QED BY <2>2, <2>3, RetriedLater DEF RetryInv
<1> QED BY <1>3, <1>4, <1>5

LEMMA RetryStep == TypeOK /\ RetryInv /\ [Next]_vars => RetryInv'
<1> SUFFICES ASSUME TypeOK, RetryInv, [Next]_vars PROVE RetryInv'
  OBVIOUS
<1>1. now \in Nat /\ out \in OutputRuntime(Rules)
  BY DEF TypeOK
<1>2. CASE \E values \in Readings, s \in Sample(now), available, timed_out, pass \in BOOLEAN :
             Tick(values, s, available, timed_out, pass)
  BY <1>2, TickRetries
<1>3. CASE Resynchronise
  <2>1. PICK settle \in BOOLEAN : settle = TRUE
    OBVIOUS
  <2>2. out' = Resync(out, now, settle) /\ now' = now
    BY <1>3, <2>1 DEF Resynchronise
  <2> QED BY <1>1, <2>2, ResyncRetries DEF RetryInv
<1>4. CASE Pass
  <2>1. out' = out /\ now' = now + 1
    BY <1>4 DEF Pass
  <2> QED BY <1>1, <2>1, RetriedLater DEF RetryInv
<1>5. CASE UNCHANGED vars
  BY <1>5 DEF vars, RetryInv, Unfinished, Retried, Pending, Previous
<1> QED BY <1>2, <1>3, <1>4, <1>5 DEF Next

\* An unresolved submission is always still pending and has a retry no later than
\* the longest back-off from now; readiness is not withheld for anything else.
THEOREM RetriesHold == Spec => []UnresolvedIsRetried
<1>1. Init => RetryInv
  BY DEF Init, NewOutput, RetryInv, Unfinished, Retried
<1>2. RetryInv => UnresolvedIsRetried
  BY DEF RetryInv, Unfinished, Retried, UnresolvedIsRetried
<1> QED BY <1>1, <1>2, RetryStep, TypeCorrect, PTL DEF Spec

----------------------------------------------------------------------------
(* Episodes.  What a tick leaves of an episode is known from select; nothing*)
(* else touches one.  That no rule drives the relay past its deadline needs *)
(* to know that episodes and control states do not begin in the future.     *)

\* The episode of a rule after the restarts and updates of a tick.
NextEpisode(r, values, s) == AfterAdvance(r, out.episodes[r], ctrl, Admitted(values), s)

LEMMA DecidedEpisodes ==
  ASSUME TypeOK, NEW values \in Readings, NEW s \in Nat, NEW available, NEW timed_out,
         NEW pass \in BOOLEAN
  PROVE  LET o == Decided(values, s, available, timed_out, pass)
         IN  /\ \A x \in Rules :
                  \/ o.episodes[x] = NextEpisode(x, values, s)
                  \/ /\ o.episodes[x] = EpisodeStart(NextEpisode(x, values, s), s, x.duration)
                     /\ Timed(x) /\ Matches(x, Admitted(values))
             /\ o.selected # None =>
                  o.selected \in Rules /\ ~ NextEpisode(o.selected, values, s).exhausted
<1> DEFINE p == Prepared(pass)
           r == RestartOnTransitions(p, ctrl, Admitted(values), s)
           a == Advanced(r, Admitted(values), s)
           o == Decided(values, s, available, timed_out, pass)
<1>1. p \in OutputRuntime(Rules) /\ p.episodes = out.episodes
  <2>1. now \in Nat /\ out \in OutputRuntime(Rules)
    BY DEF TypeOK
  <2>2. CASE pass
    <3>1. PICK settle \in BOOLEAN : settle = FALSE
      OBVIOUS
    <3>2. p = Resync(out, now, settle)
      BY <2>2, <3>1 DEF Prepared
    <3> HIDE DEF p
    <3> QED BY <2>1, <3>2, ResyncType, ResyncKeepsEpisodes
  <2>3. CASE ~ pass
    BY <2>1, <2>3 DEF Prepared
  <2> QED BY <2>2, <2>3
<1> HIDE DEF p
<1>2. r \in OutputRuntime(Rules)
  BY <1>1, RestartType, RulesFacts
<1>3. Admitted(values) \in Controls
  BY AdmittedType
<1>4. \A x \in Rules : a[x] = NextEpisode(x, values, s)
  BY <1>1, AdvancedEach, RulesFacts DEF NextEpisode
<1> HIDE DEF r
<1>5. o = Select(r, Admitted(values), s, available, timed_out, Default)
  BY DEF Decided, r, p
<1>6. /\ \A x \in Rules : \/ o.episodes[x] = a[x]
                          \/ /\ o.episodes[x] = EpisodeStart(a[x], s, x.duration)
                             /\ Timed(x) /\ Matches(x, Admitted(values))
      /\ o.selected # None => o.selected \in Rules /\ ~ a[o.selected].exhausted
  <2> HIDE DEF o
  <2>1. s \in Int /\ None \notin Rules
    BY SchedulerAssumption
  <2> QED BY <2>1, <1>2, <1>3, <1>5, RulesFacts, SelectEpisodes
<1> HIDE DEF a, o
<1>7. \A x \in Rules : \/ o.episodes[x] = NextEpisode(x, values, s)
                       \/ /\ o.episodes[x] = EpisodeStart(NextEpisode(x, values, s), s, x.duration)
                          /\ Timed(x) /\ Matches(x, Admitted(values))
  BY <1>4, <1>6
<1>8. o.selected # None => o.selected \in Rules /\ ~ NextEpisode(o.selected, values, s).exhausted
  BY <1>4, <1>6
<1> QED BY <1>7, <1>8 DEF o

\* A tick leaves the episodes it decided, whatever becomes of the command.
LEMMA TickEpisodes ==
  ASSUME TypeOK, NEW values \in Readings, NEW s \in Sample(now),
         NEW available \in BOOLEAN, NEW timed_out \in BOOLEAN,
         NEW pass \in BOOLEAN, Tick(values, s, available, timed_out, pass)
  PROVE  /\ ctrl' = Admitted(values) /\ decided_at' = s
         /\ now \in Nat /\ s \in Nat /\ now' \in Nat /\ now <= s /\ s <= now'
         /\ \A x \in Rules :
              \/ out'.episodes[x] = NextEpisode(x, values, s)
              \/ /\ out'.episodes[x] = EpisodeStart(NextEpisode(x, values, s), s, x.duration)
                 /\ Timed(x) /\ Matches(x, Admitted(values))
         /\ out'.selected # None =>
              out'.selected \in Rules /\ ~ NextEpisode(out'.selected, values, s).exhausted
<1> DEFINE o == Decided(values, s, available, timed_out, pass)
<1>1. now \in Nat /\ s \in Nat /\ now <= s
  BY SampleType DEF TypeOK
<1>2. o \in OutputRuntime(Rules)
  BY <1>1, DecidedType
<1>3. ctrl' = Admitted(values) /\ decided_at' = s
  BY DEF Tick
<1>4. \/ \E f \in Sample(s), outcome \in Outcomes : Submit(o, s, f, outcome)
      \/ Leave(o, s)
  BY DEF Tick
<1>5. out'.episodes = o.episodes /\ out'.selected = o.selected /\ now' \in Nat /\ s <= now'
  <2> HIDE DEF o
  <2>1. CASE Leave(o, s)
    BY <1>1, <2>1, SampleType DEF Leave
  <2>2. ASSUME NEW f \in Sample(s), NEW outcome \in Outcomes, Submit(o, s, f, outcome)
        PROVE  out'.episodes = o.episodes /\ out'.selected = o.selected
                 /\ now' \in Nat /\ s <= now'
    <3>1. out' = Book(o, s, f, outcome) /\ now' \in Sample(f)
      BY <2>2 DEF Submit
    <3>2. f \in Nat /\ s <= f /\ now' \in Nat /\ f <= now'
      BY <1>1, <3>1, SampleType
    <3>3. out'.episodes = o.episodes /\ out'.selected = o.selected
      BY <1>2, <3>1, BookKeepsEpisodes
    <3> QED BY <1>1, <3>2, <3>3
  <2> QED BY <1>4, <2>1, <2>2
<1>6. /\ \A x \in Rules :
           \/ o.episodes[x] = NextEpisode(x, values, s)
           \/ /\ o.episodes[x] = EpisodeStart(NextEpisode(x, values, s), s, x.duration)
              /\ Timed(x) /\ Matches(x, Admitted(values))
      /\ o.selected # None =>
           o.selected \in Rules /\ ~ NextEpisode(o.selected, values, s).exhausted
  BY <1>1, DecidedEpisodes
<1> HIDE DEF o
<1> QED BY <1>1, <1>3, <1>5, <1>6

\* Everything else leaves the episodes and the choice alone.
LEMMA QuietEpisodes ==
  ASSUME TypeOK, Resynchronise \/ Pass \/ UNCHANGED vars
  PROVE  /\ out'.episodes = out.episodes /\ out'.selected = out.selected
         /\ ctrl' = ctrl /\ decided_at' = decided_at
         /\ now \in Nat /\ now' \in Nat /\ now <= now'
<1>1. now \in Nat /\ out \in OutputRuntime(Rules)
  BY DEF TypeOK
<1>2. CASE Resynchronise
  <2>1. PICK settle \in BOOLEAN : settle = TRUE
    OBVIOUS
  <2>2. out' = Resync(out, now, settle)
    BY <1>2, <2>1 DEF Resynchronise
  <2>3. ctrl' = ctrl /\ decided_at' = decided_at /\ now' = now
    BY <1>2 DEF Resynchronise
  <2> QED BY <1>1, <2>2, <2>3, ResyncKeepsEpisodes
<1>3. CASE Pass
  BY <1>1, <1>3 DEF Pass
<1>4. CASE UNCHANGED vars
  BY <1>1, <1>4 DEF vars
<1> QED BY <1>2, <1>3, <1>4

\* Control states have changed, and episodes have begun, no later than now.
TimeInv ==
  /\ decided_at <= now
  /\ \A x \in State : ctrl[x].last_changed # None => ctrl[x].last_changed <= now
  /\ \A r \in Rules : Begun(out.episodes[r], now)

DeadlineInv == TimeInv /\ NeverPastDeadline

\* What a tick decides at s has begun by s.
LEMMA DecidedBegun ==
  ASSUME TypeOK, TimeInv, NEW values \in Readings, NEW s \in Nat, now <= s, NEW r \in Rules
  PROVE  LET b == NextEpisode(r, values, s)
         IN  /\ b \in Episode /\ Begun(b, s) /\ Open(b, s)
             /\ r.start_on_match /\ Timed(r) /\ Matches(r, Admitted(values)) => b.start # None
             /\ Timed(r) /\ b.start = None =>
                  LET e == EpisodeStart(b, s, r.duration)
                  IN  e.start = s /\ s < e.deadline
<1>1. r \in Rule /\ out.episodes[r] \in Episode /\ now \in Nat /\ ctrl \in [State -> Tracked]
  BY RulesFacts DEF TypeOK, OutputRuntime
<1>2. Begun(out.episodes[r], s)
  <2>1. out.episodes[r].start # None => out.episodes[r].start \in Int
    BY <1>1 DEF Episode, OptTime
  <2> QED BY <1>1, <2>1 DEF TimeInv, Begun
<1>3. Admitted(values) \in Controls
  BY AdmittedType
<1>4. LET c == Admitted(values)[r.state].last_changed IN c # None => c <= s
  <2>1. r.state \in State
    BY <1>1, TimedType
  <2>2. Admitted(values)[r.state] = SetTracked(ctrl[r.state], values[r.state], now)
    BY <2>1 DEF Admitted
  <2>3. ctrl[r.state].last_changed # None
          => ctrl[r.state].last_changed \in Int /\ ctrl[r.state].last_changed <= now
    BY <1>1, <2>1 DEF TimeInv, Tracked, OptTime
  <2>4. \/ Admitted(values)[r.state].last_changed = ctrl[r.state].last_changed
        \/ Admitted(values)[r.state].last_changed = now
    BY <2>2 DEF SetTracked
  <2> QED BY <1>1, <2>3, <2>4
<1>5. LET b == NextEpisode(r, values, s)
      IN  /\ b \in Episode /\ Begun(b, s) /\ Open(b, s)
          /\ r.start_on_match /\ Timed(r) /\ Matches(r, Admitted(values)) => b.start # None
  BY <1>1, <1>2, <1>3, <1>4, AdvanceOpens DEF NextEpisode
<1>6. ASSUME Timed(r), NextEpisode(r, values, s).start = None
      PROVE  LET e == EpisodeStart(NextEpisode(r, values, s), s, r.duration)
             IN  e.start = s /\ s < e.deadline
  <2>1. r.duration \in Nat /\ r.duration > 0
    <3>1. r.duration \in Nat
      BY <1>1, <1>6, TimedType
    <3>2. r.duration >= Hold
      BY <1>1, <1>6 DEF Rule, ValidRule, Timed
    <3> QED BY <3>1, <3>2, HoldIsPositive
  <2>2. LET e == EpisodeStart(NextEpisode(r, values, s), s, r.duration)
        IN  e.start = s /\ e.deadline = s + r.duration
    BY <1>5, <1>6, <2>1, StartedNow
  <2> QED BY <2>1, <2>2
<1> QED BY <1>5, <1>6

LEMMA TickDeadline ==
  ASSUME TypeOK, DeadlineInv, NEW values \in Readings, NEW s \in Sample(now),
         NEW available \in BOOLEAN, NEW timed_out \in BOOLEAN,
         NEW pass \in BOOLEAN, Tick(values, s, available, timed_out, pass)
  PROVE  DeadlineInv'
<1>1. /\ ctrl' = Admitted(values) /\ decided_at' = s
      /\ now \in Nat /\ s \in Nat /\ now' \in Nat /\ now <= s /\ s <= now'
      /\ \A x \in Rules :
           \/ out'.episodes[x] = NextEpisode(x, values, s)
           \/ /\ out'.episodes[x] = EpisodeStart(NextEpisode(x, values, s), s, x.duration)
              /\ Timed(x) /\ Matches(x, Admitted(values))
      /\ out'.selected # None =>
           out'.selected \in Rules /\ ~ NextEpisode(out'.selected, values, s).exhausted
  BY TickEpisodes
<1>2. ASSUME NEW x \in State, ctrl'[x].last_changed # None
      PROVE  ctrl'[x].last_changed <= now'
  <2>1. ctrl'[x] = SetTracked(ctrl[x], values[x], now)
    BY <1>1 DEF Admitted
  <2>2. ctrl[x].last_changed # None => ctrl[x].last_changed \in Int /\ ctrl[x].last_changed <= now
    BY DEF TypeOK, DeadlineInv, TimeInv, Tracked, OptTime
  <2>3. ctrl'[x].last_changed = ctrl[x].last_changed \/ ctrl'[x].last_changed = now
    BY <2>1 DEF SetTracked
  <2> QED BY <1>1, <1>2, <2>2, <2>3
<1>3. ASSUME NEW r \in Rules
      PROVE  LET e == out'.episodes[r]
             IN  e.start # None => /\ e.start \in Int /\ e.start <= s
                                   /\ Timed(r) /\ ~ NextEpisode(r, values, s).exhausted => s < e.deadline
  <2> DEFINE b == NextEpisode(r, values, s)
             e == out'.episodes[r]
             g == EpisodeStart(b, s, r.duration)
  <2>1. /\ b \in Episode /\ Begun(b, s) /\ Open(b, s)
        /\ Timed(r) /\ b.start = None => g.start = s /\ s < g.deadline
    BY <1>1, DecidedBegun DEF DeadlineInv
  <2>2. e = b \/ (e = g /\ Timed(r))
    BY <1>1
  <2>3. b.start # None => g = b
    BY StartedStays
  <2>4. b.start # None => b.start \in Int
    BY <2>1 DEF Episode, OptTime
  <2> HIDE DEF b, e, g
  <2>5. e.start # None => /\ e.start \in Int /\ e.start <= s
                          /\ Timed(r) /\ ~ b.exhausted => s < e.deadline
    BY <1>1, <2>1, <2>2, <2>3, <2>4 DEF Begun, Open
  <2> QED BY <2>5 DEF b, e
<1>4. \A r \in Rules : Begun(out'.episodes[r], now')
  BY <1>1, <1>3 DEF Begun
<1>5. TimeInv'
  BY <1>1, <1>2, <1>4 DEF TimeInv, Begun
<1>6. NeverPastDeadline'
  BY <1>1, <1>3 DEF NeverPastDeadline
<1> QED BY <1>5, <1>6 DEF DeadlineInv

LEMMA DeadlineStep == TypeOK /\ DeadlineInv /\ [Next]_vars => DeadlineInv'
<1> SUFFICES ASSUME TypeOK, DeadlineInv, [Next]_vars PROVE DeadlineInv'
  OBVIOUS
<1>1. CASE \E values \in Readings, s \in Sample(now), available, timed_out, pass \in BOOLEAN :
             Tick(values, s, available, timed_out, pass)
  BY <1>1, TickDeadline
<1>2. CASE Resynchronise \/ Pass \/ UNCHANGED vars
  <2>1. /\ out'.episodes = out.episodes /\ out'.selected = out.selected
        /\ ctrl' = ctrl /\ decided_at' = decided_at
        /\ now \in Nat /\ now' \in Nat /\ now <= now'
    BY <1>2, QuietEpisodes
  <2>2. \A x \in State : ctrl[x].last_changed # None => ctrl[x].last_changed \in Int
    BY DEF TypeOK, Tracked, OptTime
  <2>3. decided_at \in Nat
    BY DEF TypeOK
  <2>4. \A r \in Rules : out.episodes[r].start # None => out.episodes[r].start \in Int
    BY DEF TypeOK, OutputRuntime, Episode, OptTime
  <2>5. \A x \in State : ctrl'[x].last_changed # None => ctrl'[x].last_changed <= now'
    BY <2>1, <2>2 DEF DeadlineInv, TimeInv
  <2>6. \A r \in Rules : out'.episodes[r].start # None => out'.episodes[r].start <= now'
    BY <2>1, <2>4 DEF DeadlineInv, TimeInv, Begun
  <2>7. TimeInv'
    BY <2>1, <2>3, <2>5, <2>6 DEF DeadlineInv, TimeInv, Begun
  <2>8. NeverPastDeadline'
    BY <2>1 DEF DeadlineInv, NeverPastDeadline
  <2> QED BY <2>7, <2>8 DEF DeadlineInv
<1> QED BY <1>1, <1>2 DEF Next

LEMMA DeadlineInit == Init => DeadlineInv
<1> SUFFICES ASSUME Init PROVE DeadlineInv
  OBVIOUS
<1>1. out.selected = None /\ \A r \in Rules : out.episodes[r].start = None
  BY DEF Init, NewOutput, DefaultEpisode
<1>2. \A x \in State : ctrl[x].last_changed = None
  BY DEF Init, UntouchedTracked
<1>3. TimeInv
  BY <1>1, <1>2 DEF Init, TimeInv, Begun
<1> QED BY <1>1, <1>3 DEF DeadlineInv, NeverPastDeadline

\* No timed rule drives the relay at or after its deadline, whatever preempted,
\* suspended, restarted or delayed it.
THEOREM DeadlineHolds == Spec => []NeverPastDeadline
<1>1. DeadlineInv => NeverPastDeadline
  BY DEF DeadlineInv
<1> QED BY <1>1, DeadlineInit, DeadlineStep, TypeCorrect, PTL DEF Spec

----------------------------------------------------------------------------
\* The step form of EpisodesAnchored.
Anchored(r) ==
  LET e == out.episodes[r]
      g == out'.episodes[r]
  IN  e.start # None =>
        \/ g.start = e.start /\ g.deadline = e.deadline /\ (e.exhausted => g.exhausted)
        \/ Trigger(r, ctrl') = No
        \/ Restarted(r, ctrl, ctrl')

LEMMA AnchoredStep == TypeOK /\ [Next]_vars => [\A r \in Rules : Anchored(r)]_vars
<1> SUFFICES ASSUME TypeOK, [Next]_vars, NEW r \in Rules,
                    out.episodes[r].start # None,
                    Trigger(r, ctrl') # No, ~ Restarted(r, ctrl, ctrl')
             PROVE  LET e == out.episodes[r]
                        g == out'.episodes[r]
                    IN  g.start = e.start /\ g.deadline = e.deadline
                          /\ (e.exhausted => g.exhausted)
  BY DEF Anchored
<1>1. r \in Rule /\ out.episodes[r] \in Episode
  BY RulesFacts DEF TypeOK, OutputRuntime
<1>2. ASSUME NEW values \in Readings, NEW s \in Sample(now),
             NEW available \in BOOLEAN, NEW timed_out \in BOOLEAN,
             NEW pass \in BOOLEAN, Tick(values, s, available, timed_out, pass)
      PROVE  LET e == out.episodes[r]
                 g == out'.episodes[r]
             IN  g.start = e.start /\ g.deadline = e.deadline /\ (e.exhausted => g.exhausted)
  <2> DEFINE e == out.episodes[r]
             b == NextEpisode(r, values, s)
             g == out'.episodes[r]
  <2>1. /\ ctrl' = Admitted(values) /\ s \in Nat
        /\ g = b \/ g = EpisodeStart(b, s, r.duration)
    BY <1>2, TickEpisodes
  <2>2. Admitted(values) \in Controls
    BY AdmittedType
  <2>3. b.start = e.start /\ b.deadline = e.deadline /\ (e.exhausted => b.exhausted)
    BY <1>1, <2>1, <2>2, AdvanceAnchored DEF NextEpisode
  <2> HIDE DEF b
  <2>4. EpisodeStart(b, s, r.duration) = b
    BY <2>3, StartedStays
  <2> QED BY <2>1, <2>3, <2>4
<1>3. CASE Resynchronise \/ Pass \/ UNCHANGED vars
  BY <1>3, QuietEpisodes
<1> QED BY <1>2, <1>3 DEF Next

\* Nothing but a rule's own trigger extends or re-arms its episode.
THEOREM AnchorsHold == Spec => EpisodesAnchored
<1>1. TypeOK /\ [Next]_vars => [\A r \in Rules : Anchored(r)]_vars
  BY AnchoredStep
<1>2. EpisodesAnchored <=> [][\A r \in Rules : Anchored(r)]_vars
  BY DEF EpisodesAnchored, Anchored
<1> QED BY <1>1, <1>2, TypeCorrect, PTL DEF Spec

----------------------------------------------------------------------------
\* Twins come out of a tick's restarts and updates as they went in: alike.
LEMMA TwinsAdvance ==
  ASSUME NEW q, NEW r, Twins(q, r), NEW e, NEW before, NEW after, NEW t
  PROVE  AfterAdvance(q, e, before, after, t) = AfterAdvance(r, e, before, after, t)
BY AlikeAdvance DEF Twins

LEMMA SharedStep == TypeOK /\ DeadlineInv /\ SharedDeadline /\ [Next]_vars => SharedDeadline'
<1> SUFFICES ASSUME TypeOK, DeadlineInv, SharedDeadline, [Next]_vars,
                    NEW q \in Rules, NEW r \in Rules, Twins(q, r)
             PROVE  out'.episodes[q] = out'.episodes[r]
  BY DEF SharedDeadline
<1>1. out.episodes[q] = out.episodes[r]
  BY DEF SharedDeadline
<1>2. ASSUME NEW values \in Readings, NEW s \in Sample(now),
             NEW available \in BOOLEAN, NEW timed_out \in BOOLEAN,
             NEW pass \in BOOLEAN, Tick(values, s, available, timed_out, pass)
      PROVE  out'.episodes[q] = out'.episodes[r]
  \* A twin that could be started by its selection has been anchored before.
  <2>1. ASSUME NEW x \in Rules, x.start_on_match
        PROVE  out'.episodes[x] = NextEpisode(x, values, s)
    <3>1. /\ now \in Nat /\ s \in Nat /\ now <= s
          /\ \/ out'.episodes[x] = NextEpisode(x, values, s)
             \/ /\ out'.episodes[x] = EpisodeStart(NextEpisode(x, values, s), s, x.duration)
                /\ Timed(x) /\ Matches(x, Admitted(values))
      BY <1>2, TickEpisodes
    <3>2. Timed(x) /\ Matches(x, Admitted(values)) => NextEpisode(x, values, s).start # None
      BY <2>1, <3>1, DecidedBegun DEF DeadlineInv
    <3> QED BY <3>1, <3>2, StartedStays
  <2>2. out'.episodes[q] = NextEpisode(q, values, s) /\ out'.episodes[r] = NextEpisode(r, values, s)
    BY <2>1 DEF Twins
  <2> QED BY <1>1, <2>2, TwinsAdvance DEF NextEpisode
<1>3. CASE Resynchronise \/ Pass \/ UNCHANGED vars
  BY <1>1, <1>3, QuietEpisodes
<1> QED BY <1>2, <1>3 DEF Next

\* Rules that anchor on the same trigger for the same time are always in the same
\* episode, whichever of them drives the relay.
THEOREM SharedHolds == Spec => []SharedDeadline
<1>1. Init => SharedDeadline
  BY DEF Init, NewOutput, SharedDeadline
<1> QED BY <1>1, DeadlineInit, DeadlineStep, SharedStep, TypeCorrect, PTL DEF Spec

=============================================================================
