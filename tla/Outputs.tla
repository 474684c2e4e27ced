------------------------------ MODULE Outputs ------------------------------
(***************************************************************************)
(* One relay output (src/outputs.rs, OutputRuntime; src/behaviors.rs,      *)
(* Episode) as operators on its record.  Nothing here has state: the       *)
(* specifications that schedule outputs apply these operators in the order *)
(* Engine::tick calls the methods they model.                              *)
(*                                                                         *)
(* A rule is a record; the rules of an output are the domain of the        *)
(* function `episodes' of its record.  OutputRuntime::new sorts the rules  *)
(* by falling priority and takes the first that applies; priorities are    *)
(* distinct, so that is the applicable rule of the highest priority.       *)
(***************************************************************************)
EXTENDS Model

CONSTANTS
  State,             \* the application states the rules read (model::State)
  Hold,              \* output_settings.min_hold_seconds
  RetryInitial,      \* mqtt_settings.publish_retry_initial_seconds
  RetryMax,          \* mqtt_settings.publish_retry_max_seconds
  RetryCap,          \* where retry_count saturates (u32::MAX, scaled down)
  Dry                \* --dry-run: decide and record, but never call the sink

ASSUME OutputsAssumption ==
  /\ Hold \in Nat \ {0}
  /\ RetryInitial \in Nat \ {0} /\ RetryMax \in Nat /\ RetryInitial <= RetryMax
  /\ RetryCap \in Nat \ {0} /\ RetryInitial * 2 ^ (RetryCap - 1) >= RetryMax
  /\ Dry \in BOOLEAN

\* What Config::validate lets through: a timed rule lasts, a blink interval
\* covers two holds, an edge is an edge, and only a timed rule is anchored or restarted.
ValidRule(r) ==
  /\ r.kind = "steady" <=> r.duration = None
  /\ r.kind = "steady" => ~ r.start_on_match /\ r.restart_on = {}
  /\ \A e \in r.restart_on : e.from # e.to
  /\ r.kind # "steady" => r.duration >= Hold
  /\ r.kind = "blink_for" => r.half >= Hold /\ r.duration >= 2 * r.half

\* An output's rule; that of an output given by a state is steady.
Rule ==
  {r \in [state : State, when : Known, priority : Int,
          kind : {"steady", "steady_for", "blink_for"}, value : Known,
          duration : Nat \cup {None}, half : Nat,
          start_on_match : BOOLEAN,
          restart_on : SUBSET [state : State, from : Known, to : Known]] :
     ValidRule(r)}

\* The rules of one output, of distinct priorities; as in every finite set of them, one
\* has the highest.
ValidRules(R) ==
  /\ R \subseteq Rule /\ R # {}
  /\ \A q, r \in R : q.priority = r.priority => q = r
  /\ \A S \in SUBSET R : S # {} => \E r \in S : \A q \in S : q.priority <= r.priority

Timed(r) == r.duration # None

----------------------------------------------------------------------------
(* Episodes: one run of a timed rule.                                      *)

Episode ==
  {e \in [start : OptTime, deadline : OptTime, exhausted : BOOLEAN] :
     /\ e.start = None <=> e.deadline = None
     /\ e.exhausted => e.start # None}

DefaultEpisode == [start |-> None, deadline |-> None, exhausted |-> FALSE]

\* Mutated forms: unknown re-arms as well; the deadline instant itself still counts.
EpisodeUpdateOnUnknown(e, matches, t) ==
  IF matches # Yes THEN DefaultEpisode
  ELSE [e EXCEPT !.exhausted = @ \/ Passed(e.deadline, t)]

EpisodeUpdateLate(e, matches, t) ==
  IF matches = No THEN DefaultEpisode
  ELSE [e EXCEPT !.exhausted = @ \/ Passed(e.deadline, t - 1)]

\* A known non-match re-arms the rule; otherwise a reached deadline exhausts it.
EpisodeUpdate(e, matches, t) ==
  IF matches = No THEN DefaultEpisode
  ELSE [e EXCEPT !.exhausted = @ \/ Passed(e.deadline, t)]

EpisodeStart(e, t, duration) ==
  IF e.start = None THEN [e EXCEPT !.start = t, !.deadline = t + duration] ELSE e

\* ON in every even half interval since the start; ON before there is a start.
Phase(e, t, half) ==
  IF e.start = None \/ ((t - e.start) \div half) % 2 = 0 THEN Yes ELSE No

\* The next flip of a running blink, cut off at its deadline.
NextPhase(e, t, half) ==
  IF e.start = None \/ e.exhausted THEN None
  ELSE SoonerOf(e.start + ((t - e.start) \div half + 1) * half, e.deadline)

----------------------------------------------------------------------------
OutputRuntime(rules) ==
  [episodes : [rules -> Episode], selected : rules \cup {None}, desired : Truth,
   last_submitted : Truth, simulated_value : Truth, eligible_at : Int,
   force : BOOLEAN, retry_at : OptTime, retry_count : 0 .. RetryCap, unresolved : BOOLEAN]

NewOutput(rules) ==
  [episodes |-> [r \in rules |-> DefaultEpisode], selected |-> None, desired |-> Unknown,
   last_submitted |-> Unknown, simulated_value |-> Unknown, eligible_at |-> Hold,
   force |-> TRUE, retry_at |-> None, retry_count |-> 0, unresolved |-> FALSE]

\* A mutated form: what was lost is sent again at once.
ResyncAtOnce(o, t, settle) == [o EXCEPT !.force = TRUE, !.eligible_at = t]

\* The next command must be sent even if it repeats the last one; after a
\* recovery it also waits a full hold.
Resync(o, t, settle) ==
  [o EXCEPT !.force = TRUE,
            !.eligible_at = IF settle THEN LaterOf(@, t + Hold) ELSE @]

\* The value the relay was last given, in dry-run the one it would have been.
Previous(o) == IF Dry THEN o.simulated_value ELSE o.last_submitted

Pending(o) == o.desired # Unknown /\ (o.force \/ o.desired # Previous(o))

MayAttempt(o, t) == t >= o.eligible_at /\ (o.retry_at # None => t >= o.retry_at)

Due(o, t) == Pending(o) /\ MayAttempt(o, t)

----------------------------------------------------------------------------
(* restart_on_transitions, over the control states before and after the    *)
(* evaluation: only admitted edges between known values restart a rule,    *)
(* and only while its own trigger matches.                                 *)

Matches(r, ctrl) == ctrl[r.state].value = r.when

Trigger(r, ctrl) ==
  CASE ctrl[r.state].value = Unknown -> Unknown
    [] Matches(r, ctrl)              -> Yes
    [] OTHER                         -> No

Restarted(r, before, ctrl) ==
  /\ Timed(r) /\ Matches(r, ctrl)
  /\ \E e \in r.restart_on : before[e.state].value = e.from /\ ctrl[e.state].value = e.to

RestartOnTransitions(o, before, ctrl, t) ==
  [o EXCEPT !.episodes =
     [r \in DOMAIN o.episodes |->
        IF ~ Restarted(r, before, ctrl) THEN o.episodes[r]
        ELSE IF r.start_on_match THEN EpisodeStart(DefaultEpisode, t, r.duration)
        ELSE DefaultEpisode]]

----------------------------------------------------------------------------
(* select: advance every rule's episode, choose the rule that drives the   *)
(* relay, derive the desired value.                                        *)

\* A mutated form: the match no longer anchors the episode.
AnchorNever(r, e, ctrl, t) == e

\* start_on_match anchors the episode at the time the trigger was admitted.
Anchor(r, e, ctrl, t) ==
  LET admitted_at == ctrl[r.state].last_changed
      at == IF admitted_at = None THEN t ELSE admitted_at
  IN  IF r.start_on_match /\ Timed(r) /\ Matches(r, ctrl) /\ e.start = None
      THEN EpisodeUpdate(EpisodeStart(e, at, r.duration), Yes, t)
      ELSE e

Advanced(o, ctrl, t) ==
  [r \in DOMAIN o.episodes |->
     Anchor(r, EpisodeUpdate(o.episodes[r], Trigger(r, ctrl), t), ctrl, t)]

Winner(episodes, ctrl) ==
  LET applicable == {r \in DOMAIN episodes : Matches(r, ctrl) /\ ~ episodes[r].exhausted}
  IN  IF applicable = {} THEN None
      ELSE CHOOSE r \in applicable : \A q \in applicable : q.priority <= r.priority

Drive(r, e, t) == IF r.kind = "blink_for" THEN Phase(e, t, r.half) ELSE r.value

\* A mutated form: the retry is forgotten, the failure is not.
ClearFailureHalf(o) == [o EXCEPT !.retry_at = None, !.retry_count = 0]

\* Nothing is left to deliver, so nothing is left to retry.
ClearFailure(o) == [o EXCEPT !.unresolved = FALSE, !.retry_at = None, !.retry_count = 0]

Select(o, ctrl, t, can_attempt, force_off, default) ==
  LET advanced == Advanced(o, ctrl, t)
      selected == IF force_off THEN None ELSE Winner(advanced, ctrl)
      \* The first eligible attempt of the chosen rule starts its episode.
      episodes ==
        IF selected # None /\ Timed(selected) /\ can_attempt /\ MayAttempt(o, t)
        THEN [advanced EXCEPT ![selected] = EpisodeStart(@, t, selected.duration)]
        ELSE advanced
      value ==
        CASE force_off -> No
          [] ~ force_off /\ selected # None -> Drive(selected, episodes[selected], t)
          [] ~ force_off /\ selected = None ->
               IF \E r \in DOMAIN episodes : ctrl[r.state].value # Unknown
               THEN default ELSE Unknown
      chosen == [o EXCEPT !.episodes = episodes, !.selected = selected, !.desired = value]
  IN  IF Pending(chosen) THEN chosen ELSE ClearFailure(chosen)

----------------------------------------------------------------------------
(* The outcome of handing a command to the sink.                           *)

Accepted(o, v, t) ==
  [o EXCEPT !.last_submitted = IF Dry THEN @ ELSE v,
            !.simulated_value = IF Dry THEN v ELSE @,
            !.eligible_at = t + Hold,
            !.force = FALSE,
            !.unresolved = FALSE, !.retry_at = None, !.retry_count = 0]

\* Exponential, bounded; the count starts at one.
Backoff(count) == SoonerOf(RetryInitial * 2 ^ (count - 1), RetryMax)

\* The relay may have received an ambiguous attempt, so that one holds too.
Failed(o, t, ambiguous) ==
  LET count == SoonerOf(o.retry_count + 1, RetryCap)
  IN  [o EXCEPT !.retry_count = count, !.unresolved = TRUE,
                !.retry_at = t + Backoff(count),
                !.eligible_at = IF ambiguous THEN LaterOf(@, t + Hold) ELSE @]

Book(o, s, f, outcome) ==
  IF outcome = "accepted" THEN Accepted(o, o.desired, f)
  ELSE Failed(o, f, outcome = "ambiguous")

=============================================================================
