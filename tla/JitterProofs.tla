---------------------------- MODULE JitterProofs ----------------------------
(***************************************************************************)
(* Proofs about the jitter filter, for every budget, cool-down and horizon.*)
(*                                                                         *)
(* BurstBudget is not inductive: it says nothing of the changes still to   *)
(* come.  IInv adds what the filter knows of the past: outside a cool-down *)
(* every change older than the last `burst' ones lies a full cool-down     *)
(* back, and a cool-down always ends Cooldown seconds after the latest one.*)
(***************************************************************************)
EXTENDS Jitter, TLAPS

\* The history of changes is ordered in time and ends with the change the filter remembers.
History ==
  /\ \A i \in 1 .. Len(edges) : edges[i] <= now
  /\ \A i, j \in 1 .. Len(edges) : i <= j => edges[i] <= edges[j]
  /\ filter.last_known_at = None <=> filter.last_known = Unknown
  /\ filter.last_known_at # None => filter.last_known_at <= now
  /\ Len(edges) > 0 => filter.last_known_at = edges[Len(edges)]

\* What the burst counter and the cool-down say about that history.
Budget ==
  /\ filter.burst <= Len(edges)
  /\ filter.cooldown # None =>
       Len(edges) > 0 /\ filter.cooldown = filter.last_known_at + Cooldown
  /\ filter.cooldown = None =>
       /\ filter.burst < MaxChanges
       /\ \A i \in 1 .. Len(edges) - filter.burst : now - edges[i] >= Cooldown

\* Whatever was admitted after raw last changed is raw itself.
Agreement ==
  /\ raw_since <= now /\ evaluated_at <= now
  /\ filter.last_known_at # None /\ filter.last_known_at > raw_since => filter.last_known = raw

IInv == TypeOK /\ History /\ Budget /\ BurstBudget

----------------------------------------------------------------------------
\* Reaching an optional deadline, unfolded for the provers.
LEMMA PassedFacts ==
  ASSUME NEW d \in OptTime, NEW t \in Int
  PROVE  /\ d # None => d \in Int
         /\ Passed(d, t) <=> d # None /\ t >= d
BY DEF OptTime, Passed

\* Setting a tracked value yields a tracked value that holds it (Tracked::set).
LEMMA SetTrackedType ==
  ASSUME NEW x \in Tracked, NEW v \in Truth, NEW t \in Int
  PROVE  SetTracked(x, v, t) \in Tracked /\ SetTracked(x, v, t).value = v
BY DEF SetTracked, Tracked, OptTime

\* What time alone does to the filter: nothing but ending the cool-down and the burst.
LEMMA RestedFacts ==
  ASSUME NEW f \in Filter, NEW t \in Int
  PROVE  LET r == Rested(f, t)
         IN  /\ r \in Filter
             /\ r.admitted = f.admitted /\ r.last_known = f.last_known
             /\ r.last_known_at = f.last_known_at
             /\ r.cooldown = IF Passed(f.cooldown, t) THEN None ELSE f.cooldown
             /\ r.burst = IF Passed(f.cooldown, t) \/ (r.cooldown = None /\ Quiet(f, t))
                          THEN 0 ELSE f.burst
<1> DEFINE c == IF Passed(f.cooldown, t) THEN None ELSE f.cooldown
           b == IF Passed(f.cooldown, t) \/ (c = None /\ Quiet(f, t)) THEN 0 ELSE f.burst
           g == [f EXCEPT !.cooldown = c]
<1>1. c \in OptTime /\ b \in 0 .. MaxChanges
  BY JitterAssumption DEF Filter, OptTime
<1> HIDE DEF c, b
<1>2. g \in Filter
  BY <1>1 DEF Filter
<1>3. [g EXCEPT !.burst = b] \in Filter
  <2> HIDE DEF g
  <2> QED BY <1>1, <1>2 DEF Filter
<1>4. Rested(f, t) = [f EXCEPT !.cooldown = c, !.burst = b]
  BY DEF Rested, c, b, Filter
<1> QED
  BY <1>1, <1>3, <1>4 DEF Filter, c, b

\* The four outcomes of Filter::update.
UnknownCase(f, v, g) ==
  /\ v = Unknown /\ g.admitted.value = v
  /\ g.last_known = f.last_known /\ g.last_known_at = f.last_known_at
  /\ g.burst = f.burst /\ g.cooldown = f.cooldown

SameCase(f, r, v, g) ==
  /\ v # Unknown /\ f.last_known = v /\ g.admitted.value = v
  /\ g.last_known = f.last_known /\ g.last_known_at = f.last_known_at
  /\ g.burst = r.burst /\ g.cooldown = r.cooldown

WithheldCase(f, r, v, g) ==
  /\ v # Unknown /\ f.last_known # v /\ r.cooldown # None /\ g.pending = v
  /\ g.last_known = f.last_known /\ g.last_known_at = f.last_known_at
  /\ g.burst = r.burst /\ g.cooldown = r.cooldown

AdmittedCase(f, r, v, t, g) ==
  /\ v # Unknown /\ f.last_known # v /\ r.cooldown = None /\ g.admitted.value = v
  /\ g.last_known = v /\ g.last_known_at = t
  /\ g.burst = IF f.last_known = Unknown THEN r.burst ELSE r.burst + 1
  /\ g.cooldown = IF g.burst >= MaxChanges THEN t + Cooldown ELSE None

\* Every update is one of the four, and yields a filter as long as an open
\* filter still has budget left.
LEMMA UpdateCases ==
  ASSUME NEW f \in Filter, NEW v \in Truth, NEW t \in Int,
         f.cooldown = None => f.burst < MaxChanges
  PROVE  LET r == Rested(f, t)
             g == FilterUpdate(f, v, t)
         IN  /\ g \in Filter
             /\ \/ UnknownCase(f, v, g)
                \/ SameCase(f, r, v, g)
                \/ WithheldCase(f, r, v, g)
                \/ AdmittedCase(f, r, v, t, g)
<1> DEFINE r == Rested(f, t)
           g == FilterUpdate(f, v, t)
<1>1. /\ r \in Filter
      /\ r.admitted = f.admitted /\ r.last_known = f.last_known
      /\ r.last_known_at = f.last_known_at
      /\ r.cooldown = None => r.burst < MaxChanges
  <2>1. /\ r \in Filter
        /\ r.admitted = f.admitted /\ r.last_known = f.last_known
        /\ r.last_known_at = f.last_known_at
        /\ r.cooldown = IF Passed(f.cooldown, t) THEN None ELSE f.cooldown
        /\ r.burst = IF Passed(f.cooldown, t) \/ (r.cooldown = None /\ Quiet(f, t))
                     THEN 0 ELSE f.burst
    BY RestedFacts
  <2>2. r.cooldown = None => r.burst = 0 \/ (f.cooldown = None /\ r.burst = f.burst)
    BY <2>1
  <2> QED BY <2>1, <2>2, JitterAssumption
<1> HIDE DEF r
<1>2. CASE v = Unknown
  <2> DEFINE a == SetTracked(f.admitted, Unknown, t)
             h == [f EXCEPT !.pending = Unknown]
  <2>1. a \in Tracked /\ a.value = Unknown
    BY SetTrackedType DEF Filter, Truth
  <2>2. h \in Filter
    BY DEF Filter, Truth
  <2>3. [h EXCEPT !.admitted = a] \in Filter
    <3> HIDE DEF h, a
    <3> QED BY <2>1, <2>2 DEF Filter
  <2>4. g = [f EXCEPT !.pending = Unknown, !.admitted = a]
    BY <1>2 DEF FilterUpdate, Filter
  <2>5. UnknownCase(f, v, g)
    <3> HIDE DEF a, g
    <3> QED BY <1>2, <2>1, <2>4 DEF UnknownCase, Filter
  <2> QED BY <2>3, <2>4, <2>5
<1>3. CASE v # Unknown /\ r.last_known = v
  <2> DEFINE a == SetTracked(r.admitted, v, t)
             h == [r EXCEPT !.pending = Unknown]
  <2>1. a \in Tracked /\ a.value = v
    BY <1>1, SetTrackedType DEF Filter
  <2>2. h \in Filter
    BY <1>1 DEF Filter, Truth
  <2>3. [h EXCEPT !.admitted = a] \in Filter
    <3> HIDE DEF h, a
    <3> QED BY <2>1, <2>2 DEF Filter
  <2>4. g = [r EXCEPT !.pending = Unknown, !.admitted = a]
    BY <1>1, <1>3 DEF FilterUpdate, Readmit, r, Filter
  <2>5. SameCase(f, r, v, g)
    <3> HIDE DEF a, g
    <3> QED BY <1>1, <1>3, <2>1, <2>4 DEF SameCase, Filter
  <2> QED BY <2>3, <2>4, <2>5 DEF r
<1>4. CASE v # Unknown /\ r.last_known # v /\ r.cooldown # None
  <2>1. g = [r EXCEPT !.pending = v]
    BY <1>4 DEF FilterUpdate, Withhold, r
  <2>2. g \in Filter
    <3> HIDE DEF g
    <3> QED BY <1>1, <2>1 DEF Filter
  <2>3. WithheldCase(f, r, v, g)
    <3> HIDE DEF g
    <3> QED BY <1>1, <1>4, <2>1 DEF WithheldCase, Filter
  <2> QED BY <2>2, <2>3 DEF r
<1>5. CASE v # Unknown /\ r.last_known # v /\ r.cooldown = None
  <2> DEFINE b == IF r.last_known = Unknown THEN r.burst ELSE r.burst + 1
             d == IF b >= MaxChanges THEN t + Cooldown ELSE r.cooldown
             a == SetTracked(r.admitted, v, t)
  <2>1. g = [admitted |-> a, last_known |-> v, last_known_at |-> t,
             burst |-> b, cooldown |-> d, pending |-> Unknown]
    BY <1>5 DEF FilterUpdate, Admit, r
  <2>2. b \in 0 .. MaxChanges
    BY <1>1, <1>5, JitterAssumption DEF Filter
  <2>3. d \in OptTime
    <3> HIDE DEF b
    <3> QED BY <2>2, <1>1, JitterAssumption DEF OptTime, Filter
  <2>4. a \in Tracked /\ a.value = v
    BY <1>1, SetTrackedType DEF Filter
  <2>5. g \in Filter
    <3> HIDE DEF a, b, d, g
    <3> QED BY <2>1, <2>2, <2>3, <2>4 DEF Filter, OptTime, Truth
  <2>6. AdmittedCase(f, r, v, t, g)
    <3> HIDE DEF a, g
    <3> QED BY <1>1, <1>5, <2>1, <2>4 DEF AdmittedCase
  <2> QED BY <2>5, <2>6 DEF r
<1> QED
  BY <1>2, <1>3, <1>4, <1>5

----------------------------------------------------------------------------
\* Appending the current time keeps the history ordered.
LEMMA AppendOrdered ==
  ASSUME NEW s \in Seq(Int), NEW t \in Int,
         \A i \in 1 .. Len(s) : s[i] <= t,
         \A i, j \in 1 .. Len(s) : i <= j => s[i] <= s[j]
  PROVE  LET e == Append(s, t)
         IN  /\ e \in Seq(Int) /\ Len(e) = Len(s) + 1 /\ e[Len(e)] = t
             /\ \A i \in 1 .. Len(s) : e[i] = s[i]
             /\ \A i \in 1 .. Len(e) : e[i] <= t
             /\ \A i, j \in 1 .. Len(e) : i <= j => e[i] <= e[j]
<1> DEFINE e == Append(s, t)
<1>1. e \in Seq(Int) /\ Len(e) = Len(s) + 1 /\ e[Len(e)] = t
  OBVIOUS
<1>2. \A i \in 1 .. Len(s) : e[i] = s[i]
  OBVIOUS
<1>3. Len(s) \in Nat /\ \A i \in 1 .. Len(s) : s[i] \in Int
  OBVIOUS
<1> HIDE DEF e
<1>4. \A i \in 1 .. Len(e) : i \in 1 .. Len(s) \/ i = Len(e)
  BY <1>1, <1>3
<1>5. \A i \in 1 .. Len(e) : e[i] <= t
  BY <1>1, <1>2, <1>4
<1>6. \A i, j \in 1 .. Len(e) : i <= j => e[i] <= e[j]
  <2> SUFFICES ASSUME NEW i \in 1 .. Len(e), NEW j \in 1 .. Len(e), i <= j
               PROVE  e[i] <= e[j]
    OBVIOUS
  <2>1. CASE j = Len(e)
    BY <2>1, <1>1, <1>5
  <2>2. CASE j \in 1 .. Len(s)
    BY <2>2, <1>2, <1>3
  <2> QED BY <2>1, <2>2, <1>4
<1> QED BY <1>1, <1>2, <1>5, <1>6

\* The inductive invariant holds initially.
LEMMA InitIInv == Init => IInv
<1> SUFFICES ASSUME Init PROVE IInv
  OBVIOUS
<1>1. DefaultFilter \in Filter
  BY JitterAssumption DEF DefaultFilter, Filter, UntouchedTracked, Tracked, Truth, Known, OptTime
<1>2. TypeOK
  BY <1>1 DEF Init, TypeOK, Truth
<1>3. Len(edges) = 0 /\ filter.burst = 0 /\ filter.cooldown = None
      /\ filter.last_known = Unknown /\ filter.last_known_at = None
  BY DEF Init, DefaultFilter
<1>4. History
  BY <1>3 DEF History
<1>5. Budget /\ BurstBudget
  BY <1>3, JitterAssumption DEF Budget, BurstBudget
<1> QED BY <1>2, <1>4, <1>5 DEF IInv

\* An evaluation preserves it, whichever of the four outcomes it has.
LEMMA EvaluateIInv ==
  ASSUME IInv, NEW v \in Truth, Evaluate(v)
  PROVE  IInv'
<1> DEFINE r == Rested(filter, now)
<1>1. /\ now \in Nat /\ now' = now /\ raw' = v /\ evaluated_at' = now
      /\ filter \in Filter /\ edges \in Seq(Int) /\ Len(edges) \in Nat
      /\ \A i \in 1 .. Len(edges) : edges[i] \in Int
      /\ raw_since \in Nat
  BY DEF IInv, TypeOK, Evaluate
<1>2. /\ filter.last_known_at \in OptTime /\ filter.cooldown \in OptTime
      /\ filter.burst \in 0 .. MaxChanges /\ filter.last_known \in Truth
  BY <1>1 DEF Filter
<1>3. /\ filter' \in Filter
      /\ \/ UnknownCase(filter, v, filter')
         \/ SameCase(filter, r, v, filter')
         \/ WithheldCase(filter, r, v, filter')
         \/ AdmittedCase(filter, r, v, now, filter')
  BY <1>1, UpdateCases DEF Evaluate, IInv, Budget
<1>4. raw_since' \in Nat
  BY <1>1 DEF Evaluate
<1>5. /\ r.cooldown = IF Passed(filter.cooldown, now) THEN None ELSE filter.cooldown
      /\ r.burst = IF Passed(filter.cooldown, now) \/ (r.cooldown = None /\ Quiet(filter, now))
                   THEN 0 ELSE filter.burst
  BY <1>1, RestedFacts
<1> HIDE DEF r
\* Rested loses no budget information.
<1>6. /\ r.burst <= Len(edges) /\ r.burst \in 0 .. MaxChanges
      /\ r.cooldown # None => r.cooldown = filter.cooldown /\ now < r.cooldown
      /\ r.cooldown # None => r.burst = filter.burst
      /\ r.cooldown = None =>
           /\ r.burst < MaxChanges
           /\ \A i \in 1 .. Len(edges) - r.burst : now - edges[i] >= Cooldown
  <2>1. CASE Passed(filter.cooldown, now)
    <3>1. r.cooldown = None /\ r.burst = 0
      BY <2>1, <1>5
    <3>2. Len(edges) > 0 /\ now >= edges[Len(edges)] + Cooldown
      BY <2>1, <1>1, <1>2 DEF Passed, IInv, Budget, History, OptTime
    <3>3. \A i \in 1 .. Len(edges) : edges[i] <= edges[Len(edges)]
      BY <1>1, <3>2 DEF IInv, History
    <3>4. \A i \in 1 .. Len(edges) : now - edges[i] >= Cooldown
      BY <3>2, <3>3, <1>1, JitterAssumption
    <3> QED BY <3>1, <3>4, <1>1, JitterAssumption
  <2>2. CASE ~ Passed(filter.cooldown, now) /\ filter.cooldown # None
    <3>1. r.cooldown = filter.cooldown /\ r.burst = filter.burst
      BY <2>2, <1>5
    <3>2. now < filter.cooldown
      BY <2>2, <1>1, <1>2 DEF Passed, OptTime
    <3> QED BY <3>1, <3>2, <2>2, <1>2 DEF IInv, Budget
  <2>3. CASE filter.cooldown = None /\ Quiet(filter, now)
    <3>1. r.cooldown = None /\ r.burst = 0
      BY <2>3, <1>5 DEF Passed
    <3>2. now - filter.last_known_at >= Cooldown /\ filter.last_known_at \in Int
      BY <2>3, <1>2 DEF Quiet, OptTime
    <3>3. \A i \in 1 .. Len(edges) : edges[i] <= filter.last_known_at
      BY <1>1 DEF IInv, History
    <3>4. \A i \in 1 .. Len(edges) : now - edges[i] >= Cooldown
      BY <3>2, <3>3, <1>1, JitterAssumption
    <3> QED BY <3>1, <3>4, <1>1, JitterAssumption
  <2>4. CASE filter.cooldown = None /\ ~ Quiet(filter, now)
    <3>1. r.cooldown = None /\ r.burst = filter.burst
      BY <2>4, <1>5 DEF Passed
    <3> QED BY <3>1, <2>4, <1>2 DEF IInv, Budget
  <2> QED BY <2>1, <2>2, <2>3, <2>4
<1>7. CASE filter.last_known = Unknown \/ filter'.last_known = filter.last_known
  <2>1. edges' = edges
    BY <1>7 DEF Evaluate
  <2>2. TypeOK'
    BY <1>1, <1>3, <1>4, <2>1 DEF TypeOK
  <2>3. BurstBudget'
    BY <2>1 DEF IInv, BurstBudget
  <2>4. History'
    <3>1. filter'.last_known = filter.last_known => filter'.last_known_at = filter.last_known_at
      BY <1>3 DEF UnknownCase, SameCase, WithheldCase, AdmittedCase
    <3>2. CASE filter'.last_known = filter.last_known
      BY <3>1, <3>2, <2>1, <1>1 DEF IInv, History
    <3>3. CASE filter.last_known = Unknown /\ filter'.last_known # filter.last_known
      <4>1. filter.last_known_at = None /\ Len(edges) = 0
        BY <3>3, <1>1, NoneAssumption DEF IInv, History
      <4>2. filter'.last_known = v /\ v # Unknown /\ filter'.last_known_at = now
        BY <3>3, <1>3 DEF UnknownCase, SameCase, WithheldCase, AdmittedCase
      <4> QED BY <4>1, <4>2, <2>1, <1>1, NoneAssumption DEF History
    <3> QED BY <3>2, <3>3, <1>7
  <2>5. Budget'
    <3>1. CASE UnknownCase(filter, v, filter')
      BY <3>1, <2>1, <1>1 DEF UnknownCase, IInv, Budget
    <3>2. CASE SameCase(filter, r, v, filter') \/ WithheldCase(filter, r, v, filter')
      <4>1. filter'.burst = r.burst /\ filter'.cooldown = r.cooldown
            /\ filter'.last_known_at = filter.last_known_at
        BY <3>2 DEF SameCase, WithheldCase
      <4> QED BY <4>1, <1>6, <2>1, <1>1 DEF IInv, Budget
    <3>3. CASE AdmittedCase(filter, r, v, now, filter')
      <4>1. filter.last_known = Unknown /\ Len(edges) = 0
        BY <3>3, <1>7, <1>1, NoneAssumption DEF AdmittedCase, IInv, History
      <4>2. filter'.burst = r.burst /\ r.burst = 0
        BY <4>1, <3>3, <1>6 DEF AdmittedCase
      <4>3. filter'.cooldown = None
        BY <4>2, <3>3, JitterAssumption DEF AdmittedCase
      <4> QED BY <4>1, <4>2, <4>3, <2>1, <1>1, JitterAssumption DEF Budget
    <3> QED BY <3>1, <3>2, <3>3, <1>3
  <2> QED BY <2>2, <2>3, <2>4, <2>5 DEF IInv
<1>8. CASE filter.last_known # Unknown /\ filter'.last_known # filter.last_known
  <2>1. edges' = Append(edges, now)
    BY <1>8 DEF Evaluate
  <2>2. AdmittedCase(filter, r, v, now, filter')
    BY <1>3, <1>8 DEF UnknownCase, SameCase, WithheldCase
  <2>3. /\ r.cooldown = None /\ v # Unknown
        /\ filter'.last_known = v /\ filter'.last_known_at = now
        /\ filter'.burst = r.burst + 1
        /\ filter'.cooldown = IF r.burst + 1 >= MaxChanges THEN now + Cooldown ELSE None
    BY <2>2, <1>8 DEF AdmittedCase
  <2>4. /\ \A i \in 1 .. Len(edges) : edges[i] <= now
        /\ \A i, j \in 1 .. Len(edges) : i <= j => edges[i] <= edges[j]
    BY DEF IInv, History
  <2>5. /\ edges' \in Seq(Int) /\ Len(edges') = Len(edges) + 1 /\ edges'[Len(edges')] = now
        /\ \A i \in 1 .. Len(edges) : edges'[i] = edges[i]
        /\ \A i \in 1 .. Len(edges') : edges'[i] <= now
        /\ \A i, j \in 1 .. Len(edges') : i <= j => edges'[i] <= edges'[j]
    BY <2>1, <2>4, <1>1, AppendOrdered
  <2>6. TypeOK'
    BY <1>1, <1>3, <1>4, <2>5 DEF TypeOK
  <2>7. History'
    BY <2>3, <2>5, <1>1, NoneAssumption DEF History
  <2>8. \A i \in 1 .. Len(edges) - r.burst : now - edges[i] >= Cooldown
    BY <2>3, <1>6
  <2>a. /\ Len(edges) \in Nat /\ Len(edges') = Len(edges) + 1
        /\ r.burst \in Nat /\ r.burst < MaxChanges /\ r.burst <= Len(edges)
        /\ filter'.burst = r.burst + 1
    BY <1>1, <1>6, <2>3, <2>5, JitterAssumption
  <2>9. Budget'
    <3>1. filter'.burst <= Len(edges')
      BY <2>3, <2>5, <1>6, <1>1
    <3>2. filter'.cooldown # None =>
            Len(edges') > 0 /\ filter'.cooldown = filter'.last_known_at + Cooldown
      BY <2>3, <2>5, <1>1
    <3>3. ASSUME filter'.cooldown = None
          PROVE  /\ filter'.burst < MaxChanges
                 /\ \A i \in 1 .. Len(edges') - filter'.burst : now' - edges'[i] >= Cooldown
      <4>1. r.burst + 1 < MaxChanges
        BY <3>3, <2>3, <1>1, <1>6, JitterAssumption, NoneAssumption
      <4>2. Len(edges') - filter'.burst = Len(edges) - r.burst
        BY <2>a
      <4>3. 1 .. Len(edges) - r.burst \subseteq 1 .. Len(edges)
        BY <2>a
      <4>4. \A i \in 1 .. Len(edges) - r.burst : now' - edges'[i] >= Cooldown
        BY <4>3, <2>5, <2>8, <1>1
      <4> QED BY <4>1, <4>2, <4>4, <2>a
    <3> QED BY <3>1, <3>2, <3>3 DEF Budget
  <2>10. BurstBudget'
    <3> SUFFICES ASSUME NEW i \in 1 .. Len(edges') - MaxChanges
                 PROVE  edges'[i + MaxChanges] - edges'[i] >= Cooldown
      BY DEF BurstBudget
    <3>1. CASE i + MaxChanges <= Len(edges)
      <4>1. i \in 1 .. Len(edges) - MaxChanges /\ i + MaxChanges \in 1 .. Len(edges)
            /\ i \in 1 .. Len(edges)
        BY <3>1, <1>1, JitterAssumption
      <4>2. edges[i + MaxChanges] - edges[i] >= Cooldown
        BY <4>1 DEF IInv, BurstBudget
      <4> QED BY <4>1, <4>2, <2>5
    <3>2. CASE i + MaxChanges = Len(edges')
      <4>1. i \in 1 .. Len(edges) - r.burst /\ i \in 1 .. Len(edges)
        BY <3>2, <2>a, JitterAssumption
      <4>2. edges'[i] = edges[i] /\ now - edges[i] >= Cooldown
        BY <4>1, <2>5, <2>8
      <4> QED BY <3>2, <4>2, <2>5
    <3>3. i + MaxChanges <= Len(edges')
      BY <2>a, JitterAssumption
    <3> QED BY <3>1, <3>2, <3>3, <2>a, JitterAssumption
  <2> QED BY <2>6, <2>7, <2>9, <2>10 DEF IInv
<1> QED
  BY <1>7, <1>8

\* Time passing preserves it: every bound it states is a lower bound on an age.
LEMMA PassIInv ==
  ASSUME IInv, Pass
  PROVE  IInv'
<1>1. /\ now' = now + 1 /\ now \in Nat /\ filter' = filter /\ edges' = edges
      /\ filter \in Filter /\ edges \in Seq(Int) /\ Len(edges) \in Nat
      /\ \A i \in 1 .. Len(edges) : edges[i] \in Int
      /\ filter.burst \in 0 .. MaxChanges
      /\ filter.last_known_at \in OptTime
  BY DEF IInv, TypeOK, Pass, Filter
<1>2. TypeOK'
  BY <1>1 DEF IInv, TypeOK, Pass
<1>3. History'
  <2>1. \A i \in 1 .. Len(edges) : edges[i] <= now + 1
    BY <1>1 DEF IInv, History
  <2>2. filter.last_known_at # None => filter.last_known_at <= now + 1
    BY <1>1 DEF IInv, History, OptTime
  <2> QED BY <1>1, <2>1, <2>2 DEF IInv, History
<1>4. Budget'
  <2>1. filter.cooldown = None =>
          \A i \in 1 .. Len(edges) - filter.burst : now + 1 - edges[i] >= Cooldown
    BY <1>1, JitterAssumption DEF IInv, Budget
  <2> QED BY <1>1, <2>1 DEF IInv, Budget
<1>5. BurstBudget'
  BY <1>1 DEF IInv, BurstBudget
<1> QED BY <1>2, <1>3, <1>4, <1>5 DEF IInv

\* IInv is an invariant of the filter.
THEOREM IInvHolds == Spec => []IInv
<1>1. IInv /\ [Next]_vars => IInv'
  <2> SUFFICES ASSUME IInv, [Next]_vars PROVE IInv'
    OBVIOUS
  <2>1. CASE Pass
    BY <2>1, PassIInv
  <2>2. CASE \E v \in Truth : Evaluate(v)
    BY <2>2, EvaluateIInv
  <2>3. CASE UNCHANGED vars
    BY <2>3 DEF vars, IInv, TypeOK, History, Budget, BurstBudget
  <2> QED BY <2>1, <2>2, <2>3 DEF Next
<1> QED BY <1>1, InitIInv, PTL DEF Spec

\* The filter is type-correct and its burst counter never passes max_changes.
THEOREM TypeCorrect == Spec => []TypeOK
<1>1. IInv => TypeOK
  BY DEF IInv
<1> QED BY <1>1, IInvHolds, PTL

\* Whatever arrives and whenever it is evaluated, any MaxChanges + 1 successive
\* admitted changes of a control state span at least one cool-down.
THEOREM BudgetHolds == Spec => []BurstBudget
<1>1. IInv => BurstBudget
  BY DEF IInv
<1> QED BY <1>1, IInvHolds, PTL

----------------------------------------------------------------------------
\* What the filter withholds, and for how long.
LagInv == Agreement /\ LagOnlyWhileCooling /\ SettlesWithinCooldown

\* An evaluation that withholds a value does so inside a cool-down that started
\* after the value had appeared.
LEMMA EvaluateLag ==
  ASSUME IInv, LagInv, NEW v \in Truth, Evaluate(v)
  PROVE  LagInv'
<1> DEFINE r == Rested(filter, now)
<1>1. /\ now \in Nat /\ now' = now /\ raw' = v /\ evaluated_at' = now
      /\ raw_since' = IF v = raw THEN raw_since ELSE now
      /\ raw_since \in Nat /\ raw_since <= now
      /\ filter \in Filter /\ filter.last_known_at \in OptTime /\ filter.cooldown \in OptTime
      /\ filter.last_known_at # None => filter.last_known_at <= now
  BY DEF IInv, TypeOK, Evaluate, LagInv, Agreement, Filter, History
<1>2. \/ UnknownCase(filter, v, filter')
      \/ SameCase(filter, r, v, filter')
      \/ WithheldCase(filter, r, v, filter')
      \/ AdmittedCase(filter, r, v, now, filter')
  BY <1>1, UpdateCases DEF Evaluate, IInv, Budget
<1>3. r.cooldown = IF Passed(filter.cooldown, now) THEN None ELSE filter.cooldown
  BY <1>1, RestedFacts
<1> HIDE DEF r
<1>4. CASE WithheldCase(filter, r, v, filter')
  <2>1. /\ v # Unknown /\ filter.last_known # v /\ filter'.pending = v
        /\ r.cooldown # None /\ filter'.cooldown = r.cooldown
        /\ filter'.last_known = filter.last_known
        /\ filter'.last_known_at = filter.last_known_at
    BY <1>4 DEF WithheldCase
  <2>2. r.cooldown = filter.cooldown /\ now < filter.cooldown /\ filter.cooldown \in Int
    BY <2>1, <1>3, <1>1 DEF Passed, OptTime
  <2>3. filter.cooldown = filter.last_known_at + Cooldown
    BY <2>1, <2>2 DEF IInv, Budget
  <2>4. filter.last_known_at # None /\ filter.last_known_at \in Int
    <3>1. Len(edges) > 0 /\ filter.last_known_at = edges[Len(edges)]
      BY <2>1, <2>2 DEF IInv, Budget, History
    <3>2. edges \in Seq(Int) /\ Len(edges) \in Nat
      BY DEF IInv, TypeOK
    <3>3. edges[Len(edges)] \in Int
      BY <3>1, <3>2
    <3> QED BY <3>1, <3>3, NoneAssumption
  <2>5. v = raw => filter.last_known_at <= raw_since
    BY <2>1, <2>4, <1>1 DEF LagInv, Agreement, OptTime
  <2>6. Agreement'
    BY <2>1, <2>4, <2>5, <1>1 DEF Agreement
  <2>7. LagOnlyWhileCooling'
    BY <2>1, <2>2, <1>1 DEF LagOnlyWhileCooling
  <2>8. now - raw_since' < Cooldown
    <3>1. CASE v = raw
      BY <3>1, <2>2, <2>3, <2>4, <2>5, <1>1, JitterAssumption
    <3>2. CASE v # raw
      BY <3>2, <1>1, JitterAssumption
    <3> QED BY <3>1, <3>2
  <2>9. SettlesWithinCooldown'
    BY <2>8, <1>1, JitterAssumption DEF SettlesWithinCooldown
  <2> QED BY <2>6, <2>7, <2>9 DEF LagInv
<1>5. CASE ~ WithheldCase(filter, r, v, filter')
  <2>1. filter'.admitted.value = v
    BY <1>2, <1>5 DEF UnknownCase, SameCase, AdmittedCase
  <2>2. LagOnlyWhileCooling' /\ SettlesWithinCooldown'
    BY <2>1, <1>1 DEF LagOnlyWhileCooling, SettlesWithinCooldown
  <2>3. Agreement'
    <3>1. CASE AdmittedCase(filter, r, v, now, filter')
      BY <3>1, <1>1 DEF AdmittedCase, Agreement
    <3>2. CASE filter'.last_known = filter.last_known
               /\ filter'.last_known_at = filter.last_known_at
      <4>1. CASE v = raw
        BY <3>2, <4>1, <1>1 DEF LagInv, Agreement
      <4>2. CASE v # raw
        BY <3>2, <4>2, <1>1 DEF Agreement, OptTime
      <4> QED BY <4>1, <4>2
    <3> QED BY <3>1, <3>2, <1>2, <1>5 DEF UnknownCase, SameCase
  <2> QED BY <2>2, <2>3 DEF LagInv
<1> QED BY <1>4, <1>5

\* The two statements about lag, with what they rest on, are invariant.
LEMMA LagInvHolds == Spec => []LagInv
<1>1. Init => LagInv
  BY NoneAssumption DEF Init, DefaultFilter, UntouchedTracked, LagInv, Agreement,
     LagOnlyWhileCooling, SettlesWithinCooldown
<1>2. IInv /\ LagInv /\ [Next]_vars => LagInv'
  <2> SUFFICES ASSUME IInv, LagInv, [Next]_vars PROVE LagInv'
    OBVIOUS
  <2>1. CASE Pass
    BY <2>1 DEF Pass, LagInv, Agreement, LagOnlyWhileCooling, SettlesWithinCooldown, IInv, TypeOK
  <2>2. CASE \E v \in Truth : Evaluate(v)
    BY <2>2, EvaluateLag
  <2>3. CASE UNCHANGED vars
    BY <2>3 DEF vars, LagInv, Agreement, LagOnlyWhileCooling, SettlesWithinCooldown
  <2> QED BY <2>1, <2>2, <2>3 DEF Next
<1> QED BY <1>1, <1>2, IInvHolds, PTL DEF Spec

\* The outputs act on something else than the evaluated state only while a
\* cool-down is running, and then the latest value is the one kept pending.
THEOREM LagHolds == Spec => []LagOnlyWhileCooling
<1>1. LagInv => LagOnlyWhileCooling
  BY DEF LagInv
<1> QED BY <1>1, LagInvHolds, PTL

\* A raw value that lasts is admitted within one cool-down of its appearance.
THEOREM SettlesHolds == Spec => []SettlesWithinCooldown
<1>1. LagInv => SettlesWithinCooldown
  BY DEF LagInv
<1> QED BY <1>1, LagInvHolds, PTL

=============================================================================
