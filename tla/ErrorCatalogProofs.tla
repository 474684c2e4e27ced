------------------------- MODULE ErrorCatalogProofs -------------------------
(***************************************************************************)
(* Proofs about ErrorCatalog: its types, the discipline of its locks, that *)
(* what is about to be written is made from what the file still holds, and *)
(* that the tool implements AtomicCatalog.  For any number of processes,   *)
(* files, keys and codes, and any environments.                            *)
(***************************************************************************)
EXTENDS ErrorCatalog, SequenceTheorems, TLAPS

\* The locks of a command that writes, in the order in which it takes them.
Locks(c) == IF c.input = c.output THEN <<c.input>> ELSE <<c.input, c.output>>

\* What a process may hold: at most two locks, of different files.
Hands == {<<>>} \cup {<<a>> : a \in Path}
           \cup {<<x[1], x[2]>> : x \in {y \in Path \X Path : y[1] # y[2]}}

\* Which locks a process holds at each stage, and that they are its own.
LockInv ==
  /\ \A p \in Process :
       /\ holds[p] \in Hands
       /\ Range(holds[p]) \subseteq locked
       /\ stage[p] \in {"idle", "lock_input"} => holds[p] = <<>>
       /\ stage[p] = "lock_output" => /\ holds[p] = <<command[p].input>>
                                      /\ command[p].input # command[p].output
       /\ stage[p] = "load" /\ Writes(command[p]) => holds[p] = Locks(command[p])
       /\ stage[p] = "replace" => holds[p] = Locks(command[p])
  /\ \A p, q \in Process : p # q => Range(holds[p]) \cap Range(holds[q]) = {}

\* "Cooperating writers lock before reading, so concurrent CLI mutations cannot lose
\* updates" (error_gen.rs): what is about to be written is still made from what the file
\* holds now, and loads.
PreparedIsCurrent ==
  \A p \in Process :
    stage[p] = "replace" =>
      /\ Loads(Read(command[p]), p) /\ Loads(prepared[p], p)
      /\ prepared[p] \in Results(command[p].kind, Read(command[p]), p)

\* Only commands that write get as far as to lock and to write.
WritingInv ==
  \A p \in Process :
    stage[p] \in {"lock_input", "lock_output", "replace"} => Writes(command[p])

----------------------------------------------------------------------------
(* Locks as sequences.                                                     *)

LEMMA HandsAre ==
  ASSUME NEW s
  PROVE  s \in Hands <=> \/ s = <<>>
                         \/ \E a \in Path : s = <<a>>
                         \/ \E a, b \in Path : a # b /\ s = <<a, b>>
BY DEF Hands

LEMMA EmptyHands == Range(<<>>) = {}
BY DEF Range

LEMMA OneHand ==
  ASSUME NEW a
  PROVE  /\ Range(<<a>>) = {a} /\ Append(<<>>, a) = <<a>>
         /\ Front(<<a>>) = <<>> /\ Last(<<a>>) = a
<1>1. DOMAIN <<a>> = {1}
  OBVIOUS
<1>2. Range(<<a>>) = {a}
  BY <1>1 DEF Range
<1> QED
  BY <1>2 DEF Front, Last

LEMMA TwoHands ==
  ASSUME NEW a, NEW b
  PROVE  /\ Range(<<a, b>>) = {a, b} /\ Append(<<a>>, b) = <<a, b>>
         /\ Front(<<a, b>>) = <<a>> /\ Last(<<a, b>>) = b
<1>1. DOMAIN <<a, b>> = {1, 2}
  OBVIOUS
<1>2. Range(<<a, b>>) = {a, b}
  BY <1>1 DEF Range
<1>3. Front(<<a, b>>) = <<a>>
  <2> DEFINE two == <<a, b>>
  <2>1. two[1] = a /\ two[2] = b /\ Len(two) = 2
    OBVIOUS
  <2>2. \A i \in 1 .. 1 : two[i] \in {a}
    BY <2>1
  <2> HIDE DEF two
  <2>3. /\ SubSeq(two, 1, 1) \in Seq({a}) /\ Len(SubSeq(two, 1, 1)) = 1
        /\ SubSeq(two, 1, 1)[1] = a
    <3>1. /\ SubSeq(two, 1, 1) \in Seq({a})
          /\ Len(SubSeq(two, 1, 1)) = IF 1 <= 1 THEN 1 - 1 + 1 ELSE 0
          /\ \A i \in 1 .. 1 - 1 + 1 : SubSeq(two, 1, 1)[i] = two[1 + i - 1]
      BY <2>2, SubSeqProperties
    <3> QED
      BY <3>1, <2>1
  <2>4. <<a>> \in Seq({a}) /\ Len(<<a>>) = 1 /\ <<a>>[1] = a
    OBVIOUS
  <2> DEFINE front == SubSeq(two, 1, 1)
             one == <<a>>
  <2>5. SubSeq(two, 1, 1) = <<a>>
    <3>1. front \in Seq({a}) /\ one \in Seq({a}) /\ Len(front) = Len(one)
      BY <2>3, <2>4
    <3>2. \A i \in 1 .. Len(front) : front[i] = one[i]
      BY <2>3, <2>4
    <3> HIDE DEF front, one
    <3>3. front = one
      BY <3>1, <3>2, SeqEqual
    <3> QED
      BY <3>3 DEF front, one
  <2>6. Front(two) = SubSeq(two, 1, 1)
    BY <2>1 DEF Front
  <2> QED
    BY <2>5, <2>6 DEF two
<1>4. Append(<<a>>, b) = <<a, b>>
  <2> DEFINE one == <<a>>
             longer == Append(one, b)
             two == <<a, b>>
  <2>1. one \in Seq({a, b}) /\ Len(one) = 1 /\ one[1] = a
    OBVIOUS
  <2>2. two \in Seq({a, b}) /\ Len(two) = 2 /\ two[1] = a /\ two[2] = b
    OBVIOUS
  <2> HIDE DEF one, two
  <2>3. longer \in Seq({a, b}) /\ Len(longer) = 2 /\ longer[1] = a /\ longer[2] = b
    <3> DEFINE pair == {a, b}
    <3>0. b \in pair /\ one \in Seq(pair)
      BY <2>1
    <3>1. /\ longer \in Seq(pair) /\ Len(longer) = Len(one) + 1
          /\ \A i \in 1 .. Len(one) : longer[i] = one[i]
          /\ longer[Len(one) + 1] = b
      <4> HIDE DEF pair
      <4> QED
        BY <3>0, AppendProperties
    <3> HIDE DEF longer
    <3> QED
      BY <3>1, <2>1
  <2> HIDE DEF longer
  <2>4. Len(longer) = Len(two) /\ \A i \in 1 .. Len(longer) : longer[i] = two[i]
    BY <2>2, <2>3
  <2>5. longer = two
    BY <2>2, <2>3, <2>4, SeqEqual
  <2> QED
    BY <2>5 DEF longer, one, two
<1>5. Last(<<a, b>>) = b
  BY DEF Last
<1> QED
  BY <1>2, <1>3, <1>4, <1>5

\* The hands are sequences of paths.
LEMMA HandsType == Hands \subseteq Seq(Path)
<1> SUFFICES ASSUME NEW s \in Hands PROVE s \in Seq(Path)
  OBVIOUS
<1>1. CASE s = <<>>
  BY <1>1
<1>2. ASSUME NEW a \in Path, s = <<a>> PROVE s \in Seq(Path)
  BY <1>2
<1>3. ASSUME NEW a \in Path, NEW b \in Path, s = <<a, b>> PROVE s \in Seq(Path)
  BY <1>3
<1> QED
  BY <1>1, <1>2, <1>3, HandsAre

\* Unlock drops one lock and keeps the others.
LEMMA Dropped ==
  ASSUME NEW s \in Hands, s # <<>>
  PROVE  /\ Front(s) \in Hands
         /\ Range(Front(s)) = Range(s) \ {Last(s)}
         /\ Last(s) \in Range(s)
<1>1. CASE \E a \in Path : s = <<a>>
  BY <1>1, HandsAre, EmptyHands, OneHand
<1>2. CASE \E a, b \in Path : a # b /\ s = <<a, b>>
  <2>1. PICK a \in Path, b \in Path : a # b /\ s = <<a, b>>
    BY <1>2
  <2>2. Front(s) = <<a>> /\ Last(s) = b /\ Range(s) = {a, b} /\ Range(<<a>>) = {a}
    BY <2>1, OneHand, TwoHands
  <2>3. <<a>> \in Hands
    BY HandsAre
  <2> QED
    BY <2>1, <2>2, <2>3
<1> QED
  BY <1>1, <1>2, HandsAre

LEMMA LocksRange ==
  ASSUME NEW c \in Command
  PROVE  Locks(c) \in Hands /\ Range(Locks(c)) = {c.input, c.output}
<1>1. c.input \in Path /\ c.output \in Path
  BY DEF Command
<1>2. CASE c.input = c.output
  BY <1>1, <1>2, OneHand, HandsAre DEF Locks
<1>3. CASE c.input # c.output
  BY <1>1, <1>3, TwoHands, HandsAre DEF Locks
<1> QED
  BY <1>2, <1>3

----------------------------------------------------------------------------
(* Types.                                                                  *)

LEMMA StartType ==
  ASSUME TypeOK, NEW p \in Process, Start(p)
  PROVE  TypeOK'
<1>1. PICK c \in Invocations : /\ command' = [command EXCEPT ![p] = c]
                               /\ stage' = [stage EXCEPT ![p] = FirstStage(c)]
  BY DEF Start
<1>2. c \in Command /\ c # None
  BY InvocationsAssumption
<1>3. FirstStage(c) \in {"lock_input", "load"}
  BY DEF FirstStage
<1> QED
  BY <1>1, <1>2, <1>3 DEF Start, TypeOK, Stage

LEMMA OverType ==
  ASSUME TypeOK, NEW p \in Process, NEW how \in {"idle", "done", "failed"}, Over(p, how),
         file' \in [Path -> Content], locked' \subseteq Path,
         holds' \in [Process -> Seq(Path)]
  PROVE  TypeOK'
BY DEF Over, TypeOK, Stage

LEMMA AcquireType ==
  ASSUME TypeOK, NEW p \in Process, Acquire(p)
  PROVE  TypeOK'
<1>1. AfterLock(p) \in {"lock_output", "load"}
  BY DEF AfterLock
<1>2. Wanted(p) \in Path
  BY DEF Acquire, Locking, Wanted, TypeOK, Command
<1>3. Append(holds[p], Wanted(p)) \in Seq(Path)
  BY <1>2 DEF TypeOK
<1> QED
  BY <1>1, <1>2, <1>3 DEF Acquire, Locking, TypeOK, Stage

LEMMA PrepareType ==
  ASSUME TypeOK, NEW p \in Process, Prepare(p)
  PROVE  TypeOK'
<1>1. PICK new : Loads(new, p) /\ prepared' = [prepared EXCEPT ![p] = new]
  BY DEF Prepare
<1>2. new \in Catalog /\ new # None
  BY <1>1, CatalogAssumption DEF Loads
<1> QED
  BY <1>1, <1>2 DEF Prepare, TypeOK, Stage

LEMMA ReplaceType ==
  ASSUME TypeOK, NEW p \in Process, Replace(p)
  PROVE  TypeOK'
<1>1. command[p] \in Command /\ prepared[p] \in Catalog
  BY DEF Replace, TypeOK
<1>2. command[p].output \in Path /\ prepared[p] \in Content
  BY <1>1 DEF Command, Content
<1> QED
  BY <1>2, OverType DEF Replace, TypeOK

LEMMA UnlockType ==
  ASSUME TypeOK, NEW p \in Process, Unlock(p)
  PROVE  TypeOK'
<1>1. Front(holds[p]) \in Seq(Path)
  <2>1. holds[p] \in Seq(Path)
    BY DEF TypeOK
  <2>2. /\ 1 \in Int /\ Len(holds[p]) - 1 \in Int
        /\ \A i \in 1 .. Len(holds[p]) - 1 : holds[p][i] \in Path
    BY <2>1
  <2> QED
    BY <2>2, SubSeqProperties DEF Front
<1> QED
  BY <1>1 DEF Unlock, TypeOK

LEMMA TypeStep ==
  ASSUME TypeOK, Next
  PROVE  TypeOK'
<1>1. ASSUME NEW p \in Process, Start(p) \/ Step(p) \/ Killed(p)
      PROVE  TypeOK'
  <2>1. CASE Busy(p) \/ Look(p) \/ Refuse(p)
    BY <2>1, OverType DEF Busy, Look, Refuse, Refused, TypeOK
  <2>2. CASE Exit(p)
    BY <2>2 DEF Exit, TypeOK, Stage
  <2>3. CASE Killed(p)
    <3>1. holds' \in [Process -> Seq(Path)]
      BY <2>3 DEF Killed, TypeOK
    <3> QED
      BY <2>3, <3>1, OverType DEF Killed, TypeOK
  <2> QED
    BY <1>1, <2>1, <2>2, <2>3, StartType, AcquireType, PrepareType, ReplaceType, UnlockType
       DEF Step
<1>2. ASSUME NEW path \in Path, RemoveStaleLock(path)
      PROVE  TypeOK'
  BY <1>2 DEF RemoveStaleLock, TypeOK
<1> QED
  BY <1>1, <1>2 DEF Next

----------------------------------------------------------------------------
(* Locks.                                                                  *)

\* One process acts: what it holds is still its own and locked, so is what the others hold.
LEMMA OwnLocks ==
  ASSUME TypeOK, LockInv, NEW p \in Process,
         \A q \in Process \ {p} : /\ holds'[q] = holds[q] /\ stage'[q] = stage[q]
                                  /\ command'[q] = command[q]
                                  /\ Range(holds[q]) \subseteq locked'
                                  /\ Range(holds'[p]) \cap Range(holds[q]) = {},
         holds'[p] \in Hands, Range(holds'[p]) \subseteq locked',
         stage'[p] \in {"idle", "lock_input"} => holds'[p] = <<>>,
         stage'[p] = "lock_output" => /\ holds'[p] = <<command'[p].input>>
                                      /\ command'[p].input # command'[p].output,
         stage'[p] = "load" /\ Writes(command'[p]) => holds'[p] = Locks(command'[p]),
         stage'[p] = "replace" => holds'[p] = Locks(command'[p])
  PROVE  LockInv'
BY DEF LockInv, Writes, Locks

LEMMA StartLocks ==
  ASSUME TypeOK, LockInv, NEW p \in Process, Start(p)
  PROVE  LockInv'
<1>1. PICK c \in Invocations : /\ command' = [command EXCEPT ![p] = c]
                               /\ stage' = [stage EXCEPT ![p] = FirstStage(c)]
  BY DEF Start
<1>2. command'[p] = c /\ stage'[p] = FirstStage(c)
  BY <1>1 DEF TypeOK
<1>3. holds[p] = <<>>
  BY DEF LockInv, Start
<1>4. \A q \in Process \ {p} : /\ stage'[q] = stage[q] /\ command'[q] = command[q]
                               /\ Range(holds[q]) \subseteq locked
                               /\ Range(holds[p]) \cap Range(holds[q]) = {}
  BY <1>1 DEF TypeOK, LockInv
<1>5. holds[p] \in Hands /\ Range(holds[p]) \subseteq locked
  BY DEF LockInv
<1>6. FirstStage(c) = "load" => ~ Writes(c)
  BY DEF FirstStage
<1>7. FirstStage(c) \in {"load", "lock_input"}
  BY DEF FirstStage
<1>8. holds' = holds /\ locked' = locked
  BY DEF Start
<1> QED
  BY <1>2, <1>3, <1>4, <1>5, <1>6, <1>7, <1>8, OwnLocks

\* A command that is over needs no locks any more.
LEMMA OverLocks ==
  ASSUME TypeOK, LockInv, NEW p \in Process, NEW how \in {"done", "failed"}, Over(p, how),
         UNCHANGED <<locked, holds>>
  PROVE  LockInv'
<1>1. stage'[p] = how
  BY DEF Over, TypeOK
<1>2. \A q \in Process \ {p} : /\ stage'[q] = stage[q] /\ command'[q] = command[q]
                               /\ Range(holds[q]) \subseteq locked
                               /\ Range(holds[p]) \cap Range(holds[q]) = {}
  BY DEF Over, TypeOK, LockInv
<1>3. holds[p] \in Hands /\ Range(holds[p]) \subseteq locked
  BY DEF LockInv
<1> QED
  BY <1>1, <1>2, <1>3, OwnLocks

LEMMA AcquireLocks ==
  ASSUME TypeOK, LockInv, NEW p \in Process, Acquire(p)
  PROVE  LockInv'
<1> DEFINE c == command[p]
<1>1. c.input \in Path /\ c.output \in Path
  BY DEF Acquire, Locking, TypeOK, Command
<1>2. /\ holds'[p] = Append(holds[p], Wanted(p)) /\ stage'[p] = AfterLock(p)
      /\ command' = command /\ locked' = locked \cup {Wanted(p)}
      /\ \A q \in Process \ {p} : holds'[q] = holds[q] /\ stage'[q] = stage[q]
  BY DEF Acquire, TypeOK
<1>3. /\ holds'[p] \in Hands
      /\ Range(holds'[p]) = Range(holds[p]) \cup {Wanted(p)}
      /\ stage'[p] \in {"lock_output", "load"}
      /\ stage'[p] = "lock_output" => holds'[p] = <<c.input>> /\ c.input # c.output
      /\ stage'[p] = "load" => holds'[p] = Locks(c)
  <2>1. CASE stage[p] = "lock_input"
    <3>1. holds[p] = <<>> /\ Wanted(p) = c.input
      BY <2>1 DEF LockInv, Wanted
    <3>2. holds'[p] = <<c.input>> /\ Range(holds'[p]) = {c.input} /\ Range(holds[p]) = {}
      BY <3>1, <1>2, OneHand, EmptyHands
    <3>3. holds'[p] \in Hands
      BY <3>2, <1>1, HandsAre
    <3>4. stage'[p] = IF c.output # c.input THEN "lock_output" ELSE "load"
      BY <2>1, <1>2 DEF AfterLock
    <3> QED
      BY <3>1, <3>2, <3>3, <3>4 DEF Locks
  <2>2. CASE stage[p] = "lock_output"
    <3>1. holds[p] = <<c.input>> /\ Wanted(p) = c.output /\ c.input # c.output
      BY <2>2 DEF LockInv, Wanted
    <3>2. /\ holds'[p] = <<c.input, c.output>> /\ Range(holds'[p]) = {c.input, c.output}
          /\ Range(holds[p]) = {c.input}
      <4>1. /\ Append(<<c.input>>, c.output) = <<c.input, c.output>>
            /\ Range(<<c.input, c.output>>) = {c.input, c.output}
        BY TwoHands
      <4>2. Range(<<c.input>>) = {c.input}
        BY OneHand
      <4>3. holds'[p] = Append(<<c.input>>, c.output)
        BY <3>1, <1>2
      <4> QED
        BY <3>1, <4>1, <4>2, <4>3
    <3>3. holds'[p] \in Hands
      BY <3>1, <3>2, <1>1, HandsAre
    <3>4. stage'[p] = "load"
      BY <2>2, <1>2 DEF AfterLock
    <3> QED
      BY <3>1, <3>2, <3>3, <3>4 DEF Locks
  <2> QED
    BY <2>1, <2>2 DEF Acquire, Locking
<1>4. /\ Range(holds'[p]) \subseteq locked'
      /\ \A q \in Process \ {p} : /\ Range(holds[q]) \subseteq locked'
                                  /\ Range(holds'[p]) \cap Range(holds[q]) = {}
  BY <1>2, <1>3 DEF LockInv, Acquire
<1> QED
  BY <1>2, <1>3, <1>4, OwnLocks

LEMMA PrepareLocks ==
  ASSUME TypeOK, LockInv, NEW p \in Process, Prepare(p)
  PROVE  LockInv'
<1>1. /\ stage[p] = "load" /\ Writes(command[p]) /\ stage'[p] = "replace"
      /\ UNCHANGED <<locked, command, holds>>
      /\ \A q \in Process \ {p} : stage'[q] = stage[q]
  BY DEF Prepare, TypeOK
<1>2. holds[p] = Locks(command[p]) /\ holds[p] \in Hands /\ Range(holds[p]) \subseteq locked
  BY <1>1 DEF LockInv
<1>3. \A q \in Process \ {p} : /\ Range(holds[q]) \subseteq locked
                               /\ Range(holds[p]) \cap Range(holds[q]) = {}
  BY DEF LockInv
<1> QED
  BY <1>1, <1>2, <1>3, OwnLocks

LEMMA UnlockLocks ==
  ASSUME TypeOK, LockInv, NEW p \in Process, Unlock(p)
  PROVE  LockInv'
<1>1. /\ stage[p] \in {"done", "failed"} /\ stage' = stage /\ command' = command
      /\ holds'[p] = Front(holds[p])
      /\ locked \ {Last(holds[p])} \subseteq locked'
      /\ \A q \in Process \ {p} : holds'[q] = holds[q]
  BY DEF Unlock, TypeOK
<1>2. holds[p] \in Hands /\ holds[p] # <<>>
  BY DEF LockInv, Unlock
<1>3. /\ holds'[p] \in Hands /\ Range(holds'[p]) = Range(holds[p]) \ {Last(holds[p])}
      /\ Last(holds[p]) \in Range(holds[p])
  BY <1>1, <1>2, Dropped
<1>4. Range(holds'[p]) \subseteq locked'
  BY <1>1, <1>3 DEF LockInv
<1>5. \A q \in Process \ {p} : /\ Range(holds[q]) \subseteq locked'
                               /\ Range(holds'[p]) \cap Range(holds[q]) = {}
  BY <1>1, <1>3 DEF LockInv
<1> QED
  BY <1>1, <1>3, <1>4, <1>5, OwnLocks

\* A process that leaves leaves its lock files, which are nobody's then.
LEMMA LeaveLocks ==
  ASSUME TypeOK, LockInv, NEW p \in Process, Exit(p) \/ Killed(p)
  PROVE  LockInv'
<1>1. /\ stage'[p] = "idle" /\ holds'[p] = <<>> /\ locked' = locked
      /\ \A q \in Process \ {p} : /\ stage'[q] = stage[q] /\ command'[q] = command[q]
                                  /\ holds'[q] = holds[q]
  BY DEF Exit, Killed, Over, TypeOK
<1>2. holds'[p] \in Hands /\ Range(holds'[p]) = {}
  BY <1>1, HandsAre, EmptyHands
<1>3. \A q \in Process \ {p} : Range(holds[q]) \subseteq locked
  BY DEF LockInv
<1> QED
  BY <1>1, <1>2, <1>3, OwnLocks

LEMMA LockStep ==
  ASSUME TypeOK, LockInv, Next
  PROVE  LockInv'
<1>1. ASSUME NEW p \in Process, Start(p) \/ Step(p) \/ Killed(p)
      PROVE  LockInv'
  <2>1. CASE Busy(p) \/ Look(p) \/ Replace(p) \/ Refuse(p)
    BY <2>1, OverLocks DEF Busy, Look, Replace, Refuse, Refused
  <2> QED
    BY <1>1, <2>1, StartLocks, AcquireLocks, PrepareLocks, UnlockLocks, LeaveLocks DEF Step
<1>2. ASSUME NEW path \in Path, RemoveStaleLock(path)
      PROVE  LockInv'
  <2>1. \A p \in Process : holds[p] = <<>>
    BY <1>2 DEF RemoveStaleLock, Writing
  <2>2. \A p \in Process : Range(holds[p]) = {}
    BY <2>1, EmptyHands
  <2> QED
    BY <1>2, <2>2 DEF RemoveStaleLock, LockInv, Writes, Locks
<1> QED
  BY <1>1, <1>2 DEF Next

----------------------------------------------------------------------------
(* What is prepared.                                                       *)

\* While a command is about to write, nobody else writes what it has read.
LEMMA ReadStays ==
  ASSUME TypeOK, LockInv, NEW p \in Process, stage[p] = "replace",
         NEW q \in Process, q # p, Replace(q)
  PROVE  file'[command[p].input] = file[command[p].input]
<1>1. stage[q] = "replace" /\ file' = [file EXCEPT ![command[q].output] = prepared[q]]
  BY DEF Replace
<1>2. command[p] \in Command /\ command[q] \in Command
  BY <1>1 DEF TypeOK
<1>3. command[p].input \in Range(holds[p]) /\ command[q].output \in Range(holds[q])
  BY <1>1, <1>2, LocksRange DEF LockInv
<1>4. command[p].input # command[q].output
  BY <1>3 DEF LockInv
<1>5. command[p].input \in Path
  BY <1>2 DEF Command
<1> QED
  BY <1>1, <1>4, <1>5 DEF TypeOK

LEMMA PreparedStep ==
  ASSUME TypeOK, LockInv, PreparedIsCurrent, Next
  PROVE  PreparedIsCurrent'
<1> SUFFICES ASSUME NEW p \in Process, stage'[p] = "replace"
             PROVE  /\ Loads(Read(command[p])', p) /\ Loads(prepared'[p], p)
                    /\ prepared'[p] \in Results(command'[p].kind, Read(command[p])', p)
  BY DEF PreparedIsCurrent, Loads, Results
<1>1. ASSUME stage[p] = "replace", UNCHANGED <<stage[p], command[p], prepared[p]>>,
             file'[command[p].input] = file[command[p].input]
      PROVE  /\ Loads(Read(command[p])', p) /\ Loads(prepared'[p], p)
             /\ prepared'[p] \in Results(command'[p].kind, Read(command[p])', p)
  <2>1. Read(command[p])' = Read(command[p])
    BY <1>1 DEF Read, Entries
  <2> QED
    BY <1>1, <2>1 DEF PreparedIsCurrent
<1>2. ASSUME NEW q \in Process, q # p, Start(q) \/ Step(q) \/ Killed(q)
      PROVE  /\ stage[p] = "replace" /\ UNCHANGED <<stage[p], command[p], prepared[p]>>
             /\ file'[command[p].input] = file[command[p].input]
  <2>1. UNCHANGED <<stage[p], command[p], prepared[p]>>
    BY <1>2 DEF Start, Step, Acquire, Busy, Look, Prepare, Replace, Refuse, Refused, Unlock,
                Exit, Killed, Over, TypeOK
  <2>2. stage[p] = "replace"
    BY <2>1
  <2>3. CASE Replace(q)
    BY <2>1, <2>2, <2>3, <1>2, ReadStays
  <2>4. CASE ~ Replace(q)
    BY <1>2, <2>1, <2>2, <2>4 DEF Start, Step, Acquire, Busy, Look, Prepare, Refuse, Refused,
                                  Unlock, Exit, Killed
  <2> QED
    BY <2>1, <2>2, <2>3, <2>4
<1>3. ASSUME Start(p) \/ Step(p) \/ Killed(p)
      PROVE  Prepare(p)
  <2>1. stage[p] \in Stage /\ stage'[p] \notin {"idle", "done", "failed"}
    BY DEF TypeOK
  <2>2. ~ Start(p)
    BY DEF Start, FirstStage, TypeOK
  <2>3. ~ Acquire(p)
    BY DEF Acquire, AfterLock, TypeOK
  <2>4. ~ (Unlock(p) \/ Exit(p))
    BY DEF Unlock, Exit, TypeOK
  <2>5. ~ (Busy(p) \/ Look(p) \/ Replace(p) \/ Refuse(p) \/ Killed(p))
    BY DEF Busy, Look, Replace, Refuse, Refused, Killed, Over, TypeOK
  <2> QED
    BY <1>3, <2>2, <2>3, <2>4, <2>5 DEF Step
<1>4. CASE Prepare(p)
  <2>1. PICK new \in Results(command[p].kind, Read(command[p]), p) :
               Loads(new, p) /\ prepared' = [prepared EXCEPT ![p] = new]
    BY <1>4 DEF Prepare
  <2>2. Loads(Read(command[p]), p) /\ command' = command /\ file' = file
    BY <1>4 DEF Prepare
  <2>3. prepared'[p] = new
    BY <2>1 DEF TypeOK
  <2>4. Read(command[p])' = Read(command[p])
    BY <2>2 DEF Read, Entries
  <2> QED
    BY <2>1, <2>2, <2>3, <2>4
<1>5. CASE \E path \in Path : RemoveStaleLock(path)
  BY <1>1, <1>5 DEF RemoveStaleLock
<1>6. CASE \E q \in Process : q # p /\ (Start(q) \/ Step(q) \/ Killed(q))
  BY <1>1, <1>2, <1>6
<1> QED
  BY <1>3, <1>4, <1>5, <1>6 DEF Next

----------------------------------------------------------------------------
(* What the commands make of a catalog is what was asked for.              *)

LEMMA ResultsAre ==
  ASSUME NEW catalog, NEW p
  PROVE  /\ Results("add", catalog, p) = Added(catalog, p)
         /\ Results("rename", catalog, p) = Renamed(catalog)
         /\ Results("recode", catalog, p) = Recoded(catalog, p)
         /\ Results("delete", catalog, p) = Deleted(catalog)
         /\ Results("export", catalog, p) = {catalog}
BY DEF Results

LEMMA CatalogIs ==
  ASSUME NEW catalog \in Catalog
  PROVE  /\ DOMAIN catalog \subseteq Key
         /\ \A k \in DOMAIN catalog : catalog[k] \in Entry
BY DEF Catalog

LEMMA AddIsAdd ==
  ASSUME NEW old \in Catalog, NEW p \in Process, NEW new \in Added(old, p)
  PROVE  Atomic!Adds(old, new)
<1>1. PICK key \in Key \ DOMAIN old, code \in Code \ Used(old, p) : new = With(old, key, code)
  BY DEF Added
<1>2. /\ DOMAIN new = DOMAIN old \cup {key} /\ new[key] = code
      /\ \A k \in DOMAIN old : k # key => new[k] = old[k]
  BY <1>1 DEF With
<1>3. Atomic!Others({key}, old, new)
  BY <1>2 DEF Atomic!Others
<1> QED
  BY <1>1, <1>2, <1>3 DEF Atomic!Adds

LEMMA DeleteIsDelete ==
  ASSUME NEW old \in Catalog, NEW new \in Deleted(old)
  PROVE  Atomic!Deletes(old, new)
<1>1. PICK key \in DOMAIN old : new = Without(old, key)
  BY DEF Deleted
<1>2. /\ DOMAIN new = DOMAIN old \ {key}
      /\ \A k \in DOMAIN old : k # key => new[k] = old[k]
  BY <1>1 DEF Without
<1>3. Atomic!Others({key}, old, new)
  BY <1>2 DEF Atomic!Others
<1> QED
  BY <1>2, <1>3 DEF Atomic!Deletes

\* An edit moves one entry and leaves all others alone.
LEMMA EditMoves ==
  ASSUME NEW old \in Catalog, NEW e \in Edits(old), NEW entry
  PROVE  /\ e.key \in DOMAIN old /\ e.target \in Key
         /\ Atomic!Moves(old, Edited(old, e, entry), e.key, e.target)
         /\ Edited(old, e, entry)[e.target] = entry
<1> DEFINE rest == Without(old, e.key)
           new == Edited(old, e, entry)
<1>1. /\ DOMAIN rest = DOMAIN old \ {e.key}
      /\ \A k \in DOMAIN rest : rest[k] = old[k]
  BY DEF Without
<1>2. new = With(rest, e.target, entry)
  BY DEF Edited
<1> HIDE DEF rest, new
<1>3. /\ DOMAIN new = DOMAIN rest \cup {e.target} /\ new[e.target] = entry
      /\ \A k \in DOMAIN rest : k # e.target => new[k] = rest[k]
  BY <1>2 DEF With
<1>4. /\ e.key \in DOMAIN old /\ e.target \in Key
      /\ e.target = e.key \/ e.target \notin DOMAIN old
  BY DEF Edits
<1>5. Atomic!Others({e.key, e.target}, old, new)
  BY <1>1, <1>3 DEF Atomic!Others
<1>6. e.target # e.key => e.key \notin DOMAIN new
  BY <1>1, <1>3
<1>7. e.target \in DOMAIN new
  BY <1>3
<1>8. Atomic!Moves(old, new, e.key, e.target)
  BY <1>4, <1>5, <1>6, <1>7 DEF Atomic!Moves
<1> QED
  BY <1>3, <1>4, <1>8 DEF new

LEMMA RenameIsRename ==
  ASSUME NEW old \in Catalog, NEW new \in Renamed(old)
  PROVE  Atomic!Renames(old, new)
<1>1. PICK e \in Edits(old) : new = Edited(old, e, old[e.key])
  BY DEF Renamed
<1>2. /\ e.key \in DOMAIN old /\ e.target \in Key
      /\ Atomic!Moves(old, new, e.key, e.target) /\ new[e.target] = old[e.key]
  BY <1>1, EditMoves
<1> QED
  BY <1>2 DEF Atomic!Renames

LEMMA RecodeIsRecode ==
  ASSUME NEW old \in Catalog, NEW p \in Process, NEW new \in Recoded(old, p)
  PROVE  Atomic!Recodes(old, new)
<1>1. PICK e \in Edits(old), code \in Code : new = Edited(old, e, code)
  BY DEF Recoded
<1>2. /\ e.key \in DOMAIN old /\ e.target \in Key
      /\ Atomic!Moves(old, new, e.key, e.target) /\ new[e.target] = code
  BY <1>1, EditMoves
<1> QED
  BY <1>1, <1>2 DEF Atomic!Recodes

----------------------------------------------------------------------------
(* The tool implements AtomicCatalog.                                      *)

OutcomeMap == [p \in Process |-> Outcome(p)]

LEMMA OutcomeIs ==
  ASSUME NEW p \in Process
  PROVE  /\ stage[p] = "idle" => Outcome(p) = "none"
         /\ stage[p] = "done" => Outcome(p) = "ok"
         /\ stage[p] = "failed" => Outcome(p) = "failed"
         /\ stage[p] \notin {"idle", "done", "failed"} => Outcome(p) = "running"
BY DEF Outcome

LEMMA SameLoads ==
  ASSUME NEW content, NEW p
  PROVE  /\ Atomic!Loads(content, p) <=> Loads(content, p)
         /\ Atomic!Entries(content) = Entries(content)
BY DEF Atomic!Loads, Loads, Atomic!Resolved, Resolved, Atomic!Catalog, Catalog, Atomic!Entry,
       Entry, Atomic!Entries, Entries

\* One process acts: of the outcomes only its own changes.
LEMMA OutcomeStep ==
  ASSUME TypeOK, NEW p \in Process, NEW to \in Stage, stage' = [stage EXCEPT ![p] = to]
  PROVE  OutcomeMap' = [OutcomeMap EXCEPT ![p] = Outcome(p)']
<1>1. \A q \in Process \ {p} : stage'[q] = stage[q]
  BY DEF TypeOK
<1>2. \A q \in Process \ {p} : Outcome(q)' = Outcome(q)
  BY <1>1 DEF Outcome
<1> QED
  BY <1>2 DEF OutcomeMap

\* The rename is the one step in which the command takes effect: what it puts in place is
\* made from what the file holds at that instant.
LEMMA ReplaceChanges ==
  ASSUME TypeOK, WritingInv, PreparedIsCurrent, NEW p \in Process, Replace(p)
  PROVE  Atomic!Change(p)
<1> DEFINE c == command[p]
           old == Read(c)
           new == prepared[p]
<1>1. /\ stage[p] = "replace" /\ stage' = [stage EXCEPT ![p] = "done"]
      /\ file' = [file EXCEPT ![c.output] = new]
  BY DEF Replace, Over
<1>2. c \in Command
  BY <1>1 DEF TypeOK
<1>3. c.input \in Path /\ c.output \in Path /\ c.kind \in Kind
  BY <1>2 DEF Command
<1>4. Loads(old, p) /\ Loads(new, p) /\ new \in Results(c.kind, old, p)
  BY <1>1 DEF PreparedIsCurrent
<1>5. new \in Catalog /\ old \in Catalog
  BY <1>4 DEF Loads
<1>6. file[c.input] # Broken /\ old = Entries(file[c.input])
  BY <1>5, CatalogAssumption DEF Read, Entries
<1>7. c.kind # "add" => file[c.input] # None /\ old = file[c.input]
  BY <1>5, CatalogAssumption DEF Read
<1>8. Atomic!Does(c.kind, file[c.input], new)
  <2>1. Atomic!Entries(file[c.input]) = old
    BY <1>6, SameLoads
  <2>2. CASE c.kind = "add"
    BY <2>1, <2>2, <1>4, <1>5, ResultsAre, AddIsAdd DEF Atomic!Does
  <2>3. CASE c.kind = "rename"
    BY <2>3, <1>4, <1>5, <1>7, ResultsAre, RenameIsRename DEF Atomic!Does
  <2>4. CASE c.kind = "recode"
    BY <2>4, <1>4, <1>5, <1>7, ResultsAre, RecodeIsRecode DEF Atomic!Does
  <2>5. CASE c.kind = "delete"
    BY <2>5, <1>4, <1>5, <1>7, ResultsAre, DeleteIsDelete DEF Atomic!Does
  <2>6. CASE c.kind = "export"
    BY <2>6, <1>4, <1>7, ResultsAre DEF Atomic!Does
  <2>7. CASE c.kind = "read"
    <3>1. Writes(c)
      BY <1>1 DEF WritingInv
    <3> QED
      BY <2>7, <3>1 DEF Writes
  <2> QED
    BY <1>3, <2>2, <2>3, <2>4, <2>5, <2>6, <2>7 DEF Kind
<1>9. Atomic!Concludes(p, "ok")
  <2>1. stage'[p] = "done"
    BY <1>1 DEF TypeOK
  <2>2. Outcome(p) = "running" /\ Outcome(p)' = "ok"
    BY <1>1, <2>1 DEF Outcome
  <2>3. OutcomeMap' = [OutcomeMap EXCEPT ![p] = "ok"] /\ OutcomeMap[p] = "running"
    BY <1>1, <2>2, OutcomeStep DEF OutcomeMap, Stage
  <2>4. command' = [command EXCEPT ![p] = None]
    BY DEF Replace, Over
  <2> QED
    BY <2>3, <2>4 DEF Atomic!Concludes, OutcomeMap
<1>10. new \in Atomic!Catalog
  BY <1>5 DEF Atomic!Catalog, Catalog, Atomic!Entry, Entry
<1>11. Atomic!Entries(file[c.input]) = old /\ Atomic!Loads(old, p) /\ Atomic!Loads(new, p)
  BY <1>4, <1>6, SameLoads
<1> HIDE DEF old, new
<1>12. \E made \in Atomic!Catalog :
         /\ file[c.input] # Broken
         /\ Atomic!Loads(Atomic!Entries(file[c.input]), p) /\ Atomic!Loads(made, p)
         /\ Atomic!Does(c.kind, file[c.input], made)
         /\ file' = [file EXCEPT ![c.output] = made]
  BY <1>1, <1>6, <1>10, <1>11, <1>8
<1> QED
  BY <1>9, <1>12 DEF Atomic!Change

\* Any other end of a command leaves the files alone.
LEMMA Concludes ==
  ASSUME TypeOK, NEW p \in Process, stage[p] \notin {"idle", "done", "failed"},
         NEW how \in {"done", "failed"}, Over(p, how)
  PROVE  Atomic!Concludes(p, IF how = "done" THEN "ok" ELSE "failed")
<1>1. stage' = [stage EXCEPT ![p] = how] /\ stage'[p] = how
  BY DEF Over, TypeOK
<1>2. Outcome(p) = "running" /\ Outcome(p)' = IF how = "done" THEN "ok" ELSE "failed"
  BY <1>1 DEF Outcome
<1>3. /\ OutcomeMap' = [OutcomeMap EXCEPT ![p] = IF how = "done" THEN "ok" ELSE "failed"]
      /\ OutcomeMap[p] = "running"
  BY <1>1, <1>2, OutcomeStep DEF OutcomeMap, Stage
<1>4. command' = [command EXCEPT ![p] = None]
  BY DEF Over
<1> QED
  BY <1>3, <1>4 DEF Atomic!Concludes, OutcomeMap

LEMMA StepImplements ==
  ASSUME TypeOK, WritingInv, PreparedIsCurrent, [Next]_vars
  PROVE  [Atomic!Next]_(Atomic!vars)
<1>1. ASSUME NEW p \in Process, Start(p)
      PROVE  Atomic!Call(p)
  <2>1. PICK c \in Invocations : /\ stage' = [stage EXCEPT ![p] = FirstStage(c)]
                                 /\ command' = [command EXCEPT ![p] = c]
    BY <1>1 DEF Start
  <2>2. c \in Atomic!Command
    BY InvocationsAssumption DEF Command, Kind, Atomic!Command, Atomic!Kind
  <2>3. /\ stage[p] = "idle" /\ stage'[p] \in {"lock_input", "load"}
        /\ FirstStage(c) \in Stage
    BY <1>1, <2>1 DEF Start, FirstStage, Stage, TypeOK
  <2>4. Outcome(p) = "none" /\ Outcome(p)' = "running"
    BY <2>3 DEF Outcome
  <2>5. OutcomeMap' = [OutcomeMap EXCEPT ![p] = "running"] /\ OutcomeMap[p] = "none"
    BY <2>1, <2>3, <2>4, OutcomeStep DEF OutcomeMap
  <2> QED
    BY <1>1, <2>1, <2>5, <2>2 DEF Atomic!Call, OutcomeMap, Start
<1>2. ASSUME NEW p \in Process, Acquire(p) \/ Prepare(p) \/ Unlock(p)
      PROVE  UNCHANGED Atomic!vars
  <2>1. ASSUME NEW to \in {"lock_output", "load", "replace"},
               stage' = [stage EXCEPT ![p] = to],
               stage[p] \in {"lock_input", "lock_output", "load"}
        PROVE  OutcomeMap' = OutcomeMap
    <3>1. Outcome(p) = "running" /\ Outcome(p)' = "running"
      BY <2>1 DEF Outcome, TypeOK
    <3>2. OutcomeMap' = [OutcomeMap EXCEPT ![p] = "running"] /\ OutcomeMap[p] = "running"
      BY <2>1, <3>1, OutcomeStep DEF OutcomeMap, Stage
    <3> QED
      BY <3>2 DEF OutcomeMap
  <2>2. CASE Acquire(p)
    BY <2>1, <2>2 DEF Acquire, Locking, AfterLock, Atomic!vars, OutcomeMap
  <2>3. CASE Prepare(p)
    BY <2>1, <2>3 DEF Prepare, Atomic!vars, OutcomeMap
  <2>4. CASE Unlock(p)
    BY <2>4 DEF Unlock, Outcome, Atomic!vars
  <2> QED
    BY <1>2, <2>2, <2>3, <2>4
<1>3. ASSUME NEW p \in Process, Busy(p) \/ Refuse(p)
      PROVE  Atomic!Refuse(p)
  <2>1. /\ stage[p] \in {"lock_input", "lock_output", "load", "replace"}
        /\ Over(p, "failed") /\ UNCHANGED file
    BY <1>3 DEF Busy, Refuse, Refused, Locking
  <2>2. Atomic!Concludes(p, "failed")
    BY <2>1, Concludes
  <2> QED
    BY <2>1, <2>2 DEF Atomic!Refuse
<1>4. ASSUME NEW p \in Process, Look(p)
      PROVE  Atomic!Look(p)
  <2>1. /\ stage[p] = "load" /\ ~ Writes(command[p]) /\ Loads(Read(command[p]), p)
        /\ Over(p, "done") /\ UNCHANGED file
    BY <1>4 DEF Look
  <2>2. command[p] \in Command
    BY <2>1 DEF TypeOK
  <2>3. command[p].kind = "read" /\ Loads(file[command[p].input], p)
    BY <2>1, <2>2 DEF Command, Read, Writes
  <2>4. Atomic!Concludes(p, "ok")
    BY <2>1, Concludes
  <2>5. Atomic!Loads(file[command[p].input], p)
    BY <2>3, SameLoads
  <2> QED
    BY <2>1, <2>3, <2>4, <2>5 DEF Atomic!Look
<1>5. ASSUME NEW p \in Process, Exit(p) \/ Killed(p)
      PROVE  Atomic!Leave(p)
  <2>1. stage' = [stage EXCEPT ![p] = "idle"] /\ UNCHANGED file
    BY <1>5 DEF Exit, Killed, Over
  <2>2. Outcome(p)' = "none"
    BY <2>1 DEF Outcome, TypeOK
  <2>3. OutcomeMap' = [OutcomeMap EXCEPT ![p] = "none"]
    BY <2>1, <2>2, OutcomeStep DEF Stage
  <2>4. command' = [command EXCEPT ![p] = None]
    BY <1>5 DEF Exit, Killed, Over, TypeOK
  <2> QED
    BY <2>1, <2>3, <2>4 DEF Atomic!Leave, OutcomeMap
<1>6. ASSUME NEW path \in Path, RemoveStaleLock(path)
      PROVE  UNCHANGED Atomic!vars
  BY <1>6 DEF RemoveStaleLock, Outcome, Atomic!vars
<1>7. CASE UNCHANGED vars
  BY <1>7 DEF vars, Outcome, Atomic!vars
<1>8. CASE Next
  <2>1. CASE \E p \in Process : Start(p) \/ Step(p) \/ Killed(p)
    <3>1. PICK p \in Process : Start(p) \/ Step(p) \/ Killed(p)
      BY <2>1
    <3>2. UNCHANGED Atomic!vars \/ Atomic!Next
      BY <3>1, <1>1, <1>2, <1>3, <1>4, <1>5, ReplaceChanges DEF Step, Atomic!Next
    <3> QED
      BY <3>2
  <2> QED
    BY <1>6, <1>8, <2>1 DEF Next
<1> QED
  BY <1>7, <1>8

----------------------------------------------------------------------------
(* The theorems.                                                           *)

LEMMA WritingStep ==
  ASSUME TypeOK, WritingInv, Next
  PROVE  WritingInv'
<1>1. ASSUME NEW p \in Process, Start(p)
      PROVE  WritingInv'
  BY <1>1 DEF Start, FirstStage, WritingInv, TypeOK, Writes
<1>2. ASSUME NEW p \in Process, Acquire(p)
      PROVE  WritingInv'
  BY <1>2 DEF Acquire, Locking, AfterLock, WritingInv, TypeOK, Writes
<1>3. ASSUME NEW p \in Process, Prepare(p)
      PROVE  WritingInv'
  BY <1>3 DEF Prepare, WritingInv, TypeOK, Writes
<1>4. ASSUME NEW p \in Process, Busy(p) \/ Look(p) \/ Replace(p) \/ Refuse(p) \/ Killed(p)
      PROVE  WritingInv'
  BY <1>4 DEF Busy, Look, Replace, Refuse, Refused, Killed, Over, WritingInv, TypeOK, Writes
<1>5. ASSUME NEW p \in Process, Unlock(p) \/ Exit(p)
      PROVE  WritingInv'
  BY <1>5 DEF Unlock, Exit, WritingInv, TypeOK, Writes
<1>6. ASSUME NEW path \in Path, RemoveStaleLock(path)
      PROVE  WritingInv'
  BY <1>6 DEF RemoveStaleLock, WritingInv, Writes
<1> QED
  BY <1>1, <1>2, <1>3, <1>4, <1>5, <1>6 DEF Next, Step

IInv == TypeOK /\ WritingInv /\ LockInv /\ PreparedIsCurrent

LEMMA Initially == Init => IInv
<1> SUFFICES ASSUME Init PROVE IInv
  OBVIOUS
<1>1. TypeOK
  BY InitialAssumption DEF Init, TypeOK, Stage
<1>2. \A p \in Process : stage[p] = "idle" /\ holds[p] = <<>>
  BY DEF Init
<1>3. \A p \in Process : holds[p] \in Hands /\ Range(holds[p]) = {}
  BY <1>2, HandsAre, EmptyHands
<1> QED
  BY <1>1, <1>2, <1>3 DEF IInv, WritingInv, LockInv, PreparedIsCurrent

\* IInv holds at the start and is kept by every step.
LEMMA Inductive == Spec => []IInv
<1>1. IInv /\ [Next]_vars => IInv'
  <2> SUFFICES ASSUME IInv, [Next]_vars PROVE IInv'
    OBVIOUS
  <2>1. CASE Next
    BY <2>1, TypeStep, WritingStep, LockStep, PreparedStep DEF IInv
  <2>2. CASE UNCHANGED vars
    <3> USE <2>2 DEF vars
    <3>1. TypeOK' /\ WritingInv' /\ LockInv'
      BY DEF IInv, TypeOK, WritingInv, LockInv
    <3>2. PreparedIsCurrent'
      BY DEF IInv, PreparedIsCurrent, Read, Entries
    <3> QED
      BY <3>1, <3>2 DEF IInv
  <2> QED
    BY <2>1, <2>2
<1> QED
  BY <1>1, Initially, PTL DEF Spec, SafeSpec

\* The state of the tool keeps its type; a command's arguments are there while it runs.
THEOREM TypeCorrect == Spec => []TypeOK
BY Inductive, PTL DEF IInv

\* No two processes hold one lock, whoever writes holds the locks of what it reads and of
\* what it writes, and nobody leaves with a lock in hand (error_gen.rs, the locks of run).
THEOREM DisciplineHolds == Spec => []LockDiscipline
<1>1. IInv => LockDiscipline
  <2> SUFFICES ASSUME IInv, NEW p \in Process
               PROVE  /\ Range(holds[p]) \subseteq locked
                      /\ stage[p] = "idle" => holds[p] = <<>>
                      /\ \A q \in Process \ {p} : Range(holds[p]) \cap Range(holds[q]) = {}
                      /\ stage[p] = "replace" =>
                           Range(holds[p]) = {command[p].input, command[p].output}
    BY DEF LockDiscipline
  <2>1. stage[p] = "replace" => command[p] \in Command /\ holds[p] = Locks(command[p])
    BY DEF IInv, TypeOK, LockInv
  <2> QED
    BY <2>1, LocksRange DEF IInv, LockInv
<1> QED
  BY <1>1, Inductive, PTL

\* The tool implements AtomicCatalog: whoever is killed, fails or runs beside, each command
\* replaces one file in one step, by what it makes of what is there at that step, or
\* changes nothing.
THEOREM AtomicHolds == Spec => AtomicSpec
<1>1. Init => Atomic!Init
  <2> SUFFICES ASSUME Init PROVE Atomic!Init
    OBVIOUS
  <2>1. file \in [Path -> Content]
    BY InitialAssumption DEF Init
  <2>2. \A p \in Process : Outcome(p) = "none" /\ command[p] = None
    BY DEF Init, Outcome
  <2> QED
    BY <2>1, <2>2 DEF Init, Atomic!Init, Atomic!Content, Content, Atomic!Catalog, Catalog,
                      Atomic!Entry, Entry
<1>2. IInv /\ [Next]_vars => [Atomic!Next]_(Atomic!vars)
  BY StepImplements DEF IInv
<1> QED
  BY <1>1, <1>2, Inductive, PTL DEF Spec, SafeSpec, AtomicSpec, Atomic!Spec

=============================================================================
