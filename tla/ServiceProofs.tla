--------------------------- MODULE ServiceProofs ---------------------------
(***************************************************************************)
(* Proofs about Service, and about the log queue in it: its types, that    *)
(* each refused event is counted once, that no join handle is polled after *)
(* its end, that what was accepted is delivered, and that main waits for   *)
(* nobody who waits for it.  For any number of holders and connections,    *)
(* any capacity and any grace period.                                      *)
(***************************************************************************)
EXTENDS Service, FiniteSetTheorems, TLAPS

\* The worker has reported what it took before it takes the count again.
TakenInv == worker \in {"idle", "delivering"} => taken = 0

\* Who counts is known and finite, and main has counted what it emitted at boot before
\* it goes on; nobody is refused twice without counting in between.
CountInv ==
  /\ IsFiniteSet(counting) /\ TakenInv
  /\ stage \in {"select", "announce"} => "main" \notin counting
  /\ DropsAccounted

\* What a join handle has yielded is so, and main remembers it.
JoinInv ==
  /\ stage \in {"boot", "start", "select"} => joined = {}
  /\ stage \in {"announce", "controller"} /\ "controller" \in joined => controller_done
  /\ "http" \in joined => http = "ended"
  /\ "log" \in joined => ~ Alive
  /\ WaitsOnlyOnOpen

\* A worker that is gone has left nothing behind, and main returns after it.
DrainInv ==
  /\ ~ Alive => queued = 0
  /\ stage = "returned" => ~ Alive

\* Whoever holds a sender is there; main drops its own before it waits for the log.
SenderInv ==
  /\ stage \in {"wait_log", "returned"} => "main" \notin senders
  /\ "controller" \in senders => controller \in {"running", "aborting"}
  /\ "http" \in senders => http \in {"running", "draining", "aborting"}

----------------------------------------------------------------------------
(* Types.                                                                  *)

\* What a holder emits keeps the types of the queue.
LEMMA OfferedType ==
  ASSUME LogTypeOK, NEW h \in Holder, Offered(h), senders' \subseteq Holder
  PROVE  LogTypeOK'
BY AppLogAssumption DEF LogTypeOK, Offered, Room, Alive, Finished

LEMMA CountType ==
  ASSUME LogTypeOK, NEW h \in Holder, Count(h)
  PROVE  LogTypeOK'
BY DEF LogTypeOK, Count

LEMMA WorkType ==
  ASSUME LogTypeOK, Work
  PROVE  LogTypeOK'
BY AppLogAssumption
   DEF LogTypeOK, Work, Receive, Deliver, Report, End, Panic, Stopped, Finished

LEMMA KeptType ==
  ASSUME LogTypeOK, UNCHANGED channelVars, senders' \subseteq Holder
  PROVE  LogTypeOK'
BY DEF LogTypeOK, channelVars

\* The tasks, the flags and the waits of main.
OwnTypeOK ==
  /\ stage \in {"boot", "start", "select", "announce", "controller", "http", "wait_http",
                "drop", "wait_log", "returned", "failed"}
  /\ left \in 0 .. Grace /\ spent \in Nat /\ events \in Nat
  /\ signalled \in BOOLEAN /\ controller_done \in BOOLEAN
  /\ controller \in Task /\ http \in Task
  /\ joined \subseteq {"controller", "http", "log"}

LEMMA TypeParts == TypeOK <=> LogTypeOK /\ OwnTypeOK
BY DEF TypeOK, OwnTypeOK

\* Each step keeps the types of the queue.
LEMMA LogTypeStep ==
  ASSUME LogTypeOK, Next
  PROVE  LogTypeOK'
<1>1. {"main", "controller", "http"} \subseteq Holder /\ Connection \subseteq Holder
  BY ServiceAssumption
<1>2. senders \subseteq Holder
  BY DEF LogTypeOK
<1>3. CASE Main
  <2>1. CASE "main" \in counting /\ Count("main") /\ UNCHANGED ownVars
    BY <2>1, <1>1, CountType
  <2>2. CASE BootWarning \/ StartHttp \/ Announce
    BY <2>2, <1>1, <1>2, OfferedType DEF BootWarning, StartHttp, Announce, Emitted
  <2>3. CASE BindFails \/ StartController \/ DropLog
    BY <2>3, <1>1, <1>2, KeptType DEF BindFails, StartController, DropLog, SendersLeft
  <2>4. CASE Select \/ EndController \/ CheckHttp \/ EndHttp
    BY <2>4, <1>2, KeptType DEF Select, EndController, CheckHttp, EndHttp, logVars
  <2>5. CASE EndLog
    BY <2>5, AppLogAssumption
       DEF EndLog, Stopped, Finished, LogTypeOK, logVars, channelVars
  <2> QED
    BY <1>3, <2>1, <2>2, <2>3, <2>4, <2>5 DEF Main
<1>4. CASE Tick
  BY <1>4, <1>2, KeptType DEF Tick, logVars
<1>5. CASE Tasks
  <2>1. CASE Signal \/ HttpDrains
    BY <2>1, <1>2, KeptType DEF Signal, HttpDrains, logVars
  <2>2. CASE ControllerEnds \/ HttpEnds
    BY <2>2, <1>2, KeptType DEF ControllerEnds, HttpEnds
  <2>3. CASE \E h \in Holder : TaskEmits(h) \/ TaskCounts(h)
    BY <2>3, <1>2, OfferedType, CountType DEF TaskEmits, TaskCounts, Emitted
  <2>4. CASE \E r \in Connection : Accept(r) \/ Close(r)
    BY <2>4, <1>1, <1>2, KeptType DEF Accept, Close
  <2>5. CASE Work /\ UNCHANGED ownVars
    BY <2>5, WorkType
  <2> QED
    BY <1>5, <2>1, <2>2, <2>3, <2>4, <2>5 DEF Tasks
<1> QED
  BY <1>3, <1>4, <1>5 DEF Next

\* Each step keeps the rest.
LEMMA OwnTypeStep ==
  ASSUME OwnTypeOK, Next
  PROVE  OwnTypeOK'
<1> USE ServiceAssumption DEF OwnTypeOK, Task
<1>1. CASE Main
  <2>1. CASE "main" \in counting /\ Count("main") /\ UNCHANGED ownVars
    BY <2>1 DEF ownVars, waitVars
  <2>2. CASE BootWarning
    BY <2>2 DEF BootWarning, Emitted, waitVars
  <2>3. CASE StartHttp
    BY <2>3 DEF StartHttp, Emitted, waitVars
  <2>4. CASE BindFails
    BY <2>4 DEF BindFails, waitVars
  <2>5. CASE StartController
    BY <2>5 DEF StartController, waitVars
  <2>6. CASE Select
    BY <2>6 DEF Select, SelectedController
  <2>7. CASE Announce
    BY <2>7 DEF Announce, Emitted
  <2>8. CASE EndController
    BY <2>8 DEF EndController, TimedOut
  <2>9. CASE CheckHttp
    BY <2>9 DEF CheckHttp
  <2>10. CASE EndHttp
    BY <2>10 DEF EndHttp
  <2>11. CASE DropLog
    BY <2>11 DEF DropLog
  <2>12. CASE EndLog
    BY <2>12 DEF EndLog
  <2> QED
    BY <1>1, <2>1, <2>2, <2>3, <2>4, <2>5, <2>6, <2>7, <2>8, <2>9, <2>10, <2>11, <2>12 DEF Main
<1>2. CASE Tick
  BY <1>2 DEF Tick
<1>3. CASE Tasks
  <2>1. CASE Signal
    BY <2>1 DEF Signal, waitVars
  <2>2. CASE ControllerEnds
    BY <2>2 DEF ControllerEnds, waitVars
  <2>3. CASE HttpDrains
    BY <2>3 DEF HttpDrains, waitVars
  <2>4. CASE HttpEnds
    BY <2>4 DEF HttpEnds, waitVars
  <2>5. ASSUME NEW h \in Holder, TaskEmits(h)
        PROVE  OwnTypeOK'
    BY <2>5 DEF TaskEmits, Emitted, waitVars
  <2>6. CASE UNCHANGED ownVars
    BY <2>6 DEF ownVars, waitVars
  <2> QED
    BY <1>3, <2>1, <2>2, <2>3, <2>4, <2>5, <2>6 DEF Tasks, TaskCounts, Accept, Close
<1> QED
  BY <1>1, <1>2, <1>3 DEF Next

LEMMA TypeStep ==
  ASSUME TypeOK, Next
  PROVE  TypeOK'
<1>1. TypeOK' <=> LogTypeOK' /\ OwnTypeOK'
  BY DEF TypeOK, OwnTypeOK
<1> QED
  BY <1>1, TypeParts, LogTypeStep, OwnTypeStep

----------------------------------------------------------------------------
(* The count of what was refused.                                          *)

\* A refused event is one more to be counted.
LEMMA OfferedCounts ==
  ASSUME LogTypeOK, IsFiniteSet(counting), DropsAccounted,
         NEW h \in Holder, h \notin counting, Offered(h)
  PROVE  /\ IsFiniteSet(counting') /\ DropsAccounted'
         /\ counting' \in {counting, counting \cup {h}}
<1>1. /\ IsFiniteSet(counting \cup {h})
      /\ Cardinality(counting \cup {h}) = Cardinality(counting) + 1
  BY FS_AddElement
<1>2. Cardinality(counting) \in Nat
  BY FS_CardinalityType
<1>3. CASE Room
  BY <1>3 DEF Offered, DropsAccounted
<1>4. CASE ~ Room
  <2>1. /\ counting' = counting \cup {h} /\ refused' = refused + 1
        /\ UNCHANGED <<dropped, taken, reported>>
    BY <1>4 DEF Offered
  <2> QED
    BY <2>1, <1>1, <1>2 DEF DropsAccounted, LogTypeOK
<1> QED
  BY <1>3, <1>4

\* It is counted once.
LEMMA CountCounts ==
  ASSUME LogTypeOK, IsFiniteSet(counting), DropsAccounted, NEW h, Count(h)
  PROVE  IsFiniteSet(counting') /\ DropsAccounted' /\ counting' \subseteq counting
<1>1. /\ IsFiniteSet(counting \ {h})
      /\ Cardinality(counting \ {h}) = Cardinality(counting) - 1
  BY FS_RemoveElement DEF Count
<1>2. Cardinality(counting) \in Nat
  BY FS_CardinalityType
<1> QED
  BY <1>1, <1>2 DEF Count, DropsAccounted, LogTypeOK

\* The worker passes the count on; what it took before it has reported.
LEMMA WorkCounts ==
  ASSUME LogTypeOK, CountInv, Work
  PROVE  UNCHANGED counting /\ DropsAccounted' /\ TakenInv'
<1>1. Cardinality(counting) \in Nat
  BY FS_CardinalityType DEF CountInv
<1>2. CASE Deliver
  <2>1. taken = 0
    BY <1>2 DEF Deliver, CountInv, TakenInv
  <2>2. /\ taken' = dropped /\ dropped' = 0 /\ UNCHANGED <<counting, refused, reported>>
        /\ worker' = "reporting" \/ dropped = 0
    BY <1>2 DEF Deliver, LogTypeOK
  <2> QED
    BY <2>1, <2>2, <1>1 DEF CountInv, DropsAccounted, LogTypeOK, TakenInv
<1>3. CASE Report
  BY <1>3, <1>1 DEF Report, CountInv, DropsAccounted, LogTypeOK, TakenInv
<1>4. CASE Receive \/ End \/ Panic
  BY <1>4 DEF Receive, End, Panic, Stopped, CountInv, DropsAccounted, TakenInv
<1> QED
  BY <1>2, <1>3, <1>4 DEF Work

LEMMA CountStep ==
  ASSUME TypeOK, CountInv, Next
  PROVE  CountInv'
<1>0. LogTypeOK /\ IsFiniteSet(counting) /\ DropsAccounted /\ TakenInv
  BY DEF TypeOK, CountInv
<1>1. "main" \in Holder
  BY ServiceAssumption
<1> DEFINE Quiet == stage' \in {"select", "announce"} => "main" \notin counting'
<1>2. ASSUME NEW h \in Holder, h \notin counting, Offered(h), Quiet
      PROVE  CountInv'
  BY <1>0, <1>2, OfferedCounts DEF CountInv, TakenInv, Offered
<1>3. ASSUME NEW h, Count(h), Quiet
      PROVE  CountInv'
  BY <1>0, <1>3, CountCounts DEF CountInv, TakenInv, Count
<1>4. ASSUME UNCHANGED channelVars, Quiet
      PROVE  CountInv'
  BY <1>0, <1>4 DEF CountInv, TakenInv, DropsAccounted, channelVars
<1>5. CASE Main
  <2>1. CASE "main" \in counting /\ Count("main") /\ UNCHANGED ownVars
    <3>1. Quiet
      BY <2>1 DEF ownVars, Count
    <3> QED
      BY <2>1, <3>1, <1>3
  <2>2. CASE BootWarning \/ StartHttp
    <3>1. /\ "main" \notin counting /\ Offered("main")
          /\ stage' \in {"boot", "start"}
      BY <2>2 DEF BootWarning, StartHttp, Free, Emitted
    <3> QED
      BY <3>1, <1>1, <1>2
  <2>3. CASE Announce
    <3>1. "main" \notin counting /\ Offered("main") /\ stage' = "controller"
      BY <2>3 DEF Announce, Emitted, CountInv
    <3> QED
      BY <3>1, <1>1, <1>2
  <2>4. CASE BindFails \/ StartController \/ Select \/ EndController \/ CheckHttp \/ EndHttp
             \/ DropLog
    <3>1. UNCHANGED channelVars /\ Quiet
      BY <2>4 DEF BindFails, StartController, Select, EndController, TimedOut, CheckHttp,
                  EndHttp, DropLog, Free, CountInv, logVars, channelVars
    <3> QED
      BY <3>1, <1>4
  <2>5. CASE EndLog
    <3>1. /\ UNCHANGED <<dropped, taken, counting, refused, reported>>
          /\ stage' = "returned" /\ worker' \in {worker, "aborted"}
      BY <2>5 DEF EndLog, Stopped, logVars, channelVars
    <3> QED
      BY <3>1, <1>0 DEF CountInv, DropsAccounted, TakenInv
  <2> QED
    BY <1>5, <2>1, <2>2, <2>3, <2>4, <2>5 DEF Main
<1>6. CASE Tick
  <2>1. UNCHANGED channelVars /\ Quiet
    BY <1>6 DEF Tick, CountInv, logVars, channelVars
  <2> QED
    BY <2>1, <1>4
<1>7. CASE Tasks
  <2>1. CASE Signal \/ ControllerEnds \/ HttpDrains \/ HttpEnds
    <3>1. UNCHANGED channelVars /\ Quiet
      BY <2>1 DEF Signal, ControllerEnds, HttpDrains, HttpEnds, CountInv, logVars, channelVars
    <3> QED
      BY <3>1, <1>4
  <2>2. ASSUME NEW h \in Holder, TaskEmits(h)
        PROVE  CountInv'
    <3>1. /\ h # "main" /\ h \notin counting /\ Offered(h) /\ UNCHANGED stage
      BY <2>2 DEF TaskEmits, Free, Emitted
    <3>2. Quiet
      BY <3>1, <1>0, OfferedCounts DEF CountInv
    <3> QED
      BY <3>1, <3>2, <1>2
  <2>3. ASSUME NEW h \in Holder, TaskCounts(h)
        PROVE  CountInv'
    <3>1. Count(h) /\ Quiet
      BY <2>3 DEF TaskCounts, Count, CountInv, ownVars
    <3> QED
      BY <3>1, <1>3
  <2>4. CASE \E r \in Connection : Accept(r) \/ Close(r)
    <3>1. UNCHANGED channelVars /\ Quiet
      BY <2>4 DEF Accept, Close, CountInv, channelVars, ownVars
    <3> QED
      BY <3>1, <1>4
  <2>5. CASE Work /\ UNCHANGED ownVars
    BY <2>5, <1>0, WorkCounts DEF CountInv, ownVars
  <2> QED
    BY <1>7, <2>1, <2>2, <2>3, <2>4, <2>5 DEF Tasks
<1> QED
  BY <1>5, <1>6, <1>7 DEF Next

----------------------------------------------------------------------------
(* The end.                                                                *)

\* A worker that is gone stays gone.
LEMMA GoneStays ==
  ASSUME Next, ~ Alive
  PROVE  ~ Alive'
BY DEF Next, Main, Tick, Tasks, Work, Receive, Deliver, Report, End, Panic, Stopped, Alive,
       Finished, Count, BootWarning, StartHttp, BindFails, StartController, Select, Announce,
       EndController, CheckHttp, EndHttp, DropLog, EndLog, Signal, ControllerEnds, HttpDrains,
       HttpEnds, TaskEmits, TaskCounts, Accept, Close, Emitted, Offered, logVars, channelVars

\* So does a server, once there is one.
LEMMA ServerStays ==
  ASSUME Next, http = "ended", stage # "boot"
  PROVE  http' = "ended"
BY DEF Next, Main, Tick, Tasks, BootWarning, StartHttp, BindFails, StartController, Select,
       Announce, EndController, CheckHttp, EndHttp, DropLog, EndLog, Signal, ControllerEnds,
       HttpDrains, HttpEnds, TaskEmits, TaskCounts, Accept, Close, ownVars

\* What is done to the join handles and the flag of main, if it is not main that waits.
LEMMA JoinStep ==
  ASSUME JoinInv, Next
  PROVE  JoinInv'
<1>0. ("log" \in joined => ~ Alive') /\ ("http" \in joined => http' = "ended")
  BY GoneStays, ServerStays DEF JoinInv
<1> USE DEF JoinInv, WaitsOnlyOnOpen
<1>1. CASE UNCHANGED <<stage, joined, controller_done>>
  BY <1>0, <1>1
<1>2. CASE StartHttp \/ BindFails \/ StartController
  BY <1>0, <1>2 DEF StartHttp, BindFails, StartController, waitVars
<1>3. CASE Select
  BY <1>0, <1>3 DEF Select, SelectedController, logVars, channelVars, Alive
<1>4. CASE Announce
  BY <1>0, <1>4 DEF Announce
<1>5. CASE EndController
  BY <1>0, <1>5 DEF EndController, TimedOut
<1>6. CASE CheckHttp \/ EndHttp
  BY <1>0, <1>6 DEF CheckHttp, EndHttp
<1>7. CASE DropLog \/ EndLog
  BY <1>0, <1>7 DEF DropLog, EndLog, logVars, channelVars, Alive, Stopped, Finished
<1>8. CASE Main
  <2>1. CASE BootWarning \/ (Count("main") /\ UNCHANGED ownVars)
    BY <2>1, <1>1 DEF BootWarning, waitVars, ownVars
  <2> QED
    BY <1>2, <1>3, <1>4, <1>5, <1>6, <1>7, <1>8, <2>1 DEF Main
<1>9. CASE Tick \/ Tasks
  BY <1>1, <1>9 DEF Tick, Tasks, Signal, ControllerEnds, HttpDrains, HttpEnds, TaskEmits,
                    TaskCounts, Accept, Close, waitVars, ownVars
<1> QED
  BY <1>8, <1>9 DEF Next

LEMMA DrainStep ==
  ASSUME DrainInv, Next
  PROVE  DrainInv'
<1> USE DEF DrainInv
<1>1. CASE UNCHANGED <<worker, queued>> /\ (stage' = "returned" => ~ Alive)
  BY <1>1 DEF Alive
<1>2. ASSUME NEW h, Offered(h), stage' # "returned"
      PROVE  DrainInv'
  BY <1>2 DEF Offered, Room, Alive
<1>3. stage # "returned"
  BY DEF Next, Exited
<1>4. CASE Main
  <2>1. CASE BootWarning \/ StartHttp \/ Announce
    BY <2>1, <1>2 DEF BootWarning, StartHttp, Announce, Emitted
  <2>2. CASE EndLog
    BY <2>2 DEF EndLog, Stopped, Alive, Finished, logVars, channelVars
  <2>3. CASE \/ "main" \in counting /\ Count("main") /\ UNCHANGED ownVars
             \/ BindFails \/ StartController \/ Select \/ EndController \/ CheckHttp
             \/ EndHttp \/ DropLog
    BY <2>3, <1>1, <1>3
       DEF Count, BindFails, StartController, Select, EndController, TimedOut, CheckHttp,
           EndHttp, DropLog, logVars, channelVars, ownVars
  <2> QED
    BY <1>4, <2>1, <2>2, <2>3 DEF Main
<1>5. CASE Work /\ UNCHANGED ownVars
  BY <1>5, <1>3 DEF Work, Receive, Deliver, Report, End, Drained, Panic, Stopped, Alive, Finished,
                    ownVars
<1>6. CASE Tasks /\ ~ (Work /\ UNCHANGED ownVars)
  <2>1. ASSUME NEW h \in Holder, TaskEmits(h)
        PROVE  DrainInv'
    BY <2>1, <1>2, <1>3 DEF TaskEmits, Emitted
  <2> QED
    BY <1>6, <2>1, <1>1, <1>3
       DEF Tasks, Signal, ControllerEnds, HttpDrains, HttpEnds, TaskCounts, Count, Accept, Close,
           logVars, channelVars, ownVars
<1>7. CASE Tick
  BY <1>7, <1>1, <1>3 DEF Tick, logVars, channelVars
<1> QED
  BY <1>4, <1>5, <1>6, <1>7 DEF Next

LEMMA SenderStep ==
  ASSUME SenderInv, Next
  PROVE  SenderInv'
<1>0. /\ "main" \notin Connection /\ "controller" \notin Connection
      /\ "http" \notin Connection
  BY ServiceAssumption
<1> USE DEF SenderInv
<1>1. CASE UNCHANGED <<stage, senders, controller, http>>
  BY <1>1
<1>2. CASE Main
  <2>1. CASE \/ "main" \in counting /\ Count("main") /\ UNCHANGED ownVars
             \/ BootWarning
    BY <2>1, <1>1 DEF Count, BootWarning, ownVars
  <2>2. CASE StartHttp \/ BindFails \/ StartController
    BY <2>2 DEF StartHttp, BindFails, StartController
  <2>3. CASE Select \/ Announce \/ EndController \/ CheckHttp \/ EndHttp
    BY <2>3 DEF Select, Announce, EndController, TimedOut, CheckHttp, EndHttp, logVars
  <2>4. CASE DropLog \/ EndLog
    BY <2>4 DEF DropLog, SendersLeft, EndLog, logVars
  <2> QED
    BY <1>2, <2>1, <2>2, <2>3, <2>4 DEF Main
<1>3. CASE Tick
  BY <1>3, <1>1 DEF Tick, logVars
<1>4. CASE Tasks
  <2>1. CASE Signal \/ ControllerEnds \/ HttpDrains \/ HttpEnds
    BY <2>1 DEF Signal, ControllerEnds, HttpDrains, HttpEnds, logVars
  <2>2. CASE \E r \in Connection : Accept(r) \/ Close(r)
    BY <2>2, <1>0 DEF Accept, Close, ownVars
  <2>3. CASE (\E h \in Holder : TaskEmits(h) \/ TaskCounts(h)) \/ (Work /\ UNCHANGED ownVars)
    BY <2>3, <1>1 DEF TaskEmits, TaskCounts, Count, Work, Receive, Deliver, Report, End, Panic,
                      ownVars
  <2> QED
    BY <1>4, <2>1, <2>2, <2>3 DEF Tasks
<1> QED
  BY <1>2, <1>3, <1>4 DEF Next

----------------------------------------------------------------------------
(* The theorems.                                                           *)

IInv == TypeOK /\ CountInv /\ JoinInv /\ DrainInv /\ SenderInv

\* IInv holds at the start and is kept by every step.
LEMMA Inductive == Spec => []IInv
<1>1. Init => IInv
  <2> SUFFICES ASSUME Init PROVE IInv
    OBVIOUS
  <2> USE DEF Init, LogInit
  <2>1. TypeOK
    <3>1. LogTypeOK
      BY AppLogAssumption, ServiceAssumption DEF LogTypeOK
    <3>2. signalled \in BOOLEAN /\ controller_done \in BOOLEAN
      BY Zenon
    <3>3. left \in 0 .. Grace /\ spent \in Nat /\ events \in Nat
      BY ServiceAssumption
    <3>4. OwnTypeOK
      BY <3>2, <3>3 DEF OwnTypeOK, Task
    <3> QED
      BY <3>1, <3>4, TypeParts
  <2>2. CountInv
    BY FS_EmptySet DEF CountInv, TakenInv, DropsAccounted
  <2>3. JoinInv /\ DrainInv /\ SenderInv
    BY DEF JoinInv, WaitsOnlyOnOpen, DrainInv, SenderInv, Alive, Finished
  <2> QED
    BY <2>1, <2>2, <2>3 DEF IInv
<1>2. IInv /\ [Next]_vars => IInv'
  <2> SUFFICES ASSUME IInv, [Next]_vars PROVE IInv'
    OBVIOUS
  <2>1. CASE Next
    BY <2>1, TypeStep, CountStep, JoinStep, DrainStep, SenderStep DEF IInv
  <2>2. CASE UNCHANGED vars
    BY <2>2 DEF IInv, TypeOK, LogTypeOK, CountInv, TakenInv, DropsAccounted, JoinInv,
                WaitsOnlyOnOpen, DrainInv, SenderInv, Alive, vars, logVars, channelVars, ownVars,
                waitVars
  <2> QED
    BY <2>1, <2>2
<1> QED
  BY <1>1, <1>2, PTL DEF Spec, SafeSpec

\* The service and its log queue keep their types: among others, the channel never holds
\* more than its capacity, and main never waits longer for one task than the grace period.
THEOREM TypeCorrect == Spec => []TypeOK
BY Inductive, PTL DEF IInv

\* Each refused event is counted, and reported at most once, whatever interleaves with the
\* worker's taking the count (app_log.rs, emit and the worker).
THEOREM DropsHold == Spec => []DropsAccounted
<1>1. IInv => DropsAccounted
  BY DEF IInv, CountInv
<1> QED
  BY <1>1, Inductive, PTL

\* No join handle is polled after it has yielded its result (main.rs, run).
THEOREM HandlesHold == Spec => []WaitsOnlyOnOpen
<1>1. IInv => WaitsOnlyOnOpen
  BY DEF IInv, JoinInv
<1> QED
  BY <1>1, Inductive, PTL

\* Unless the log worker went down or was aborted, run returns with every accepted event
\* delivered (main.rs, run).
THEOREM DrainHolds == Spec => []DrainsAccepted
<1>1. IInv => DrainsAccepted
  BY DEF IInv, DrainInv, DrainsAccepted, Alive, Finished
<1> QED
  BY <1>1, Inductive, PTL

\* Time that main spends on the log worker is spent for somebody else (main.rs, run).
THEOREM WaitsHold == Spec => WaitsOnlyForOthers
<1>1. IInv /\ [Next]_vars => [stage = "wait_log" /\ spent' # spent => KeptBusy]_vars
  <2> SUFFICES ASSUME IInv, Next, stage = "wait_log", spent' # spent PROVE KeptBusy
    OBVIOUS
  <2>1. Alive /\ ~ Drained
    BY DEF Next, Main, Tick, Tasks, BootWarning, StartHttp, BindFails, StartController, Select,
           Announce, EndController, CheckHttp, EndHttp, DropLog, EndLog, Signal, ControllerEnds,
           HttpDrains, HttpEnds, TaskEmits, TaskCounts, Accept, Close, ownVars, waitVars
  <2>2. worker = "idle" /\ queued = 0 => senders # {}
    BY <2>1 DEF Drained
  <2>3. senders \subseteq {"controller", "http"} \cup Connection
    BY ServiceAssumption DEF IInv, TypeOK, LogTypeOK, SenderInv
  <2>4. CASE worker # "idle" \/ queued > 0
    BY <2>4 DEF KeptBusy
  <2>5. CASE worker = "idle" /\ ~ (queued > 0)
    <3>1. queued = 0
      BY <2>5, AppLogAssumption DEF IInv, TypeOK, LogTypeOK
    <3>2. PICK h \in senders : TRUE
      BY <2>2, <2>5, <3>1
    <3>3. CASE h \in Connection
      BY <3>3 DEF KeptBusy
    <3>4. CASE h \in {"controller", "http"}
      BY <3>4 DEF KeptBusy, IInv, SenderInv
    <3> QED
      BY <2>3, <3>3, <3>4
  <2> QED
    BY <2>4, <2>5
<1> QED
  BY <1>1, Inductive, PTL DEF Spec, SafeSpec, WaitsOnlyForOthers

=============================================================================
