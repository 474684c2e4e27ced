---------------------------- MODULE ErrorCatalog ----------------------------
(***************************************************************************)
(* The error-code tool (src/logger/bin/error_gen.rs) and its operations on *)
(* catalogs (src/logger/error_codes.rs): processes that lock, read, edit,  *)
(* write beside and rename, side by side, each of which may be killed at   *)
(* any step and leaves its locks behind then.                              *)
(*                                                                         *)
(* The arguments of a command are chosen when they matter first: whether   *)
(* it adds, renames, recodes, deletes, exports or only reads, and from     *)
(* which file to which, at the start; the key and the code when the        *)
(* catalog is read.                                                        *)
(***************************************************************************)
EXTENDS Catalogs, Sequences, SequencesExt

CONSTANTS
  Initial,           \* what the files may be at first
  Invocations        \* the commands that are run

ASSUME InitialAssumption == Initial \subseteq [Path -> Content]

VARIABLES
  file,              \* the content at each path
  locked,            \* the paths beside which there is a lock file
  stage,             \* how far the command of a process is, "idle" without one
  command,           \* its arguments while they matter, or None
  holds,             \* the paths whose locks it has taken, in this order
  prepared           \* the catalog it is about to write, or None

vars == <<file, locked, stage, command, holds, prepared>>

Stage == {"idle", "lock_input", "lock_output", "load", "replace", "done", "failed"}

ASSUME InvocationsAssumption ==
  /\ None \notin Command
  /\ Invocations \subseteq {c \in Command : c.kind = "read" => c.output = c.input}

Writes(c) == c.kind # "read"

Init ==
  /\ file \in Initial
  /\ locked = {}
  /\ stage = [p \in Process |-> "idle"]
  /\ command = [p \in Process |-> None]
  /\ holds = [p \in Process |-> <<>>]
  /\ prepared = [p \in Process |-> None]

----------------------------------------------------------------------------
(* What a command makes of a catalog.                                      *)

\* The catalog with entry at key.
With(catalog, key, entry) ==
  [k \in DOMAIN catalog \cup {key} |-> IF k = key THEN entry ELSE catalog[k]]

Without(catalog, key) == [k \in DOMAIN catalog \ {key} |-> catalog[k]]

\* The codes that the keys of the catalog stand for.
Used(catalog, p) == {Resolved(catalog[k], p) : k \in DOMAIN catalog}

\* add_error_code: a new key with a generated code that is not in use.
Added(catalog, p) ==
  {With(catalog, key, code) : key \in Key \ DOMAIN catalog, code \in Code \ Used(catalog, p)}

\* edit_error_code: the entry may go to a key that is not in use.
Edits(catalog) ==
  {e \in [key : DOMAIN catalog, target : Key] :
     e.target = e.key \/ e.target \notin DOMAIN catalog}

Edited(catalog, e, entry) == With(Without(catalog, e.key), e.target, entry)

\* Without a new code it is moved as it is written.
Renamed(catalog) == {Edited(catalog, e, catalog[e.key]) : e \in Edits(catalog)}

\* A new code is one that no other key has.
Recoded(catalog, p) ==
  UNION {{Edited(catalog, e, code) : code \in Code \ Used(Without(catalog, e.key), p)} :
           e \in Edits(catalog)}

Deleted(catalog) == {Without(catalog, key) : key \in DOMAIN catalog}

\* What a command that writes may be about to write.
Results(kind, catalog, p) ==
  CASE kind = "add" -> Added(catalog, p)
    [] kind = "rename" -> Renamed(catalog)
    [] kind = "recode" -> Recoded(catalog, p)
    [] kind = "delete" -> Deleted(catalog)
    [] kind = "export" -> {catalog}

\* Only add creates a missing catalog.
Read(c) == IF c.kind = "add" THEN Entries(file[c.input]) ELSE file[c.input]

----------------------------------------------------------------------------
(* The steps of a command.                                                 *)

\* Cooperating writers lock before reading.
FirstStage(c) == IF Writes(c) THEN "lock_input" ELSE "load"

Start(p) ==
  /\ stage[p] = "idle"
  /\ \E c \in Invocations :
       /\ command' = [command EXCEPT ![p] = c]
       /\ stage' = [stage EXCEPT ![p] = FirstStage(c)]
  /\ UNCHANGED <<file, locked, holds, prepared>>

\* The command is over, and drops its locks next.
Over(p, how) ==
  /\ stage' = [stage EXCEPT ![p] = how]
  /\ command' = [command EXCEPT ![p] = None]
  /\ prepared' = [prepared EXCEPT ![p] = None]

\* An early return.
Refused(p) == Over(p, "failed") /\ UNCHANGED <<file, locked, holds>>

Locking(p) == stage[p] \in {"lock_input", "lock_output"}

Wanted(p) == IF stage[p] = "lock_input" THEN command[p].input ELSE command[p].output

\* A mutated form: the output is written without its lock.
AfterLockOne(p) == "load"

AfterLock(p) ==
  IF stage[p] = "lock_input" /\ command[p].output # command[p].input
  THEN "lock_output" ELSE "load"

\* A mutated form: the lock file is opened, there or not.
AcquireShared(p) ==
  /\ Locking(p)
  /\ locked' = locked \cup {Wanted(p)}
  /\ holds' = [holds EXCEPT ![p] = Append(@, Wanted(p))]
  /\ stage' = [stage EXCEPT ![p] = AfterLock(p)]
  /\ UNCHANGED <<file, command, prepared>>

\* The lock file is created, which fails where there is one.
Acquire(p) ==
  /\ Locking(p) /\ Wanted(p) \notin locked
  /\ locked' = locked \cup {Wanted(p)}
  /\ holds' = [holds EXCEPT ![p] = Append(@, Wanted(p))]
  /\ stage' = [stage EXCEPT ![p] = AfterLock(p)]
  /\ UNCHANGED <<file, command, prepared>>

\* A mutated form: a lock that is taken is waited for.
BusyWaiting(p) == Locking(p) /\ Wanted(p) \notin locked /\ Refused(p)

\* The lock is taken, or cannot be created for another reason.
Busy(p) == Locking(p) /\ Refused(p)

\* Read and parse; a command that only reads is done.
Look(p) ==
  /\ stage[p] = "load" /\ ~ Writes(command[p])
  /\ Loads(Read(command[p]), p)
  /\ Over(p, "done")
  /\ UNCHANGED <<file, locked, holds>>

\* Read, parse, change in memory, check once more as it will be read, and write to a
\* temporary file beside.
Prepare(p) ==
  /\ stage[p] = "load" /\ Writes(command[p])
  /\ Loads(Read(command[p]), p)
  /\ \E new \in Results(command[p].kind, Read(command[p]), p) :
       /\ Loads(new, p)
       /\ prepared' = [prepared EXCEPT ![p] = new]
  /\ stage' = [stage EXCEPT ![p] = "replace"]
  /\ UNCHANGED <<file, locked, command, holds>>

\* The temporary file is renamed.
Replace(p) ==
  /\ stage[p] = "replace"
  /\ file' = [file EXCEPT ![command[p].output] = prepared[p]]
  /\ Over(p, "done")
  /\ UNCHANGED <<locked, holds>>

\* Any of these steps may fail: nothing to read, a key that is or is not there, no code
\* found, no room to write.  A temporary file goes with it.
Refuse(p) == stage[p] \in {"load", "replace"} /\ Refused(p)

\* The locks go in the reverse order; one that cannot be removed stays without notice.
Unlock(p) ==
  /\ stage[p] \in {"done", "failed"} /\ holds[p] # <<>>
  /\ holds' = [holds EXCEPT ![p] = Front(@)]
  /\ locked' \in {locked, locked \ {Last(holds[p])}}
  /\ UNCHANGED <<file, stage, command, prepared>>

Exit(p) ==
  /\ stage[p] \in {"done", "failed"} /\ holds[p] = <<>>
  /\ stage' = [stage EXCEPT ![p] = "idle"]
  /\ UNCHANGED <<file, locked, command, holds, prepared>>

Step(p) ==
  \/ Acquire(p) \/ Busy(p) \/ Look(p) \/ Prepare(p) \/ Replace(p) \/ Refuse(p)
  \/ Unlock(p) \/ Exit(p)

----------------------------------------------------------------------------
(* The world around.                                                       *)

\* The process is killed: its locks stay, and so may a temporary file that nobody reads.
Killed(p) ==
  /\ stage[p] # "idle"
  /\ Over(p, "idle")
  /\ holds' = [holds EXCEPT ![p] = <<>>]
  /\ UNCHANGED <<file, locked>>

\* A process that will hold a lock, or does.
Writing(p) == holds[p] # <<>> \/ (command[p] # None /\ Writes(command[p]))

\* Whoever tidies up does so "only after confirming no other writer is running".
RemoveStaleLock(path) ==
  /\ path \in locked
  /\ ~ \E p \in Process : Writing(p)
  /\ locked' = locked \ {path}
  /\ UNCHANGED <<file, stage, command, holds, prepared>>

Next ==
  \/ \E p \in Process : Start(p) \/ Step(p) \/ Killed(p)
  \/ \E path \in Path : RemoveStaleLock(path)

\* A command that runs goes on; nobody has to start, kill or tidy up.
Fairness == \A p \in Process : WF_vars(Step(p))

SafeSpec == Init /\ [][Next]_vars

Spec == SafeSpec /\ Fairness

----------------------------------------------------------------------------
\* The type invariant.  The arguments are there while they matter, and something is
\* prepared only to be written.
TypeOK ==
  /\ file \in [Path -> Content]
  /\ locked \subseteq Path
  /\ stage \in [Process -> Stage]
  /\ command \in [Process -> Command \cup {None}]
  /\ holds \in [Process -> Seq(Path)]
  /\ prepared \in [Process -> Catalog \cup {None}]
  /\ \A p \in Process : /\ command[p] = None <=> stage[p] \in {"idle", "done", "failed"}
                        /\ prepared[p] # None <=> stage[p] = "replace"

\* A lock has at most one holder, a process holds what its command writes from when it
\* has read until it is done, and nobody leaves holding a lock.
LockDiscipline ==
  \A p \in Process :
    /\ Range(holds[p]) \subseteq locked
    /\ stage[p] = "idle" => holds[p] = <<>>
    /\ \A q \in Process \ {p} : Range(holds[p]) \cap Range(holds[q]) = {}
    /\ stage[p] = "replace" => Range(holds[p]) = {command[p].input, command[p].output}

\* How the command of p is seen from outside.
Outcome(p) ==
  CASE stage[p] = "idle" -> "none"
    [] stage[p] = "done" -> "ok"
    [] stage[p] = "failed" -> "failed"
    [] OTHER -> "running"

\* The tool does what AtomicCatalog promises.
Atomic == INSTANCE AtomicCatalog WITH outcome <- [p \in Process |-> Outcome(p)]

AtomicSpec == Atomic!Spec

\* Every command ends, also when locks are taken, left behind or wanted crosswise.
EveryCommandEnds == \A p \in Process : stage[p] # "idle" ~> stage[p] = "idle"

=============================================================================
