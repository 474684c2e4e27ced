---------------------------- MODULE AtomicCatalog ----------------------------
(***************************************************************************)
(* What the error-code catalogs promise to those who run the tool on them  *)
(* (src/logger/README.md, "atomically replace" and "prevent lost           *)
(* updates"): a command either leaves every file as it is, or replaces one *)
(* file, in one step, by a catalog made from what a file holds at that     *)
(* very step.  The catalog that is written loads where it was made and     *)
(* differs from the one it was made from by what was asked for and by      *)
(* nothing else: an entry nobody gave a code keeps its reference.          *)
(***************************************************************************)
EXTENDS Catalogs

----------------------------------------------------------------------------
VARIABLES
  file,              \* the content at each path
  command,           \* what each process has been asked for, None while it runs nothing
  outcome            \* of the command of each process: "running", "ok" or "failed", or
                     \* "none" while it runs none

vars == <<file, command, outcome>>

\* The entries at all other keys are in both and the same, or in neither.
Others(keys, old, new) ==
  \A k \in Key \ keys : /\ k \in DOMAIN new <=> k \in DOMAIN old
                        /\ k \in DOMAIN new => new[k] = old[k]

\* One entry is there that was not, with a code.
Adds(old, new) ==
  \E key \in Key \ DOMAIN old :
    Others({key}, old, new) /\ key \in DOMAIN new /\ new[key] \in Code

\* One entry is where it was, or under a key that was free and not where it was any more.
Moves(old, new, key, target) ==
  /\ target = key \/ target \notin DOMAIN old
  /\ Others({key, target}, old, new)
  /\ target \in DOMAIN new
  /\ target # key => key \notin DOMAIN new

\* It is what it was, a reference included.
Renames(old, new) ==
  \E key \in DOMAIN old, target \in Key :
    Moves(old, new, key, target) /\ new[target] = old[key]

\* It has been given a code.
Recodes(old, new) ==
  \E key \in DOMAIN old, target \in Key :
    Moves(old, new, key, target) /\ new[target] \in Code

\* One entry is gone.
Deletes(old, new) ==
  \E key \in DOMAIN old : Others({key}, old, new) /\ key \notin DOMAIN new

\* What was asked for, on what a file holds, is what is there afterwards.
Does(kind, old, new) ==
  /\ kind = "add" \/ old # None
  /\ \/ kind = "add" /\ Adds(Entries(old), new)
     \/ kind = "rename" /\ Renames(old, new)
     \/ kind = "recode" /\ Recodes(old, new)
     \/ kind = "delete" /\ Deletes(old, new)
     \/ kind = "export" /\ new = old

Init ==
  /\ file \in [Path -> Content]
  /\ command = [p \in Process |-> None]
  /\ outcome = [p \in Process |-> "none"]

Call(p) ==
  /\ outcome[p] = "none"
  /\ outcome' = [outcome EXCEPT ![p] = "running"]
  /\ \E c \in Command : command' = [command EXCEPT ![p] = c]
  /\ UNCHANGED file

Concludes(p, how) ==
  /\ outcome[p] = "running"
  /\ outcome' = [outcome EXCEPT ![p] = how]
  /\ command' = [command EXCEPT ![p] = None]

\* The file at the output becomes what the command makes of the file at the input.
Change(p) ==
  /\ Concludes(p, "ok")
  /\ LET c == command[p]
     IN  \E new \in Catalog :
           /\ file[c.input] # Broken
           /\ Loads(Entries(file[c.input]), p) /\ Loads(new, p)
           /\ Does(c.kind, file[c.input], new)
           /\ file' = [file EXCEPT ![c.output] = new]

\* A command that only reads has seen one catalog that loads.
Look(p) ==
  /\ Concludes(p, "ok")
  /\ command[p].kind = "read" /\ Loads(file[command[p].input], p)
  /\ UNCHANGED file

Refuse(p) == Concludes(p, "failed") /\ UNCHANGED file

\* The process is gone, killed perhaps, and if it was still running without effect.
Leave(p) ==
  /\ outcome' = [outcome EXCEPT ![p] = "none"]
  /\ command' = [command EXCEPT ![p] = None]
  /\ UNCHANGED file

Next == \E p \in Process : Call(p) \/ Change(p) \/ Look(p) \/ Refuse(p) \/ Leave(p)

Spec == Init /\ [][Next]_vars

=============================================================================
