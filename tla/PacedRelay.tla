----------------------------- MODULE PacedRelay -----------------------------
(***************************************************************************)
(* What the output scheduler promises the relay, whatever the rules, the   *)
(* telemetry and the network do: commands that may reach it are at least   *)
(* a hold apart, and none is sent before a hold has passed since the       *)
(* latest recovery.                                                        *)
(***************************************************************************)
EXTENDS Model

CONSTANT Hold

VARIABLES
  clock,     \* the time
  sent,      \* the latest instant a command may have left for the relay, or None
  settled    \* the latest recovery that the relay must be given a hold for

vars == <<clock, sent, settled>>

Init == clock = 0 /\ sent = None /\ settled = 0

Later == clock' \in Nat /\ clock' >= clock

Pass == Later /\ UNCHANGED <<sent, settled>>

\* A command decided at s leaves at sent', at the latest when the step ends.
Command ==
  /\ Later
  /\ \E s \in clock .. clock' :
       /\ sent # None => s >= sent + Hold
       /\ s >= settled + Hold
       /\ sent' \in s .. clock'
  /\ UNCHANGED settled

Recover == settled' = clock /\ UNCHANGED <<clock, sent>>

Next == Pass \/ Command \/ Recover

Spec == Init /\ [][Next]_vars

=============================================================================
