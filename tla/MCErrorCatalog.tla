--------------------------- MODULE MCErrorCatalog ---------------------------
(***************************************************************************)
(* An instance of the error-code tool for TLC: two processes, whose        *)
(* environments disagree on one reference, and two files.                  *)
(***************************************************************************)
EXTENDS ErrorCatalog

CONSTANTS p1, p2, k1, k2, c1, c2, ref, left, right

Environments == [p \in Process |-> [r \in Reference |-> IF p = p1 THEN c1 ELSE c2]]

\* One file has a reference, the other is missing or does not parse.
Found == {[path \in Path |-> IF path = left THEN [k \in {k1} |-> ref] ELSE other] :
            other \in {None, Broken}}

\* Changes of one file, in place, from one to the other, and back.
Commands ==
  {[kind |-> "add", input |-> left, output |-> left],
   [kind |-> "rename", input |-> left, output |-> left],
   [kind |-> "recode", input |-> left, output |-> left],
   [kind |-> "recode", input |-> left, output |-> right],
   [kind |-> "delete", input |-> left, output |-> left],
   [kind |-> "delete", input |-> right, output |-> left],
   [kind |-> "add", input |-> right, output |-> right],
   [kind |-> "export", input |-> right, output |-> left],
   [kind |-> "read", input |-> left, output |-> left]}

=============================================================================
