------------------------------ MODULE Catalogs ------------------------------
(***************************************************************************)
(* Error-code catalogs as data (src/logger/error_codes.rs): what a file    *)
(* holds, what its entries stand for, when a process can load it, and what *)
(* a command asks for.                                                     *)
(***************************************************************************)
CONSTANTS
  Process,           \* the invocations of the tool that may run side by side
  Path,              \* of catalogs
  Key,               \* the error keys
  Code,              \* the valid error codes
  Reference,         \* ${NAME}: values taken from the environment
  Env,               \* what each reference is in the environment of each process:
                     \* a code, or None when it is unset or no valid code
  None,              \* also: no such file
  Broken             \* a file that is no object with unique keys

Entry == Code \cup Reference

Catalog == UNION {[keys -> Entry] : keys \in SUBSET Key}

Content == Catalog \cup {None, Broken}

ASSUME CatalogAssumption ==
  /\ None \notin Entry \cup Catalog /\ Broken \notin Catalog /\ None # Broken
  /\ Code \cap Reference = {}
  /\ Env \in [Process -> [Reference -> Code \cup {None}]]

\* The code an entry stands for in the environment of p.
Resolved(entry, p) == IF entry \in Code THEN entry ELSE Env[p][entry]

\* parse_error_codes: every entry is a valid code, and no two are the same.
Loads(content, p) ==
  /\ content \in Catalog
  /\ \A k \in DOMAIN content : Resolved(content[k], p) \in Code
  /\ \A k, l \in DOMAIN content :
       Resolved(content[k], p) = Resolved(content[l], p) => k = l

\* A missing file has no entries.
Entries(content) == IF content = None THEN [k \in {} |-> None] ELSE content

\* "rename" is an edit without a new code and "recode" one with a new code, be it under a
\* new key or not; "read" is get, search, all and validate, and also a service that loads
\* the catalog; "export" is a "read" with an explicit output file.
Kind == {"add", "rename", "recode", "delete", "read", "export"}

Command == [kind : Kind, input : Path, output : Path]

=============================================================================
