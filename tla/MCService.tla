----------------------------- MODULE MCService -----------------------------
(***************************************************************************)
(* An instance of the service for TLC: one connection at a time, and a     *)
(* channel for two events.                                                 *)
(***************************************************************************)
EXTENDS Service

Holders == {"main", "controller", "http"} \cup Connection

=============================================================================
