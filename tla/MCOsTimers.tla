----------------------------- MODULE MCOsTimers -----------------------------
(* Model-checking instances of OsTimers. *)
EXTENDS OsTimers
=============================================================================
