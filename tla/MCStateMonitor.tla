--------------------------- MODULE MCStateMonitor ---------------------------
(* Small instances of StateMonitor for TLC. *)
EXTENDS StateMonitor
=============================================================================
