------------------------- MODULE MCNetWatchdogModule -------------------------
(* A small instance of NetWatchdogModule for TLC. *)
EXTENDS NetWatchdogModule
=============================================================================
