----------------------------- MODULE MCNetMonitor -----------------------------
(* Small instances of NetMonitor for TLC. *)
EXTENDS NetMonitor
=============================================================================
