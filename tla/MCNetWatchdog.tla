---------------------------- MODULE MCNetWatchdog ----------------------------
(* Small instances of NetWatchdog for TLC. *)
EXTENDS NetWatchdog, TLC

Symmetric == Permutations(Writers)
=============================================================================
