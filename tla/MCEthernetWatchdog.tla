-------------------------- MODULE MCEthernetWatchdog --------------------------
(* Small instances of EthernetWatchdog for TLC. *)
EXTENDS EthernetWatchdog
=============================================================================
