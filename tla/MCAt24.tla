-------------------------------- MODULE MCAt24 --------------------------------
(* Small instances of At24 for TLC. *)
EXTENDS At24, TLC

Symmetric == Permutations(Procs)
=============================================================================
