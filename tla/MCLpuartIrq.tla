----------------------------- MODULE MCLpuartIrq -----------------------------
(* Small instances of LpuartIrq for TLC. *)
EXTENDS LpuartIrq, TLC

Symmetric == Permutations(Files) \cup Permutations(Threads)
=============================================================================
