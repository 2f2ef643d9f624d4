------------------------- MODULE MCWorkOrderContract -------------------------
(* Two interchangeable sources and commands for TLC.                       *)
EXTENDS WorkOrderContract, TLC

Interchangeable == Permutations(Sources) \cup Permutations(Procs)
=============================================================================
