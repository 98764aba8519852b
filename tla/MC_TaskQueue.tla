---------------------------- MODULE MC_TaskQueue ----------------------------
(* Small instances of TaskQueue: the .cfg files choose who calls what.     *)
EXTENDS TaskQueue, TLC

Symmetry == Permutations(Producers) \cup Permutations(Drainers)
=============================================================================
