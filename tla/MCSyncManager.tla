--------------------------- MODULE MCSyncManager ---------------------------
(* SyncManager on small instances for TLC.                                 *)
EXTENDS SyncManager, TLC

(* Workers of one pool run the same code; tasks of one size differ only by *)
(* their id.                                                               *)
Symmetry == Permutations(SmallWorkers) \cup Permutations(LargeWorkers)
              \cup Permutations(LargeTasks) \cup Permutations(Tasks \ LargeTasks)
=============================================================================
