---------------------------- MODULE MCTaskQueue ----------------------------
(* Symmetry of the task queue's runners and requests, for TLC. *)
EXTENDS TaskQueue, TLC

Symmetry == Permutations(Runners) \cup Permutations(Requests)
=============================================================================
