----------------------- MODULE MCTaskWorkerOwnership -----------------------
(* The worker's ownership, for TLC. *)
EXTENDS TaskWorkerOwnership
=============================================================================
