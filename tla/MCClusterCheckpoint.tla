------------------------ MODULE MCClusterCheckpoint ------------------------
(* A coordinator and its replicas. *)
EXTENDS ClusterCheckpoint
=============================================================================
