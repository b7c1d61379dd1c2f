--------------------------- MODULE MCCmcAuthority ---------------------------
(* CmcAuthority for TLC: requests and processes are interchangeable. *)
EXTENDS CmcAuthority, TLC

Symmetry == Permutations(Requests) \cup Permutations(Procs)
=============================================================================
