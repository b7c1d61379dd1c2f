--------------------------- MODULE MCProfitSweep ---------------------------
(* Instances of ProfitSweep for TLC. *)
EXTENDS ProfitSweep

=============================================================================
