--------------------------- MODULE MCCmcExchange ---------------------------
(* The client's node and the authority's, with or without a node between. *)
EXTENDS CmcExchange

Direct == {<<"client", "authority">>}
Relayed == {<<"client", "relay">>, <<"relay", "authority">>}
=============================================================================
