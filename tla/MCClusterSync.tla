---------------------------- MODULE MCClusterSync ----------------------------
(* Topologies of two and three nodes for TLC. *)
EXTENDS ClusterSync

BothWays == {<<1, 2>>, <<2, 1>>}
\* Node 1 connects to node 2, nodes 2 and 3 to each other.
Hub == {<<1, 2>>, <<2, 3>>, <<3, 2>>}
Many == [config |-> 2, credential |-> 2]
Few == [config |-> 1, credential |-> 2]
Nothing == [config |-> 0, credential |-> 0]
BothWrite == <<Many, Many>>
OneWrites == <<Few, Nothing, Nothing>>
=============================================================================
