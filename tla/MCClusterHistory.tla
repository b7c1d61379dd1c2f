-------------------------- MODULE MCClusterHistory --------------------------
(* A node with an own operation log and one peer whose second operation may *)
(* arrive before its first (a sequence gap).                                *)
EXTENDS ClusterHistory, TLC

CONSTANTS p1, p2, self, peer, x

MCProcs == {p1, p2}
MCActors == {self, peer}
MCBodies == {x}
MCForeign == {[actor |-> peer, seq |-> s, body |-> x] : s \in 1..2}
Perms == Permutations(MCProcs)
=============================================================================
