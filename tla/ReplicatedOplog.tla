--------------------------- MODULE ReplicatedOplog ---------------------------
(***************************************************************************)
(* What Cluster Sync promises, without saying how operations travel, and   *)
(* what checkpoints must not break, without saying where operations are    *)
(* kept: every node issues numbered operations, and what a replica holds   *)
(* only ever grows by operations that were really issued, each with its    *)
(* one content.                                                            *)
(***************************************************************************)
EXTENDS Integers

CONSTANTS
    Nodes,
    Op          \* the operations: each has an actor and a number, seq

VARIABLES
    issued,     \* every operation issued so far
    held        \* held[n]: the operations in node n's oplog

Init == issued = {} /\ held = [n \in Nodes |-> {}]

\* A node issues an operation under a number it has not used.
Issue(n) ==
    \E o \in Op :
        /\ o.actor = n
        /\ \A x \in issued : x.actor = n => x.seq < o.seq
        /\ issued' = issued \cup {o}
        /\ held' = [held EXCEPT ![n] = @ \cup {o}]

\* A replica receives some of the operations issued anywhere.
Deliver(n) ==
    \E S \in SUBSET issued :
        /\ held' = [held EXCEPT ![n] = @ \cup S]
        /\ issued' = issued

Next == \E n \in Nodes : Issue(n) \/ Deliver(n)

Spec == Init /\ [][Next]_<<issued, held>>
=============================================================================
