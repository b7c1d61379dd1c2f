---------------------------- MODULE OplogVectors ----------------------------
(***************************************************************************)
(* Sequence numbers of an oplog.  A history is a set of operations with an *)
(* actor and a number; a state vector gives, for every actor, how far the  *)
(* history is complete from one upwards.                                   *)
(***************************************************************************)
EXTENDS Integers

CONSTANT MaxSeq     \* bound: the highest sequence number

ASSUME MaxSeqAssumption == MaxSeq \in Nat

SeqsOf(h, a) == {o.seq : o \in {x \in h : x.actor = a}}

\* Mutant: the first missing number.
FirstMissing(S) ==
    1 + CHOOSE n \in 0..MaxSeq : 1..n \subseteq S /\ (n + 1) \notin (S \cap 1..MaxSeq)

\* _highest_contiguous_sequence: the largest n with 1..n all present.
Contiguous(S) ==
    CHOOSE n \in 0..MaxSeq : 1..n \subseteq S /\ (n + 1) \notin (S \cap 1..MaxSeq)

\* Mutant: the last number in use.
LastSeq(h, a) ==
    CHOOSE n \in 1..(MaxSeq + 1) :
        /\ n \in SeqsOf(h, a) \cup {1}
        /\ \A s \in SeqsOf(h, a) : s <= n

\* _next_seq: one more than the highest number of the actor's files.
NextSeq(h, a) ==
    CHOOSE n \in 1..(MaxSeq + 1) :
        /\ n - 1 \in SeqsOf(h, a) \cup {0}
        /\ \A s \in SeqsOf(h, a) : s < n

\* No actor's numbers have a gap; load_checkpoint_tail raises otherwise.
GapFree(h) == \A o \in h : 1..o.seq \subseteq SeqsOf(h, o.actor)
=============================================================================
