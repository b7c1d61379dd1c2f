-------------------------- MODULE ClusterSyncProofs --------------------------
(***************************************************************************)
(* Proofs about ClusterSync for every number of nodes, topology, batch     *)
(* limit and number of faults, with and without a checkpoint.              *)
(*                                                                         *)
(* The invariant has one part for the oplogs (LogOK), one for a pass       *)
(* (PassOK) and one for a peer thread (ThreadOK).  Its core is order: what *)
(* a thread still has to write is complete, together with what the         *)
(* receiver already has, below every operation in it, credential           *)
(* operations apart.                                                       *)
(***************************************************************************)
EXTENDS ClusterSync, FiniteSetTheorems, WellFoundedInduction, TLAPS

\* x precedes o in its actor's oplog and is not a credential operation.
Plain(x, o) == x.actor = o.actor /\ x.seq < o.seq /\ x.kind # "credential"

\* Below every operation of S, h misses credential operations only.
Covers(lg, h, S) == \A o \in S : \A x \in lg[o.actor] : Plain(x, o) => x \in h

Issued(lg, S) == \A o \in S : o \in lg[o.actor]

Unique(S) == \A o, x \in S : (o.actor = x.actor /\ o.seq = x.seq) => o = x

LogOK(lg) ==
    /\ lg \in [Nodes -> SUBSET Op]
    /\ \A n \in Nodes : Issued(lg, lg[n]) /\ Unique(lg[n]) /\ Covers(lg, lg[n], lg[n])

PassOK(n) ==
    /\ \A a \in Nodes : 1..vec[n][a] \subseteq SeqsOf(log[n], a)
    /\ cache[n] \subseteq log[n]
    /\ Covers(log, cache[n], cache[n])

ThreadOK(l) ==
    /\ \A a \in Nodes : 1..rvec[l][a] \subseteq SeqsOf(log[l[2]], a)
    /\ Issued(log, batch[l]) /\ Issued(log, late[l]) /\ Issued(log, out[l])
    /\ Covers(log, log[l[1]] \cup batch[l], batch[l])
    /\ Covers(log, log[l[1]] \cup batch[l], late[l])
    /\ Covers(log, log[l[2]] \cup out[l], out[l])

SyncInv ==
    /\ TypeOK
    /\ LogOK(log)
    /\ \A n \in Nodes : PassOK(n)
    /\ \A l \in Links : ThreadOK(l)

\* Every oplog grew, and an operation is new to its own actor's oplog only if
\* its number is above all numbers the actor had used.
Grown(lg, lh) ==
    /\ \A n \in Nodes : lg[n] \subseteq lh[n]
    /\ \A a \in Nodes : \A x \in lh[a] : x.actor = a =>
          \/ x \in lg[a]
          \/ \A y \in lg[a] : y.actor = a => y.seq < x.seq

\* Node m receives the operations S, which may be written now.
Delivers(m, S) ==
    /\ S \subseteq Op /\ Issued(log, S) /\ Covers(log, log[m] \cup S, S)
    /\ log' = [log EXCEPT ![m] = @ \cup S]

-----------------------------------------------------------------------------
(* The numbers that the oplog code looks up always exist.                   *)

\* A non-empty set of naturals has a least element.
LEMMA LeastNat ==
    ASSUME NEW T, T \subseteq Nat, T # {}
    PROVE  \E x \in T : \A y \in T : x <= y
<1>1. PICK x \in T : \A y \in T : ~(<<y, x>> \in OpToRel(<, Nat))
  BY NatLessThanWellFounded, WFMin
<1>2. ASSUME NEW y \in T PROVE x <= y
  <2>1. ~(y < x)  BY <1>1 DEF OpToRel
  <2> QED BY <2>1
<1> QED BY <1>2

\* _highest_contiguous_sequence is defined for every set of numbers: all
\* numbers up to it are present and the next one is not.
LEMMA ContiguousSpec ==
    ASSUME NEW S
    PROVE  /\ Contiguous(S) \in 0..MaxSeq
           /\ 1..Contiguous(S) \subseteq S
           /\ (Contiguous(S) + 1) \notin (S \cap 1..MaxSeq)
<1> DEFINE T == {n \in Nat : (n + 1) \notin (S \cap 1..MaxSeq)}
<1>0. MaxSeq \in Nat  BY MaxSeqAssumption
<1>1. MaxSeq \in T  BY <1>0
<1>2. PICK m \in T : \A y \in T : m <= y
  <2> HIDE DEF T
  <2>1. T \subseteq Nat  BY DEF T
  <2> QED BY <1>1, <2>1, LeastNat
<1>3. m \in 0..MaxSeq  BY <1>0, <1>1, <1>2
<1>4. 1..m \subseteq S
  <2> SUFFICES ASSUME NEW k \in 1..m PROVE k \in S
    OBVIOUS
  <2>1. k - 1 \in Nat /\ k - 1 < m  BY <1>3
  <2>2. k - 1 \notin T  BY <1>2, <2>1
  <2> QED BY <2>1, <2>2
<1>5. (m + 1) \notin (S \cap 1..MaxSeq)  BY <1>2
<1> QED BY <1>3, <1>4, <1>5 DEF Contiguous

\* _next_seq returns a number above every number the actor has on disk.
LEMMA NextSeqFresh ==
    ASSUME NEW h, NEW a, SeqsOf(h, a) \subseteq 1..MaxSeq
    PROVE  /\ NextSeq(h, a) \in 1..(MaxSeq + 1)
           /\ \A s \in SeqsOf(h, a) : s < NextSeq(h, a)
<1> DEFINE S == SeqsOf(h, a)
           T == {n \in Nat : n >= 1 /\ \A s \in S : s < n}
<1>0. MaxSeq \in Nat /\ S \subseteq 1..MaxSeq  BY MaxSeqAssumption
<1> HIDE DEF S
<1>1. MaxSeq + 1 \in T  BY <1>0
<1>2. PICK m \in T : \A y \in T : m <= y
  <2> HIDE DEF T
  <2>1. T \subseteq Nat  BY DEF T
  <2> QED BY <1>1, <2>1, LeastNat
<1>3. m \in 1..(MaxSeq + 1) /\ \A s \in S : s < m  BY <1>0, <1>1, <1>2
<1>4. m - 1 \in S \cup {0}
  <2>1. CASE m = 1  BY <2>1
  <2>2. CASE m # 1
    <3>1. m - 1 \in Nat /\ m - 1 >= 1 /\ m - 1 < m  BY <1>3, <2>2, <1>0
    <3>2. m - 1 \notin T  BY <1>2, <3>1
    <3>3. PICK s \in S : ~(s < m - 1)  BY <3>1, <3>2
    <3>4. s \in Nat /\ s < m  BY <1>0, <1>3
    <3> QED BY <3>1, <3>3, <3>4, <1>3
  <2> QED BY <2>1, <2>2
<1> QED BY <1>3, <1>4 DEF NextSeq, S

-----------------------------------------------------------------------------
(* Operators.                                                               *)

LEMMA LinkEnds == \A l \in Links : l[1] \in Nodes /\ l[2] \in Nodes
BY SyncAssumption

LEMMA NodesNat == Nodes \subseteq Nat
BY SyncAssumption DEF Nodes

LEMMA OpNat == \A o \in Op : o.actor \in Nodes /\ o.actor \in Nat /\ o.seq \in Nat
<1> SUFFICES ASSUME NEW o \in Op PROVE o.actor \in Nodes /\ o.actor \in Nat /\ o.seq \in Nat
  OBVIOUS
<1>1. o.actor \in Nodes /\ o.seq \in 1..MaxSeq  BY DEF Op
<1>2. o.actor \in Nat  BY <1>1, NodesNat
<1>3. o.seq \in Nat  BY <1>1, MaxSeqAssumption
<1> QED BY <1>1, <1>2, <1>3

LEMMA SeqsType ==
    ASSUME NEW h, h \subseteq Op, NEW a
    PROVE  SeqsOf(h, a) \subseteq 1..MaxSeq
BY DEF SeqsOf, Op

LEMMA VectorType == ASSUME NEW h PROVE VectorOf(h) \in Vectors
BY ContiguousSpec DEF VectorOf, Vectors

\* A vector read from an oplog claims nothing the oplog does not hold.
LEMMA VectorClaims ==
    ASSUME NEW h, NEW a \in Nodes
    PROVE  1..VectorOf(h)[a] \subseteq SeqsOf(h, a)
BY ContiguousSpec DEF VectorOf

\* The operation list of a peer has a first element.
LEMMA FirstExists ==
    ASSUME NEW S, S \subseteq Op, S # {}, Unique(S)
    PROVE  /\ FirstOf(S) \in S
           /\ \A x \in S \ {FirstOf(S)} : Before(FirstOf(S), x)
<1> DEFINE Acts == {o.actor : o \in S}
<1>0. Nodes \subseteq Nat /\ 1..MaxSeq \subseteq Nat  BY NodesNat
<1>1. PICK a \in Acts : \A y \in Acts : a <= y
  <2>1. Acts \subseteq Nat /\ Acts # {}  BY <1>0 DEF Op
  <2> HIDE DEF Acts
  <2> QED BY <2>1, LeastNat
<1> DEFINE Nums == {o.seq : o \in {x \in S : x.actor = a}}
<1>2. PICK s \in Nums : \A y \in Nums : s <= y
  <2>1. Nums \subseteq Nat /\ Nums # {}  BY <1>0, <1>1 DEF Op
  <2> HIDE DEF Nums
  <2> QED BY <2>1, LeastNat
<1>3. PICK o \in S : o.actor = a /\ o.seq = s  BY <1>2
<1>4. ASSUME NEW x \in S \ {o} PROVE Before(o, x)
  <2>1. x.actor \in Nat /\ x.seq \in Nat /\ o.actor \in Nat /\ o.seq \in Nat
    BY <1>0 DEF Op
  <2>2. a <= x.actor  BY <1>1
  <2>3. CASE x.actor = a
    <3>1. s <= x.seq /\ x.seq # s  BY <1>2, <1>3, <2>3 DEF Unique
    <3> QED BY <1>3, <2>1, <2>3, <3>1 DEF Before
  <2>4. CASE x.actor # a  BY <1>3, <2>1, <2>2, <2>4 DEF Before
  <2> QED BY <2>3, <2>4
<1> QED BY <1>3, <1>4 DEF FirstOf

\* Nothing below the first operation of S is in S.
LEMMA FirstIsLeast ==
    ASSUME NEW S, S \subseteq Op, S # {}, Unique(S), NEW x \in S
    PROVE  ~Plain(x, FirstOf(S))
<1>1. FirstOf(S) \in S /\ (x # FirstOf(S) => Before(FirstOf(S), x))
  BY FirstExists
<1>2. x.actor \in Nat /\ x.seq \in Nat /\ FirstOf(S).actor \in Nat /\ FirstOf(S).seq \in Nat
  BY <1>1, OpNat
<1> QED BY <1>1, <1>2 DEF Before, Plain

LEMMA OpFinite == ASSUME NEW S, S \subseteq Op PROVE IsFiniteSet(S)
<1> DEFINE P == Nodes \X (1..MaxSeq)
           Q == P \X Kinds
           f == [o \in Op |-> <<<<o.actor, o.seq>>, o.kind>>]
<1>1. IsFiniteSet(Nodes) /\ IsFiniteSet(1..MaxSeq)
  BY FS_Interval, SyncAssumption, MaxSeqAssumption DEF Nodes
<1>2. IsFiniteSet(Kinds)
  <2>1. IsFiniteSet({"config"})  BY FS_Singleton
  <2>2. IsFiniteSet({"config"} \cup {"credential"})  BY <2>1, FS_AddElement
  <2>3. Kinds = {"config"} \cup {"credential"}  BY DEF Kinds
  <2> QED BY <2>2, <2>3
<1>3. IsFiniteSet(Q)
  <2>1. IsFiniteSet(P)  BY <1>1, FS_Product
  <2> HIDE DEF P
  <2> QED BY <2>1, <1>2, FS_Product
<1>4. f \in Injection(Op, Q)
  <2>1. f \in [Op -> Q]  BY DEF Op
  <2>2. ASSUME NEW o \in Op, NEW x \in Op, f[o] = f[x] PROVE o = x
    <3>1. <<<<o.actor, o.seq>>, o.kind>> = <<<<x.actor, x.seq>>, x.kind>>
      BY <2>2
    <3>2. o.actor = x.actor /\ o.seq = x.seq /\ o.kind = x.kind  BY <3>1
    <3> QED BY <3>2 DEF Op
  <2> HIDE DEF f, Q
  <2> QED BY <2>1, <2>2 DEF Injection, IsInjective
<1>5. IsFiniteSet(Op)
  <2> HIDE DEF Q, f
  <2> QED BY <1>3, <1>4, FS_Injection
<1> QED BY <1>5, FS_Subset

\* _bounded_operation_batch keeps the head of the list: what precedes a member
\* of the batch is in the batch.
LEMMA BoundedIsHead ==
    ASSUME NEW S, S \subseteq Op, NEW o \in Bounded(S), NEW x \in S, Before(x, o)
    PROVE  x \in Bounded(S)
<1> DEFINE below(y) == {z \in S : Before(z, y)}
<1>1. below(x) \subseteq below(o)
  <2> SUFFICES ASSUME NEW z \in S, Before(z, x) PROVE Before(z, o)
    OBVIOUS
  <2>1. \A y \in S : y.actor \in Nat /\ y.seq \in Nat  BY OpNat
  <2>2. o \in S  BY DEF Bounded
  <2> QED BY <2>1, <2>2 DEF Before
<1>2. IsFiniteSet(below(o))  BY OpFinite
<1>3. IsFiniteSet(below(x)) /\ Cardinality(below(x)) <= Cardinality(below(o))
  BY <1>1, <1>2, FS_Subset
<1>4. Cardinality(below(o)) \in Nat /\ Cardinality(below(x)) \in Nat
  BY <1>2, <1>3, FS_CardinalityType
<1>5. Cardinality(below(o)) < BatchLimit  BY DEF Bounded
<1>6. BatchLimit \in Nat  BY SyncAssumption
<1> QED BY <1>3, <1>4, <1>5, <1>6 DEF Bounded

-----------------------------------------------------------------------------
(* Oplogs.                                                                  *)

\* Issued operations with the same number are the same operation.
LEMMA IssuedUnique ==
    ASSUME NEW lg, LogOK(lg), NEW S, S \subseteq Op, Issued(lg, S)
    PROVE  Unique(S)
BY DEF LogOK, Issued, Unique, Op

\* If a vector entry v is sound for h, h has every issued operation up to v.
LEMMA UpToVector ==
    ASSUME NEW lg, LogOK(lg), NEW m \in Nodes, NEW a \in Nodes,
           NEW v \in Nat, 1..v \subseteq SeqsOf(lg[m], a),
           NEW x \in lg[a], x.actor = a, x.seq <= v
    PROVE  x \in lg[m]
<1>1. x \in Op  BY DEF LogOK
<1>2. x.seq \in 1..v  BY <1>1, MaxSeqAssumption DEF Op
<1>3. PICK y \in lg[m] : y.actor = a /\ y.seq = x.seq  BY <1>2 DEF SeqsOf
<1>4. y \in lg[a]  BY <1>3 DEF LogOK, Issued
<1> QED BY <1>3, <1>4 DEF LogOK, Unique

LEMMA StableIssued ==
    ASSUME NEW lg, NEW lh, Grown(lg, lh), NEW S, S \subseteq Op, Issued(lg, S)
    PROVE  Issued(lh, S)
BY DEF Grown, Issued, Op

LEMMA StableCovers ==
    ASSUME NEW lg, NEW lh, Grown(lg, lh), LogOK(lg), LogOK(lh), NEW S, S \subseteq Op, Issued(lg, S),
           NEW h, NEW g, h \subseteq g, Covers(lg, h, S)
    PROVE  Covers(lh, g, S)
<1> SUFFICES ASSUME NEW o \in S, NEW x \in lh[o.actor], Plain(x, o)
             PROVE  x \in g
  BY DEF Covers
<1>1. o.actor \in Nodes /\ o.seq \in Nat /\ o \in lg[o.actor]
  BY MaxSeqAssumption DEF Op, Issued
<1>2. x \in Op /\ x.seq \in Nat  BY <1>1, MaxSeqAssumption DEF LogOK, Op
<1>3. x.actor = o.actor /\ x.seq < o.seq  BY DEF Plain
<1>4. x \in lg[o.actor]  BY <1>1, <1>2, <1>3 DEF Grown
<1> QED BY <1>4 DEF Covers

\* Writing operations that may be written now keeps every oplog in order.
LEMMA DeliverOK ==
    ASSUME LogOK(log), NEW m \in Nodes, NEW S, Delivers(m, S)
    PROVE  LogOK(log') /\ Grown(log, log')
<1>0. /\ S \subseteq Op /\ Issued(log, S) /\ Covers(log, log[m] \cup S, S)
      /\ log' = [log EXCEPT ![m] = @ \cup S]
  BY DEF Delivers
<1>1. log \in [Nodes -> SUBSET Op]  BY DEF LogOK
<1>2. log' \in [Nodes -> SUBSET Op]  BY <1>0, <1>1
<1>3. log'[m] = log[m] \cup S /\ \A n \in Nodes \ {m} : log'[n] = log[n]
  BY <1>0, <1>1
<1>4. \A n \in Nodes : log[n] \subseteq log'[n]  BY <1>3
<1>5. ASSUME NEW a \in Nodes, NEW x \in log'[a], x.actor = a PROVE x \in log[a]
  BY <1>0, <1>3, <1>5 DEF Issued
<1>6. Grown(log, log')  BY <1>4, <1>5 DEF Grown
<1>7. ASSUME NEW n \in Nodes PROVE Issued(log', log'[n])
  <2> SUFFICES ASSUME NEW o \in log'[n] PROVE o \in log'[o.actor]
    BY DEF Issued
  <2>1. o \in Op /\ o.actor \in Nodes  BY <1>2, OpNat
  <2>2. o \in log[o.actor]  BY <1>0, <1>3 DEF LogOK, Issued
  <2> QED BY <2>1, <2>2, <1>4
<1>8. ASSUME NEW n \in Nodes PROVE Unique(log'[n])
  <2>1. Issued(log, log'[n])  BY <1>0, <1>3 DEF LogOK, Issued
  <2>2. log'[n] \subseteq Op  BY <1>2
  <2> HIDE DEF LogOK
  <2> QED BY <2>1, <2>2, IssuedUnique
<1>9. ASSUME NEW n \in Nodes PROVE Covers(log', log'[n], log'[n])
  <2> SUFFICES ASSUME NEW o \in log'[n], NEW x \in log'[o.actor], Plain(x, o)
               PROVE  x \in log'[n]
    BY DEF Covers
  <2>1. o.actor \in Nodes  BY <1>2, OpNat
  <2>2. x \in log[o.actor]  BY <1>5, <2>1 DEF Plain
  <2>3. CASE o \in log[n]
    <3>1. x \in log[n]  BY <2>2, <2>3 DEF LogOK, Covers
    <3> QED BY <3>1, <1>4
  <2>4. CASE o \notin log[n]
    <3>1. n = m /\ o \in S  BY <2>4, <1>3
    <3> QED BY <3>1, <2>2, <1>0, <1>3 DEF Covers
  <2> QED BY <2>3, <2>4
<1> QED BY <1>2, <1>6, <1>7, <1>8, <1>9 DEF LogOK

\* Append issues a number above all numbers of the actor.
LEMMA AppendOK ==
    ASSUME LogOK(log), NEW n \in Nodes, NEW k \in Kinds, Append(n, k)
    PROVE  /\ LogOK(log') /\ Grown(log, log')
           /\ \E o \in Op :
                 /\ o.actor = n
                 /\ \A x \in log[n] : x.actor = n => x.seq < o.seq
                 /\ log' = [log EXCEPT ![n] = @ \cup {o}]
<1> DEFINE s == NextSeq(log[n], n)
           o == [actor |-> n, seq |-> s, kind |-> k]
<1>1. log \in [Nodes -> SUBSET Op]  BY DEF LogOK
<1>2. /\ s \in 1..(MaxSeq + 1)
      /\ \A y \in SeqsOf(log[n], n) : y < s
  BY <1>1, SeqsType, NextSeqFresh
<1>3. s <= MaxSeq  BY DEF Append
<1>4. log' = [log EXCEPT ![n] = @ \cup {o}]  BY DEF Append
<1> HIDE DEF s
<1>5. s \in 1..MaxSeq  BY <1>2, <1>3, MaxSeqAssumption
<1>6. o \in Op /\ o.actor = n /\ o.seq = s  BY <1>5 DEF Op
<1>7. \A x \in log[n] : x.actor = n => x.seq < s  BY <1>2 DEF SeqsOf
<1> HIDE DEF o
<1>8. log'[n] = log[n] \cup {o} /\ \A m \in Nodes \ {n} : log'[m] = log[m]
  BY <1>1, <1>4
<1>9. log' \in [Nodes -> SUBSET Op]  BY <1>1, <1>4, <1>6
<1>10. Grown(log, log')
  <2>1. \A m \in Nodes : log[m] \subseteq log'[m]  BY <1>8
  <2>2. ASSUME NEW a \in Nodes, NEW x \in log'[a], x.actor = a
        PROVE  x \in log[a] \/ \A y \in log[a] : y.actor = a => y.seq < x.seq
    BY <1>6, <1>7, <1>8
  <2> QED BY <2>1, <2>2 DEF Grown
<1>11. ASSUME NEW m \in Nodes PROVE Issued(log', log'[m])
  <2> SUFFICES ASSUME NEW x \in log'[m] PROVE x \in log'[x.actor]
    BY DEF Issued
  <2>1. x.actor \in Nodes  BY <1>9, OpNat
  <2>2. CASE x = o  BY <2>2, <1>6, <1>8
  <2>3. CASE x # o
    <3>1. x \in log[x.actor]  BY <2>3, <1>8 DEF LogOK, Issued
    <3> QED BY <3>1, <2>1, <1>8
  <2> QED BY <2>2, <2>3
<1>12. ASSUME NEW m \in Nodes PROVE Unique(log'[m])
  <2> SUFFICES ASSUME NEW x \in log'[m], NEW y \in log'[m], x.actor = y.actor, x.seq = y.seq
               PROVE  x = y
    BY DEF Unique
  <2>1. CASE x \in log[m] /\ y \in log[m]  BY <2>1 DEF LogOK, Unique
  <2>2. CASE m = n /\ x = o /\ y \in log[n]
    <3>1. y.seq < s /\ y.seq = s  BY <1>6, <1>7, <2>2
    <3>2. y.seq \in Nat  BY <1>1, <2>2, OpNat
    <3> QED BY <3>1, <3>2
  <2>3. CASE m = n /\ y = o /\ x \in log[n]
    <3>1. x.seq < s /\ x.seq = s  BY <1>6, <1>7, <2>3
    <3>2. x.seq \in Nat  BY <1>1, <2>3, OpNat
    <3> QED BY <3>1, <3>2
  <2>4. CASE x = o /\ y = o  BY <2>4
  <2> QED BY <2>1, <2>2, <2>3, <2>4, <1>8
<1>13. ASSUME NEW m \in Nodes PROVE Covers(log', log'[m], log'[m])
  <2> SUFFICES ASSUME NEW y \in log'[m], NEW x \in log'[y.actor], Plain(x, y)
               PROVE  x \in log'[m]
    BY DEF Covers
  <2>1. y.actor \in Nodes  BY <1>9, OpNat
  <2>2. CASE y \in log[m]
    <3>1. y \in log[y.actor]  BY <2>2 DEF LogOK, Issued
    <3>2. x.seq \in Nat /\ y.seq \in Nat /\ s \in Nat  BY <2>1, <1>9, <1>5, OpNat
    <3>3. x # o  BY <3>1, <3>2, <1>6, <1>7 DEF Plain
    <3>4. x \in log[y.actor]  BY <3>3, <2>1, <1>8
    <3>5. x \in log[m]  BY <3>4, <2>2 DEF LogOK, Covers
    <3> QED BY <3>5, <1>8
  <2>3. CASE y \notin log[m]
    <3>1. y = o /\ m = n  BY <2>3, <1>8
    <3> QED BY <3>1, <1>6
  <2> QED BY <2>2, <2>3
<1> QED BY <1>4, <1>6, <1>7, <1>9, <1>10, <1>11, <1>12, <1>13 DEF LogOK

-----------------------------------------------------------------------------
(* What each step writes.                                                   *)

LEMMA LocalOpsOK ==
    ASSUME SyncInv, NEW n \in Nodes
    PROVE  /\ LocalOps(n) \subseteq log[n] /\ LocalOps(n) \subseteq Op
           /\ Issued(log, LocalOps(n))
           /\ Covers(log, LocalOps(n), LocalOps(n))
<1>1. LocalOps(n) \subseteq log[n] /\ Covers(log, LocalOps(n), LocalOps(n))
  BY DEF LocalOps, SyncInv, PassOK, LogOK
<1>2. log[n] \subseteq Op /\ Issued(log, log[n])  BY DEF SyncInv, LogOK
<1> QED BY <1>1, <1>2 DEF Issued

\* Fetch reads a range above the vector of the pass and up to the vector of
\* the handshake; below it the pulling node has everything.
LEMMA RangeOK ==
    ASSUME SyncInv, NEW l \in Links, NEW a \in Nodes, NEW o \in log[l[2]],
           o.actor = a, o.seq <= rvec[l][a],
           NEW x \in log[a], Plain(x, o), x \notin log[l[1]]
    PROVE  x \in log[l[2]] /\ vec[l[1]][a] < x.seq /\ x.seq <= rvec[l][a]
<1>0. l[1] \in Nodes /\ l[2] \in Nodes  BY LinkEnds
<1>1. vec[l[1]][a] \in Nat /\ rvec[l][a] \in Nat
  BY <1>0, MaxSeqAssumption DEF SyncInv, TypeOK, Vectors
<1>2. x \in Op /\ o \in Op  BY <1>0 DEF SyncInv, LogOK
<1>3. x.seq \in Nat /\ o.seq \in Nat  BY <1>2, OpNat
<1>4. x.actor = a /\ x.seq < o.seq  BY DEF Plain
<1>5. LogOK(log)  BY DEF SyncInv
<1>6. x.seq <= rvec[l][a]  BY <1>1, <1>3, <1>4
<1>7. x \in log[l[2]]
  <2>1. 1..rvec[l][a] \subseteq SeqsOf(log[l[2]], a)  BY DEF SyncInv, ThreadOK
  <2> QED BY <2>1, <1>0, <1>1, <1>4, <1>5, <1>6, UpToVector
<1>8. ~(x.seq <= vec[l[1]][a])
  <2>1. 1..vec[l[1]][a] \subseteq SeqsOf(log[l[1]], a)  BY <1>0 DEF SyncInv, PassOK
  <2> QED BY <2>1, <1>0, <1>1, <1>4, <1>5, UpToVector
<1> QED BY <1>1, <1>3, <1>6, <1>7, <1>8

LEMMA WritePulledOK ==
    ASSUME SyncInv, NEW l \in Links, WritePulled(l)
    PROVE  FirstOf(batch[l]) \in batch[l] /\ Delivers(l[1], {FirstOf(batch[l])})
<1> DEFINE o == FirstOf(batch[l])
<1>1. batch[l] \subseteq Op /\ Issued(log, batch[l]) /\ batch[l] # {}
  BY DEF SyncInv, TypeOK, ThreadOK, WritePulled
<1>2. Unique(batch[l])  BY <1>1, IssuedUnique DEF SyncInv
<1>3. o \in batch[l] /\ \A x \in batch[l] : ~Plain(x, o)
  BY <1>1, <1>2, FirstExists, FirstIsLeast
<1>4. log' = [log EXCEPT ![l[1]] = @ \cup {o}]  BY DEF WritePulled
<1> HIDE DEF o
<1>5. Covers(log, log[l[1]] \cup batch[l], batch[l])  BY DEF SyncInv, ThreadOK
<1>6. Covers(log, log[l[1]] \cup {o}, {o})  BY <1>3, <1>5 DEF Covers
<1>7. {o} \subseteq Op /\ Issued(log, {o})  BY <1>1, <1>3 DEF Issued
<1>8. Delivers(l[1], {o})  BY <1>4, <1>6, <1>7 DEF Delivers
<1> QED BY <1>3, <1>8 DEF o

LEMMA WriteLateOK ==
    ASSUME SyncInv, NEW l \in Links, WriteLate(l)
    PROVE  FirstOf(late[l]) \in late[l] /\ Delivers(l[1], {FirstOf(late[l])})
<1> DEFINE o == FirstOf(late[l])
<1>1. late[l] \subseteq Op /\ Issued(log, late[l]) /\ late[l] # {}
  BY DEF SyncInv, TypeOK, ThreadOK, WriteLate
<1>2. Unique(late[l])  BY <1>1, IssuedUnique DEF SyncInv
<1>3. o \in late[l]  BY <1>1, <1>2, FirstExists
<1>4. log' = [log EXCEPT ![l[1]] = @ \cup {o}]  BY DEF WriteLate
<1> HIDE DEF o
<1>5. Covers(log, log[l[1]] \cup batch[l], late[l]) /\ batch[l] = {}
  BY DEF SyncInv, ThreadOK, WriteLate
<1>6. Covers(log, log[l[1]] \cup {o}, {o})  BY <1>3, <1>5 DEF Covers
<1>7. {o} \subseteq Op /\ Issued(log, {o})  BY <1>1, <1>3 DEF Issued
<1>8. Delivers(l[1], {o})  BY <1>4, <1>6, <1>7 DEF Delivers
<1> QED BY <1>3, <1>8 DEF o

LEMMA PushOneOK ==
    ASSUME SyncInv, NEW l \in Links, PushOne(l)
    PROVE  PublishNext(out[l]) \in out[l] /\ Delivers(l[2], {PublishNext(out[l])})
<1> DEFINE o == PublishNext(out[l])
           plain == {x \in out[l] : x.kind # "credential"}
<1>1. out[l] \subseteq Op /\ Issued(log, out[l]) /\ out[l] # {}
  BY DEF SyncInv, TypeOK, ThreadOK, PushOne
<1>2. Unique(out[l])  BY <1>1, IssuedUnique DEF SyncInv
<1>3. o \in out[l] /\ \A x \in out[l] : ~Plain(x, o)
  <2>1. CASE plain = {}
    <3>1. o = FirstOf(out[l])  BY <2>1 DEF PublishNext
    <3> HIDE DEF o
    <3> QED BY <1>1, <1>2, <3>1, FirstExists, FirstIsLeast
  <2>2. CASE plain # {}
    <3>1. o = FirstOf(plain)  BY <2>2 DEF PublishNext
    <3>2. plain \subseteq Op /\ Unique(plain)  BY <1>1, <1>2 DEF Unique
    <3> HIDE DEF o
    <3>3. o \in plain /\ \A x \in plain : ~Plain(x, o)
      <4> HIDE DEF plain
      <4> QED BY <2>2, <3>1, <3>2, FirstExists, FirstIsLeast
    <3> QED BY <3>3 DEF Plain
  <2> QED BY <2>1, <2>2
<1>4. log' = [log EXCEPT ![l[2]] = @ \cup {o}]  BY DEF PushOne
<1> HIDE DEF o
<1>5. Covers(log, log[l[2]] \cup out[l], out[l])  BY DEF SyncInv, ThreadOK
<1>6. Covers(log, log[l[2]] \cup {o}, {o})  BY <1>3, <1>5 DEF Covers
<1>7. {o} \subseteq Op /\ Issued(log, {o})  BY <1>1, <1>3 DEF Issued
<1>8. Delivers(l[2], {o})  BY <1>4, <1>6, <1>7 DEF Delivers
<1> QED BY <1>3, <1>8 DEF o

LEMMA PushBundleOK ==
    ASSUME SyncInv, NEW l \in Links, PushBundle(l)
    PROVE  Delivers(l[2], out[l])
BY DEF SyncInv, TypeOK, ThreadOK, PushBundle, Delivers

LEMMA RepairGapOK ==
    ASSUME SyncInv, NEW l \in Links, RepairGap(l)
    PROVE  \E o : Delivers(l[2], {o})
<1>0. l[1] \in Nodes /\ l[2] \in Nodes /\ LogOK(log)  BY LinkEnds DEF SyncInv
<1>1. PICK o \in LocalOps(l[1]) : /\ IsFirstGap(log[l[2]], o)
                                  /\ log' = [log EXCEPT ![l[2]] = @ \cup {o}]
  BY DEF RepairGap
<1>2. o \in Op /\ Issued(log, {o})  BY <1>0, <1>1, LocalOpsOK DEF Issued
<1> DEFINE c == Contiguous(SeqsOf(log[l[2]], o.actor))
<1>3. o.seq = c + 1  BY <1>1 DEF IsFirstGap
<1>4. c \in Nat /\ 1..c \subseteq SeqsOf(log[l[2]], o.actor)
  BY ContiguousSpec, MaxSeqAssumption
<1> HIDE DEF c
<1>5. ASSUME NEW x \in log[o.actor], Plain(x, o) PROVE x \in log[l[2]]
  <2>1. o.actor \in Nodes  BY <1>2, OpNat
  <2>2. x \in Op  BY <2>1, <1>0 DEF LogOK
  <2>3. x.seq \in Nat /\ x.actor = o.actor /\ x.seq < o.seq
    BY <2>2, <1>5, OpNat DEF Plain
  <2>4. x.seq <= c  BY <2>3, <1>3, <1>4
  <2> QED BY <2>1, <2>3, <2>4, <1>0, <1>4, UpToVector
<1>6. Covers(log, log[l[2]] \cup {o}, {o})  BY <1>5 DEF Covers
<1> QED BY <1>1, <1>2, <1>6 DEF Delivers

\* Selected is complete, with what the peer has, below each of its members.
LEMMA SelectedOK ==
    ASSUME SyncInv, NEW l \in Links
    PROVE  /\ Selected(l) \subseteq Op /\ Issued(log, Selected(l))
           /\ Covers(log, log[l[2]] \cup Selected(l), Selected(l))
<1> DEFINE missing == {o \in LocalOps(l[1]) : o.seq > rvec[l][o.actor]}
           S == IF l[2] \in Credential THEN missing
                ELSE {o \in missing : o.kind # "credential"}
<1>0. l[1] \in Nodes /\ l[2] \in Nodes /\ LogOK(log)  BY LinkEnds DEF SyncInv
<1>1. Selected(l) = Bounded(S)  BY DEF Selected
<1>2. S \subseteq LocalOps(l[1])  OBVIOUS
<1>3. Bounded(S) \subseteq S  BY DEF Bounded
<1>4. S \subseteq Op  BY <1>0, <1>2, LocalOpsOK
<1>5. Selected(l) \subseteq Op /\ Issued(log, Selected(l))
  <2> HIDE DEF S
  <2> QED BY <1>0, <1>1, <1>2, <1>3, LocalOpsOK DEF Issued
<1>6. ASSUME NEW o \in Bounded(S), NEW x \in log[o.actor], Plain(x, o), x \notin log[l[2]]
      PROVE  x \in Bounded(S)
  <2>1. o \in S /\ o \in LocalOps(l[1]) /\ o.actor \in Nodes
    BY <1>2, <1>3, <1>4, OpNat
  <2>2. x \in Op /\ x.actor = o.actor /\ x.seq < o.seq /\ x.kind # "credential"
    BY <1>0, <1>6, <2>1 DEF LogOK, Plain
  <2>3. x \in LocalOps(l[1])  BY <1>0, <1>6, <2>1, LocalOpsOK DEF Covers
  <2>4. rvec[l][o.actor] \in Nat
    BY <2>1, MaxSeqAssumption DEF SyncInv, TypeOK, Vectors
  <2>5. ~(x.seq <= rvec[l][o.actor])
    <3>1. 1..rvec[l][o.actor] \subseteq SeqsOf(log[l[2]], o.actor)
      BY <2>1 DEF SyncInv, ThreadOK
    <3> QED BY <3>1, <1>0, <1>6, <2>1, <2>2, <2>4, UpToVector
  <2>6. x.seq \in Nat  BY <2>2, OpNat
  <2>7. x \in S  BY <2>2, <2>3, <2>4, <2>5, <2>6
  <2>8. Before(x, o)  BY <2>2 DEF Before
  <2> HIDE DEF S
  <2> QED BY <1>4, <1>6, <2>7, <2>8, BoundedIsHead
<1>7. Covers(log, log[l[2]] \cup Selected(l), Selected(l))
  <2> HIDE DEF S
  <2> QED BY <1>1, <1>6 DEF Covers
<1> QED BY <1>5, <1>7

-----------------------------------------------------------------------------
(* The invariant is inductive.                                              *)

\* Every step leaves the oplogs alone, issues one operation or delivers some.
LEMMA LogStep ==
    ASSUME SyncInv, [Next]_vars
    PROVE  \/ log' = log
           \/ \E n \in Nodes, k \in Kinds : Append(n, k)
           \/ \E m \in Nodes : \E S : Delivers(m, S)
<1>1. CASE UNCHANGED vars  BY <1>1 DEF vars
<1>2. ASSUME NEW n \in Nodes, StartPass(n) \/ EndPass(n) PROVE log' = log
  BY <1>2 DEF StartPass, EndPass
<1>3. ASSUME NEW l \in Links, LinkStep(l) \/ Drop(l)
      PROVE  log' = log \/ \E m \in Nodes : \E S : Delivers(m, S)
  <2>0. l[1] \in Nodes /\ l[2] \in Nodes  BY LinkEnds
  <2>1. CASE RepairGap(l)  BY <2>0, <2>1, RepairGapOK
  <2>2. CASE WritePulled(l)  BY <2>0, <2>2, WritePulledOK
  <2>3. CASE WriteLate(l)  BY <2>0, <2>3, WriteLateOK
  <2>4. CASE PushBundle(l)  BY <2>0, <2>4, PushBundleOK
  <2>5. CASE PushOne(l)  BY <2>0, <2>5, PushOneOK
  <2>6. CASE \/ Handshake(l) \/ HandshakeFails(l) \/ Fetch(l) \/ PullFails(l)
             \/ NothingToPush(l) \/ PlanPush(l) \/ PushEnds(l) \/ Drop(l)
    BY <2>6 DEF Handshake, HandshakeFails, Fetch, PullFails, NothingToPush,
                PlanPush, PushEnds, Drop
  <2> QED BY <1>3, <2>1, <2>2, <2>3, <2>4, <2>5, <2>6 DEF LinkStep
<1> QED BY <1>1, <1>2, <1>3 DEF Next

LEMMA LogGrows ==
    ASSUME SyncInv, [Next]_vars
    PROVE  LogOK(log') /\ Grown(log, log')
<1>0. LogOK(log)  BY DEF SyncInv
<1>1. CASE log' = log  BY <1>0, <1>1 DEF Grown
<1>2. CASE \E n \in Nodes, k \in Kinds : Append(n, k)  BY <1>0, <1>2, AppendOK
<1>3. CASE \E m \in Nodes : \E S : Delivers(m, S)  BY <1>0, <1>3, DeliverOK
<1> QED BY <1>1, <1>2, <1>3, LogStep

\* What a pass holds stays true while the oplogs grow.
LEMMA PassStable ==
    ASSUME SyncInv, LogOK(log'), Grown(log, log'), NEW n \in Nodes,
           vec'[n] = vec[n], cache'[n] = cache[n]
    PROVE  PassOK(n)'
<1>0. PassOK(n) /\ LogOK(log) /\ cache[n] \subseteq Op
  BY DEF SyncInv, TypeOK
<1>1. Issued(log, cache[n])  BY <1>0 DEF PassOK, LogOK, Issued
<1>2. Covers(log', cache[n], cache[n])  BY <1>0, <1>1, StableCovers DEF PassOK
<1>3. \A a \in Nodes : 1..vec[n][a] \subseteq SeqsOf(log'[n], a)
  <2> TAKE a \in Nodes
  <2>1. 1..vec[n][a] \subseteq SeqsOf(log[n], a)  BY <1>0 DEF PassOK
  <2>2. log[n] \subseteq log'[n]  BY DEF Grown
  <2>3. SeqsOf(log[n], a) \subseteq SeqsOf(log'[n], a)  BY <2>2 DEF SeqsOf
  <2> QED BY <2>1, <2>3
<1>4. cache[n] \subseteq log'[n]  BY <1>0 DEF PassOK, Grown
<1> QED BY <1>2, <1>3, <1>4 DEF PassOK

LEMMA PassFresh ==
    ASSUME SyncInv, LogOK(log'), Grown(log, log'), NEW n \in Nodes,
           cache'[n] \subseteq log[n], Covers(log, cache'[n], cache'[n]),
           \A a \in Nodes : 1..vec'[n][a] \subseteq SeqsOf(log[n], a)
    PROVE  PassOK(n)'
<1>0. LogOK(log) /\ cache'[n] \subseteq Op  BY DEF SyncInv, LogOK
<1>1. Issued(log, cache'[n])  BY <1>0 DEF LogOK, Issued
<1>2. Covers(log', cache'[n], cache'[n])  BY <1>0, <1>1, StableCovers
<1>3. \A a \in Nodes : 1..vec'[n][a] \subseteq SeqsOf(log'[n], a)
  <2> TAKE a \in Nodes
  <2>1. log[n] \subseteq log'[n]  BY DEF Grown
  <2>2. SeqsOf(log[n], a) \subseteq SeqsOf(log'[n], a)  BY <2>1 DEF SeqsOf
  <2> QED BY <2>2
<1>4. cache'[n] \subseteq log'[n]  BY DEF Grown
<1> QED BY <1>2, <1>3, <1>4 DEF PassOK

\* What a thread holds stays true while the oplogs grow.
LEMMA ThreadStable ==
    ASSUME SyncInv, LogOK(log'), Grown(log, log'), NEW l \in Links,
           rvec'[l] = rvec[l], batch'[l] = batch[l], late'[l] = late[l], out'[l] = out[l]
    PROVE  ThreadOK(l)'
<1>0. ThreadOK(l) /\ LogOK(log) /\ l[1] \in Nodes /\ l[2] \in Nodes
  BY LinkEnds DEF SyncInv
<1>1. batch[l] \subseteq Op /\ late[l] \subseteq Op /\ out[l] \subseteq Op
  BY DEF SyncInv, TypeOK
<1>2. log[l[1]] \subseteq log'[l[1]] /\ log[l[2]] \subseteq log'[l[2]]  BY <1>0 DEF Grown
<1>3. Issued(log', batch[l]) /\ Issued(log', late[l]) /\ Issued(log', out[l])
  BY <1>0, <1>1, StableIssued DEF ThreadOK
<1>4. Covers(log', log'[l[1]] \cup batch[l], batch[l])
  BY <1>0, <1>1, <1>2, StableCovers DEF ThreadOK
<1>5. Covers(log', log'[l[1]] \cup batch[l], late[l])
  BY <1>0, <1>1, <1>2, StableCovers DEF ThreadOK
<1>6. Covers(log', log'[l[2]] \cup out[l], out[l])
  BY <1>0, <1>1, <1>2, StableCovers DEF ThreadOK
<1>7. \A a \in Nodes : 1..rvec[l][a] \subseteq SeqsOf(log'[l[2]], a)
  <2> TAKE a \in Nodes
  <2>1. 1..rvec[l][a] \subseteq SeqsOf(log[l[2]], a)  BY <1>0 DEF ThreadOK
  <2>2. SeqsOf(log[l[2]], a) \subseteq SeqsOf(log'[l[2]], a)  BY <1>2 DEF SeqsOf
  <2> QED BY <2>1, <2>2
<1> QED BY <1>3, <1>4, <1>5, <1>6, <1>7 DEF ThreadOK

\* A thread that ended holds nothing.
LEMMA ThreadGone ==
    ASSUME SyncInv, NEW l \in Links, ThreadEnds(l)
    PROVE  ThreadOK(l)'
<1>1. rvec'[l] = [a \in Nodes |-> 0] /\ batch'[l] = {} /\ late'[l] = {} /\ out'[l] = {}
  BY DEF ThreadEnds, SyncInv, TypeOK
<1> QED BY <1>1 DEF ThreadOK, Issued, Covers

LEMMA SyncInit == Init => SyncInv
<1> SUFFICES ASSUME Init PROVE SyncInv
  OBVIOUS
<1>1. TypeOK
  BY SyncAssumption, MaxSeqAssumption DEF Init, TypeOK, Vectors
<1>2. LogOK(log)  BY DEF Init, LogOK, Issued, Unique, Covers
<1>3. ASSUME NEW n \in Nodes PROVE PassOK(n)
  BY DEF Init, PassOK, Covers
<1>4. ASSUME NEW l \in Links PROVE ThreadOK(l)
  BY DEF Init, ThreadOK, Issued, Covers
<1> QED BY <1>1, <1>2, <1>3, <1>4 DEF SyncInv

LEMMA SyncTypeStep ==
    ASSUME SyncInv, [Next]_vars
    PROVE  TypeOK'
<1>0. TypeOK /\ log' \in [Nodes -> SUBSET Op]  BY LogGrows DEF SyncInv, LogOK
<1> USE MaxSeqAssumption, SyncAssumption
<1>1. CASE UNCHANGED vars  BY <1>0, <1>1 DEF vars, TypeOK
<1>2. ASSUME NEW n \in Nodes, NEW k \in Kinds, Append(n, k) PROVE TypeOK'
  BY <1>0, <1>2 DEF TypeOK, Append, pass, threads
<1>3. ASSUME NEW n \in Nodes, StartPass(n) PROVE TypeOK'
  BY <1>0, <1>3, VectorType DEF TypeOK, StartPass
<1>4. ASSUME NEW n \in Nodes, EndPass(n) PROVE TypeOK'
  BY <1>0, <1>4 DEF TypeOK, EndPass, threads, Vectors
<1>5. ASSUME NEW l \in Links, LinkStep(l) \/ Drop(l) PROVE TypeOK'
  <2>0. l[1] \in Nodes /\ l[2] \in Nodes  BY LinkEnds
  <2>1. CASE Handshake(l)
    <3>1. VectorOf(log[l[2]]) \in Vectors  BY VectorType
    <3> QED BY <1>0, <2>1, <3>1 DEF TypeOK, Handshake, pass
  <2>2. CASE RepairGap(l)
    <3>1. LocalOps(l[1]) \subseteq Op  BY <2>0, LocalOpsOK
    <3> QED BY <1>0, <2>0, <2>2, <3>1 DEF TypeOK, RepairGap, LoadLocalOps, threads
  <2>3. CASE Fetch(l)
    <3>1. log[l[2]] \subseteq Op  BY <1>0, <2>0 DEF TypeOK
    <3> QED BY <1>0, <2>0, <2>3, <3>1 DEF TypeOK, Fetch, pass
  <2>4. CASE WritePulled(l)  BY <1>0, <2>4 DEF TypeOK, WritePulled, pass
  <2>5. CASE WriteLate(l)  BY <1>0, <2>5 DEF TypeOK, WriteLate, pass
  <2>6. CASE PlanPush(l)
    <3>1. LocalOps(l[1]) \subseteq Op  BY <2>0, LocalOpsOK
    <3>2. Selected(l) \subseteq Op  BY SelectedOK
    <3> QED BY <1>0, <2>0, <2>6, <3>1, <3>2 DEF TypeOK, PlanPush, LoadLocalOps
  <2>7. CASE PushOne(l)  BY <1>0, <2>7 DEF TypeOK, PushOne, pass
  <2>8. CASE \/ PullFails(l) \/ NothingToPush(l) \/ PushBundle(l) \/ PushEnds(l)
    <3>1. ThreadEnds(l) /\ UNCHANGED <<pass, faults>>
      BY <2>8 DEF PullFails, NothingToPush, PushBundle, PushEnds
    <3> QED BY <1>0, <3>1 DEF TypeOK, ThreadEnds, pass, Vectors
  <2>10. CASE HandshakeFails(l)
    <3>1. UNCHANGED pass \/ LoadLocalOps(l[1])
      BY <2>10 DEF HandshakeFails
    <3>2. LocalOps(l[1]) \subseteq Op  BY <2>0, LocalOpsOK
    <3>3. /\ passing' \in [Nodes -> BOOLEAN] /\ vec' \in [Nodes -> Vectors]
          /\ cached' \in [Nodes -> BOOLEAN] /\ cache' \in [Nodes -> SUBSET Op]
      <4>1. CASE UNCHANGED pass  BY <1>0, <4>1 DEF TypeOK, pass
      <4>2. CASE LoadLocalOps(l[1])  BY <1>0, <2>0, <3>2, <4>2 DEF TypeOK, LoadLocalOps
      <4> QED BY <3>1, <4>1, <4>2
    <3> QED BY <1>0, <2>10, <3>3 DEF TypeOK, HandshakeFails, ThreadEnds, Vectors
  <2>9. CASE Drop(l)
    <3>1. faults' \in 0..MaxFaults  BY <1>0, <2>9 DEF TypeOK, Drop
    <3> QED BY <1>0, <2>9, <3>1 DEF TypeOK, Drop, ThreadEnds, pass, Vectors
  <2> QED BY <1>5, <2>1, <2>2, <2>3, <2>4, <2>5, <2>6, <2>7, <2>8, <2>9, <2>10
         DEF LinkStep
<1> QED BY <1>1, <1>2, <1>3, <1>4, <1>5 DEF Next

LEMMA PassStep ==
    ASSUME SyncInv, [Next]_vars, NEW n \in Nodes
    PROVE  PassOK(n)'
<1>0. TypeOK /\ LogOK(log') /\ Grown(log, log')  BY LogGrows DEF SyncInv
<1>1. CASE UNCHANGED <<vec, cache>>  BY <1>0, <1>1, PassStable
<1>2. ASSUME NEW m \in Nodes, StartPass(m) PROVE PassOK(n)'
  <2>1. CASE m # n
    <3>1. vec'[n] = vec[n] /\ cache'[n] = cache[n]
      BY <1>0, <1>2, <2>1 DEF TypeOK, StartPass
    <3> QED BY <1>0, <3>1, PassStable
  <2>2. CASE m = n
    <3>1. vec'[n] = VectorOf(log[n]) /\ cache'[n] = {}
      BY <1>0, <1>2, <2>2 DEF TypeOK, StartPass
    <3>2. \A a \in Nodes : 1..VectorOf(log[n])[a] \subseteq SeqsOf(log[n], a)
      BY VectorClaims
    <3>3. Covers(log, cache'[n], cache'[n]) /\ cache'[n] \subseteq log[n]
      BY <3>1 DEF Covers
    <3> QED BY <1>0, <3>1, <3>2, <3>3, PassFresh
  <2> QED BY <2>1, <2>2
<1>3. ASSUME NEW m \in Nodes, EndPass(m) PROVE PassOK(n)'
  <2>1. CASE m # n
    <3>1. vec'[n] = vec[n] /\ cache'[n] = cache[n]
      BY <1>0, <1>3, <2>1 DEF TypeOK, EndPass
    <3> QED BY <1>0, <3>1, PassStable
  <2>2. CASE m = n
    <3>1. vec'[n] = [a \in Nodes |-> 0] /\ cache'[n] = {}
      BY <1>0, <1>3, <2>2 DEF TypeOK, EndPass
    <3>2. \A a \in Nodes : 1..vec'[n][a] \subseteq SeqsOf(log[n], a)
      BY <3>1
    <3>3. Covers(log, cache'[n], cache'[n]) /\ cache'[n] \subseteq log[n]
      BY <3>1 DEF Covers
    <3> QED BY <1>0, <3>2, <3>3, PassFresh
  <2> QED BY <2>1, <2>2
<1>4. ASSUME NEW m \in Nodes, LoadLocalOps(m) PROVE PassOK(n)'
  <2>1. CASE m # n
    <3>1. vec'[n] = vec[n] /\ cache'[n] = cache[n]
      BY <1>0, <1>4, <2>1 DEF TypeOK, LoadLocalOps
    <3> QED BY <1>0, <3>1, PassStable
  <2>2. CASE m = n
    <3>1. vec'[n] = vec[n] /\ cache'[n] = LocalOps(n)
      BY <1>0, <1>4, <2>2 DEF TypeOK, LoadLocalOps
    <3>2. \A a \in Nodes : 1..vec[n][a] \subseteq SeqsOf(log[n], a)
      BY DEF SyncInv, PassOK
    <3>3. Covers(log, LocalOps(n), LocalOps(n)) /\ LocalOps(n) \subseteq log[n]
      BY LocalOpsOK
    <3> QED BY <1>0, <3>1, <3>2, <3>3, PassFresh
  <2> QED BY <2>1, <2>2
<1>5. ASSUME NEW l \in Links, LinkStep(l) \/ Drop(l) PROVE PassOK(n)'
  <2>1. LoadLocalOps(l[1]) \/ UNCHANGED <<vec, cache>>
    BY <1>5 DEF LinkStep, Handshake, RepairGap, HandshakeFails, Fetch, WritePulled,
                WriteLate, PullFails, NothingToPush, PlanPush, PushBundle, PushOne,
                PushEnds, Drop, pass
  <2> QED BY <2>1, <1>1, <1>4, LinkEnds
<1>6. ASSUME NEW m \in Nodes, NEW k \in Kinds, Append(m, k) PROVE PassOK(n)'
  BY <1>1, <1>6 DEF Append, pass
<1>7. CASE UNCHANGED vars  BY <1>1, <1>7 DEF vars
<1> QED BY <1>2, <1>3, <1>5, <1>6, <1>7 DEF Next

\* A write of the thread moves an operation from what it holds to the oplog.
LEMMA ThreadMoves ==
    ASSUME SyncInv, LogOK(log'), Grown(log, log'), NEW l \in Links, rvec'[l] = rvec[l],
           batch'[l] \subseteq batch[l], late'[l] \subseteq late[l], out'[l] \subseteq out[l],
           log[l[1]] \cup batch[l] \subseteq log'[l[1]] \cup batch'[l],
           log[l[2]] \cup out[l] \subseteq log'[l[2]] \cup out'[l]
    PROVE  ThreadOK(l)'
<1>0. ThreadOK(l) /\ LogOK(log) /\ l[1] \in Nodes /\ l[2] \in Nodes
  BY LinkEnds DEF SyncInv
<1>1. batch'[l] \subseteq Op /\ late'[l] \subseteq Op /\ out'[l] \subseteq Op
  BY DEF SyncInv, TypeOK
<1>2. Issued(log, batch'[l]) /\ Issued(log, late'[l]) /\ Issued(log, out'[l])
  BY <1>0 DEF ThreadOK, Issued
<1>3. /\ Covers(log, log[l[1]] \cup batch[l], batch'[l])
      /\ Covers(log, log[l[1]] \cup batch[l], late'[l])
      /\ Covers(log, log[l[2]] \cup out[l], out'[l])
  BY <1>0 DEF ThreadOK, Covers
<1>4. Issued(log', batch'[l]) /\ Issued(log', late'[l]) /\ Issued(log', out'[l])
  BY <1>1, <1>2, StableIssued
<1>5. Covers(log', log'[l[1]] \cup batch'[l], batch'[l])
  BY <1>0, <1>1, <1>2, <1>3, StableCovers
<1>6. Covers(log', log'[l[1]] \cup batch'[l], late'[l])
  BY <1>0, <1>1, <1>2, <1>3, StableCovers
<1>7. Covers(log', log'[l[2]] \cup out'[l], out'[l])
  BY <1>0, <1>1, <1>2, <1>3, StableCovers
<1>8. \A a \in Nodes : 1..rvec[l][a] \subseteq SeqsOf(log'[l[2]], a)
  <2> TAKE a \in Nodes
  <2>1. 1..rvec[l][a] \subseteq SeqsOf(log[l[2]], a)  BY <1>0 DEF ThreadOK
  <2>2. log[l[2]] \subseteq log'[l[2]]  BY <1>0 DEF Grown
  <2>3. SeqsOf(log[l[2]], a) \subseteq SeqsOf(log'[l[2]], a)  BY <2>2 DEF SeqsOf
  <2> QED BY <2>1, <2>3
<1> QED BY <1>4, <1>5, <1>6, <1>7, <1>8 DEF ThreadOK

\* What a thread fetched is complete with what its node has.
LEMMA FetchOK ==
    ASSUME SyncInv, NEW l \in Links, Fetch(l)
    PROVE  ThreadOK(l)'
<1> DEFINE a == CHOOSE x \in want[l] : \A y \in want[l] : x <= y
           range == {o \in log[l[2]] :
                       o.actor = a /\ vec[l[1]][a] < o.seq /\ o.seq <= rvec[l][a]}
<1>0. ThreadOK(l) /\ LogOK(log) /\ TypeOK /\ l[1] \in Nodes /\ l[2] \in Nodes
  BY LinkEnds DEF SyncInv
<1>1. batch[l] = {} /\ want[l] # {} /\ want[l] \subseteq Nodes
  BY <1>0 DEF Fetch, TypeOK
<1>2. a \in want[l] /\ a \in Nodes
  <2>1. \E x \in want[l] : \A y \in want[l] : x <= y
    BY <1>1, NodesNat, LeastNat
  <2> QED BY <2>1, <1>1
<1>3. /\ batch'[l] = {o \in range : o.kind # "credential"}
      /\ late'[l] = late[l] \cup {o \in range : o.kind = "credential"}
      /\ out'[l] = out[l] /\ rvec'[l] = rvec[l] /\ log' = log
  BY <1>0 DEF Fetch, TypeOK
<1> HIDE DEF a
<1>4. Issued(log, range)  BY <1>0 DEF LogOK, Issued
<1>5. Covers(log, log[l[1]] \cup batch'[l], range)
  <2> SUFFICES ASSUME NEW o \in range, NEW x \in log[o.actor], Plain(x, o), x \notin log[l[1]]
               PROVE  x \in batch'[l]
    BY DEF Covers
  <2>1. o \in log[l[2]] /\ o.actor = a /\ o.seq <= rvec[l][a]  OBVIOUS
  <2>2. x \in log[l[2]] /\ vec[l[1]][a] < x.seq /\ x.seq <= rvec[l][a]
    BY <1>2, <2>1, RangeOK
  <2>3. x.actor = a /\ x.kind # "credential"  BY <2>1 DEF Plain
  <2> QED BY <1>3, <2>2, <2>3
<1> HIDE DEF range
<1>6. batch'[l] \subseteq range /\ late'[l] \subseteq late[l] \cup range
  BY <1>3
<1>7. Issued(log, batch'[l]) /\ Issued(log, late'[l])
  BY <1>0, <1>4, <1>6 DEF ThreadOK, Issued
<1>8. Covers(log, log[l[1]] \cup batch'[l], batch'[l])  BY <1>5, <1>6 DEF Covers
<1>9. Covers(log, log[l[1]] \cup batch'[l], late'[l])
  <2>1. Covers(log, log[l[1]], late[l])  BY <1>0, <1>1 DEF ThreadOK, Covers
  <2> QED BY <2>1, <1>5, <1>6 DEF Covers
<1> QED BY <1>0, <1>3, <1>7, <1>8, <1>9 DEF ThreadOK

LEMMA ThreadStep ==
    ASSUME SyncInv, [Next]_vars, NEW l \in Links
    PROVE  ThreadOK(l)'
<1>0. TypeOK /\ LogOK(log') /\ Grown(log, log') /\ l[1] \in Nodes /\ l[2] \in Nodes
  BY LogGrows, LinkEnds DEF SyncInv
<1>1. CASE UNCHANGED <<rvec, batch, late, out>>  BY <1>0, <1>1, ThreadStable
<1>2. ASSUME NEW k \in Links, k # l, LinkStep(k) \/ Drop(k) PROVE ThreadOK(l)'
  <2>1. rvec'[l] = rvec[l] /\ batch'[l] = batch[l] /\ late'[l] = late[l] /\ out'[l] = out[l]
    <3>1. CASE ThreadEnds(k)  BY <1>0, <1>2, <3>1 DEF TypeOK, ThreadEnds
    <3>2. CASE UNCHANGED <<rvec, batch, late, out>>  BY <3>2
    <3>3. CASE Handshake(k)  BY <1>0, <1>2, <3>3 DEF TypeOK, Handshake
    <3>4. CASE Fetch(k)  BY <1>0, <1>2, <3>4 DEF TypeOK, Fetch
    <3>5. CASE WritePulled(k)  BY <1>0, <1>2, <3>5 DEF TypeOK, WritePulled
    <3>6. CASE WriteLate(k)  BY <1>0, <1>2, <3>6 DEF TypeOK, WriteLate
    <3>7. CASE PlanPush(k)  BY <1>0, <1>2, <3>7 DEF TypeOK, PlanPush
    <3>8. CASE PushOne(k)  BY <1>0, <1>2, <3>8 DEF TypeOK, PushOne
    <3> QED BY <1>2, <3>1, <3>2, <3>3, <3>4, <3>5, <3>6, <3>7, <3>8
            DEF LinkStep, RepairGap, HandshakeFails, PullFails, NothingToPush,
                PushBundle, PushEnds, Drop, threads
  <2> QED BY <1>0, <2>1, ThreadStable
<1>3. ASSUME LinkStep(l) \/ Drop(l) PROVE ThreadOK(l)'
  <2>1. CASE ThreadEnds(l)  BY <2>1, ThreadGone
  <2>2. CASE RepairGap(l)  BY <1>1, <2>2 DEF RepairGap, threads
  <2>3. CASE Handshake(l)
    <3>1. /\ rvec'[l] = VectorOf(log[l[2]]) /\ log' = log
          /\ batch'[l] = batch[l] /\ late'[l] = late[l] /\ out'[l] = out[l]
      BY <1>0, <2>3 DEF TypeOK, Handshake
    <3>2. \A a \in Nodes : 1..VectorOf(log[l[2]])[a] \subseteq SeqsOf(log[l[2]], a)
      BY VectorClaims
    <3> QED BY <3>1, <3>2 DEF SyncInv, ThreadOK
  <2>4. CASE Fetch(l)  BY <2>4, FetchOK
  <2>5. CASE WritePulled(l)
    <3>1. /\ batch'[l] = batch[l] \ {FirstOf(batch[l])}
          /\ log'[l[1]] = log[l[1]] \cup {FirstOf(batch[l])}
          /\ rvec'[l] = rvec[l] /\ late'[l] = late[l] /\ out'[l] = out[l]
      BY <1>0, <2>5 DEF TypeOK, WritePulled
    <3>2. log[l[2]] \subseteq log'[l[2]]  BY <1>0 DEF Grown
    <3>3. log[l[1]] \cup batch[l] \subseteq log'[l[1]] \cup batch'[l]  BY <3>1
    <3> QED BY <1>0, <3>1, <3>2, <3>3, ThreadMoves
  <2>6. CASE WriteLate(l)
    <3>1. /\ late'[l] \subseteq late[l] /\ batch'[l] = batch[l]
          /\ rvec'[l] = rvec[l] /\ out'[l] = out[l]
      BY <1>0, <2>6 DEF TypeOK, WriteLate
    <3>2. log[l[2]] \subseteq log'[l[2]] /\ log[l[1]] \subseteq log'[l[1]]
      BY <1>0 DEF Grown
    <3> QED BY <1>0, <3>1, <3>2, ThreadMoves
  <2>7. CASE PlanPush(l)
    <3>1. /\ out'[l] = Selected(l) /\ log' = log
          /\ rvec'[l] = rvec[l] /\ batch'[l] = batch[l] /\ late'[l] = late[l]
      BY <1>0, <2>7 DEF TypeOK, PlanPush
    <3>2. Issued(log, Selected(l)) /\ Covers(log, log[l[2]] \cup Selected(l), Selected(l))
      BY SelectedOK
    <3> QED BY <3>1, <3>2 DEF SyncInv, ThreadOK
  <2>8. CASE PushOne(l)
    <3>1. /\ out'[l] = out[l] \ {PublishNext(out[l])}
          /\ log'[l[2]] = log[l[2]] \cup {PublishNext(out[l])}
          /\ rvec'[l] = rvec[l] /\ batch'[l] = batch[l] /\ late'[l] = late[l]
      BY <1>0, <2>8 DEF TypeOK, PushOne
    <3>2. log[l[1]] \subseteq log'[l[1]]  BY <1>0 DEF Grown
    <3>3. log[l[2]] \cup out[l] \subseteq log'[l[2]] \cup out'[l]  BY <3>1
    <3> QED BY <1>0, <3>1, <3>2, <3>3, ThreadMoves
  <2> QED BY <1>3, <2>1, <2>2, <2>3, <2>4, <2>5, <2>6, <2>7, <2>8
          DEF LinkStep, HandshakeFails, PullFails, NothingToPush, PushBundle, PushEnds, Drop
<1>4. ASSUME NEW n \in Nodes, StartPass(n) \/ EndPass(n) PROVE ThreadOK(l)'
  BY <1>1, <1>4 DEF StartPass, EndPass, threads
<1>5. ASSUME NEW n \in Nodes, NEW k \in Kinds, Append(n, k) PROVE ThreadOK(l)'
  BY <1>1, <1>5 DEF Append, threads
<1>6. CASE UNCHANGED vars  BY <1>1, <1>6 DEF vars
<1> QED BY <1>2, <1>3, <1>4, <1>5, <1>6 DEF Next

-----------------------------------------------------------------------------
(* Theorems.                                                                *)

\* The invariant holds in every behaviour of passes, pulls and pushes.
THEOREM SyncSafe == Spec => []SyncInv
<1>1. SyncInv /\ [Next]_vars => SyncInv'
  <2> SUFFICES ASSUME SyncInv, [Next]_vars PROVE SyncInv'
    OBVIOUS
  <2>1. TypeOK'  BY SyncTypeStep
  <2>2. LogOK(log)'  BY LogGrows
  <2>3. \A n \in Nodes : PassOK(n)'  BY PassStep
  <2>4. \A l \in Links : ThreadOK(l)'  BY ThreadStep
  <2> QED BY <2>1, <2>2, <2>3, <2>4 DEF SyncInv
<1> QED BY <1>1, SyncInit, PTL DEF Spec

\* Oplogs, passes and peer threads keep their types (run_once, _sync_peer).
THEOREM SyncTypeOK == Spec => []TypeOK
<1>1. SyncInv => TypeOK  BY DEF SyncInv
<1> QED BY <1>1, SyncSafe, PTL

\* No replica ever holds an operation its actor did not issue, or a second
\* content for an op_id (append_operation, put-op, put-ops, apply-bundle).
THEOREM SyncOnlyIssued == Spec => []OnlyIssued
<1>1. SyncInv => OnlyIssued
  <2> SUFFICES ASSUME SyncInv PROVE OnlyIssued
    OBVIOUS
  <2>1. ASSUME NEW n \in Nodes, NEW o \in log[n] \cup cache[n] PROVE o \in log[o.actor]
    BY DEF SyncInv, LogOK, PassOK, Issued
  <2>2. ASSUME NEW l \in Links, NEW o \in batch[l] \cup late[l] \cup out[l]
        PROVE  o \in log[o.actor]
    BY DEF SyncInv, ThreadOK, Issued
  <2>3. ASSUME NEW n \in Nodes, NEW o \in log[n], NEW x \in log[n],
               o.actor = x.actor, o.seq = x.seq
        PROVE  o = x
    BY <2>3 DEF SyncInv, LogOK, Unique
  <2> QED BY <2>1, <2>2, <2>3 DEF OnlyIssued
<1> QED BY <1>1, SyncSafe, PTL

\* The vector of a pass and the vector of a handshake never claim an operation
\* the node lacks, however long the thread runs (_state_vector_from_operations).
THEOREM SyncVectorsSound == Spec => []VectorsSound
<1>1. SyncInv => VectorsSound  BY DEF SyncInv, VectorsSound, PassOK, ThreadOK
<1> QED BY <1>1, SyncSafe, PTL

\* Interrupted pulls and pushes leave gaps at credential operations only
\* (_pull_missing_operations, publish_order, _bounded_operation_batch).
THEOREM SyncOnlyCredentialGaps == Spec => []OnlyCredentialGaps
<1>1. SyncInv => OnlyCredentialGaps
  <2> SUFFICES ASSUME SyncInv, NEW n \in Nodes, NEW o \in log[n], NEW x \in log[o.actor],
                      x.actor = o.actor, x.seq < o.seq, x \notin log[n]
               PROVE  x.kind = "credential"
    BY DEF OnlyCredentialGaps
  <2>1. Covers(log, log[n], log[n])  BY DEF SyncInv, LogOK
  <2> QED BY <2>1 DEF Covers, Plain
<1> QED BY <1>1, SyncSafe, PTL

\* Cluster Sync implements the replicated oplog: every step of a pass, a pull
\* or a push issues one operation, delivers issued ones, or changes no oplog.
THEOREM SyncImplementsOplog == Spec => ImplementsOplog
<1> DEFINE Union == UNION {log[n] : n \in Nodes}
<1>1. Init => Abstract!Init
  BY DEF Init, Abstract!Init
<1>2. SyncInv /\ [Next]_vars => [Abstract!Next]_<<Union, log>>
  <2> SUFFICES ASSUME SyncInv, [Next]_vars
               PROVE  Abstract!Next \/ UNCHANGED <<Union, log>>
    OBVIOUS
  <2>0. LogOK(log)  BY DEF SyncInv
  <2>1. CASE log' = log  BY <2>1
  <2>2. ASSUME NEW n \in Nodes, NEW k \in Kinds, Append(n, k) PROVE Abstract!Next
    <3>1. PICK o \in Op : /\ o.actor = n
                          /\ \A x \in log[n] : x.actor = n => x.seq < o.seq
                          /\ log' = [log EXCEPT ![n] = @ \cup {o}]
      BY <2>0, <2>2, AppendOK
    <3>2. \A x \in Union : x.actor = n => x.seq < o.seq
      BY <3>1, <2>0 DEF LogOK, Issued
    <3>3. Union' = Union \cup {o}  BY <3>1, <2>0 DEF LogOK
    <3>4. Abstract!Issue(n)  BY <3>1, <3>2, <3>3 DEF Abstract!Issue
    <3> QED BY <3>4 DEF Abstract!Next
  <2>3. ASSUME NEW m \in Nodes, NEW S, Delivers(m, S) PROVE Abstract!Next
    <3>1. S \subseteq Op /\ Issued(log, S) /\ log' = [log EXCEPT ![m] = @ \cup S]
      BY <2>3 DEF Delivers
    <3>2. S \subseteq Union  BY <3>1, OpNat DEF Issued
    <3>3. Union' = Union
      <4>1. log'[m] = log[m] \cup S /\ \A n \in Nodes \ {m} : log'[n] = log[n]
        BY <3>1, <2>0 DEF LogOK
      <4>2. \A x : x \in Union' <=> x \in Union  BY <4>1, <3>2
      <4> QED BY <4>2
    <3>4. Abstract!Deliver(m)  BY <3>1, <3>2, <3>3 DEF Abstract!Deliver
    <3> QED BY <3>4 DEF Abstract!Next
  <2> QED BY <2>1, <2>2, <2>3, LogStep
<1> QED BY <1>1, <1>2, SyncSafe, PTL DEF Spec, ImplementsOplog, Abstract!Spec
=============================================================================
