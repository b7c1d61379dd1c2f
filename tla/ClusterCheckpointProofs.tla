----------------------- MODULE ClusterCheckpointProofs -----------------------
(***************************************************************************)
(* Proofs about checkpoints for any number of replicas, operations,         *)
(* proposals and faults.  The argument is about what a replica holds: the   *)
(* operations of its active checkpoint and those in its files.  Activation, *)
(* installation and pruning move operations between the two and leave the   *)
(* whole as it is; only an append and an exchange change it.                *)
(***************************************************************************)
EXTENDS ClusterCheckpoint, WellFoundedInduction, TLAPS

\* What a node holds: the operations of its checkpoint and those in its files.
Held(n) == oplog[n] \cup (IF active[n] = None THEN {} ELSE active[n].ops)

SameNumber(o, p) == o.actor = p.actor /\ o.seq = p.seq

\* Operations S are those up to v, without a gap.
Covers(S, v) ==
    /\ \A o \in S : o.seq <= v[o.actor]
    /\ \A a \in Nodes : \A s \in 1..v[a] : \E o \in S : o.actor = a /\ o.seq = s

GapFree(S) == \A o \in S : \A s \in 1..o.seq : \E p \in S : p.actor = o.actor /\ p.seq = s

Whole(cp) == cp \in Checkpoints /\ Covers(cp.ops, cp.vec)

KnownAt(cp, m) == cp.ops \subseteq Held(m)

\* Every actor holds its own operations, one for each number.
HistoryOK ==
    \A n \in Nodes :
        /\ GapFree(Held(n))
        /\ \A o \in Held(n) : o \in Held(o.actor)
        /\ \A o, p \in Held(n) : SameNumber(o, p) => o = p

\* A node activates what all nodes hold.
ActiveOK ==
    \A n \in Nodes : active[n] # None =>
        /\ Whole(active[n]) /\ \A m \in Nodes : KnownAt(active[n], m)
        /\ AtMost(prev[n].vec, active[n].vec)

CoordinatorOK ==
    co.phase # "idle" =>
        /\ Whole(co.cp)
        /\ \A m \in Nodes : co.phase # "prepare" \/ m \in co.acks => KnownAt(co.cp, m)

CallsOK ==
    \A c \in calls :
        /\ Whole(c.cp)
        /\ c.verb # "install" => c.id \in 1..co.id
        /\ c.verb = "prepare" /\ co.phase # "idle" /\ c.id = co.id => c.cp = co.cp
        /\ c.verb # "prepare" => \A m \in Nodes : KnownAt(c.cp, m)

\* An interrupted prune only has operations below its safe vector.
JournalOK ==
    \A n \in Nodes : journal[n] # None =>
        \A o \in journal[n].ops : o.seq <= journal[n].safe[o.actor]

CheckpointInv ==
    /\ TypeOK /\ co.id + faults <= MaxEvents
    /\ HistoryOK /\ ActiveOK /\ CoordinatorOK /\ CallsOK /\ JournalOK

-----------------------------------------------------------------------------
(* Numbers and vectors.                                                     *)

\* A non-empty set of naturals has a least element.
LEMMA LeastNat ==
    ASSUME NEW T, T \subseteq Nat, T # {}
    PROVE  \E x \in T : \A y \in T : x <= y
<1>1. PICK x \in T : \A y \in T : ~(<<y, x>> \in OpToRel(<, Nat))
  BY NatLessThanWellFounded, WFMin
<1>2. ASSUME NEW y \in T PROVE x <= y
  <2>1. ~(y < x)  BY <1>1 DEF OpToRel
  <2>. QED BY <2>1
<1>. QED BY <1>2

\* A bounded one has a greatest.
LEMMA GreatestNat ==
    ASSUME NEW N \in Nat, NEW T, T \subseteq 0..N, T # {}
    PROVE  Max(T) \in T /\ \A y \in T : y <= Max(T)
<1> DEFINE D == {N - x : x \in T}
<1>1. D \subseteq Nat /\ D # {}
  <2>1. \A x \in T : N - x \in Nat  OBVIOUS
  <2>. QED BY <2>1
<1>2. PICK d \in D : \A e \in D : d <= e
  <2>. HIDE DEF D
  <2>. QED BY <1>1, LeastNat
<1>3. PICK x \in T : d = N - x
  OBVIOUS
<1>4. \A y \in T : x >= y
  <2>. SUFFICES ASSUME NEW y \in T PROVE x >= y
    OBVIOUS
  <2>1. N - x <= N - y  BY <1>2, <1>3
  <2>. QED BY <2>1
<1>5. \A y \in T : Max(T) >= y /\ Max(T) \in T
  BY <1>4 DEF Max
<1>. QED BY <1>5

\* _tail_vector counts on from the baseline as far as there is no gap.
LEMMA ContiguousSpec ==
    ASSUME NEW from \in 0..MaxSeq, NEW S
    PROVE  /\ Contiguous(from, S) \in from..MaxSeq
           /\ (from + 1)..Contiguous(from, S) \subseteq S
           /\ \A s \in from..MaxSeq : (from + 1)..s \subseteq S => s <= Contiguous(from, S)
<1> DEFINE T == {s \in from..MaxSeq : (from + 1)..s \subseteq S}
<1>1. MaxSeq \in Nat
  BY CheckpointAssumption
<1>2. T \subseteq 0..MaxSeq /\ from \in T
  BY <1>1
<1>3. Contiguous(from, S) = Max(T)
  BY DEF Contiguous
<1>4. Max(T) \in T /\ \A y \in T : y <= Max(T)
  <2>. HIDE DEF T
  <2>. QED BY <1>1, <1>2, GreatestNat
<1>. QED BY <1>3, <1>4

LEMMA BaselineType == ASSUME TypeOK, NEW n \in Nodes PROVE Baseline(n) \in Vectors
<1>1. MaxSeq \in Nat  BY CheckpointAssumption
<1>2. active[n] \in Checkpoints \cup {None}  BY DEF TypeOK
<1>. QED BY <1>1, <1>2 DEF Baseline, Vectors, Checkpoints

LEMMA VectorType ==
    ASSUME TypeOK, NEW n \in Nodes
    PROVE  /\ Vector(n) \in Vectors
           /\ \A a \in Nodes :
                /\ Baseline(n)[a] \in 0..MaxSeq
                /\ Vector(n)[a] = Contiguous(Baseline(n)[a], SeqsOf(n, a))
                /\ Baseline(n)[a] <= Vector(n)[a]
<1>1. MaxSeq \in Nat  BY CheckpointAssumption
<1>2. ASSUME NEW a \in Nodes
      PROVE  /\ Baseline(n)[a] \in 0..MaxSeq
             /\ Vector(n)[a] = Contiguous(Baseline(n)[a], SeqsOf(n, a))
             /\ Contiguous(Baseline(n)[a], SeqsOf(n, a)) \in Baseline(n)[a]..MaxSeq
  <2>1. Baseline(n)[a] \in 0..MaxSeq  BY BaselineType DEF Vectors
  <2>. QED BY <2>1, ContiguousSpec DEF Vector
<1>3. Vector(n) = [a \in Nodes |-> Vector(n)[a]]  BY DEF Vector
<1>4. \A a \in Nodes : Vector(n)[a] \in 0..MaxSeq /\ Baseline(n)[a] <= Vector(n)[a]
  BY <1>1, <1>2
<1>. QED BY <1>2, <1>3, <1>4 DEF Vectors

-----------------------------------------------------------------------------
(* What a node holds.                                                       *)

LEMMA HeldType ==
    ASSUME TypeOK, NEW n \in Nodes
    PROVE  /\ oplog[n] \subseteq Held(n) /\ Held(n) \subseteq Operations
           /\ \A o \in Held(n) : o.actor \in Nodes /\ o.seq \in 1..MaxSeq
           /\ active[n] # None => active[n] \in Checkpoints /\ active[n].ops \subseteq Held(n)
<1>1. oplog[n] \subseteq Operations /\ active[n] \in Checkpoints \cup {None}
  BY DEF TypeOK
<1>2. active[n] # None => active[n] \in Checkpoints /\ active[n].ops \subseteq Operations
  BY <1>1 DEF Checkpoints
<1>. QED BY <1>1, <1>2 DEF Held, Operations

\* An operation is determined by its number, on all nodes.
LEMMA OneEach ==
    ASSUME HistoryOK, TypeOK, NEW n \in Nodes, NEW m \in Nodes,
           NEW o \in Held(n), NEW p \in Held(m), SameNumber(o, p)
    PROVE  o = p
<1>1. o.actor \in Nodes /\ o \in Held(o.actor) /\ p \in Held(o.actor)
  BY HeldType DEF HistoryOK, SameNumber
<1>. QED BY <1>1 DEF HistoryOK

\* Replicas that have the same numbers hold the same operations.
LEMMA CoversMonotone ==
    ASSUME HistoryOK, TypeOK, NEW n \in Nodes, NEW m \in Nodes,
           NEW S, NEW T, S \subseteq Held(n), T \subseteq Held(m),
           NEW w \in Vectors, Covers(T, w),
           \A o \in S : o.seq <= w[o.actor]
    PROVE  S \subseteq T
<1>. SUFFICES ASSUME NEW o \in S PROVE o \in T
  OBVIOUS
<1>1. o.actor \in Nodes /\ o.seq \in 1..w[o.actor]
  <2>1. o.actor \in Nodes /\ o.seq \in 1..MaxSeq  BY HeldType
  <2>2. w[o.actor] \in 0..MaxSeq  BY <2>1 DEF Vectors
  <2>. QED BY <2>1, <2>2, CheckpointAssumption
<1>2. PICK p \in T : SameNumber(o, p)
  BY <1>1 DEF Covers, SameNumber
<1>. QED BY <1>2, OneEach

\* A node's vector counts everything it holds; its state is what it holds.
LEMMA VectorCovers ==
    ASSUME TypeOK, HistoryOK, ActiveOK, NEW n \in Nodes
    PROVE  /\ Covers(Held(n), Vector(n))
           /\ State(n) = Held(n)
           /\ Gapless(n)
<1> DEFINE b == Baseline(n)  V == Vector(n)
<1>0. MaxSeq \in Nat  BY CheckpointAssumption
<1>1. /\ V \in Vectors /\ \A a \in Nodes :
            b[a] \in 0..MaxSeq /\ V[a] \in 0..MaxSeq /\ b[a] <= V[a]
                               /\ V[a] = Contiguous(b[a], SeqsOf(n, a))
  BY VectorType DEF Vectors
<1>2. ASSUME NEW o \in Held(n), o.seq > b[o.actor] PROVE o \in oplog[n]
  <2>1. CASE active[n] = None  BY <2>1, <1>2 DEF Held
  <2>2. CASE active[n] # None
    <3>1. o \notin active[n].ops
      BY <1>1, <1>2, <2>2, HeldType DEF ActiveOK, Whole, Covers, Baseline
    <3>. QED BY <2>2, <3>1 DEF Held
  <2>. QED BY <2>1, <2>2
<1>3. ASSUME NEW o \in Held(n) PROVE o.seq <= V[o.actor]
  <2>1. o.actor \in Nodes /\ o.seq \in 1..MaxSeq  BY HeldType
  <2>2. CASE o.seq <= b[o.actor]  BY <1>0, <1>1, <2>1, <2>2
  <2>3. CASE o.seq > b[o.actor]
    <3>1. ASSUME NEW s \in (b[o.actor] + 1)..o.seq PROVE s \in SeqsOf(n, o.actor)
      <4>1. s \in 1..o.seq /\ s > b[o.actor]  BY <1>0, <1>1, <2>1
      <4>2. PICK p \in Held(n) : p.actor = o.actor /\ p.seq = s
        BY <4>1 DEF HistoryOK, GapFree
      <4>3. p \in oplog[n]  BY <1>2, <4>1, <4>2
      <4>. QED BY <4>2, <4>3 DEF SeqsOf
    <3>2. o.seq \in b[o.actor]..MaxSeq  BY <1>0, <1>1, <2>1, <2>3
    <3>3. (b[o.actor] + 1)..o.seq \subseteq SeqsOf(n, o.actor)  BY <3>1
    <3>. QED BY <1>1, <2>1, <3>2, <3>3, ContiguousSpec
  <2>. QED BY <1>0, <1>1, <2>1, <2>2, <2>3
<1>4. ASSUME NEW a \in Nodes, NEW s \in 1..V[a]
      PROVE  \E o \in Held(n) : o.actor = a /\ o.seq = s
  <2>1. CASE s <= b[a]
    <3>1. active[n] # None /\ b = active[n].vec
      BY <1>1, <2>1 DEF Baseline
    <3>2. s \in 1..active[n].vec[a]  BY <1>1, <2>1, <3>1
    <3>3. \E o \in active[n].ops : o.actor = a /\ o.seq = s
      BY <3>1, <3>2 DEF ActiveOK, Whole, Covers
    <3>. QED BY <3>1, <3>3, HeldType
  <2>2. CASE s > b[a]
    <3>1. s \in (b[a] + 1)..V[a]  BY <1>0, <1>1, <2>2
    <3>2. s \in SeqsOf(n, a)  BY <1>1, <3>1, ContiguousSpec
    <3>. QED BY <3>2, HeldType DEF SeqsOf
  <2>. QED BY <1>1, <2>1, <2>2
<1>5. Covers(Held(n), V)  BY <1>3, <1>4 DEF Covers
<1>6. Gapless(n)
  BY <1>3, HeldType DEF Gapless, Reduced, Tail
<1>7. State(n) = Held(n)
  <2>1. State(n) \subseteq Held(n)
    BY HeldType DEF State, Reduced, Tail, Held
  <2>2. ASSUME NEW o \in Held(n) PROVE o \in State(n)
    <3>1. CASE o.seq > b[o.actor]
      BY <1>2, <1>3, <3>1 DEF State, Reduced, Tail
    <3>2. CASE ~(o.seq > b[o.actor])
      <4>1. o.actor \in Nodes /\ o.seq \in 1..MaxSeq /\ o.seq <= b[o.actor]
        BY <1>0, <1>1, <3>2, HeldType
      <4>2. active[n] # None /\ b = active[n].vec
        BY <4>1 DEF Baseline
      <4>3. o.seq \in 1..b[o.actor]  BY <1>1, <4>1
      <4>4. PICK p \in active[n].ops : SameNumber(o, p)
        BY <4>1, <4>2, <4>3 DEF ActiveOK, Whole, Covers, SameNumber
      <4>5. o = p  BY <4>2, <4>4, HeldType, OneEach
      <4>. QED BY <4>2, <4>4, <4>5 DEF State
    <3>. QED BY <3>1, <3>2
  <2>. QED BY <2>1, <2>2
<1>. QED BY <1>5, <1>6, <1>7

-----------------------------------------------------------------------------
(* What steps keep.                                                         *)

LEMMA KeepHistory ==
    ASSUME TypeOK, HistoryOK, \A n \in Nodes : Held(n)' = Held(n)
    PROVE  HistoryOK'
<1>1. \A n \in Nodes : \A o \in Held(n) : o.actor \in Nodes  BY HeldType
<1>. QED BY <1>1 DEF HistoryOK, GapFree

LEMMA KeepActive ==
    ASSUME ActiveOK, UNCHANGED <<active, prev>>, \A n \in Nodes : Held(n) \subseteq Held(n)'
    PROVE  ActiveOK'
BY DEF ActiveOK, KnownAt

LEMMA KeepCoordinator ==
    ASSUME CoordinatorOK, UNCHANGED co, \A n \in Nodes : Held(n) \subseteq Held(n)'
    PROVE  CoordinatorOK'
BY DEF CoordinatorOK, KnownAt

LEMMA KeepCalls ==
    ASSUME CallsOK, calls' \subseteq calls, co'.id = co.id,
           co'.phase # "idle" => co.phase # "idle" /\ co'.cp = co.cp,
           \A n \in Nodes : Held(n) \subseteq Held(n)'
    PROVE  CallsOK'
BY DEF CallsOK, KnownAt

LEMMA KeepJournal == ASSUME JournalOK, UNCHANGED journal PROVE JournalOK'
BY DEF JournalOK

\* What the coordinator makes of an answer.
LEMMA AnswerKeeps ==
    ASSUME CheckpointInv, NEW c \in calls, NEW phase \in {"prepare", "commit"}, NEW ok,
           Answer(c, phase, ok), \A n \in Nodes : Held(n)' = Held(n),
           phase = "prepare" /\ ok => c.verb = "prepare" /\ KnownAt(c.cp, c.node)
    PROVE  /\ CoordinatorOK' /\ CallsOK' /\ calls' \subseteq calls /\ co'.id = co.id
           /\ co' \in [phase : Phases, id : 0..MaxEvents, cp : Checkpoints \cup {None},
                       acks : SUBSET Nodes, failed : BOOLEAN]
<1>1. /\ co \in [phase : Phases, id : 0..MaxEvents, cp : Checkpoints \cup {None},
                 acks : SUBSET Nodes, failed : BOOLEAN]
      /\ c.node \in Nodes /\ CallsOK /\ CoordinatorOK
  BY DEF CheckpointInv, TypeOK, Calls
<1>2. calls' \subseteq calls  BY DEF Answer
<1>3. /\ co'.phase = co.phase /\ co'.id = co.id /\ co'.cp = co.cp
      /\ co' \in [phase : Phases, id : 0..MaxEvents, cp : Checkpoints \cup {None},
                  acks : SUBSET Nodes, failed : BOOLEAN]
      /\ \/ co'.acks = co.acks
         \/ co'.acks = co.acks \cup {c.node} /\ Waits(c, phase) /\ ok
  <2>1. CASE ~Waits(c, phase)  BY <1>1, <2>1 DEF Answer
  <2>2. CASE Waits(c, phase) /\ ok  BY <1>1, <2>2 DEF Answer
  <2>3. CASE Waits(c, phase) /\ ~ok  BY <1>1, <2>3 DEF Answer
  <2>. QED BY <2>1, <2>2, <2>3
<1>4. CallsOK'  BY <1>1, <1>2, <1>3, KeepCalls
<1>5. ASSUME co.phase # "idle", NEW m \in Nodes, co.phase # "prepare" \/ m \in co'.acks
      PROVE  co.cp.ops \subseteq Held(m)
  <2>1. CASE co.phase # "prepare" \/ m \in co.acks
    BY <1>1, <1>5, <2>1 DEF CoordinatorOK, KnownAt
  <2>2. CASE co.phase = "prepare" /\ m \notin co.acks
    <3>1. m = c.node /\ Waits(c, phase) /\ ok  BY <1>3, <1>5, <2>2
    <3>2. phase = "prepare" /\ c.id = co.id  BY <2>2, <3>1 DEF Waits
    <3>3. c.cp = co.cp  BY <1>1, <1>5, <3>1, <3>2 DEF CallsOK
    <3>. QED BY <1>1, <3>1, <3>2, <3>3 DEF KnownAt
  <2>. QED BY <2>1, <2>2
<1>6. co.phase # "idle" => Whole(co.cp)  BY <1>1 DEF CoordinatorOK
<1>7. CoordinatorOK'  BY <1>3, <1>5, <1>6 DEF CoordinatorOK, KnownAt, Whole, Covers
<1>. QED BY <1>2, <1>3, <1>4, <1>7

\* Activating what all nodes hold changes nobody's operations.
LEMMA ActivateKeeps ==
    ASSUME TypeOK, HistoryOK, ActiveOK, NEW n \in Nodes, NEW cp,
           Whole(cp), \A m \in Nodes : KnownAt(cp, m),
           Advances(n, cp), Activate(n, cp),
           \/ oplog' = oplog
           \/ oplog' = [oplog EXCEPT ![n] = {}] /\ Fits(n, cp)
    PROVE  /\ ActiveOK' /\ \A m \in Nodes : Held(m)' = Held(m)
           /\ {active', prev'} \subseteq [Nodes -> Checkpoints \cup {None}]
           /\ \A m \in Nodes : prev'[m] = None <=> active'[m] = None
<1>0. /\ {active, prev} \subseteq [Nodes -> Checkpoints \cup {None}]
      /\ oplog \in [Nodes -> SUBSET Operations]
      /\ \A m \in Nodes : prev[m] = None <=> active[m] = None
      /\ cp \in Checkpoints /\ cp # None /\ cp.vec \in Vectors /\ cp.ops \subseteq Held(n)
      /\ Covers(cp.ops, cp.vec) /\ MaxSeq \in Nat
  BY NoneAssumption, CheckpointAssumption DEF TypeOK, Whole, Checkpoints, KnownAt
<1>1. /\ active'[n] = cp /\ \A m \in Nodes \ {n} : active'[m] = active[m]
      /\ prev'[n] = (IF active[n] = None THEN cp ELSE active[n])
      /\ \A m \in Nodes \ {n} : prev'[m] = prev[m]
      /\ \A m \in Nodes \ {n} : oplog'[m] = oplog[m]
  BY <1>0 DEF Activate
<1>2. /\ {active', prev'} \subseteq [Nodes -> Checkpoints \cup {None}]
      /\ \A m \in Nodes : prev'[m] = None <=> active'[m] = None
  BY <1>0, <1>1 DEF Activate
\* The operations of the checkpoint it replaces are in the new one.
<1>3. active[n] # None => active[n].ops \subseteq cp.ops
  <2>. SUFFICES ASSUME active[n] # None PROVE active[n].ops \subseteq cp.ops
    OBVIOUS
  <2>1. Covers(active[n].ops, active[n].vec) /\ AtMost(active[n].vec, cp.vec)
    BY DEF ActiveOK, Whole, Advances, Baseline
  <2>2. active[n].vec \in Vectors /\ active[n].ops \subseteq Held(n)
    BY <1>0, HeldType DEF Checkpoints
  <2>3. \A o \in active[n].ops : o.seq <= cp.vec[o.actor]
    <3>. SUFFICES ASSUME NEW o \in active[n].ops PROVE o.seq <= cp.vec[o.actor]
      OBVIOUS
    <3>1. o.actor \in Nodes /\ o.seq \in 1..MaxSeq  BY <2>2, HeldType
    <3>2. o.seq <= active[n].vec[o.actor]  BY <2>1 DEF Covers
    <3>3. active[n].vec[o.actor] <= cp.vec[o.actor]  BY <2>1, <3>1 DEF AtMost
    <3>4. active[n].vec[o.actor] \in 0..MaxSeq /\ cp.vec[o.actor] \in 0..MaxSeq
      BY <1>0, <2>2, <3>1 DEF Vectors
    <3>. QED BY <1>0, <3>1, <3>2, <3>3, <3>4
  <2>. QED BY <1>0, <2>2, <2>3, CoversMonotone
<1>4. Held(n)' = Held(n)
  <2>1. Held(n)' = oplog'[n] \cup cp.ops  BY <1>0, <1>1 DEF Held
  <2>2. CASE oplog' = oplog
    BY <1>0, <1>3, <2>1, <2>2 DEF Held
  <2>3. CASE oplog' = [oplog EXCEPT ![n] = {}] /\ Fits(n, cp)
    <3>1. Vector(n) \in Vectors /\ Covers(Held(n), Vector(n)) /\ AtMost(Vector(n), cp.vec)
      BY <2>3, VectorType, VectorCovers DEF Fits
    <3>2. \A o \in Held(n) : o.seq <= cp.vec[o.actor]
      <4>. SUFFICES ASSUME NEW o \in Held(n) PROVE o.seq <= cp.vec[o.actor]
        OBVIOUS
      <4>1. o.actor \in Nodes /\ o.seq \in 1..MaxSeq  BY HeldType
      <4>2. o.seq <= Vector(n)[o.actor] /\ Vector(n)[o.actor] <= cp.vec[o.actor]
        BY <3>1, <4>1 DEF Covers, AtMost
      <4>3. Vector(n)[o.actor] \in 0..MaxSeq /\ cp.vec[o.actor] \in 0..MaxSeq
        BY <1>0, <3>1, <4>1 DEF Vectors
      <4>. QED BY <1>0, <4>1, <4>2, <4>3
    <3>3. Held(n) \subseteq cp.ops
      BY <1>0, <3>1, <3>2, CoversMonotone
    <3>. QED BY <1>0, <2>1, <2>3, <3>3
  <2>. QED BY <2>2, <2>3
<1>5. \A m \in Nodes : Held(m)' = Held(m)
  BY <1>1, <1>4 DEF Held
<1>6. ActiveOK'
  <2>. SUFFICES ASSUME NEW m \in Nodes, active'[m] # None
                PROVE  /\ Whole(active'[m]) /\ \A k \in Nodes : KnownAt(active[m], k)'
                       /\ AtMost(prev'[m].vec, active'[m].vec)
    BY DEF ActiveOK, Whole, Covers
  <2>1. CASE m # n
    BY <1>1, <1>5, <2>1 DEF ActiveOK, KnownAt
  <2>2. CASE m = n
    <3>1. AtMost(prev'[n].vec, cp.vec)
      <4>1. CASE active[n] = None
        BY <1>0, <1>1, <4>1 DEF AtMost, Vectors
      <4>2. CASE active[n] # None
        BY <1>1, <4>2 DEF Advances, Baseline
      <4>. QED BY <4>1, <4>2
    <3>. QED BY <1>1, <1>5, <2>2, <3>1 DEF KnownAt
  <2>. QED BY <2>1, <2>2
<1>. QED BY <1>2, <1>5, <1>6

-----------------------------------------------------------------------------
(* The steps.                                                               *)

LEMMA InvInit == Init => CheckpointInv
<1>. SUFFICES ASSUME Init PROVE CheckpointInv
  OBVIOUS
<1>0. MaxSeq \in Nat /\ MaxEvents \in Nat  BY CheckpointAssumption
<1>1. TypeOK /\ co.id + faults <= MaxEvents
  BY <1>0 DEF Init, TypeOK, Idle, Phases
<1>2. \A n \in Nodes : Held(n) = {}
  BY DEF Init, Held
<1>3. HistoryOK  BY <1>2 DEF HistoryOK, GapFree
<1>4. ActiveOK /\ CoordinatorOK /\ CallsOK /\ JournalOK
  BY DEF Init, ActiveOK, CoordinatorOK, CallsOK, JournalOK, Idle
<1>. QED BY <1>1, <1>3, <1>4 DEF CheckpointInv

\* The steps of the coordinator leave the replicas alone, except when it
\* activates the checkpoint itself.
LEMMA CoordinatorStep ==
    ASSUME CheckpointInv,
           \/ Propose \/ Proof \/ LocalCheck \/ LocalActivate \/ GiveUp \/ Abandon
           \/ \E p \in 1..MaxEvents : Expire(p)
    PROVE  CheckpointInv' /\ \A n \in Nodes : Held(n)' = Held(n)
<1>0. /\ TypeOK /\ HistoryOK /\ ActiveOK /\ CoordinatorOK /\ CallsOK /\ JournalOK
      /\ co.id + faults <= MaxEvents /\ MaxEvents \in Nat /\ Coordinator \in Nodes
      /\ co \in [phase : Phases, id : 0..MaxEvents, cp : Checkpoints \cup {None},
                 acks : SUBSET Nodes, failed : BOOLEAN]
      /\ faults \in 0..MaxEvents
  BY CheckpointAssumption DEF CheckpointInv, TypeOK
<1>1. ASSUME UNCHANGED <<oplog, active>> PROVE \A n \in Nodes : Held(n)' = Held(n)
  BY <1>1 DEF Held
<1>2. CASE Propose
  <2> DEFINE cp == Build(Coordinator)  id == co.id + 1
  <2>1. /\ co' = [phase |-> "prepare", id |-> id, cp |-> cp, acks |-> {Coordinator}, failed |-> FALSE]
        /\ valid' = valid \cup {id}
        /\ calls' = calls \cup {Call("prepare", n, cp, id) : n \in Others}
        /\ UNCHANGED <<oplog, active, prev, prepared, journal, faults>>
        /\ co.phase = "idle" /\ id \in 1..MaxEvents /\ id + faults <= MaxEvents
    BY <1>0, <1>2 DEF Propose, Bounded
  <2>2. \A n \in Nodes : Held(n)' = Held(n)  BY <1>1, <2>1
  <2>3. /\ cp \in Checkpoints /\ Whole(cp) /\ cp.ops = Held(Coordinator)
    <3>1. /\ Vector(Coordinator) \in Vectors /\ State(Coordinator) = Held(Coordinator)
          /\ Covers(Held(Coordinator), Vector(Coordinator))
          /\ Held(Coordinator) \subseteq Operations
      BY <1>0, VectorType, VectorCovers, HeldType
    <3>. QED BY <3>1 DEF Build, Checkpoints, Whole
  <2> HIDE DEF cp, id
  <2>4. CoordinatorOK'
    BY <2>1, <2>2, <2>3 DEF CoordinatorOK, KnownAt, Whole, Covers
  <2>5. CallsOK'
    <3>. SUFFICES ASSUME NEW c \in calls'
                  PROVE  /\ Whole(c.cp)
                         /\ c.verb # "install" => c.id \in 1..id
                         /\ c.verb = "prepare" /\ c.id = id => c.cp = cp
                         /\ c.verb # "prepare" => \A m \in Nodes : c.cp.ops \subseteq Held(m)
      BY <2>1, <2>2 DEF CallsOK, KnownAt, Whole, Covers
    <3>1. CASE c \in calls
      <4>1. c.verb # "install" => c.id \in 1..co.id  BY <1>0, <3>1 DEF CallsOK
      <4>2. \A i \in 1..co.id : i \in 1..id /\ i # id  BY <1>0 DEF id
      <4>. QED BY <1>0, <3>1, <4>1, <4>2 DEF CallsOK, KnownAt
    <3>2. CASE c \notin calls
      BY <2>1, <2>3, <3>2 DEF Call
    <3>. QED BY <3>1, <3>2
  <2>6. TypeOK'
    <3>1. co' \in [phase : Phases, id : 0..MaxEvents, cp : Checkpoints \cup {None},
                   acks : SUBSET Nodes, failed : BOOLEAN]
      BY <1>0, <2>1, <2>3 DEF Phases
    <3>2. calls' \subseteq Calls
      BY <1>0, <2>1, <2>3 DEF TypeOK, Call, Calls, Others
    <3>. QED BY <1>0, <2>1, <3>1, <3>2 DEF TypeOK
  <2>7. co'.id + faults' <= MaxEvents  BY <2>1
  <2>. QED BY <1>0, <2>1, <2>2, <2>4, <2>5, <2>6, <2>7, KeepHistory, KeepActive, KeepJournal
           DEF CheckpointInv
<1>3. CASE Proof
  <2>1. /\ co' = [co EXCEPT !.phase = "commit", !.acks = {Coordinator}]
        /\ calls' = calls \cup {Call("commit", n, co.cp, co.id) : n \in Others}
        /\ UNCHANGED <<oplog, active, prev, prepared, valid, journal, faults>>
        /\ co.phase = "prepare" /\ co.acks = Nodes /\ co.id \in valid
    BY <1>3 DEF Proof, Acknowledged
  <2>2. \A n \in Nodes : Held(n)' = Held(n)  BY <1>1, <2>1
  <2>3. /\ co'.phase = "commit" /\ co'.cp = co.cp /\ co'.id = co.id
        /\ co' \in [phase : Phases, id : 0..MaxEvents, cp : Checkpoints \cup {None},
                    acks : SUBSET Nodes, failed : BOOLEAN]
    BY <1>0, <2>1 DEF Phases
  <2>4. Whole(co.cp) /\ \A m \in Nodes : co.cp.ops \subseteq Held(m)
    BY <1>0, <2>1 DEF CoordinatorOK, KnownAt
  <2>5. co.id \in 1..MaxEvents  BY <1>0, <2>1 DEF TypeOK
  <2>6. CoordinatorOK'
    BY <2>2, <2>3, <2>4 DEF CoordinatorOK, KnownAt, Whole, Covers
  <2>7. CallsOK'
    <3>. SUFFICES ASSUME NEW c \in calls'
                  PROVE  /\ Whole(c.cp)
                         /\ c.verb # "install" => c.id \in 1..co.id
                         /\ c.verb = "prepare" /\ c.id = co.id => c.cp = co.cp
                         /\ c.verb # "prepare" => \A m \in Nodes : c.cp.ops \subseteq Held(m)
      BY <2>2, <2>3 DEF CallsOK, KnownAt, Whole, Covers
    <3>1. CASE c \in calls
      BY <1>0, <2>1, <3>1 DEF CallsOK, KnownAt
    <3>2. CASE c \notin calls
      <4>1. c.cp = co.cp /\ c.id = co.id  BY <2>1, <3>2 DEF Call
      <4>2. co.id \in 1..co.id  BY <2>5
      <4>. QED BY <2>4, <4>1, <4>2
    <3>. QED BY <3>1, <3>2
  <2>8. TypeOK'
    <3>1. calls' \subseteq Calls
      BY <1>0, <2>1, <2>4, <2>5 DEF TypeOK, Call, Calls, Others, Whole
    <3>. QED BY <1>0, <2>1, <2>3, <3>1 DEF TypeOK
  <2>. QED BY <1>0, <2>1, <2>2, <2>3, <2>6, <2>7, <2>8, KeepHistory, KeepActive, KeepJournal
           DEF CheckpointInv
<1>4. CASE LocalCheck
  <2>1. /\ co' = [co EXCEPT !.phase = "local"] /\ co.phase = "commit"
        /\ UNCHANGED <<oplog, active, prev, prepared, valid, calls, journal, faults>>
    BY <1>4 DEF LocalCheck
  <2>2. \A n \in Nodes : Held(n)' = Held(n)  BY <1>1, <2>1
  <2>3. /\ co'.phase = "local" /\ co'.cp = co.cp /\ co'.id = co.id
        /\ co' \in [phase : Phases, id : 0..MaxEvents, cp : Checkpoints \cup {None},
                    acks : SUBSET Nodes, failed : BOOLEAN]
    BY <1>0, <2>1 DEF Phases
  <2>4. CoordinatorOK'
    BY <1>0, <2>1, <2>2, <2>3 DEF CoordinatorOK, KnownAt, Whole, Covers
  <2>5. CallsOK'  BY <1>0, <2>1, <2>2, <2>3, KeepCalls
  <2>6. TypeOK'  BY <1>0, <2>1, <2>3 DEF TypeOK
  <2>. QED BY <1>0, <2>1, <2>2, <2>3, <2>4, <2>5, <2>6, KeepHistory, KeepActive, KeepJournal
           DEF CheckpointInv
\* The protocol ends.
<1>5. ASSUME co' = Idle(co.id)
      PROVE  /\ co'.id = co.id /\ co'.phase = "idle" /\ CoordinatorOK'
             /\ co' \in [phase : Phases, id : 0..MaxEvents, cp : Checkpoints \cup {None},
                         acks : SUBSET Nodes, failed : BOOLEAN]
  BY <1>0, <1>5 DEF Idle, Phases, CoordinatorOK
<1>6. CASE LocalActivate
  <2>1. /\ co.phase = "local" /\ Advances(Coordinator, co.cp) /\ Activate(Coordinator, co.cp)
        /\ co' = Idle(co.id) /\ UNCHANGED <<oplog, prepared, valid, calls, journal, faults>>
    BY <1>6 DEF LocalActivate
  <2>2. Whole(co.cp) /\ \A m \in Nodes : KnownAt(co.cp, m)
    BY <1>0, <2>1 DEF CoordinatorOK
  <2>3. /\ ActiveOK' /\ \A m \in Nodes : Held(m)' = Held(m)
        /\ {active', prev'} \subseteq [Nodes -> Checkpoints \cup {None}]
        /\ \A m \in Nodes : prev'[m] = None <=> active'[m] = None
    BY <1>0, <2>1, <2>2, ActivateKeeps
  <2>4. CallsOK'  BY <1>0, <1>5, <2>1, <2>3, KeepCalls
  <2>5. TypeOK'  BY <1>0, <1>5, <2>1, <2>3 DEF TypeOK
  <2>. QED BY <1>0, <1>5, <2>1, <2>3, <2>4, <2>5, KeepHistory, KeepJournal DEF CheckpointInv
<1>7. CASE GiveUp \/ Abandon
  <2>1. /\ co' = Idle(co.id)
        /\ UNCHANGED <<oplog, active, prev, prepared, valid, calls, journal>>
        /\ faults' \in 0..MaxEvents /\ co.id + faults' <= MaxEvents
    BY <1>0, <1>7 DEF GiveUp, Abandon, Bounded
  <2>2. \A n \in Nodes : Held(n)' = Held(n)  BY <1>1, <2>1
  <2>3. CallsOK'  BY <1>0, <1>5, <2>1, <2>2, KeepCalls
  <2>4. TypeOK'  BY <1>0, <1>5, <2>1 DEF TypeOK
  <2>. QED BY <1>0, <1>5, <2>1, <2>2, <2>3, <2>4, KeepHistory, KeepActive, KeepJournal
           DEF CheckpointInv
<1>8. ASSUME NEW p \in 1..MaxEvents, Expire(p)
      PROVE  CheckpointInv' /\ \A n \in Nodes : Held(n)' = Held(n)
  <2>1. /\ valid' \subseteq valid
        /\ UNCHANGED <<oplog, active, prev, prepared, co, calls, journal, faults>>
    BY <1>8 DEF Expire
  <2>2. \A n \in Nodes : Held(n)' = Held(n)  BY <1>1, <2>1
  <2>3. TypeOK'  BY <1>0, <2>1 DEF TypeOK
  <2>. QED BY <1>0, <2>1, <2>2, <2>3, KeepHistory, KeepActive, KeepCoordinator, KeepCalls,
              KeepJournal DEF CheckpointInv
<1>. QED BY <1>2, <1>3, <1>4, <1>6, <1>7, <1>8

\* A command on a replica; an activation or installation is of what all hold.
LEMMA CallStep ==
    ASSUME CheckpointInv, NEW c \in calls,
           Prepare(c) \/ Commit(c) \/ CommitActivate(c) \/ Install(c) \/ Lose(c)
    PROVE  CheckpointInv' /\ \A n \in Nodes : Held(n)' = Held(n)
<1>0. /\ TypeOK /\ HistoryOK /\ ActiveOK /\ CoordinatorOK /\ CallsOK /\ JournalOK
      /\ co.id + faults <= MaxEvents /\ MaxEvents \in Nat
      /\ co.id \in 0..MaxEvents /\ faults \in 0..MaxEvents
      /\ c \in Calls /\ c.node \in Nodes /\ c.cp \in Checkpoints /\ Whole(c.cp)
      /\ c.verb # "prepare" => \A m \in Nodes : KnownAt(c.cp, m)
  BY CheckpointAssumption DEF CheckpointInv, TypeOK, Calls, CallsOK
<1>1. ASSUME UNCHANGED <<oplog, active>> PROVE \A n \in Nodes : Held(n)' = Held(n)
  BY <1>1 DEF Held
<1>2. CASE Prepare(c)
  <2> DEFINE ok == Agrees(c)
  <2>1. /\ c.verb = "prepare" /\ Answer(c, "prepare", ok)
        /\ prepared' = [prepared EXCEPT ![c.node] = IF ok THEN (@ \cap valid) \cup {c.id} ELSE @]
        /\ UNCHANGED <<oplog, active, prev, valid, journal, faults>>
    BY <1>2 DEF Prepare
  <2>2. \A n \in Nodes : Held(n)' = Held(n)  BY <1>1, <2>1
  <2>3. ok => KnownAt(c.cp, c.node)
    BY <1>0, VectorCovers DEF Agrees, Build, KnownAt
  <2>4. ok => c.id \in 1..MaxEvents
    BY <1>0 DEF Agrees, TypeOK
  <2> HIDE DEF ok
  <2>5. /\ CoordinatorOK' /\ CallsOK' /\ calls' \subseteq calls /\ co'.id = co.id
        /\ co' \in [phase : Phases, id : 0..MaxEvents, cp : Checkpoints \cup {None},
                    acks : SUBSET Nodes, failed : BOOLEAN]
    BY <2>1, <2>2, <2>3, AnswerKeeps
  <2>6. prepared' \in [Nodes -> SUBSET (1..MaxEvents)]
    BY <1>0, <2>1, <2>4 DEF TypeOK
  <2>7. TypeOK'  BY <1>0, <2>1, <2>5, <2>6 DEF TypeOK
  <2>. QED BY <1>0, <2>1, <2>2, <2>5, <2>7, KeepHistory, KeepActive, KeepJournal
           DEF CheckpointInv
<1>3. CASE Commit(c)
  <2>1. c.verb = "commit" /\ UNCHANGED <<oplog, active, prev, prepared, valid, journal, faults>>
    BY <1>3 DEF Commit
  <2>2. \A n \in Nodes : Held(n)' = Held(n)  BY <1>1, <2>1
  <2>3. CASE ~StillPrepared(c)
    <3>1. Answer(c, "commit", FALSE)  BY <1>3, <2>3 DEF Commit
    <3>2. /\ CoordinatorOK' /\ CallsOK' /\ calls' \subseteq calls /\ co'.id = co.id
          /\ co' \in [phase : Phases, id : 0..MaxEvents, cp : Checkpoints \cup {None},
                      acks : SUBSET Nodes, failed : BOOLEAN]
      BY <2>2, <3>1, AnswerKeeps
    <3>3. TypeOK'  BY <1>0, <2>1, <3>2 DEF TypeOK
    <3>. QED BY <1>0, <2>1, <2>2, <3>2, <3>3, KeepHistory, KeepActive, KeepJournal
             DEF CheckpointInv
  <2>4. CASE StillPrepared(c)
    <3> DEFINE d == [c EXCEPT !.verb = "activate"]
    <3>1. calls' = (calls \ {c}) \cup {d} /\ UNCHANGED co
      BY <1>3, <2>4 DEF Commit
    <3>2. d \in Calls /\ d.verb = "activate" /\ d.cp = c.cp /\ d.id = c.id
      BY <1>0 DEF Calls
    <3> HIDE DEF d
    <3>3. CallsOK'
      <4>. SUFFICES ASSUME NEW e \in calls'
                    PROVE  /\ Whole(e.cp)
                           /\ e.verb # "install" => e.id \in 1..co.id
                           /\ e.verb = "prepare" /\ co.phase # "idle" /\ e.id = co.id => e.cp = co.cp
                           /\ e.verb # "prepare" => \A m \in Nodes : e.cp.ops \subseteq Held(m)
        BY <2>2, <3>1 DEF CallsOK, KnownAt, Whole, Covers
      <4>1. CASE e \in calls  BY <1>0, <4>1 DEF CallsOK, KnownAt
      <4>2. CASE e = d  BY <1>0, <2>1, <3>2, <4>2 DEF CallsOK, KnownAt
      <4>. QED BY <3>1, <4>1, <4>2
    <3>4. TypeOK'  BY <1>0, <2>1, <3>1, <3>2 DEF TypeOK
    <3>. QED BY <1>0, <2>1, <2>2, <3>1, <3>3, <3>4, KeepHistory, KeepActive, KeepCoordinator,
                KeepJournal DEF CheckpointInv
  <2>. QED BY <2>3, <2>4
<1>4. CASE CommitActivate(c)
  <2>1. c.verb = "activate" /\ UNCHANGED <<oplog, valid, journal, faults>>
    BY <1>4 DEF CommitActivate
  <2>2. PICK ok \in BOOLEAN :
          /\ Answer(c, "commit", ok)
          /\ IF ok THEN /\ Advances(c.node, c.cp) /\ Activate(c.node, c.cp)
                        /\ prepared' = [prepared EXCEPT ![c.node] = @ \ {c.id}]
             ELSE UNCHANGED <<active, prev, prepared>>
    <3>1. CASE c.id \in valid /\ Advances(c.node, c.cp)
      BY <1>4, <3>1 DEF CommitActivate
    <3>2. CASE ~(c.id \in valid /\ Advances(c.node, c.cp))
      BY <1>4, <3>2 DEF CommitActivate
    <3>. QED BY <3>1, <3>2
  <2>3. /\ ActiveOK' /\ \A m \in Nodes : Held(m)' = Held(m)
        /\ {active', prev'} \subseteq [Nodes -> Checkpoints \cup {None}]
        /\ \A m \in Nodes : prev'[m] = None <=> active'[m] = None
    <3>1. CASE ok
      BY <1>0, <2>1, <2>2, <3>1, ActivateKeeps
    <3>2. CASE ~ok
      <4>1. \A n \in Nodes : Held(n)' = Held(n)  BY <1>1, <2>1, <2>2, <3>2
      <4>2. ActiveOK'  BY <1>0, <2>2, <3>2, <4>1, KeepActive
      <4>. QED BY <1>0, <2>2, <3>2, <4>1, <4>2 DEF TypeOK
    <3>. QED BY <3>1, <3>2
  <2>4. prepared' \in [Nodes -> SUBSET (1..MaxEvents)]
    BY <1>0, <2>2 DEF TypeOK
  <2>5. /\ CoordinatorOK' /\ CallsOK' /\ calls' \subseteq calls /\ co'.id = co.id
        /\ co' \in [phase : Phases, id : 0..MaxEvents, cp : Checkpoints \cup {None},
                    acks : SUBSET Nodes, failed : BOOLEAN]
    BY <2>2, <2>3, AnswerKeeps
  <2>6. TypeOK'  BY <1>0, <2>1, <2>3, <2>4, <2>5 DEF TypeOK
  <2>. QED BY <1>0, <2>1, <2>3, <2>5, <2>6, KeepHistory, KeepJournal DEF CheckpointInv
<1>5. CASE Lose(c)
  <2>1. /\ UNCHANGED <<oplog, active, prev, prepared, valid, journal>>
        /\ faults' \in 0..MaxEvents /\ co.id + faults' <= MaxEvents
    BY <1>0, <1>5 DEF Lose, Bounded
  <2>2. \A n \in Nodes : Held(n)' = Held(n)  BY <1>1, <2>1
  <2>3. PICK phase \in {"prepare", "commit"} : Answer(c, phase, FALSE)
    BY <1>5 DEF Lose
  <2>4. /\ CoordinatorOK' /\ CallsOK' /\ calls' \subseteq calls /\ co'.id = co.id
        /\ co' \in [phase : Phases, id : 0..MaxEvents, cp : Checkpoints \cup {None},
                    acks : SUBSET Nodes, failed : BOOLEAN]
    BY <2>2, <2>3, AnswerKeeps
  <2>5. TypeOK'  BY <1>0, <2>1, <2>4 DEF TypeOK
  <2>. QED BY <1>0, <2>1, <2>2, <2>4, <2>5, KeepHistory, KeepActive, KeepJournal
           DEF CheckpointInv
<1>6. CASE Install(c)
  <2>1. c.verb = "install" /\ calls' \subseteq calls /\ UNCHANGED <<prepared, valid, co, journal>>
    BY <1>6 DEF Install
  <2>2. faults' \in 0..MaxEvents /\ co.id + faults' <= MaxEvents
    BY <1>0, <1>6 DEF Install, Bounded
  <2>3. oplog' \in [Nodes -> SUBSET Operations]
    BY <1>0, <1>6 DEF Install, TypeOK
  <2>4. /\ ActiveOK' /\ \A m \in Nodes : Held(m)' = Held(m)
        /\ {active', prev'} \subseteq [Nodes -> Checkpoints \cup {None}]
        /\ \A m \in Nodes : prev'[m] = None <=> active'[m] = None
    <3>1. CASE Installs(c.node, c.cp)
      <4>1. /\ Advances(c.node, c.cp) /\ Activate(c.node, c.cp) /\ Fits(c.node, c.cp)
            /\ oplog' = oplog \/ oplog' = [oplog EXCEPT ![c.node] = {}]
        BY <1>6, <3>1 DEF Install, Installs
      <4>. QED BY <1>0, <2>1, <4>1, ActivateKeeps
    <3>2. CASE ~Installs(c.node, c.cp)
      <4>1. UNCHANGED <<active, prev, oplog>>  BY <1>6, <3>2 DEF Install
      <4>2. \A n \in Nodes : Held(n)' = Held(n)  BY <1>1, <4>1
      <4>3. ActiveOK'  BY <1>0, <4>1, <4>2, KeepActive
      <4>. QED BY <1>0, <4>1, <4>2, <4>3 DEF TypeOK
    <3>. QED BY <3>1, <3>2
  <2>5. CoordinatorOK' /\ CallsOK'
    BY <1>0, <2>1, <2>4, KeepCoordinator, KeepCalls
  <2>6. TypeOK'  BY <1>0, <2>1, <2>2, <2>3, <2>4 DEF TypeOK
  <2>. QED BY <1>0, <2>1, <2>2, <2>4, <2>5, <2>6, KeepHistory, KeepJournal DEF CheckpointInv
<1>. QED BY <1>2, <1>3, <1>4, <1>5, <1>6

\* A node that lags behind is offered a checkpoint that another has activated.
LEMMA ReconcileStep ==
    ASSUME CheckpointInv, NEW n \in Nodes, NEW m \in Nodes, Reconcile(n, m)
    PROVE  CheckpointInv' /\ \A k \in Nodes : Held(k)' = Held(k)
<1> DEFINE c == Call("install", n, active[m], None)
<1>0. /\ TypeOK /\ HistoryOK /\ ActiveOK /\ CoordinatorOK /\ CallsOK /\ JournalOK
      /\ co.id + faults <= MaxEvents
  BY DEF CheckpointInv
<1>1. /\ calls' = calls \cup {c} /\ active[m] # None
      /\ UNCHANGED <<oplog, active, prev, prepared, valid, co, journal, faults>>
  BY DEF Reconcile, Newer
<1>2. \A k \in Nodes : Held(k)' = Held(k)  BY <1>1 DEF Held
<1>3. /\ c.verb = "install" /\ c.node = n /\ c.cp = active[m] /\ c.id = None
      /\ Whole(active[m]) /\ \A k \in Nodes : KnownAt(active[m], k)
  BY <1>0, <1>1 DEF Call, ActiveOK
<1>4. c \in Calls  BY <1>3 DEF Call, Calls, Whole
<1> HIDE DEF c
<1>5. CallsOK'
  <2>. SUFFICES ASSUME NEW e \in calls'
                PROVE  /\ Whole(e.cp)
                       /\ e.verb # "install" => e.id \in 1..co.id
                       /\ e.verb = "prepare" /\ co.phase # "idle" /\ e.id = co.id => e.cp = co.cp
                       /\ e.verb # "prepare" => \A k \in Nodes : e.cp.ops \subseteq Held(k)
    BY <1>1, <1>2 DEF CallsOK, KnownAt, Whole, Covers
  <2>1. CASE e \in calls  BY <1>0, <2>1 DEF CallsOK, KnownAt
  <2>2. CASE e = c  BY <1>3, <2>2 DEF KnownAt
  <2>. QED BY <1>1, <2>1, <2>2
<1>6. TypeOK'  BY <1>0, <1>1, <1>4 DEF TypeOK
<1>. QED BY <1>0, <1>1, <1>2, <1>5, <1>6, KeepHistory, KeepActive, KeepCoordinator, KeepJournal
         DEF CheckpointInv

\* A node gets the next operation of an actor, its own or one that the actor has.
LEMMA AddOperation ==
    ASSUME TypeOK, HistoryOK, ActiveOK, NEW m \in Nodes, NEW o \in Operations,
           oplog' = [oplog EXCEPT ![m] = @ \cup {o}], UNCHANGED active,
           o.seq = Vector(m)[o.actor] + 1, o.actor = m \/ o \in Held(o.actor)
    PROVE  /\ HistoryOK' /\ \A n \in Nodes : Held(n) \subseteq Held(n)'
           /\ Held(m)' = Held(m) \cup {o} /\ \A n \in Nodes \ {m} : Held(n)' = Held(n)
<1>1. Held(m)' = Held(m) \cup {o} /\ \A n \in Nodes \ {m} : Held(n)' = Held(n)
  BY DEF Held, TypeOK
<1>2. o.actor \in Nodes /\ o.seq \in 1..MaxSeq /\ MaxSeq \in Nat
      /\ Vector(m)[o.actor] \in 0..MaxSeq /\ Covers(Held(m), Vector(m))
  BY CheckpointAssumption, VectorType, VectorCovers DEF Operations, Vectors
<1>3. \A n \in Nodes : \A p \in Held(n) : p.actor \in Nodes /\ p.seq \in 1..MaxSeq
  BY HeldType
<1>4. \A p \in Held(m) : ~SameNumber(o, p)
  BY <1>2, <1>3 DEF Covers, SameNumber
<1>5. \A s \in 1..o.seq : \E p \in Held(m) \cup {o} : p.actor = o.actor /\ p.seq = s
  <2>. SUFFICES ASSUME NEW s \in 1..o.seq
                PROVE  \E p \in Held(m) \cup {o} : p.actor = o.actor /\ p.seq = s
    OBVIOUS
  <2>1. CASE s = o.seq  BY <2>1
  <2>2. CASE s # o.seq
    <3>1. s \in 1..Vector(m)[o.actor]  BY <1>2, <2>2
    <3>. QED BY <1>2, <3>1 DEF Covers
  <2>. QED BY <2>1, <2>2
<1>6. \A n \in Nodes : GapFree(Held(n))'
  <2>1. GapFree(Held(m) \cup {o})  BY <1>5 DEF HistoryOK, GapFree
  <2>. QED BY <1>1, <2>1 DEF HistoryOK, GapFree
<1>7. \A n \in Nodes : \A p \in Held(n)' : p \in Held(p.actor)'
  BY <1>1, <1>2, <1>3 DEF HistoryOK
<1>8. \A n \in Nodes : \A p, q \in Held(n)' : SameNumber(p, q) => p = q
  <2>1. \A p, q \in Held(m) \cup {o} : SameNumber(p, q) => p = q
    BY <1>4 DEF HistoryOK, SameNumber
  <2>. QED BY <1>1, <2>1 DEF HistoryOK
<1>. QED BY <1>1, <1>6, <1>7, <1>8 DEF HistoryOK

\* _next_seq: one above the actor's own vector.
LEMMA NextSeqSpec ==
    ASSUME TypeOK, HistoryOK, ActiveOK, NEW n \in Nodes
    PROVE  NextSeq(n) = Vector(n)[n] + 1
<1> DEFINE b == Baseline(n)[n]  V == Vector(n)[n]  T == {b} \cup SeqsOf(n, n)
<1>1. /\ b \in 0..MaxSeq /\ V \in 0..MaxSeq /\ b <= V /\ MaxSeq \in Nat
      /\ V = Contiguous(b, SeqsOf(n, n)) /\ Covers(Held(n), Vector(n))
  BY CheckpointAssumption, VectorType, VectorCovers DEF Vectors
<1>2. \A s \in SeqsOf(n, n) : s \in 1..MaxSeq /\ s <= V
  BY <1>1, HeldType DEF SeqsOf, Covers
<1>3. V \in T
  <2>1. CASE V = b  BY <2>1
  <2>2. CASE V # b
    <3>1. V \in (b + 1)..V  BY <1>1, <2>2
    <3>. QED BY <1>1, <3>1, ContiguousSpec
  <2>. QED BY <2>1, <2>2
<1>4. Max(T) \in T /\ \A y \in T : y <= Max(T)
  <2>1. T \subseteq 0..MaxSeq /\ T # {}  BY <1>1, <1>2
  <2>. HIDE DEF T
  <2>. QED BY <1>1, <2>1, GreatestNat
<1>5. Max(T) = V
  <2>1. \A y \in T : y <= V /\ y \in 0..MaxSeq  BY <1>1, <1>2
  <2>2. Max(T) <= V /\ V <= Max(T) /\ Max(T) \in 0..MaxSeq  BY <1>3, <1>4, <2>1
  <2>. QED BY <1>1, <2>2
<1>. QED BY <1>1, <1>5 DEF NextSeq

\* A node gets the next operation of an actor, which is new or the actor's.
Gains ==
    \E m \in Nodes, o \in Operations :
        /\ Held(m)' = Held(m) \cup {o} /\ \A n \in Nodes \ {m} : Held(n)' = Held(n)
        /\ o.seq = Vector(m)[o.actor] + 1 /\ (o.actor = m \/ o \in Held(o.actor))

\* An operation is appended on its node, or reaches another one.
LEMMA OperationStep ==
    ASSUME CheckpointInv,
           \/ \E n \in Writers : Append(n)
           \/ \E n, m \in Nodes : Transfer(n, m)
    PROVE  CheckpointInv' /\ Gains
<1>0. /\ TypeOK /\ HistoryOK /\ ActiveOK /\ CoordinatorOK /\ CallsOK /\ JournalOK
      /\ co.id + faults <= MaxEvents
  BY DEF CheckpointInv
<1>1. PICK m \in Nodes, o \in Operations :
        /\ oplog' = [oplog EXCEPT ![m] = @ \cup {o}]
        /\ o.seq = Vector(m)[o.actor] + 1 /\ (o.actor = m \/ o \in Held(o.actor))
  <2>1. ASSUME NEW n \in Writers, Append(n)
        PROVE  \E o \in Operations :
                  /\ oplog' = [oplog EXCEPT ![n] = @ \cup {o}]
                  /\ o.seq = Vector(n)[o.actor] + 1 /\ o.actor = n
    <3> DEFINE o == [actor |-> n, seq |-> NextSeq(n), base |-> Base(n)]
    <3>1. n \in Nodes /\ MaxSeq \in Nat  BY CheckpointAssumption
    <3>2. oplog' = [oplog EXCEPT ![n] = @ \cup {o}] /\ NextSeq(n) <= MaxSeq
      BY <2>1 DEF Append
    <3>3. NextSeq(n) = Vector(n)[n] + 1 /\ Vector(n)[n] \in 0..MaxSeq
      BY <1>0, <3>1, NextSeqSpec, VectorType DEF Vectors
    <3>4. Base(n) \in Vectors \cup {None}
      BY <1>0, <3>1 DEF Base, TypeOK, Checkpoints
    <3>5. o \in Operations /\ o.seq = Vector(n)[o.actor] + 1 /\ o.actor = n
      BY <3>1, <3>2, <3>3, <3>4 DEF Operations
    <3>. QED BY <3>2, <3>5
  <2>2. ASSUME NEW n \in Nodes, NEW m \in Nodes, Transfer(n, m)
        PROVE  \E o \in Operations :
                  /\ oplog' = [oplog EXCEPT ![m] = @ \cup {o}]
                  /\ o.seq = Vector(m)[o.actor] + 1 /\ o \in Held(o.actor)
    <3>1. PICK o \in Tail(n) : /\ oplog' = [oplog EXCEPT ![m] = @ \cup {o}]
                               /\ o.seq = Vector(m)[o.actor] + 1
      BY <2>2 DEF Transfer
    <3>2. o \in Held(n)  BY <1>0, <3>1, HeldType DEF Tail
    <3>3. o \in Operations /\ o \in Held(o.actor)
      BY <1>0, <3>2, HeldType DEF HistoryOK
    <3>. QED BY <3>1, <3>3
  <2>3. Writers \subseteq Nodes  BY CheckpointAssumption
  <2>. QED BY <2>1, <2>2, <2>3
<1>2. UNCHANGED <<active, prev, prepared, valid, co, calls, journal, faults>>
  BY DEF Append, Transfer
<1>3. /\ HistoryOK' /\ \A n \in Nodes : Held(n) \subseteq Held(n)'
      /\ Held(m)' = Held(m) \cup {o} /\ \A n \in Nodes \ {m} : Held(n)' = Held(n)
  BY <1>0, <1>1, <1>2, AddOperation
<1>4. TypeOK'  BY <1>0, <1>1, <1>2 DEF TypeOK
<1>5. Gains  BY <1>1, <1>3 DEF Gains
<1>. QED BY <1>0, <1>2, <1>3, <1>4, <1>5, KeepActive, KeepCoordinator, KeepCalls, KeepJournal
         DEF CheckpointInv

\* Pruning only deletes files whose operations are in the active checkpoint.
LEMMA PruneStep ==
    ASSUME CheckpointInv, NEW n \in Nodes, Prune(n)
    PROVE  CheckpointInv' /\ \A m \in Nodes : Held(m)' = Held(m)
<1>0. /\ TypeOK /\ HistoryOK /\ ActiveOK /\ CoordinatorOK /\ CallsOK /\ JournalOK
      /\ co.id + faults <= MaxEvents /\ MaxEvents \in Nat /\ MaxSeq \in Nat
      /\ co.id \in 0..MaxEvents /\ faults \in 0..MaxEvents
      /\ active[n] # None /\ active[n] \in Checkpoints /\ prev[n] \in Checkpoints
  BY CheckpointAssumption DEF CheckpointInv, TypeOK, Prune, Settled
<1>1. UNCHANGED <<active, prev, prepared, valid, co, calls>>
  BY DEF Prune
<1>2. PICK plan \in Plans :
        /\ \A o \in plan.ops : o.seq <= plan.safe[o.actor]
        /\ plan.safe = prev[n].vec
        /\ \/ /\ oplog' = [oplog EXCEPT ![n] = @ \ plan.ops]
              /\ journal' = [journal EXCEPT ![n] = None]
              /\ UNCHANGED faults
           \/ /\ Bounded /\ faults' = faults + 1
              /\ journal' = [journal EXCEPT ![n] = plan]
              /\ \E done \in SUBSET plan.ops : oplog' = [oplog EXCEPT ![n] = @ \ done]
  <2>1. PICK old \in SUBSET Candidates(n) :
          LET plan == IF journal[n] = None THEN Plan(n, old) ELSE journal[n]
          IN /\ journal[n] # None => Matches(n)
             /\ \/ /\ oplog' = [oplog EXCEPT ![n] = @ \ plan.ops]
                   /\ journal' = [journal EXCEPT ![n] = None]
                   /\ UNCHANGED faults
                \/ /\ Bounded /\ faults' = faults + 1
                   /\ journal' = [journal EXCEPT ![n] = plan]
                   /\ \E done \in SUBSET plan.ops : oplog' = [oplog EXCEPT ![n] = @ \ done]
    BY DEF Prune
  <2>2. CASE journal[n] = None
    <3>1. /\ Plan(n, old) \in Plans /\ Plan(n, old).safe = prev[n].vec
          /\ \A o \in Plan(n, old).ops : o.seq <= prev[n].vec[o.actor]
      BY <1>0 DEF Plan, Plans, Candidates, TypeOK, Checkpoints
    <3>. QED BY <2>1, <2>2, <3>1
  <2>3. CASE journal[n] # None
    <3>1. journal[n] \in Plans /\ journal[n].safe = prev[n].vec
      BY <1>0, <2>1, <2>3 DEF TypeOK, Matches
    <3>2. \A o \in journal[n].ops : o.seq <= journal[n].safe[o.actor]
      BY <1>0, <2>3 DEF JournalOK
    <3>. QED BY <2>1, <2>3, <3>1, <3>2
  <2>. QED BY <2>2, <2>3
<1>3. PICK done \in SUBSET plan.ops : oplog' = [oplog EXCEPT ![n] = @ \ done]
  BY <1>2
<1>4. done \cap Held(n) \subseteq active[n].ops
  <2>1. /\ active[n].vec \in Vectors /\ prev[n].vec \in Vectors
        /\ Covers(active[n].ops, active[n].vec) /\ AtMost(prev[n].vec, active[n].vec)
        /\ active[n].ops \subseteq Held(n)
    BY <1>0, HeldType DEF ActiveOK, Whole, Checkpoints
  <2>2. ASSUME NEW o \in done \cap Held(n) PROVE o.seq <= active[n].vec[o.actor]
    <3>1. o.actor \in Nodes /\ o.seq \in 1..MaxSeq  BY <1>0, HeldType
    <3>2. o.seq <= prev[n].vec[o.actor]  BY <1>2, <1>3
    <3>3. /\ prev[n].vec[o.actor] <= active[n].vec[o.actor]
          /\ prev[n].vec[o.actor] \in 0..MaxSeq /\ active[n].vec[o.actor] \in 0..MaxSeq
      BY <2>1, <3>1 DEF AtMost, Vectors
    <3>. QED BY <1>0, <3>1, <3>2, <3>3
  <2> DEFINE S == done \cap Held(n)
  <2>3. S \subseteq Held(n) /\ \A o \in S : o.seq <= active[n].vec[o.actor]
    BY <2>2
  <2> HIDE DEF S
  <2>4. S \subseteq active[n].ops  BY <1>0, <2>1, <2>3, CoversMonotone
  <2>. QED BY <2>4 DEF S
<1>5. \A m \in Nodes : Held(m)' = Held(m)
  <2>1. oplog'[n] = oplog[n] \ done /\ \A m \in Nodes \ {n} : oplog'[m] = oplog[m]
    BY <1>0, <1>3 DEF TypeOK
  <2>. QED BY <1>0, <1>1, <1>4, <2>1 DEF Held
<1>6. /\ faults' \in 0..MaxEvents /\ co.id + faults' <= MaxEvents
  BY <1>0, <1>2 DEF Bounded
<1>7. JournalOK' /\ journal' \in [Nodes -> Plans \cup {None}]
  BY <1>0, <1>2 DEF JournalOK, TypeOK
<1>8. TypeOK'
  <2>1. oplog' \in [Nodes -> SUBSET Operations]  BY <1>0, <1>3 DEF TypeOK
  <2>. QED BY <1>0, <1>1, <1>6, <1>7, <2>1 DEF TypeOK
<1>. QED BY <1>0, <1>1, <1>5, <1>6, <1>7, <1>8, KeepHistory, KeepActive, KeepCoordinator,
            KeepCalls DEF CheckpointInv

LEMMA InvStep ==
    ASSUME CheckpointInv, [Next]_vars
    PROVE  CheckpointInv' /\ ((\A n \in Nodes : Held(n)' = Held(n)) \/ Gains)
<1>1. CASE UNCHANGED vars
  <2>1. UNCHANGED <<oplog, active, prev, prepared, valid, co, calls, journal, faults>>
    BY <1>1 DEF vars
  <2>2. \A n \in Nodes : Held(n)' = Held(n)  BY <2>1 DEF Held
  <2>3. TypeOK /\ HistoryOK /\ ActiveOK /\ CoordinatorOK /\ CallsOK /\ JournalOK
        /\ co.id + faults <= MaxEvents
    BY DEF CheckpointInv
  <2>4. TypeOK'  BY <2>1, <2>3 DEF TypeOK
  <2>. QED BY <2>1, <2>2, <2>3, <2>4, KeepHistory, KeepActive, KeepCoordinator, KeepCalls,
              KeepJournal DEF CheckpointInv
<1>2. CASE Next
  BY <1>2, CoordinatorStep, CallStep, ReconcileStep, OperationStep, PruneStep DEF Next
<1>. QED BY <1>1, <1>2

-----------------------------------------------------------------------------
(* Theorems.                                                                *)

\* Whatever all nodes hold is what they activate, in every behaviour of
\* proposals, answers, expiries, deaths, installations and prunes.
THEOREM CheckpointSafe == Spec => []CheckpointInv
<1>1. CheckpointInv /\ [Next]_vars => CheckpointInv'  BY InvStep
<1>. QED BY <1>1, InvInit, PTL DEF Spec

\* Checkpoints, proposals, commands and prune journals stay well formed; a node
\* has a previous checkpoint as soon as it has a current one.
THEOREM CheckpointTyped == Spec => []TypeOK
<1>1. CheckpointInv => TypeOK  BY DEF CheckpointInv
<1>. QED BY <1>1, CheckpointSafe, PTL

\* A node's materialized state is the operations it holds, in its checkpoint or
\* in files.
LEMMA StateHeld == CheckpointInv => \A n \in Nodes : State(n) = Held(n)
BY VectorCovers DEF CheckpointInv

\* For any replicas, writers, proposals and faults, what a replica activates is
\* part of what every replica knows: create_checkpoint_commit_proof wants all
\* acknowledgements, and a late command only acts for a proposal that had them.
THEOREM CommittedIsKnown == Spec => []CommittedKnown
<1>1. CheckpointInv => CommittedKnown
  BY StateHeld DEF CheckpointInv, ActiveOK, KnownAt, CommittedKnown
<1>. QED BY <1>1, CheckpointSafe, PTL

\* Equal vectors mean equal operations, for any replicas, whatever each of them
\* keeps as checkpoint and as tail, and a baseline names one checkpoint.
THEOREM EqualVectorsMeanEqualStates == Spec => []EqualVectorsEqualState
<1>1. ASSUME CheckpointInv PROVE EqualVectorsEqualState
  <2>0. TypeOK /\ HistoryOK /\ ActiveOK  BY <1>1 DEF CheckpointInv
  <2>1. ASSUME NEW n \in Nodes, NEW m \in Nodes, Vector(n) = Vector(m)
        PROVE  State(n) = State(m)
    <3>1. /\ Covers(Held(n), Vector(n)) /\ State(n) = Held(n)
          /\ Covers(Held(m), Vector(m)) /\ State(m) = Held(m)
          /\ Vector(n) \in Vectors /\ Vector(m) \in Vectors
      BY <2>0, VectorCovers, VectorType
    <3>2. /\ \A o \in Held(n) : o.seq <= Vector(m)[o.actor]
          /\ \A o \in Held(m) : o.seq <= Vector(n)[o.actor]
      BY <2>1, <3>1 DEF Covers
    <3>3. Held(n) \subseteq Held(m)  BY <2>0, <3>1, <3>2, CoversMonotone
    <3>4. Held(m) \subseteq Held(n)  BY <2>0, <3>1, <3>2, CoversMonotone
    <3>. QED BY <3>1, <3>3, <3>4
  <2>2. ASSUME NEW n \in Nodes, NEW m \in Nodes, active[n] # None, active[m] # None,
               active[n].vec = active[m].vec
        PROVE  active[n] = active[m]
    <3> DEFINE S == active[n].ops  T == active[m].ops
    <3>1. /\ active[n] \in Checkpoints /\ active[m] \in Checkpoints
          /\ active[n].vec \in Vectors /\ active[m].vec \in Vectors
          /\ Covers(S, active[n].vec) /\ Covers(T, active[m].vec)
          /\ S \subseteq Held(n) /\ T \subseteq Held(m)
      BY <2>0, <2>2, HeldType DEF ActiveOK, Whole, Checkpoints
    <3>2. /\ \A o \in S : o.seq <= active[m].vec[o.actor]
          /\ \A o \in T : o.seq <= active[n].vec[o.actor]
      BY <2>2, <3>1 DEF Covers
    <3> HIDE DEF S, T
    <3>3. S \subseteq T  BY <2>0, <3>1, <3>2, CoversMonotone
    <3>4. T \subseteq S  BY <2>0, <3>1, <3>2, CoversMonotone
    <3>. QED BY <2>2, <3>1, <3>3, <3>4 DEF S, T, Checkpoints
  <2>. QED BY <2>1, <2>2 DEF EqualVectorsEqualState
<1>. QED BY <1>1, CheckpointSafe, PTL

\* Activation, installation, pruning, late commands and deaths never take an
\* operation back that a replica has reduced.
NothingForgotten == [][\A n \in Nodes : State(n) \subseteq State(n)']_vars

THEOREM NothingIsForgotten == Spec => NothingForgotten
<1>1. CheckpointInv /\ [Next]_vars
        => CheckpointInv' /\ \A n \in Nodes : Held(n) \subseteq Held(n)'
  BY InvStep DEF Gains
<1>2. CheckpointInv' => (\A n \in Nodes : State(n) = Held(n))'  BY StateHeld, PTL
<1>3. CheckpointInv /\ [Next]_vars => [\A n \in Nodes : State(n) \subseteq State(n)']_vars
  BY <1>1, <1>2, StateHeld
<1>. QED BY <1>3, CheckpointSafe, PTL DEF Spec, NothingForgotten

\* Checkpoints cannot be told from outside: an append issues an operation under
\* a number its actor has not used, a transfer delivers an issued one, and no
\* other step -- activation, installation, pruning, a death half-way through --
\* changes what any replica has reduced.
THEOREM CheckpointsImplementOplog == Spec => ImplementsOplog
<1> DEFINE Issued == UNION {State(n) : n \in Nodes}
           Now == [n \in Nodes |-> State(n)]
<1>1. Init => Abstract!Init
  <2>. SUFFICES ASSUME Init PROVE \A n \in Nodes : State(n) = {}
    BY DEF Abstract!Init
  <2>1. CheckpointInv /\ \A n \in Nodes : Held(n) = {}  BY InvInit DEF Init, Held
  <2>. QED BY <2>1, StateHeld
<1>2. CheckpointInv' => (\A n \in Nodes : State(n) = Held(n))'  BY StateHeld, PTL
<1>3. CheckpointInv /\ [Next]_vars => [Abstract!Next]_<<Issued, Now>>
  <2>. SUFFICES ASSUME CheckpointInv, [Next]_vars
                PROVE  Abstract!Next \/ UNCHANGED <<Issued, Now>>
    OBVIOUS
  <2>0. TypeOK /\ HistoryOK /\ ActiveOK  BY DEF CheckpointInv
  <2>1. \A n \in Nodes : State(n) = Held(n) /\ State(n)' = Held(n)'
    BY <1>2, InvStep, StateHeld
  <2>2. CASE \A n \in Nodes : Held(n)' = Held(n)
    BY <2>1, <2>2
  <2>3. CASE Gains
    <3>1. PICK m \in Nodes, o \in Operations :
            /\ Held(m)' = Held(m) \cup {o} /\ \A n \in Nodes \ {m} : Held(n)' = Held(n)
            /\ o.seq = Vector(m)[o.actor] + 1 /\ (o.actor = m \/ o \in Held(o.actor))
      BY <2>3 DEF Gains
    <3>2. Now' = [Now EXCEPT ![m] = @ \cup {o}]  BY <2>1, <3>1
    <3>3. Issued' = Issued \cup {o}
      <4>1. \A x : x \in Issued' <=> x \in Issued \/ x = o  BY <2>1, <3>1
      <4>. QED BY <4>1
    <3>4. CASE o.actor = m
      <4>1. \A x \in Issued : x.actor = m => x.seq < o.seq
        <5>. SUFFICES ASSUME NEW n \in Nodes, NEW x \in Held(n), x.actor = m
                      PROVE  x.seq < o.seq
          BY <2>1
        <5>1. x \in Held(m) /\ x.seq \in 1..MaxSeq  BY <2>0, HeldType DEF HistoryOK
        <5>2. x.seq <= Vector(m)[m] /\ Vector(m)[m] \in 0..MaxSeq /\ MaxSeq \in Nat
          BY <2>0, <5>1, CheckpointAssumption, VectorCovers, VectorType DEF Covers, Vectors
        <5>. QED BY <3>1, <3>4, <5>1, <5>2
      <4>2. Abstract!Issue(m)  BY <3>1, <3>2, <3>3, <3>4, <4>1 DEF Abstract!Issue
      <4>. QED BY <4>2 DEF Abstract!Next
    <3>5. CASE o.actor # m
      <4>1. o \in Issued  BY <2>0, <2>1, <3>1, <3>5 DEF Operations
      <4>2. {o} \in SUBSET Issued /\ Issued' = Issued  BY <3>3, <4>1
      <4>3. Abstract!Deliver(m)  BY <3>2, <4>2 DEF Abstract!Deliver
      <4>. QED BY <4>3 DEF Abstract!Next
    <3>. QED BY <3>4, <3>5
  <2>. QED BY <2>2, <2>3, InvStep
<1>. QED BY <1>1, <1>3, CheckpointSafe, PTL DEF Spec, ImplementsOplog, Abstract!Spec
=============================================================================
