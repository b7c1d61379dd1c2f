------------------------ MODULE ClusterHistoryProofs ------------------------
(***************************************************************************)
(* Proofs about ClusterHistory, for every set of processes, actors and     *)
(* operation contents.  The properties are not inductive by themselves:    *)
(* HistoryInv adds who holds the lock (Locking), how far a publisher has   *)
(* got (Publishing), what the commit record vouches for (Committed) and    *)
(* what an optimistic reader has seen (Reader).                            *)
(***************************************************************************)
EXTENDS ClusterHistory, FiniteSetTheorems, WellFoundedInduction, TLAPS

Locking ==
    /\ \A p \in Procs : pc[p] \in Writing \cup {"append"} => lock = p
    /\ \A p \in Procs : lock = p => pc[p] \in Writing \cup {"append"}
    /\ \A p \in Procs : pc[p] = "append" => draft[p] \in Operation
    /\ \A p \in Procs : draft[p] # None => pc[p] = "append"

Publishing ==
    \A p \in Procs : pc[p] \in Writing =>
        /\ hist[p] = log
        /\ snap[p] = Reduce(log)
        /\ pc[p] # "write_nodes" => nodes = Reduce(log).nodes
        /\ pc[p] \in {"write_vector", "write_commit"} =>
              desired = Reduce(log).desired
        /\ pc[p] = "write_commit" => vector = Reduce(log).vector

Committed ==
    commit # None =>
        /\ commit.history \subseteq log
        /\ commit.hash = Reduce(commit.history)
        /\ commit.history = log => OnDisk = Reduce(log)

Reader ==
    \A p \in Procs :
        /\ since[p] \subseteq log
        /\ pc[p] \in Reading => hist[p] = since[p]
        /\ pc[p] \in Reading \ {"read_commit"} =>
              /\ com[p].history = hist[p]
              /\ com[p].hash = Reduce(hist[p])
        /\ pc[p] \in {"read_desired", "read_vector"} => snap[p] \in PartialSnapshot
        /\ pc[p] \in {"recheck_commit", "recheck_history"} =>
              snap[p] = com[p].hash

HistoryInv == TypeOK /\ Locking /\ Publishing /\ Committed /\ Reader
                     /\ NumberReserved /\ ReadCoherent

-----------------------------------------------------------------------------
(* The numbers that the oplog code looks up always exist.                   *)

\* A non-empty set of naturals has a least element.
LEMMA LeastNat ==
    ASSUME NEW T, T \subseteq Nat, T # {}
    PROVE  \E x \in T : \A y \in T : x <= y
<1>1. PICK x \in T : \A y \in T : ~(<<y, x>> \in OpToRel(<, Nat))
  BY NatLessThanWellFounded, WFMin
<1>2. ASSUME NEW y \in T PROVE x <= y
  <2>1. ~(y < x)  BY <1>1 DEF OpToRel
  <2> QED BY <2>1
<1> QED BY <1>2

\* _highest_contiguous_sequence is defined for every set of numbers: all
\* numbers up to it are present and the next one is not.
LEMMA ContiguousSpec ==
    ASSUME NEW S
    PROVE  /\ Contiguous(S) \in 0..MaxSeq
           /\ 1..Contiguous(S) \subseteq S
           /\ (Contiguous(S) + 1) \notin (S \cap 1..MaxSeq)
<1> DEFINE T == {n \in Nat : (n + 1) \notin (S \cap 1..MaxSeq)}
<1>0. MaxSeq \in Nat  BY MaxSeqAssumption
<1>1. MaxSeq \in T  BY <1>0
<1>2. PICK m \in T : \A y \in T : m <= y
  <2> HIDE DEF T
  <2>1. T \subseteq Nat  BY DEF T
  <2> QED BY <1>1, <2>1, LeastNat
<1>3. m \in 0..MaxSeq  BY <1>0, <1>1, <1>2
<1>4. 1..m \subseteq S
  <2> SUFFICES ASSUME NEW k \in 1..m PROVE k \in S
    OBVIOUS
  <2>1. k - 1 \in Nat /\ k - 1 < m  BY <1>3
  <2>2. k - 1 \notin T  BY <1>2, <2>1
  <2> QED BY <2>1, <2>2
<1>5. (m + 1) \notin (S \cap 1..MaxSeq)  BY <1>2
<1> QED BY <1>3, <1>4, <1>5 DEF Contiguous

\* _next_seq returns a number above every number the actor has on disk.
LEMMA NextSeqFresh ==
    ASSUME NEW h, NEW a, SeqsOf(h, a) \subseteq 1..MaxSeq
    PROVE  /\ NextSeq(h, a) \in 1..(MaxSeq + 1)
           /\ \A s \in SeqsOf(h, a) : s < NextSeq(h, a)
<1> DEFINE S == SeqsOf(h, a)
           T == {n \in Nat : n >= 1 /\ \A s \in S : s < n}
<1>0. MaxSeq \in Nat /\ S \subseteq 1..MaxSeq  BY MaxSeqAssumption
<1> HIDE DEF S
<1>1. MaxSeq + 1 \in T  BY <1>0
<1>2. PICK m \in T : \A y \in T : m <= y
  <2> HIDE DEF T
  <2>1. T \subseteq Nat  BY DEF T
  <2> QED BY <1>1, <2>1, LeastNat
<1>3. m \in 1..(MaxSeq + 1) /\ \A s \in S : s < m  BY <1>0, <1>1, <1>2
<1>4. m - 1 \in S \cup {0}
  <2>1. CASE m = 1  BY <2>1
  <2>2. CASE m # 1
    <3>1. m - 1 \in Nat /\ m - 1 >= 1 /\ m - 1 < m  BY <1>3, <2>2, <1>0
    <3>2. m - 1 \notin T  BY <1>2, <3>1
    <3>3. PICK s \in S : ~(s < m - 1)  BY <3>1, <3>2
    <3>4. s \in Nat /\ s < m  BY <1>0, <1>3
    <3> QED BY <3>1, <3>3, <3>4, <1>3
  <2> QED BY <2>1, <2>2
<1> QED BY <1>3, <1>4 DEF NextSeq, S

-----------------------------------------------------------------------------
(* Operators.                                                               *)

LEMMA SeqsType ==
    ASSUME NEW h, h \subseteq Operation, NEW a
    PROVE  SeqsOf(h, a) \subseteq 1..MaxSeq
BY DEF SeqsOf, Operation

\* The reduction of a finite history is a well-formed snapshot that carries
\* the history it was made from.
LEMMA ReduceType ==
    ASSUME NEW h, h \subseteq Operation, IsFiniteSet(h)
    PROVE  Reduce(h) \in Snapshot /\ Reduce(h).desired = h
<1>1. Cardinality(h) \in Nat  BY FS_CardinalityType
<1>2. [a \in Actors |-> Contiguous(SeqsOf(h, a))] \in [Actors -> 0..MaxSeq]
  BY ContiguousSpec
<1> QED BY <1>1, <1>2 DEF Reduce, Snapshot

LEMMA WrittenType ==
    ASSUME NEW h, h \subseteq Operation, IsFiniteSet(h), NEW o \in Operation
    PROVE  /\ Written(h, o) \subseteq Operation
           /\ IsFiniteSet(Written(h, o))
           /\ h \subseteq Written(h, o)
           /\ Written(h, o) \subseteq h \cup {o}
BY FS_AddElement DEF Written

LEMMA SnapshotPartial == Snapshot \subseteq PartialSnapshot
BY DEF Snapshot, PartialSnapshot

-----------------------------------------------------------------------------
LEMMA InvInit == Init => HistoryInv
<1> SUFFICES ASSUME Init PROVE HistoryInv
  OBVIOUS
<1> USE DEF Init
<1>1. TypeOK  BY FS_EmptySet DEF TypeOK
<1>2. Locking
  BY HistoryAssumption DEF Locking, Writing
<1>3. Publishing /\ Committed /\ Reader
  BY DEF Publishing, Committed, Reader, Writing, Reading
<1>4. NumberReserved /\ ReadCoherent  BY DEF NumberReserved, ReadCoherent
<1> QED BY <1>1, <1>2, <1>3, <1>4 DEF HistoryInv

LEMMA InvNext == HistoryInv /\ [Next]_vars => HistoryInv'
<1> SUFFICES ASSUME HistoryInv, [Next]_vars PROVE HistoryInv'
  OBVIOUS
<1> USE DEF HistoryInv
<1>r. Reduce(log) \in Snapshot /\ Reduce(log).desired = log
      /\ Reduce(log) \in PartialSnapshot
  BY ReduceType, SnapshotPartial DEF TypeOK
<1>u. CASE UNCHANGED vars
  BY <1>u DEF vars, files, TypeOK, Locking, Publishing, Committed, Reader,
     NumberReserved, ReadCoherent, OnDisk
<1>n. ASSUME NEW p \in Procs, ProcStep(p) PROVE HistoryInv'
  <2>1. ASSUME NEW b \in Bodies, AppendBegin(p, b) PROVE HistoryInv'
    <3> DEFINE d == [actor |-> Self, seq |-> NextSeq(log, Self), body |-> b]
    <3>1. /\ d \in Operation
          /\ \A o \in log : o.actor = Self => o.seq < d.seq
      <4>1. /\ NextSeq(log, Self) \in 1..(MaxSeq + 1)
            /\ \A s \in SeqsOf(log, Self) : s < NextSeq(log, Self)
            /\ NextSeq(log, Self) <= MaxSeq
        BY <2>1, NextSeqFresh, SeqsType DEF TypeOK, AppendBegin
      <4>2. NextSeq(log, Self) \in 1..MaxSeq
        BY <4>1, MaxSeqAssumption
      <4> QED BY <4>1, <4>2, HistoryAssumption DEF Operation, SeqsOf
    <3> HIDE DEF d
    <3>2. draft' = [draft EXCEPT ![p] = d]  BY <2>1 DEF AppendBegin, d
    <3>3. /\ pc[p] = "idle" /\ lock = Free /\ lock' = p
          /\ pc' = [pc EXCEPT ![p] = "append"]
          /\ UNCHANGED <<log, files, hist, com, snap, since, result>>
      BY <2>1 DEF AppendBegin
    <3>4. TypeOK'  BY <3>1, <3>2, <3>3 DEF TypeOK, files
    <3>5. Locking'
      BY <3>1, <3>2, <3>3, HistoryAssumption DEF Locking, TypeOK, Writing
    <3>6. NumberReserved'
      BY <3>1, <3>2, <3>3, HistoryAssumption DEF NumberReserved, TypeOK, Locking
    <3>7. Publishing' /\ Committed' /\ Reader' /\ ReadCoherent'
      BY <3>3 DEF Publishing, Committed, Reader, ReadCoherent, files, OnDisk,
         TypeOK, Writing, Reading
    <3> QED BY <3>4, <3>5, <3>6, <3>7
  <2>2. CASE AppendWrite(p)
    <3> USE <2>2 DEF AppendWrite, files
    <3>1. /\ log' \subseteq Operation /\ IsFiniteSet(log')
          /\ log \subseteq log'
      BY WrittenType DEF TypeOK, Locking
    <3>2. TypeOK'  BY <3>1, HistoryAssumption DEF TypeOK
    <3>3. Locking'  BY HistoryAssumption DEF Locking, TypeOK, Writing
    <3>4. Publishing'  BY DEF Publishing, Locking, TypeOK, Writing
    <3>5. Committed'
      <4>1. UNCHANGED <<nodes, desired, vector, commit>> /\ OnDisk' = OnDisk
        BY DEF OnDisk
      <4> QED BY <3>1, <4>1, SMTT(20) DEF Committed
    <3>6. Reader' /\ ReadCoherent'
      BY <3>1 DEF Reader, ReadCoherent, TypeOK, Reading
    <3>7. NumberReserved'  BY DEF NumberReserved, Locking, TypeOK
    <3> QED BY <3>2, <3>3, <3>4, <3>5, <3>6, <3>7
  <2>16. ASSUME NEW b \in Bodies, AppendClaim(p, b) PROVE HistoryInv'
    <3> DEFINE d == [actor |-> Self, seq |-> NextSeq(log', Self), body |-> b]
    <3>0. /\ pc[p] = "append" /\ log' = Written(log, draft[p])
          /\ NextSeq(log', Self) <= MaxSeq
          /\ draft' = [draft EXCEPT ![p] = d]
          /\ UNCHANGED <<files, lock, pc, hist, com, snap, since, result>>
      BY <2>16 DEF AppendClaim, d
    <3>1. /\ log' \subseteq Operation /\ IsFiniteSet(log')
          /\ log \subseteq log'
      BY <3>0, WrittenType DEF TypeOK, Locking
    <3>2. /\ d \in Operation
          /\ \A o \in log' : o.actor = Self => o.seq < d.seq
      <4>1. /\ NextSeq(log', Self) \in 1..(MaxSeq + 1)
            /\ \A s \in SeqsOf(log', Self) : s < NextSeq(log', Self)
        BY <3>1, NextSeqFresh, SeqsType
      <4>2. NextSeq(log', Self) \in 1..MaxSeq
        BY <3>0, <4>1, MaxSeqAssumption
      <4> QED BY <4>1, <4>2, HistoryAssumption DEF Operation, SeqsOf
    <3> HIDE DEF d
    <3>3. TypeOK'  BY <3>0, <3>1, <3>2 DEF TypeOK, files
    <3>4. Locking'  BY <3>0, <3>2 DEF Locking, TypeOK, Writing
    <3>5. Publishing'  BY <3>0 DEF Publishing, Locking, TypeOK, Writing
    <3>6. Committed'  BY <3>0, <3>1 DEF Committed, OnDisk, files
    <3>7. Reader' /\ ReadCoherent'
      BY <3>0, <3>1 DEF Reader, ReadCoherent, TypeOK, Reading
    <3>8. NumberReserved'  BY <3>0, <3>2 DEF NumberReserved, Locking, TypeOK
    <3> QED BY <3>3, <3>4, <3>5, <3>6, <3>7, <3>8
  <2>3. ASSUME NEW o \in Foreign, Receive(p, o) PROVE HistoryInv'
    <3> USE <2>3 DEF Receive, files
    <3>0. o \in Operation /\ o.actor # Self  BY HistoryAssumption
    <3>1. /\ log' \subseteq Operation /\ IsFiniteSet(log')
          /\ log \subseteq log' /\ log' \subseteq log \cup {o}
      BY <3>0, WrittenType DEF TypeOK
    <3>2. TypeOK' /\ Locking'  BY <3>1 DEF TypeOK, Locking
    <3>4. Publishing'
      BY HistoryAssumption DEF Publishing, Locking, TypeOK, Writing
    <3>5. Committed'  BY <3>1 DEF Committed, OnDisk
    <3>6. Reader' /\ ReadCoherent'
      BY <3>1 DEF Reader, ReadCoherent, TypeOK, Reading
    <3>7. NumberReserved'  BY <3>0, <3>1 DEF NumberReserved, Locking, TypeOK
    <3> QED BY <3>2, <3>4, <3>5, <3>6, <3>7
  <2>4. CASE RebuildBegin(p)
    <3> USE <2>4 DEF RebuildBegin, StartRebuild, files
    <3>1. TypeOK'  BY <1>r DEF TypeOK, Writing
    <3>2. Locking' /\ NumberReserved'
      BY HistoryAssumption DEF Locking, NumberReserved, TypeOK, Writing
    <3>3. Publishing'
      BY HistoryAssumption DEF Publishing, Locking, TypeOK, Writing
    <3>4. Committed'  BY DEF Committed, OnDisk
    <3>5. Reader' /\ ReadCoherent'
      BY DEF Reader, ReadCoherent, TypeOK, Reading
    <3> QED BY <3>1, <3>2, <3>3, <3>4, <3>5
  <2>5. CASE WriteNodes(p)
    <3> USE <2>5 DEF WriteNodes
    <3>0. snap[p] = Reduce(log) /\ lock = p
      BY DEF Publishing, Locking, Writing
    <3>1. TypeOK'  BY <1>r, <3>0 DEF TypeOK, Writing, Snapshot
    <3>2. Locking' /\ NumberReserved'
      BY DEF Locking, NumberReserved, TypeOK, Writing
    <3>3. Publishing'  BY <3>0 DEF Publishing, Locking, TypeOK, Writing
    <3>4. Committed'  BY <3>0 DEF Committed, OnDisk
    <3>5. Reader' /\ ReadCoherent'
      BY DEF Reader, ReadCoherent, TypeOK, Reading
    <3> QED BY <3>1, <3>2, <3>3, <3>4, <3>5
  <2>6. CASE WriteDesired(p)
    <3> USE <2>6 DEF WriteDesired
    <3>0. snap[p] = Reduce(log) /\ lock = p
      BY DEF Publishing, Locking, Writing
    <3>1. TypeOK'  BY <1>r, <3>0 DEF TypeOK, Writing, Snapshot
    <3>2. Locking' /\ NumberReserved'
      BY DEF Locking, NumberReserved, TypeOK, Writing
    <3>3. Publishing'  BY <3>0 DEF Publishing, Locking, TypeOK, Writing
    <3>4. Committed'  BY <3>0 DEF Committed, OnDisk
    <3>5. Reader' /\ ReadCoherent'
      BY DEF Reader, ReadCoherent, TypeOK, Reading
    <3> QED BY <3>1, <3>2, <3>3, <3>4, <3>5
  <2>7. CASE WriteVector(p)
    <3> USE <2>7 DEF WriteVector
    <3>0. snap[p] = Reduce(log) /\ lock = p
      BY DEF Publishing, Locking, Writing
    <3>1. TypeOK'  BY <1>r, <3>0 DEF TypeOK, Writing, Snapshot
    <3>2. Locking' /\ NumberReserved'
      BY DEF Locking, NumberReserved, TypeOK, Writing
    <3>3. Publishing'  BY <3>0 DEF Publishing, Locking, TypeOK, Writing
    <3>4. Committed'  BY <3>0 DEF Committed, OnDisk
    <3>5. Reader' /\ ReadCoherent'
      BY DEF Reader, ReadCoherent, TypeOK, Reading
    <3> QED BY <3>1, <3>2, <3>3, <3>4, <3>5
  <2>8. CASE WriteCommit(p)
    <3> USE <2>8 DEF WriteCommit, Return
    <3>0. /\ snap[p] = Reduce(log) /\ hist[p] = log /\ lock = p
          /\ nodes = Reduce(log).nodes /\ desired = Reduce(log).desired
          /\ vector = Reduce(log).vector
      BY DEF Publishing, Locking, Writing
    <3>1. TypeOK'  BY <1>r, <3>0 DEF TypeOK
    <3>2. Locking' /\ NumberReserved'
      BY <3>0, HistoryAssumption DEF Locking, NumberReserved, TypeOK, Writing
    <3>3. Publishing'  BY <3>0 DEF Publishing, Locking, TypeOK, Writing
    <3>4. Committed'
      <4>1. OnDisk = Reduce(log)  BY <1>r, <3>0 DEF OnDisk, Snapshot
      <4> QED BY <3>0, <4>1 DEF Committed, OnDisk
    <3>5. Reader'  BY DEF Reader, TypeOK, Reading
    <3>6. ReadCoherent'  BY <1>r, <3>0 DEF ReadCoherent, TypeOK, Reader
    <3> QED BY <3>1, <3>2, <3>3, <3>4, <3>5, <3>6
  <2>9. CASE ReadHistory(p)
    <3> USE <2>9 DEF ReadHistory, files
    <3>1. TypeOK'  BY DEF TypeOK, Reading
    <3>2. Locking' /\ NumberReserved' /\ Publishing'
      BY DEF Locking, NumberReserved, Publishing, TypeOK, Writing
    <3>4. Committed'  BY DEF Committed, OnDisk
    <3>5. Reader' /\ ReadCoherent'
      BY DEF Reader, ReadCoherent, TypeOK, Reading
    <3> QED BY <3>1, <3>2, <3>4, <3>5
  <2>10. CASE ReadCommit(p)
    <3> USE <2>10 DEF ReadCommit, files
    <3>1. TypeOK'  BY DEF TypeOK, Reading
    <3>2. Locking' /\ NumberReserved' /\ Publishing'
      BY DEF Locking, NumberReserved, Publishing, TypeOK, Writing
    <3>4. Committed'  BY DEF Committed, OnDisk
    <3>5. Reader' /\ ReadCoherent'
      BY DEF Reader, ReadCoherent, TypeOK, Reading, Committed
    <3> QED BY <3>1, <3>2, <3>4, <3>5
  <2>11. CASE ReadNodes(p) \/ ReadDesired(p) \/ ReadVector(p)
    <3> USE <2>11 DEF ReadNodes, ReadDesired, ReadVector, files
    <3>0. ASSUME NEW x \in PartialSnapshot, snap' = [snap EXCEPT ![p] = x]
          PROVE  TypeOK'
      BY <3>0 DEF TypeOK, Reading
    <3>1. TypeOK'
      <4>1. CASE ReadNodes(p)
        <5>1. [nodes |-> nodes, desired |-> None, vector |-> None]
              \in PartialSnapshot  BY DEF TypeOK, PartialSnapshot
        <5> QED BY <4>1, <5>1, <3>0
      <4>2. CASE ReadDesired(p)
        <5>1. [nodes |-> snap[p].nodes, desired |-> desired, vector |-> None]
              \in PartialSnapshot
          BY <4>2 DEF TypeOK, PartialSnapshot, Reader
        <5> QED BY <4>2, <5>1, <3>0
      <4>3. CASE ReadVector(p)
        <5>1. [nodes |-> snap[p].nodes, desired |-> snap[p].desired,
               vector |-> vector] \in PartialSnapshot
          BY <4>3 DEF TypeOK, PartialSnapshot, Reader
        <5> QED BY <4>3, <5>1, <3>0
      <4> QED BY <4>1, <4>2, <4>3
    <3>2. Locking' /\ NumberReserved' /\ Publishing'
      BY DEF Locking, NumberReserved, Publishing, TypeOK, Writing
    <3>4. Committed'  BY DEF Committed, OnDisk
    <3>5. Reader' /\ ReadCoherent'
      BY DEF Reader, ReadCoherent, TypeOK, Reading, PartialSnapshot
    <3> QED BY <3>1, <3>2, <3>4, <3>5
  <2>12. CASE CheckHash(p) \/ RecheckCommit(p)
    <3> USE <2>12 DEF CheckHash, RecheckCommit, HashMatches, files
    <3>1. TypeOK'  BY DEF TypeOK, Reading
    <3>2. Locking' /\ NumberReserved' /\ Publishing'
      BY DEF Locking, NumberReserved, Publishing, TypeOK, Writing
    <3>4. Committed'  BY DEF Committed, OnDisk
    <3>5. Reader' /\ ReadCoherent'
      BY DEF Reader, ReadCoherent, TypeOK, Reading
    <3> QED BY <3>1, <3>2, <3>4, <3>5
  <2>13. CASE RecheckHistory(p)
    <3> USE <2>13 DEF RecheckHistory, Return, files
    <3>0. snap[p] = Reduce(hist[p]) /\ hist[p] = since[p] /\ since[p] \subseteq log
      BY DEF Reader, Reading
    <3>1. TypeOK'  BY DEF TypeOK, Reading
    <3>2. Locking' /\ NumberReserved' /\ Publishing'
      BY DEF Locking, NumberReserved, Publishing, TypeOK, Writing
    <3>4. Committed'  BY DEF Committed, OnDisk
    <3>5. Reader'  BY DEF Reader, TypeOK, Reading
    <3>6. ReadCoherent'  BY <1>r, <3>0 DEF ReadCoherent, TypeOK
    <3> QED BY <3>1, <3>2, <3>4, <3>5, <3>6
  <2>14. CASE LockedRead(p)
    <3> USE <2>14 DEF LockedRead, files
    <3>1. CASE CommittedIsCurrent /\ result' = [result EXCEPT ![p] = OnDisk]
               /\ Return(p) /\ lock' = lock
      <4> USE <3>1 DEF Return
      <4>0. OnDisk = Reduce(log)  BY DEF CommittedIsCurrent, Committed
      <4>1. TypeOK'  BY <1>r, <4>0 DEF TypeOK
      <4>2. Locking' /\ NumberReserved' /\ Publishing'
        BY DEF Locking, NumberReserved, Publishing, TypeOK, Writing
      <4>3. Committed'  BY DEF Committed, OnDisk
      <4>4. Reader'  BY DEF Reader, TypeOK, Reading
      <4>5. ReadCoherent'  BY <1>r, <4>0 DEF ReadCoherent, TypeOK, Reader
      <4> QED BY <4>1, <4>2, <4>3, <4>4, <4>5
    <3>2. CASE StartRebuild(p) /\ UNCHANGED <<com, result>>
      <4> USE <3>2 DEF StartRebuild
      <4>1. TypeOK'  BY <1>r DEF TypeOK, Writing
      <4>2. Locking' /\ NumberReserved'
        BY HistoryAssumption DEF Locking, NumberReserved, TypeOK, Writing
      <4>3. Publishing'
        BY HistoryAssumption DEF Publishing, Locking, TypeOK, Writing
      <4>4. Committed'  BY DEF Committed, OnDisk
      <4>5. Reader' /\ ReadCoherent'
        BY DEF Reader, ReadCoherent, TypeOK, Reading
      <4> QED BY <4>1, <4>2, <4>3, <4>4, <4>5
    <3>3. CASE Return(p) /\ UNCHANGED <<lock, result>>
      <4> USE <3>3 DEF Return
      <4>1. TypeOK'  BY DEF TypeOK
      <4>2. Locking' /\ NumberReserved' /\ Publishing'
        BY DEF Locking, NumberReserved, Publishing, TypeOK, Writing
      <4>3. Committed'  BY DEF Committed, OnDisk
      <4>4. Reader' /\ ReadCoherent'
        BY DEF Reader, ReadCoherent, TypeOK, Reading
      <4> QED BY <4>1, <4>2, <4>3, <4>4
    <3> QED BY <3>1, <3>2, <3>3
  <2>15. CASE Crash(p)
    <3> USE <2>15 DEF Crash, Return, files
    <3>1. TypeOK'  BY DEF TypeOK
    <3>2. Locking' /\ NumberReserved'
      BY HistoryAssumption DEF Locking, NumberReserved, TypeOK, Writing
    <3>3. Publishing'  BY DEF Publishing, Locking, TypeOK, Writing
    <3>4. Committed'  BY DEF Committed, OnDisk
    <3>5. Reader' /\ ReadCoherent'
      BY DEF Reader, ReadCoherent, TypeOK, Reading
    <3> QED BY <3>1, <3>2, <3>3, <3>4, <3>5
  <2> QED
    BY <1>n, <2>1, <2>2, <2>3, <2>4, <2>5, <2>6, <2>7, <2>8, <2>9, <2>10,
       <2>11, <2>12, <2>13, <2>14, <2>15, <2>16 DEF ProcStep
<1> QED BY <1>u, <1>n DEF Next

-----------------------------------------------------------------------------
\* Every reachable state satisfies the inductive invariant: a publisher holds
\* the lock, and what it has written so far is the reduction of the oplog.
THEOREM HistorySafe == Spec => []HistoryInv
BY InvInit, InvNext, PTL DEF Spec

\* The oplog and snapshot files hold values of their kind.
THEOREM HistoryTypeOK == Spec => []TypeOK
<1>1. HistoryInv => TypeOK  BY DEF HistoryInv
<1> QED BY HistorySafe, <1>1, PTL

\* read_materialized_state never returns a torn, half-published or outdated
\* snapshot, however many processes publish, append and die meanwhile.
THEOREM ReadsAreCoherent == Spec => []ReadCoherent
<1>1. HistoryInv => ReadCoherent  BY DEF HistoryInv
<1> QED BY HistorySafe, <1>1, PTL

\* A commit record naming the current history vouches for three complete files.
THEOREM CommitsAreComplete == Spec => []CommittedSnapshotComplete
<1>1. HistoryInv => CommittedSnapshotComplete
  BY DEF HistoryInv, Committed, CommittedSnapshotComplete
<1> QED BY HistorySafe, <1>1, PTL

\* append_operation never hands one op_id to two operations.
THEOREM NumbersAreReserved == Spec => []NumberReserved
<1>1. HistoryInv => NumberReserved  BY DEF HistoryInv
<1> QED BY HistorySafe, <1>1, PTL

\* rebuild_materialized_state never publishes an older history over a newer one.
THEOREM CommitsAreMonotone == Spec => CommitMonotone
<1> DEFINE Grows == commit # None => /\ commit' # None
                                     /\ commit.history \subseteq commit'.history
<1>1. ASSUME HistoryInv, [Next]_vars PROVE [Grows]_vars
  <2>1. CASE UNCHANGED commit  BY <2>1
  <2>2. ASSUME NEW p \in Procs, WriteCommit(p) PROVE Grows
    <3>1. /\ hist[p] = log /\ snap[p] = Reduce(log)
          /\ commit' = [history |-> log, hash |-> Reduce(log)]
      BY <1>1, <2>2 DEF HistoryInv, Publishing, Writing, WriteCommit
    <3>2. Reduce(log) \in Snapshot  BY <1>1, ReduceType DEF HistoryInv, TypeOK
    <3>3. commit' # None
      BY <3>1, <3>2, <1>1, HistoryAssumption DEF Snapshot, HistoryInv, TypeOK
    <3> QED BY <3>1, <3>3, <1>1 DEF HistoryInv, Committed
  <2>3. ASSUME NEW p \in Procs, ProcStep(p), ~WriteCommit(p)
        PROVE  UNCHANGED commit
    BY <2>3 DEF ProcStep, AppendBegin, AppendWrite, AppendClaim, Receive, RebuildBegin,
       WriteNodes, WriteDesired, WriteVector, ReadHistory, ReadCommit, ReadNodes,
       ReadDesired, ReadVector, CheckHash, RecheckCommit, RecheckHistory,
       LockedRead, Crash, files
  <2> QED BY <1>1, <2>1, <2>2, <2>3 DEF Next, vars
<1> QED BY HistorySafe, <1>1, PTL DEF Spec, CommitMonotone
=============================================================================
