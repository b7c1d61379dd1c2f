--------------------------- MODULE ClusterHistory ---------------------------
(***************************************************************************)
(* The cluster directory of ONE node: the oplog and the snapshot that is   *)
(* published from it (master/cluster_state.py).  PBCluster, the API server *)
(* and every inbound SSH command are separate processes that share these   *)
(* files.  Writers hold the advisory lock .append_sequence; an optimistic  *)
(* reader holds nothing.  A process may die anywhere, which frees its lock *)
(* and leaves whatever files it had already replaced.                      *)
(***************************************************************************)
EXTENDS OplogVectors, FiniteSets

CONSTANTS
    Procs,      \* processes of the node that use the cluster directory
    Actors,     \* node ids that may appear as the actor of an operation
    Self,       \* this node's own id
    Bodies,     \* operation contents, as far as two of them can be told apart
    Foreign,    \* operations of other actors that peers may deliver
    Checkpointed, \* whether the node has an active cluster checkpoint
    Free,       \* the lock is not held
    None        \* no value (absent file, no result)

Operation == [actor : Actors, seq : 1..MaxSeq, body : Bodies]

ASSUME HistoryAssumption ==
    /\ Self \in Actors
    /\ Foreign \subseteq Operation
    /\ \A o \in Foreign : o.actor # Self
    /\ \A o1, o2 \in Foreign :
          (o1.actor = o2.actor /\ o1.seq = o2.seq) => o1 = o2
    /\ Free \notin Procs
    /\ Checkpointed \in BOOLEAN
    /\ None \notin [history : SUBSET Operation,
                    hash : [nodes : Nat, desired : SUBSET Operation,
                            vector : [Actors -> 0..MaxSeq]]]

VARIABLES
    log,        \* the operation files under oplog/
    nodes,      \* cluster_nodes.json
    desired,    \* desired_state.json
    vector,     \* state_vector.json
    commit,     \* snapshot_commit.json: [history, hash], or None
    lock,       \* holder of .append_sequence
    pc,         \* what each process is doing
    draft,      \* the operation being appended
    hist,       \* the history fingerprint a process has computed
    com,        \* the commit record an optimistic reader has read
    snap,       \* the snapshot a process is building or reading
    since,      \* history variable: the log when the current read began
    result      \* the snapshot the last finished read returned

files == <<nodes, desired, vector, commit>>
vars == <<log, nodes, desired, vector, commit, lock, pc, draft, hist, com,
          snap, since, result>>

-----------------------------------------------------------------------------
(* Reducing a history.                                                      *)

\* _rebuild_materialized_state_unlocked.  The fold over the operations is
\* abstracted to the history it is a function of; the number of operations
\* (generation) and the state vector are kept.
Reduce(h) == [nodes   |-> Cardinality(h),
              desired |-> h,
              vector  |-> [a \in Actors |-> Contiguous(SeqsOf(h, a))]]

\* load_checkpoint_tail refuses a tail with a sequence gap; without a checkpoint
\* load_operations accepts any set of operations.
Reducible(h) == Checkpointed => GapFree(h)

OnDisk == [nodes |-> nodes, desired |-> desired, vector |-> vector]

-----------------------------------------------------------------------------
Init ==
    /\ log = {}
    /\ nodes = None /\ desired = None /\ vector = None /\ commit = None
    /\ lock = Free
    /\ pc = [p \in Procs |-> "idle"]
    /\ draft = [p \in Procs |-> None]
    /\ hist = [p \in Procs |-> None]
    /\ com = [p \in Procs |-> None]
    /\ snap = [p \in Procs |-> None]
    /\ since = [p \in Procs |-> {}]
    /\ result = [p \in Procs |-> None]

\* Mutants of the append: numbering without the lock; reusing the last number.
AppendBeginUnlocked(p, b) ==
    /\ pc[p] = "idle" /\ Reducible(log)
    /\ NextSeq(log, Self) <= MaxSeq
    /\ draft' = [draft EXCEPT ![p] =
                    [actor |-> Self, seq |-> NextSeq(log, Self), body |-> b]]
    /\ pc' = [pc EXCEPT ![p] = "append"]
    /\ UNCHANGED <<log, files, lock, hist, com, snap, since, result>>

\* append_operation: take the lock and number the operation.  Under a checkpoint
\* the membership is replayed first, which raises on a sequence gap.
AppendBegin(p, b) ==
    /\ pc[p] = "idle" /\ lock = Free /\ Reducible(log)
    /\ NextSeq(log, Self) <= MaxSeq
    /\ lock' = p
    /\ draft' = [draft EXCEPT ![p] =
                    [actor |-> Self, seq |-> NextSeq(log, Self), body |-> b]]
    /\ pc' = [pc EXCEPT ![p] = "append"]
    /\ UNCHANGED <<log, files, hist, com, snap, since, result>>

\* write_operation: a file that exists is kept, whatever the outcome.
Written(h, o) ==
    IF \E x \in h : x.actor = o.actor /\ x.seq = o.seq THEN h ELSE h \cup {o}

AppendWrite(p) ==
    /\ pc[p] = "append"
    /\ log' = Written(log, draft[p])
    /\ lock' = Free
    /\ pc' = [pc EXCEPT ![p] = "idle"]
    /\ draft' = [draft EXCEPT ![p] = None]
    /\ UNCHANGED <<files, hist, com, snap, since, result>>

\* _ensure_local_crypto_membership: the node's key claim is written first, and
\* the operation itself is numbered after it without releasing the lock.
AppendClaim(p, b) ==
    LET after == Written(log, draft[p]) IN
    /\ pc[p] = "append"
    /\ NextSeq(after, Self) <= MaxSeq
    /\ log' = after
    /\ draft' = [draft EXCEPT ![p] =
                    [actor |-> Self, seq |-> NextSeq(after, Self), body |-> b]]
    /\ UNCHANGED <<files, lock, pc, hist, com, snap, since, result>>

\* put-op / put-ops / a pull: write one operation received from a peer.
Receive(p, o) ==
    /\ pc[p] = "idle" /\ lock = Free
    /\ log' = Written(log, o)
    /\ UNCHANGED <<files, lock, pc, draft, hist, com, snap, since, result>>

\* The call ends and its locals are forgotten.
Return(p) ==
    /\ pc' = [pc EXCEPT ![p] = "idle"]
    /\ hist' = [hist EXCEPT ![p] = None]
    /\ com' = [com EXCEPT ![p] = None]
    /\ snap' = [snap EXCEPT ![p] = None]

-----------------------------------------------------------------------------
(* rebuild_materialized_state: the three files, then the commit.            *)

\* Lock held, history reduced and fingerprinted, nothing written yet.
StartRebuild(p) ==
    /\ lock' = p
    /\ snap' = [snap EXCEPT ![p] = Reduce(log)]
    /\ hist' = [hist EXCEPT ![p] = log]
    /\ pc' = [pc EXCEPT ![p] = "write_nodes"]

\* Mutant: the rebuild does not wait for the history lock.
RebuildBeginUnlocked(p) ==
    /\ pc[p] = "idle" /\ Reducible(log)
    /\ StartRebuild(p)
    /\ since' = [since EXCEPT ![p] = log]
    /\ result' = [result EXCEPT ![p] = None]
    /\ UNCHANGED <<log, files, draft, com>>

RebuildBegin(p) ==
    /\ pc[p] = "idle" /\ lock = Free /\ Reducible(log)
    /\ StartRebuild(p)
    /\ since' = [since EXCEPT ![p] = log]
    /\ result' = [result EXCEPT ![p] = None]
    /\ UNCHANGED <<log, files, draft, com>>

WriteNodes(p) ==
    /\ pc[p] = "write_nodes"
    /\ nodes' = snap[p].nodes
    /\ pc' = [pc EXCEPT ![p] = "write_desired"]
    /\ UNCHANGED <<log, desired, vector, commit, lock, draft, hist, com, snap,
                   since, result>>

WriteDesired(p) ==
    /\ pc[p] = "write_desired"
    /\ desired' = snap[p].desired
    /\ pc' = [pc EXCEPT ![p] = "write_vector"]
    /\ UNCHANGED <<log, nodes, vector, commit, lock, draft, hist, com, snap,
                   since, result>>

WriteVector(p) ==
    /\ pc[p] = "write_vector"
    /\ vector' = snap[p].vector
    /\ pc' = [pc EXCEPT ![p] = "write_commit"]
    /\ UNCHANGED <<log, nodes, desired, commit, lock, draft, hist, com, snap,
                   since, result>>

WriteCommit(p) ==
    /\ pc[p] = "write_commit"
    /\ commit' = [history |-> hist[p], hash |-> snap[p]]
    /\ result' = [result EXCEPT ![p] = snap[p]]
    /\ lock' = Free
    /\ Return(p)
    /\ UNCHANGED <<log, nodes, desired, vector, draft, since>>

-----------------------------------------------------------------------------
(* read_materialized_state(optimistic=True), then under the lock.           *)

ReadHistory(p) ==
    /\ pc[p] = "idle"
    /\ hist' = [hist EXCEPT ![p] = log]
    /\ since' = [since EXCEPT ![p] = log]
    /\ result' = [result EXCEPT ![p] = None]
    /\ pc' = [pc EXCEPT ![p] = "read_commit"]
    /\ UNCHANGED <<log, files, lock, draft, com, snap>>

ReadCommit(p) ==
    /\ pc[p] = "read_commit"
    /\ IF commit # None /\ commit.history = hist[p]
       THEN /\ com' = [com EXCEPT ![p] = commit]
            /\ pc' = [pc EXCEPT ![p] = "read_nodes"]
       ELSE /\ pc' = [pc EXCEPT ![p] = "wait_lock"]
            /\ com' = com
    /\ UNCHANGED <<log, files, lock, draft, hist, snap, since, result>>

ReadNodes(p) ==
    /\ pc[p] = "read_nodes"
    /\ snap' = [snap EXCEPT ![p] =
                  [nodes |-> nodes, desired |-> None, vector |-> None]]
    /\ pc' = [pc EXCEPT ![p] = "read_desired"]
    /\ UNCHANGED <<log, files, lock, draft, hist, com, since, result>>

ReadDesired(p) ==
    /\ pc[p] = "read_desired"
    /\ snap' = [snap EXCEPT ![p] =
                  [nodes |-> snap[p].nodes, desired |-> desired, vector |-> None]]
    /\ pc' = [pc EXCEPT ![p] = "read_vector"]
    /\ UNCHANGED <<log, files, lock, draft, hist, com, since, result>>

ReadVector(p) ==
    /\ pc[p] = "read_vector"
    /\ snap' = [snap EXCEPT ![p] =
                  [nodes |-> snap[p].nodes, desired |-> snap[p].desired,
                   vector |-> vector]]
    /\ pc' = [pc EXCEPT ![p] = "check_hash"]
    /\ UNCHANGED <<log, files, lock, draft, hist, com, since, result>>

\* The hash the reader compares with the committed one.
HashMatches(p) == com[p].hash = snap[p]

CheckHash(p) ==
    /\ pc[p] = "check_hash"
    /\ pc' = [pc EXCEPT ![p] = IF HashMatches(p) THEN "recheck_commit"
                                                 ELSE "wait_lock"]
    /\ UNCHANGED <<log, files, lock, draft, hist, com, snap, since, result>>

\* The commit's random generation is left out: the code also rejects a commit
\* that was replaced by an equal one, the model accepts it.
RecheckCommit(p) ==
    /\ pc[p] = "recheck_commit"
    /\ pc' = [pc EXCEPT ![p] = IF commit = com[p] THEN "recheck_history"
                                                  ELSE "wait_lock"]
    /\ UNCHANGED <<log, files, lock, draft, hist, com, snap, since, result>>

RecheckHistory(p) ==
    /\ pc[p] = "recheck_history"
    /\ IF hist[p] = log
       THEN /\ result' = [result EXCEPT ![p] = snap[p]]
            /\ Return(p)
       ELSE /\ pc' = [pc EXCEPT ![p] = "wait_lock"]
            /\ UNCHANGED <<result, hist, com, snap>>
    /\ UNCHANGED <<log, files, lock, draft, since>>

\* Mutant: the hash is verified, the history is not.
CommittedIsComplete == commit # None /\ commit.hash = OnDisk

\* The committed snapshot as a process that holds the lock validates it.
CommittedIsCurrent ==
    commit # None /\ commit.history = log /\ commit.hash = OnDisk

\* A lock holder returns the committed snapshot, rebuilds it, or raises.
LockedRead(p) ==
    /\ pc[p] = "wait_lock" /\ lock = Free
    /\ \/ /\ CommittedIsCurrent
          /\ result' = [result EXCEPT ![p] = OnDisk]
          /\ Return(p)
          /\ lock' = lock
       \/ /\ ~CommittedIsCurrent /\ Reducible(log)
          /\ StartRebuild(p)
          /\ UNCHANGED <<com, result>>
       \/ /\ ~CommittedIsCurrent /\ ~Reducible(log)
          /\ Return(p)               \* "checkpoint tail sequence gap" is raised
          /\ UNCHANGED <<lock, result>>
    /\ UNCHANGED <<log, files, draft, since>>

-----------------------------------------------------------------------------
\* A process dies: flock is released by the kernel, written files stay.
Crash(p) ==
    /\ pc[p] # "idle"
    /\ lock' = IF lock = p THEN Free ELSE lock
    /\ Return(p)
    /\ draft' = [draft EXCEPT ![p] = None]
    /\ UNCHANGED <<log, files, since, result>>

ProcStep(p) ==
    \/ \E b \in Bodies : AppendBegin(p, b)
    \/ AppendWrite(p)
    \/ \E b \in Bodies : AppendClaim(p, b)
    \/ \E o \in Foreign : Receive(p, o)
    \/ RebuildBegin(p)
    \/ WriteNodes(p) \/ WriteDesired(p) \/ WriteVector(p) \/ WriteCommit(p)
    \/ ReadHistory(p) \/ ReadCommit(p)
    \/ ReadNodes(p) \/ ReadDesired(p) \/ ReadVector(p)
    \/ CheckHash(p) \/ RecheckCommit(p) \/ RecheckHistory(p)
    \/ LockedRead(p)
    \/ Crash(p)

Next == \E p \in Procs : ProcStep(p)

Spec == Init /\ [][Next]_vars

-----------------------------------------------------------------------------
(* Properties.                                                              *)

Snapshot == [nodes : Nat, desired : SUBSET Operation,
             vector : [Actors -> 0..MaxSeq]]

PartialSnapshot == [nodes : Nat \cup {None},
                    desired : (SUBSET Operation) \cup {None},
                    vector : [Actors -> 0..MaxSeq] \cup {None}]

Writing == {"write_nodes", "write_desired", "write_vector", "write_commit"}
Reading == {"read_commit", "read_nodes", "read_desired", "read_vector",
            "check_hash", "recheck_commit", "recheck_history"}

\* The files and every process's locals hold values of their kind: an
\* operation file carries a sequence number append_operation may assign.
TypeOK ==
    /\ log \subseteq Operation /\ IsFiniteSet(log)
    /\ nodes \in Nat \cup {None}
    /\ desired \in (SUBSET Operation) \cup {None}
    /\ vector \in [Actors -> 0..MaxSeq] \cup {None}
    /\ commit \in [history : SUBSET Operation, hash : Snapshot] \cup {None}
    /\ lock \in Procs \cup {Free}
    /\ pc \in [Procs -> {"idle", "append", "wait_lock"} \cup Writing \cup Reading]
    /\ draft \in [Procs -> Operation \cup {None}]
    /\ hist \in [Procs -> (SUBSET Operation) \cup {None}]
    /\ com \in [Procs -> [history : SUBSET Operation, hash : Snapshot] \cup {None}]
    /\ snap \in [Procs -> PartialSnapshot \cup {None}]
    /\ since \in [Procs -> SUBSET Operation]
    /\ result \in [Procs -> PartialSnapshot \cup {None}]

\* What read_materialized_state returns, with or without the lock, is the
\* reduction of ONE history, no older than the oplog was when the read began
\* and no newer than the oplog is now: concurrent publications and publishers
\* that died half way never show through.
ReadCoherent ==
    \A p \in Procs : result[p] # None =>
        /\ result[p] = Reduce(result[p].desired)
        /\ since[p] \subseteq result[p].desired
        /\ result[p].desired \subseteq log

\* A commit record that names the current history vouches for three files that
\* are the reduction of exactly that history (rebuild_materialized_state
\* publishes the commit last).
CommittedSnapshotComplete ==
    commit # None /\ commit.history = log =>
        commit.hash = Reduce(log) /\ OnDisk = Reduce(log)

\* The number append_operation has read stays free until it writes the file,
\* so two appends of one node never claim one op_id.
NumberReserved ==
    \A p \in Procs : draft[p] # None =>
        \A o \in log : o.actor = Self => o.seq < draft[p].seq

\* A publication never replaces the commit of a newer history by an older one.
CommitMonotone ==
    [][commit # None => /\ commit' # None
                        /\ commit.history \subseteq commit'.history]_vars
=============================================================================
