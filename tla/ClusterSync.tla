----------------------------- MODULE ClusterSync -----------------------------
(***************************************************************************)
(* Replication of the oplog between nodes (master/cluster_sync_worker.py   *)
(* and the restricted SSH verbs of cluster_sync_command.py).  Every node   *)
(* runs PBCluster, whose pass reads the local snapshot once, then works on *)
(* all reachable peers in parallel threads: handshake, pull, push.  A      *)
(* thread works with the local vector of the pass and the remote vector of *)
(* its handshake while both oplogs keep changing.                          *)
(*                                                                         *)
(* Sealed-credential operations are special on both paths: a pull writes   *)
(* them after all others, a receiver of a push publishes them last, and a  *)
(* peer that cannot read them is not sent them.                            *)
(***************************************************************************)
EXTENDS OplogVectors, FiniteSets

CONSTANTS
    N,              \* number of nodes
    Links,          \* <<n, m>>: node n may open a sync to node m
    Credential,     \* nodes that understand sealed-credential operations
    Checkpointed,   \* whether the cluster has an active checkpoint
    BatchLimit,     \* APPLY_BUNDLE_MAX_OPERATIONS
    MaxRepairs,     \* MAX_PRE_HANDSHAKE_GAP_REPAIRS
    Quota,          \* bound: node n issues Quota[n][k] operations of kind k
    MaxFaults       \* bound: connections cut or remote commands killed

Nodes == 1..N
Kinds == {"config", "credential"}
Op == [actor : Nodes, seq : 1..MaxSeq, kind : Kinds]
Vectors == [Nodes -> 0..MaxSeq]

ASSUME SyncAssumption ==
    /\ N \in Nat \ {0} /\ {MaxRepairs, MaxFaults} \subseteq Nat
    /\ Quota \in [Nodes -> [Kinds -> Nat]]
    /\ BatchLimit \in Nat \ {0}
    /\ Links \subseteq Nodes \X Nodes
    /\ \A l \in Links : l[1] # l[2]
    /\ Credential \subseteq Nodes
    /\ Checkpointed \in BOOLEAN

VARIABLES
    log,        \* log[n]: operation files of node n (above the checkpoint)
    passing,    \* passing[n]: node n is inside run_once
    vec,        \* vec[n]: local_vector of the current pass
    cached,     \* cached[n]: load_local_ops has run in this pass
    cache,      \* cache[n]: the operations it returned
    at,         \* at[l]: where the peer thread of link l is
    repairs,    \* repairs[l]: gaps repaired before this handshake
    rvec,       \* rvec[l]: remote vector of the handshake
    want,       \* want[l]: actors whose range is still to be pulled
    batch,      \* batch[l]: fetched operations still to be written
    late,       \* late[l]: fetched credential operations, written at the end
    out,        \* out[l]: pushed operations the peer has not written yet
    faults      \* number of injected faults so far

threads == <<at, repairs, rvec, want, batch, late, out>>
pass == <<passing, vec, cached, cache>>
vars == <<log, passing, vec, cached, cache, at, repairs, rvec, want, batch, late, out, faults>>

-----------------------------------------------------------------------------
(* Histories and vectors.                                                   *)

VectorOf(h) == [a \in Nodes |-> Contiguous(SeqsOf(h, a))]

\* Replaying a checkpoint tail with a sequence gap raises; every read of the
\* materialized state, of the membership and of the operation list replays it.
Readable(h) == Checkpointed => GapFree(h)

\* Order of a peer's operation list: actor, then number.
Before(o, x) == o.actor < x.actor \/ (o.actor = x.actor /\ o.seq < x.seq)

FirstOf(S) == CHOOSE o \in S : \A x \in S \ {o} : Before(o, x)

\* Mutant: credential operations first.
CredentialsFirst(S) ==
    LET sealed == {o \in S : o.kind = "credential"}
    IN  FirstOf(IF sealed # {} THEN sealed ELSE S)

\* publish_order of put-ops and apply-bundle: credential operations last.
PublishNext(S) ==
    LET plain == {o \in S : o.kind # "credential"}
    IN  FirstOf(IF plain # {} THEN plain ELSE S)

\* _bounded_operation_batch
Bounded(S) == {o \in S : Cardinality({x \in S : Before(x, o)}) < BatchLimit}

-----------------------------------------------------------------------------
Init ==
    /\ log = [n \in Nodes |-> {}]
    /\ passing = [n \in Nodes |-> FALSE]
    /\ vec = [n \in Nodes |-> [a \in Nodes |-> 0]]
    /\ cached = [n \in Nodes |-> FALSE]
    /\ cache = [n \in Nodes |-> {}]
    /\ at = [l \in Links |-> "off"]
    /\ repairs = [l \in Links |-> 0]
    /\ rvec = [l \in Links |-> [a \in Nodes |-> 0]]
    /\ want = [l \in Links |-> {}]
    /\ batch = [l \in Links |-> {}]
    /\ late = [l \in Links |-> {}]
    /\ out = [l \in Links |-> {}]
    /\ faults = 0

\* append_operation on node n; numbering and signing replay the history.
Append(n, k) ==
    /\ Readable(log[n])
    /\ NextSeq(log[n], n) <= MaxSeq
    /\ Cardinality({o \in log[n] : o.actor = n /\ o.kind = k}) < Quota[n][k]
    /\ log' = [log EXCEPT ![n] = @ \cup {[actor |-> n, seq |-> NextSeq(log[n], n), kind |-> k]}]
    /\ UNCHANGED <<pass, threads, faults>>

\* run_once: read_materialized_state succeeds and a thread per peer starts.
StartPass(n) ==
    /\ ~passing[n] /\ Readable(log[n])
    /\ passing' = [passing EXCEPT ![n] = TRUE]
    /\ vec' = [vec EXCEPT ![n] = VectorOf(log[n])]
    /\ cached' = [cached EXCEPT ![n] = FALSE]
    /\ cache' = [cache EXCEPT ![n] = {}]
    /\ at' = [l \in Links |-> IF l[1] = n THEN "hello" ELSE at[l]]
    /\ UNCHANGED <<log, repairs, rvec, want, batch, late, out, faults>>

\* All peer threads have returned.
EndPass(n) ==
    /\ passing[n]
    /\ \A l \in Links : l[1] = n => at[l] = "off"
    /\ passing' = [passing EXCEPT ![n] = FALSE]
    /\ vec' = [vec EXCEPT ![n] = [a \in Nodes |-> 0]]
    /\ cached' = [cached EXCEPT ![n] = FALSE]
    /\ cache' = [cache EXCEPT ![n] = {}]
    /\ UNCHANGED <<log, threads, faults>>

\* The thread of link l returns or raises; its locals are gone.
ThreadEnds(l) ==
    /\ at' = [at EXCEPT ![l] = "off"]
    /\ repairs' = [repairs EXCEPT ![l] = 0]
    /\ rvec' = [rvec EXCEPT ![l] = [a \in Nodes |-> 0]]
    /\ want' = [want EXCEPT ![l] = {}]
    /\ batch' = [batch EXCEPT ![l] = {}]
    /\ late' = [late EXCEPT ![l] = {}]
    /\ out' = [out EXCEPT ![l] = {}]

\* load_local_ops: the first caller of the pass reads the oplog, all share it.
LocalOps(n) == IF cached[n] THEN cache[n] ELSE log[n]
LoadLocalOps(n) ==
    /\ cached[n] \/ Readable(log[n])
    /\ cached' = [cached EXCEPT ![n] = TRUE]
    /\ cache' = [cache EXCEPT ![n] = LocalOps(n)]
    /\ UNCHANGED <<passing, vec>>

-----------------------------------------------------------------------------
(* Handshake, with gap repair.                                              *)

Handshake(l) ==
    LET remote == VectorOf(log[l[2]]) IN
    /\ at[l] = "hello" /\ Readable(log[l[2]])
    /\ rvec' = [rvec EXCEPT ![l] = remote]
    /\ want' = [want EXCEPT ![l] = {a \in Nodes : remote[a] > vec[l[1]][a]}]
    /\ at' = [at EXCEPT ![l] = "pull"]
    /\ repairs' = [repairs EXCEPT ![l] = 0]
    /\ UNCHANGED <<log, pass, batch, late, out, faults>>

\* Mutant: the number before the gap.
IsBeforeGap(h, o) ==
    /\ \E x \in h : x.actor = o.actor /\ ~(1..x.seq \subseteq SeqsOf(h, o.actor))
    /\ o.seq = Contiguous(SeqsOf(h, o.actor))

\* The operation a peer with an unreadable tail asks for: the first number
\* missing in the first actor directory that has a gap.
IsFirstGap(h, o) ==
    LET gapped == {a \in Nodes : \E x \in h : x.actor = a /\
                                     ~(1..x.seq \subseteq SeqsOf(h, a))}
    IN  /\ o.actor \in gapped /\ \A a \in gapped : o.actor <= a
        /\ o.seq = Contiguous(SeqsOf(h, o.actor)) + 1

\* _peer_handshake_with_gap_repair: repair-op-gap, then the handshake again.
RepairGap(l) ==
    /\ at[l] = "hello" /\ ~Readable(log[l[2]]) /\ repairs[l] < MaxRepairs
    /\ LoadLocalOps(l[1])
    /\ \E o \in LocalOps(l[1]) :
          /\ IsFirstGap(log[l[2]], o)
          /\ log' = [log EXCEPT ![l[2]] = @ \cup {o}]
    /\ repairs' = [repairs EXCEPT ![l] = @ + 1]
    /\ UNCHANGED <<at, rvec, want, batch, late, out, faults>>

\* The peer stays unreadable for us: our own oplog is unreadable too, we lack
\* the operation, or it has too many gaps for one pass.
HandshakeFails(l) ==
    /\ at[l] = "hello" /\ ~Readable(log[l[2]])
    /\ \/ ~cached[l[1]] /\ ~Readable(log[l[1]]) /\ UNCHANGED pass
       \/ /\ LoadLocalOps(l[1])
          /\ \A o \in LocalOps(l[1]) : IsFirstGap(log[l[2]], o) => repairs[l] = MaxRepairs
    /\ ThreadEnds(l)
    /\ UNCHANGED <<log, faults>>

-----------------------------------------------------------------------------
(* _pull_missing_operations                                                 *)

\* get-ops for one actor.  Both sides replay their history on the way: the
\* caller is authorised, blobs are pulled for the fetched operations.
Fetch(l) ==
    LET a == CHOOSE x \in want[l] : \A y \in want[l] : x <= y
        range == {o \in log[l[2]] :
                    o.actor = a /\ vec[l[1]][a] < o.seq /\ o.seq <= rvec[l][a]}
    IN  /\ at[l] = "pull" /\ batch[l] = {} /\ want[l] # {}
        /\ Readable(log[l[1]]) /\ Readable(log[l[2]])
        /\ want' = [want EXCEPT ![l] = @ \ {a}]
        /\ batch' = [batch EXCEPT ![l] = {o \in range : o.kind # "credential"}]
        /\ late' = [late EXCEPT ![l] = @ \cup {o \in range : o.kind = "credential"}]
        /\ UNCHANGED <<log, pass, at, repairs, rvec, out, faults>>

WritePulled(l) ==
    LET o == FirstOf(batch[l]) IN
    /\ at[l] = "pull" /\ batch[l] # {}
    /\ log' = [log EXCEPT ![l[1]] = @ \cup {o}]
    /\ batch' = [batch EXCEPT ![l] = @ \ {o}]
    /\ UNCHANGED <<pass, at, repairs, rvec, want, late, out, faults>>

\* The deferred credential operations; each first replays the local history.
WriteLate(l) ==
    LET o == FirstOf(late[l]) IN
    /\ at[l] = "pull" /\ batch[l] = {} /\ want[l] = {} /\ late[l] # {}
    /\ Readable(log[l[1]]) /\ Readable(log[l[2]])
    /\ log' = [log EXCEPT ![l[1]] = @ \cup {o}]
    /\ late' = [late EXCEPT ![l] = @ \ {o}]
    /\ UNCHANGED <<pass, at, repairs, rvec, want, batch, out, faults>>

\* A replay inside the pull raises "checkpoint tail sequence gap".
PullFails(l) ==
    /\ at[l] = "pull" /\ batch[l] = {} /\ (want[l] # {} \/ late[l] # {})
    /\ ~(Readable(log[l[1]]) /\ Readable(log[l[2]]))
    /\ ThreadEnds(l)
    /\ UNCHANGED <<log, pass, faults>>

-----------------------------------------------------------------------------
(* Push.                                                                    *)

RemoteNeeds(l) == \E a \in Nodes : rvec[l][a] < vec[l[1]][a]

\* _select_operations_missing_on_remote, the credential filter and the bound.
Selected(l) ==
    LET missing == {o \in LocalOps(l[1]) : o.seq > rvec[l][o.actor]}
    IN  Bounded(IF l[2] \in Credential THEN missing
                ELSE {o \in missing : o.kind # "credential"})

PullDone(l) == at[l] = "pull" /\ want[l] = {} /\ batch[l] = {} /\ late[l] = {}

NothingToPush(l) ==
    /\ PullDone(l) /\ ~RemoteNeeds(l)
    /\ ThreadEnds(l)
    /\ UNCHANGED <<log, pass, faults>>

PlanPush(l) ==
    /\ PullDone(l) /\ RemoteNeeds(l)
    /\ LoadLocalOps(l[1])
    /\ out' = [out EXCEPT ![l] = Selected(l)]
    /\ at' = [at EXCEPT ![l] = "push"]
    /\ UNCHANGED <<log, repairs, rvec, want, batch, late, faults>>

\* apply-bundle holds the peer's history lock for the whole batch.
PushBundle(l) ==
    /\ at[l] = "push" /\ out[l] # {} /\ Readable(log[l[2]])
    /\ log' = [log EXCEPT ![l[2]] = @ \cup out[l]]
    /\ ThreadEnds(l)
    /\ UNCHANGED <<pass, faults>>

\* put-ops (the bundle was too large, or is cut short) writes one by one.
PushOne(l) ==
    LET o == PublishNext(out[l]) IN
    /\ \/ at[l] = "push" /\ Readable(log[l[2]])
       \/ at[l] = "put"
    /\ out[l] # {}
    /\ log' = [log EXCEPT ![l[2]] = @ \cup {o}]
    /\ out' = [out EXCEPT ![l] = @ \ {o}]
    /\ at' = [at EXCEPT ![l] = "put"]
    /\ UNCHANGED <<pass, repairs, rvec, want, batch, late, faults>>

\* The push is complete, is empty, cannot load the local operations, or is
\* refused by a peer that cannot authorise the caller.
PushEnds(l) ==
    /\ \/ at[l] \in {"push", "put"} /\ out[l] = {}
       \/ at[l] = "push" /\ ~Readable(log[l[2]])
       \/ PullDone(l) /\ RemoteNeeds(l) /\ ~cached[l[1]] /\ ~Readable(log[l[1]])
    /\ ThreadEnds(l)
    /\ UNCHANGED <<log, pass, faults>>

-----------------------------------------------------------------------------
\* The connection breaks, or a process at either end dies: the thread raises,
\* files already written stay.
Drop(l) ==
    /\ at[l] # "off" /\ faults < MaxFaults
    /\ faults' = faults + 1
    /\ ThreadEnds(l)
    /\ UNCHANGED <<log, pass>>

LinkStep(l) ==
    \/ Handshake(l) \/ RepairGap(l) \/ HandshakeFails(l)
    \/ Fetch(l) \/ WritePulled(l) \/ WriteLate(l) \/ PullFails(l)
    \/ NothingToPush(l) \/ PlanPush(l) \/ PushBundle(l) \/ PushOne(l) \/ PushEnds(l)

Next ==
    \/ \E n \in Nodes : StartPass(n) \/ EndPass(n) \/ \E k \in Kinds : Append(n, k)
    \/ \E l \in Links : LinkStep(l) \/ Drop(l)

\* PBCluster repeats its pass for ever, and every SSH command of a peer thread
\* ends: it has a timeout.  Appending and faults are not fair.
Fairness ==
    /\ \A n \in Nodes : WF_vars(StartPass(n)) /\ WF_vars(EndPass(n))
    /\ \A l \in Links : WF_vars(LinkStep(l))

Spec == Init /\ [][Next]_vars
FairSpec == Spec /\ Fairness

-----------------------------------------------------------------------------
(* Properties.                                                              *)

\* Oplogs, passes and peer threads hold values of their kind; a thread only
\* ever carries operations that exist.
TypeOK ==
    /\ log \in [Nodes -> SUBSET Op]
    /\ passing \in [Nodes -> BOOLEAN]
    /\ vec \in [Nodes -> Vectors]
    /\ cached \in [Nodes -> BOOLEAN]
    /\ cache \in [Nodes -> SUBSET Op]
    /\ at \in [Links -> {"off", "hello", "pull", "push", "put"}]
    /\ repairs \in [Links -> 0..MaxRepairs]
    /\ rvec \in [Links -> Vectors]
    /\ want \in [Links -> SUBSET Nodes]
    /\ batch \in [Links -> SUBSET Op]
    /\ late \in [Links -> SUBSET Op]
    /\ out \in [Links -> SUBSET Op]
    /\ faults \in 0..MaxFaults

\* A replica holds, and a thread carries, only operations their actor has: no
\* node ever holds a second content for an op_id.
OnlyIssued ==
    /\ \A n \in Nodes : \A o \in log[n] \cup cache[n] : o \in log[o.actor]
    /\ \A l \in Links : \A o \in batch[l] \cup late[l] \cup out[l] : o \in log[o.actor]
    /\ \A n \in Nodes : \A o, x \in log[n] :
          (o.actor = x.actor /\ o.seq = x.seq) => o = x

\* The vectors a thread works with are out of date but never too high: each
\* operation they claim is in that node's oplog, so a range that starts above
\* them skips nothing.
VectorsSound ==
    /\ \A n \in Nodes, a \in Nodes : 1..vec[n][a] \subseteq SeqsOf(log[n], a)
    /\ \A l \in Links, a \in Nodes : 1..rvec[l][a] \subseteq SeqsOf(log[l[2]], a)

\* Whatever is interrupted, the only operations an oplog can lack below one it
\* holds are credential operations: everything else arrives in actor order.
OnlyCredentialGaps ==
    \A n \in Nodes : \A o \in log[n] : \A x \in log[o.actor] :
        (x.actor = o.actor /\ x.seq < o.seq /\ x \notin log[n])
            => x.kind = "credential"

\* Every operation reaches every replica, although passes, pulls and pushes
\* interleave and connections break: oplogs only grow, and time and again each
\* holds all that was issued.
Delivered ==
    []<>(\A a, n \in Nodes : SeqsOf(log[a], a) \subseteq SeqsOf(log[n], a))

\* "A remote contiguous vector causes a local internal sequence gap to be
\* fetched": an oplog with a gap gets the missing operations.
GapFetched ==
    \A n \in Nodes : ~GapFree(log[n]) ~> GapFree(log[n])

\* Cluster Sync implements a replicated oplog.
Abstract == INSTANCE ReplicatedOplog
              WITH issued <- UNION {log[n] : n \in Nodes}, held <- log
ImplementsOplog == Abstract!Spec
=============================================================================
