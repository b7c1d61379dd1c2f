-------------------------- MODULE ClusterCheckpoint --------------------------
(* Checkpoints of the cluster's history (master/cluster_checkpoint.py).       *)
(*                                                                            *)
(* The coordinator proposes a checkpoint of its history; every replica builds *)
(* the same one for itself and acknowledges it; with all acknowledgements the *)
(* replicas are told to activate it, and the coordinator does so last.  A     *)
(* replica that missed it installs it from a peer.  An active checkpoint      *)
(* replaces the operations up to its baseline, whose files are then pruned;   *)
(* operations appended above it name it as their base.                        *)
(*                                                                            *)
(* A checkpoint is its baseline and the operations it has reduced; its id is  *)
(* the hash of both.  The migration seal is closed and the membership fixed.  *)
(* Every remote command may be cut off, or run after its caller has gone.     *)
EXTENDS Integers, FiniteSetsExt

CONSTANTS
    Nodes,          \* the active state replicas
    Coordinator,    \* the first active master
    Writers,        \* the nodes whose operations the model follows
    None,
    MaxSeq,         \* bound: operations of one actor
    MaxEvents       \* bound: proposals, and deaths and timeouts, together

ASSUME CheckpointAssumption ==
    /\ Coordinator \in Nodes /\ Writers \subseteq Nodes /\ None \notin Nodes
    /\ {MaxSeq, MaxEvents} \subseteq Nat

VARIABLES
    oplog,      \* operation files of each node
    active,     \* checkpoints/commit.json: the current checkpoint
    prev,       \*   and the previous one
    prepared,   \* checkpoints/prepared: proposals a node has acknowledged
    valid,      \* proposals that have not expired
    co,         \* _commit_checkpoint_clusterwide at the coordinator
    calls,      \* remote commands sent or running
    journal,    \* retention/prune_journal.json, when a prune was cut off
    faults

vars == <<oplog, active, prev, prepared, valid, co, calls, journal, faults>>

-----------------------------------------------------------------------------
Vectors == [Nodes -> 0..MaxSeq]
Operations == [actor : Nodes, seq : 1..MaxSeq, base : Vectors \cup {None}]
Checkpoints == [vec : Vectors, ops : SUBSET Operations]

ASSUME NoneAssumption == None \notin Checkpoints

\* id: the proposal; an installation has none.
Call(verb, n, cp, id) == [verb |-> verb, node |-> n, cp |-> cp, id |-> id]
Calls == [verb : {"prepare", "commit", "activate", "install"}, node : Nodes,
          cp : Checkpoints, id : (1..MaxEvents) \cup {None}]

Phases == {"idle", "prepare", "commit", "local"}
Idle(id) == [phase |-> "idle", id |-> id, cp |-> None, acks |-> {}, failed |-> FALSE]

\* One more proposal or fault.
Bounded == co.id + faults < MaxEvents

Init ==
    /\ oplog = [n \in Nodes |-> {}]
    /\ active = [n \in Nodes |-> None]
    /\ prev = [n \in Nodes |-> None]
    /\ prepared = [n \in Nodes |-> {}]
    /\ valid = {}
    /\ co = Idle(0)
    /\ calls = {}
    /\ journal = [n \in Nodes |-> None]
    /\ faults = 0

-----------------------------------------------------------------------------
(* A node's history: the active checkpoint and the operations above it.       *)

AtMost(v, w) == \A a \in Nodes : v[a] <= w[a]

Baseline(n) == IF active[n] = None THEN [a \in Nodes |-> 0] ELSE active[n].vec

\* base_checkpoint_id, the baseline for short: EqualVectorsEqualState says that
\* it names one checkpoint.
Base(n) == IF active[n] = None THEN None ELSE active[n].vec

Tail(n) == LET b == Baseline(n) IN {o \in oplog[n] : o.seq > b[o.actor]}
SeqsOf(n, a) == {o.seq : o \in {x \in oplog[n] : x.actor = a}}

Contiguous(from, seqs) == Max({s \in from..MaxSeq : (from + 1)..s \subseteq seqs})
Vector(n) ==
    LET b == Baseline(n) IN [a \in Nodes |-> Contiguous(b[a], SeqsOf(n, a))]

Reduced(n) == LET v == Vector(n) IN {o \in Tail(n) : o.seq <= v[o.actor]}
Gapless(n) == Tail(n) = Reduced(n)

\* Can the history be replayed?  Every command and every pass begins with it.
Readable(n) == active[n] # None => Gapless(n) /\ \A o \in Tail(n) : o.base = Base(n)

\* The operations the materialized state has reduced.
State(n) == (IF active[n] = None THEN {} ELSE active[n].ops) \cup Reduced(n)

CanBuild(n) == Readable(n) /\ Gapless(n)
Build(n) == [vec |-> Vector(n), ops |-> State(n)]

NextSeq(n) == 1 + Max({Baseline(n)[n]} \cup SeqsOf(n, n))

Writable(n, o) ==
    /\ o.seq > Baseline(n)[o.actor]
    /\ active[n] # None => o.base = Base(n)

-----------------------------------------------------------------------------
(* Operations: appended on a node, exchanged by Cluster Sync in the order of  *)
(* their numbers.  The two nodes compared their checkpoints some time before. *)

Append(n) ==
    /\ Readable(n)
    /\ NextSeq(n) <= MaxSeq
    /\ LET o == [actor |-> n, seq |-> NextSeq(n), base |-> Base(n)]
       IN Writable(n, o) /\ oplog' = [oplog EXCEPT ![n] = @ \cup {o}]
    /\ UNCHANGED <<active, prev, prepared, valid, co, calls, journal, faults>>

Transfer(n, m) ==
    /\ Readable(n) /\ Readable(m)
    /\ \E o \in Tail(n) :
        /\ o.seq = Vector(m)[o.actor] + 1
        /\ Writable(m, o)
        /\ oplog' = [oplog EXCEPT ![m] = @ \cup {o}]
    /\ UNCHANGED <<active, prev, prepared, valid, co, calls, journal, faults>>

-----------------------------------------------------------------------------
(* The coordinator.                                                           *)

Others == Nodes \ {Coordinator}

Propose ==
    /\ co.phase = "idle" /\ Bounded
    /\ CanBuild(Coordinator) /\ Vector(Coordinator) # Baseline(Coordinator)
    /\ LET cp == Build(Coordinator)
           id == co.id + 1
       IN /\ co' = [phase |-> "prepare", id |-> id, cp |-> cp,
                    acks |-> {Coordinator}, failed |-> FALSE]
          /\ valid' = valid \cup {id}
          /\ calls' = calls \cup {Call("prepare", n, cp, id) : n \in Others}
    /\ UNCHANGED <<oplog, active, prev, prepared, journal, faults>>

\* Mutant: the coordinator does not wait for the last acknowledgement.
AckedByMost == \E n \in Nodes : Nodes \ {n} \subseteq co.acks

Acknowledged == co.acks = Nodes

Proof ==
    /\ co.phase = "prepare" /\ Acknowledged /\ co.id \in valid
    /\ co' = [co EXCEPT !.phase = "commit", !.acks = {Coordinator}]
    /\ calls' = calls \cup {Call("commit", n, co.cp, co.id) : n \in Others}
    /\ UNCHANGED <<oplog, active, prev, prepared, valid, journal, faults>>

LocalCheck ==
    /\ co.phase = "commit" /\ co.acks = Nodes
    /\ Readable(Coordinator) /\ Vector(Coordinator) = co.cp.vec
    /\ co' = [co EXCEPT !.phase = "local"]
    /\ UNCHANGED <<oplog, active, prev, prepared, valid, calls, journal, faults>>

\* The baseline must not move backwards.
Advances(n, cp) == AtMost(Baseline(n), cp.vec)

\* Mutant: the first checkpoint has no predecessor.
ActivateFirst(n, cp) ==
    /\ active' = [active EXCEPT ![n] = cp]
    /\ prev' = [prev EXCEPT ![n] = active[n]]

Activate(n, cp) ==
    /\ active' = [active EXCEPT ![n] = cp]
    /\ prev' = [prev EXCEPT ![n] = IF active[n] = None THEN cp ELSE active[n]]

LocalActivate ==
    /\ co.phase = "local" /\ co.id \in valid
    /\ Advances(Coordinator, co.cp)
    /\ Activate(Coordinator, co.cp)
    /\ co' = Idle(co.id)
    /\ UNCHANGED <<oplog, prepared, valid, calls, journal, faults>>

\* An exception ends the protocol, when the calls in progress have returned.
Blocked ==
    \/ co.phase = "prepare" /\ (co.failed \/ co.id \notin valid)
    \/ co.phase = "commit" /\ co.failed
    \/ /\ co.phase = "commit" /\ co.acks = Nodes
       /\ ~(Readable(Coordinator) /\ Vector(Coordinator) = co.cp.vec)
    \/ co.phase = "local" /\ (co.id \notin valid \/ ~Advances(Coordinator, co.cp))

GiveUp ==
    /\ Blocked
    /\ \A c \in calls : c.id # co.id
    /\ co' = Idle(co.id)
    /\ UNCHANGED <<oplog, active, prev, prepared, valid, calls, journal, faults>>

\* PBCluster dies, or a command times out at its caller and runs on.
Abandon ==
    /\ co.phase # "idle" /\ Bounded
    /\ co' = Idle(co.id)
    /\ faults' = faults + 1
    /\ UNCHANGED <<oplog, active, prev, prepared, valid, calls, journal>>

\* expires_at, 300 seconds after the proposal.
Expire(p) ==
    /\ p \in valid
    /\ valid' = valid \ {p}
    /\ UNCHANGED <<oplog, active, prev, prepared, co, calls, journal, faults>>

-----------------------------------------------------------------------------
(* Commands on a replica.  A call that ends is answered to a coordinator that *)
(* still waits for it.                                                        *)

Waits(c, phase) == co.phase = phase /\ co.id = c.id

Answer(c, phase, ok) ==
    /\ calls' = calls \ {c}
    /\ co' = IF ~Waits(c, phase) THEN co
             ELSE IF ok THEN [co EXCEPT !.acks = @ \cup {c.node}]
             ELSE [co EXCEPT !.failed = TRUE]

Agrees(c) == c.id \in valid /\ CanBuild(c.node) /\ Build(c.node) = c.cp

Prepare(c) ==
    /\ c.verb = "prepare"
    /\ LET ok == Agrees(c)
       IN /\ Answer(c, "prepare", ok)
          /\ prepared' = [prepared EXCEPT ![c.node] = IF ok THEN (@ \cap valid) \cup {c.id} ELSE @]
    /\ UNCHANGED <<oplog, active, prev, valid, journal, faults>>

StillPrepared(c) ==
    /\ c.id \in prepared[c.node] \cap valid
    /\ Readable(c.node) /\ Vector(c.node) = c.cp.vec

\* commit-checkpoint compares the vectors and releases the lock.
Commit(c) ==
    /\ c.verb = "commit"
    /\ IF StillPrepared(c)
       THEN calls' = (calls \ {c}) \cup {[c EXCEPT !.verb = "activate"]} /\ UNCHANGED co
       ELSE Answer(c, "commit", FALSE)
    /\ UNCHANGED <<oplog, active, prev, prepared, valid, journal, faults>>

\* activate_checkpoint takes it again.
CommitActivate(c) ==
    /\ c.verb = "activate"
    /\ IF c.id \in valid /\ Advances(c.node, c.cp)
       THEN /\ Activate(c.node, c.cp)
            /\ prepared' = [prepared EXCEPT ![c.node] = @ \ {c.id}]
            /\ Answer(c, "commit", TRUE)
       ELSE /\ UNCHANGED <<active, prev, prepared>>
            /\ Answer(c, "commit", FALSE)
    /\ UNCHANGED <<oplog, valid, journal, faults>>

\* A call is lost, or the process that runs it dies before it writes.
Lose(c) ==
    /\ Bounded
    /\ faults' = faults + 1
    /\ Answer(c, IF c.verb = "prepare" THEN "prepare" ELSE "commit", FALSE)
    /\ UNCHANGED <<oplog, active, prev, prepared, valid, journal>>

-----------------------------------------------------------------------------
(* Two nodes with different checkpoints: the one that lags behind installs    *)
(* the other's, pulled by it or pushed to it.                                 *)

Newer(m, n) ==
    /\ active[m] # None /\ active[m] # active[n]
    /\ active[n] # None => /\ active[n].vec # active[m].vec
                           /\ AtMost(active[n].vec, active[m].vec)

Reconcile(n, m) ==
    /\ Newer(m, n) /\ Call("install", n, active[m], None) \notin calls
    /\ calls' = calls \cup {Call("install", n, active[m], None)}
    /\ Readable(n) /\ Readable(m)
    /\ UNCHANGED <<oplog, active, prev, prepared, valid, co, journal, faults>>

\* Mutant: the operations above the checkpoint are moved aside as well.
FitsAlways(n, cp) == Readable(n)

\* No operation of the node is above the checkpoint.
Fits(n, cp) == Readable(n) /\ AtMost(Vector(n), cp.vec)

\* Mutant: a checkpoint whose proposal has expired is not installed either.
InstallsInTime(n, cp) == Fits(n, cp) /\ Advances(n, cp) /\ valid # {}

Installs(n, cp) == Fits(n, cp) /\ Advances(n, cp)

\* The oplog is moved to oplog_quarantine, unless the process dies before.
Install(c) ==
    /\ c.verb = "install"
    /\ calls' = calls \ {c}
    /\ \/ /\ Installs(c.node, c.cp)
          /\ Activate(c.node, c.cp)
          /\ oplog' = [oplog EXCEPT ![c.node] = {}]
          /\ UNCHANGED faults
       \/ /\ Installs(c.node, c.cp) /\ Bounded
          /\ Activate(c.node, c.cp)
          /\ faults' = faults + 1
          /\ UNCHANGED oplog
       \/ /\ ~Installs(c.node, c.cp)
          /\ UNCHANGED <<active, prev, oplog, faults>>
    /\ UNCHANGED <<prepared, valid, co, journal>>

-----------------------------------------------------------------------------
(* prune_operation_history, under the lock; a death leaves its journal.       *)

Settled(n) == Readable(n) /\ active[n] # None /\ Vector(n) = active[n].vec

Candidates(n) == {o \in oplog[n] : o.seq <= prev[n].vec[o.actor]}

Plans == [cp : Checkpoints, safe : Vectors, ops : SUBSET Operations]

\* old: the candidates beyond the history window.
Plan(n, old) == [cp |-> active[n], safe |-> prev[n].vec, ops |-> old]

Matches(n) == journal[n].cp = active[n] /\ journal[n].safe = prev[n].vec

Prune(n) ==
    /\ Settled(n)
    /\ \E old \in (SUBSET Candidates(n)) \ {{}} :
        LET plan == IF journal[n] = None THEN Plan(n, old) ELSE journal[n]
        IN /\ journal[n] # None => Matches(n)
           /\ \/ /\ oplog' = [oplog EXCEPT ![n] = @ \ plan.ops]
                 /\ journal' = [journal EXCEPT ![n] = None]
                 /\ UNCHANGED faults
              \/ /\ Bounded /\ faults' = faults + 1
                 /\ journal' = [journal EXCEPT ![n] = plan]
                 /\ \E done \in SUBSET plan.ops : oplog' = [oplog EXCEPT ![n] = @ \ done]
    /\ UNCHANGED <<active, prev, prepared, valid, co, calls>>

-----------------------------------------------------------------------------
Next ==
    \/ Propose \/ Proof \/ LocalCheck \/ LocalActivate \/ GiveUp \/ Abandon
    \/ \E p \in 1..MaxEvents : Expire(p)
    \/ \E c \in calls : Prepare(c) \/ Commit(c) \/ CommitActivate(c) \/ Install(c) \/ Lose(c)
    \/ \E n \in Writers : Append(n)
    \/ \E n \in Nodes : Prune(n)
    \/ \E n, m \in Nodes : Transfer(n, m) \/ Reconcile(n, m)

Spec == Init /\ [][Next]_vars

\* Commands end, the coordinator goes on, passes repeat with every peer.
Fairness ==
    /\ WF_vars(Proof \/ LocalCheck \/ LocalActivate \/ GiveUp)
    /\ WF_vars(\E c \in calls : Prepare(c) \/ Commit(c) \/ CommitActivate(c))
    /\ \A n \in Nodes : WF_vars(\E c \in calls : c.node = n /\ Install(c))
    /\ \A n \in Nodes : \A m \in Nodes \ {n} : WF_vars(Reconcile(n, m))

FairSpec == Spec /\ Fairness

-----------------------------------------------------------------------------
TypeOK ==
    /\ oplog \in [Nodes -> SUBSET Operations]
    /\ {active, prev} \subseteq [Nodes -> Checkpoints \cup {None}]
    /\ \A n \in Nodes : prev[n] = None <=> active[n] = None
    /\ journal \in [Nodes -> Plans \cup {None}]
    /\ prepared \in [Nodes -> SUBSET (1..MaxEvents)]
    /\ valid \subseteq 1..MaxEvents
    /\ co \in [phase : Phases, id : 0..MaxEvents, cp : Checkpoints \cup {None},
               acks : SUBSET Nodes, failed : BOOLEAN]
    /\ calls \subseteq Calls
    /\ faults \in 0..MaxEvents

\* A checkpoint that any replica has activated is part of what every replica
\* knows: nobody needs the files it allows to delete (create_checkpoint_commit_proof
\* wants the acknowledgement of every replica).
CommittedKnown ==
    \A m \in Nodes : LET known == State(m)
                     IN \A n \in Nodes : active[n] # None => active[n].ops \subseteq known

\* Two replicas with equal vectors have reduced the same operations, whatever
\* each of them keeps as checkpoint and as tail: Cluster Sync compares vectors
\* only, and an actor that restarts below a checkpoint must not use a number again.
\* So a baseline names one checkpoint, which _reconcile_peer_checkpoint relies on.
EqualVectorsEqualState ==
    /\ \A n, m \in Nodes : Vector(n) = Vector(m) => State(n) = State(m)
    /\ \A n, m \in {k \in Nodes : active[k] # None} :
        active[n].vec = active[m].vec => active[n] = active[m]

\* Whatever is activated, installed, pruned or cut off, the cluster remains a
\* replicated oplog: where its operations are kept cannot be told from outside.
Abstract == INSTANCE ReplicatedOplog
              WITH Op <- Operations, issued <- UNION {State(n) : n \in Nodes},
                   held <- [n \in Nodes |-> State(n)]
ImplementsOplog == Abstract!Spec

\* A history that cannot be replayed, or operations above a checkpoint that the
\* node has not activated.
Stranded(n) ==
    \/ ~Readable(n)
    \/ \E m \in Nodes : Newer(m, n) /\ ~AtMost(Vector(n), active[m].vec)

\* A checkpoint that some replicas activated and others missed reaches all of
\* them, except when one of them is stranded (_reconcile_peer_checkpoint).
Converges ==
    <>[](\/ \A n, m \in Nodes : active[n] = active[m]
         \/ \E n \in Nodes : Stranded(n))
=============================================================================
