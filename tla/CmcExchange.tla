---------------------------- MODULE CmcExchange ----------------------------
(***************************************************************************)
(* How a node gets CMC leases from the authority of another node           *)
(* (cmc_leases.py: CmcLeaseProvider and ClusterMailbox), over mailboxes    *)
(* that Cluster Sync copies between nodes (_sync_mailbox).                 *)
(*                                                                         *)
(* The client asks with a request message, the authority answers with a    *)
(* grant, the client uses the lease for one provider call and reports the  *)
(* outcome in a settlement.  Whoever has processed a message sends an      *)
(* acknowledgement and removes its own copy; other copies go when their    *)
(* holder learns that the recipient has the message.  Messages are read    *)
(* and written one file at a time, copied again by passes that looked at   *)
(* an old index, and every process may die between two writes.             *)
(*                                                                         *)
(* One client with one kind of call (one fingerprint) is modelled.  What   *)
(* the journal counts is CmcAuthority; here it grants or refuses at will.  *)
(* The clocks of the nodes agree, and the processes of a node read the     *)
(* epoch together.  An acknowledgement travels like the other messages;    *)
(* here it arrives at any time after the message was processed, or never.  *)
(***************************************************************************)
EXTENDS Integers

CONSTANTS
    Relays,         \* nodes besides the client and the authority
    Links,          \* pairs of nodes: the first runs passes with the second
    ClientProcs, AuthorityProcs, \* processes that process the inbox there
    Outcomes,       \* outcomes of a provider call
    MaxRequests, MaxEpoch, \* bounds: requests, epochs
    MaxFaults,      \* bound: deaths, breaks, messages that expire, epoch changes
    Overlap,        \* bound: whether calls are independent of each other, see Quiet
    None

Nodes == {"client", "authority"} \cup Relays
Procs == ClientProcs \cup AuthorityProcs
Requests == 1..MaxRequests
Epochs == 1..MaxEpoch

ASSUME ExchangeAssumption ==
    /\ MaxRequests \in Nat /\ MaxEpoch \in Nat \ {0} /\ MaxFaults \in Nat
    /\ Overlap \in BOOLEAN
    /\ Links \subseteq Nodes \X Nodes /\ \A l \in Links : l[1] # l[2]
    /\ Relays \cap {"client", "authority"} = {}
    /\ ClientProcs \cap AuthorityProcs = {}
    /\ Outcomes \cap {"none", "open", "expired"} = {}
    /\ None \notin Requests

VARIABLES
    epoch,      \* the authority epoch of the desired state
    known,      \* known[n]: the epoch node n has read
    asked,      \* requests created so far
    askedAt,    \* askedAt[r]: the epoch request r and its lease belong to
    pending,    \* pending[e]: the request waiting for a grant in epoch e
    grant,      \* grant[r]: what the client knows of the lease of r
    report,     \* report[r]: the outcome in the client's settlement record
    uses,       \* uses[r]: provider calls made with the lease of r
    putting,    \* messages the client has recorded and is about to put
    lease,      \* lease[r]: the authority's journal
    box,        \* box[n]: messages in the mailbox of node n
    late,       \* messages past expires_at
    proc,       \* proc[p]: the message process p is working on
    thread,     \* thread[l]: the message a pass on link l is copying
    sent, done, \* messages ever put, messages their recipient has processed
    faults

vars == <<epoch, known, asked, askedAt, pending, grant, report, uses, putting,
          lease, box, late, proc, thread, sent, done, faults>>
client == <<asked, askedAt, pending, grant, report, uses>>
routes == <<epoch, known>>

Message == [type : {"request", "grant", "settlement"}, id : Requests]
Msg(type, r) == [type |-> type, id |-> r]
Sender(m) == IF m.type = "grant" THEN "authority" ELSE "client"
Recipient(m) == IF m.type = "grant" THEN "client" ELSE "authority"
NodeOf(p) == IF p \in ClientProcs THEN "client" ELSE "authority"

Idle == [at |-> "idle"]
Work == [at : {"answer", "drop"}, m : Message]
Copy == [at : {"put", "ack"}, m : Message, from : Nodes, to : Nodes]

Init ==
    /\ epoch = 1 /\ known = [n \in {"client", "authority"} |-> 1]
    /\ asked = 0 /\ askedAt = [r \in Requests |-> 1]
    /\ pending = [e \in Epochs |-> None]
    /\ grant = [r \in Requests |-> "none"] /\ report = [r \in Requests |-> "none"]
    /\ uses = [r \in Requests |-> 0]
    /\ putting = {} /\ lease = [r \in Requests |-> "none"]
    /\ box = [n \in Nodes |-> {}] /\ late = {}
    /\ proc = [p \in Procs |-> Idle] /\ thread = [l \in Links |-> Idle]
    /\ sent = {} /\ done = {} /\ faults = 0

\* Something goes wrong, within the bound.
Fault == faults < MaxFaults /\ faults' = faults + 1

\* Mailbox files: an expired message can be neither read nor put, so put
\* raises and leaves the files alone.
PutFile(n, m) == [box EXCEPT ![n] = @ \cup ({m} \ late)]

\* The lease ends when its grant message expires.
LeaseOver(r) == Msg("grant", r) \in late

-----------------------------------------------------------------------------
(* CmcLeaseProvider at the client.  Each step is one section of its state   *)
(* lock; the message recorded in it is put afterwards.                      *)

Now == known["client"]

NewRequest == asked + 1

\* Without Overlap: the first request, and the replacement of one whose grant
\* came too late when none of its messages is about.
Quiet ==
    /\ asked > 0 => pending[Now] # None
    /\ putting = {} /\ \A n \in Nodes : box[n] = {}
    /\ \A p \in Procs : proc[p] = Idle
    /\ \A l \in Links : thread[l] = Idle
MayAsk == asked < MaxRequests /\ (Overlap \/ Quiet)

\* acquire without a request that waits: a new one is recorded and put.
Ask ==
    /\ pending[Now] = None /\ MayAsk
    /\ asked' = NewRequest
    /\ askedAt' = [askedAt EXCEPT ![NewRequest] = Now]
    /\ pending' = [pending EXCEPT ![Now] = NewRequest]
    /\ putting' = putting \cup {Msg("request", NewRequest)}
    /\ UNCHANGED <<routes, grant, report, uses, lease, box, late, proc, thread,
                   sent, done, faults>>

\* acquire while the request waits puts the recorded message again; it raises
\* once that has expired.
AskAgain ==
    /\ pending[Now] # None /\ grant[pending[Now]] = "none"
    /\ Msg("request", pending[Now]) \notin late
    /\ putting' = putting \cup {Msg("request", pending[Now])}
    /\ UNCHANGED <<routes, client, lease, box, late, proc, thread, sent, done, faults>>

\* Mutant: the expiry of the lease is not looked at.
UseLate ==
    LET r == pending[Now]
    IN /\ r # None /\ grant[r] = "held"
       /\ grant' = [grant EXCEPT ![r] = "consumed"]
       /\ pending' = [pending EXCEPT ![Now] = None]
       /\ uses' = [uses EXCEPT ![r] = @ + 1]
       /\ UNCHANGED <<routes, asked, askedAt, report, putting, lease, box, late,
                      proc, thread, sent, done, faults>>

\* acquire with a usable grant returns its lease, for one provider call.
Use ==
    LET r == pending[Now]
    IN /\ r # None /\ grant[r] = "held" /\ ~LeaseOver(r)
       /\ grant' = [grant EXCEPT ![r] = "consumed"]
       /\ pending' = [pending EXCEPT ![Now] = None]
       /\ uses' = [uses EXCEPT ![r] = @ + 1]
       /\ UNCHANGED <<routes, asked, askedAt, report, putting, lease, box, late,
                      proc, thread, sent, done, faults>>

\* A grant that came too late is consumed unused and a new request follows.
Replace ==
    LET r == pending[Now]
    IN /\ r # None /\ grant[r] = "held" /\ LeaseOver(r)
       /\ MayAsk /\ asked' = NewRequest
       /\ askedAt' = [askedAt EXCEPT ![NewRequest] = Now]
       /\ grant' = [grant EXCEPT ![r] = "consumed"]
       /\ pending' = [pending EXCEPT ![Now] = NewRequest]
       /\ putting' = putting \cup {Msg("request", NewRequest)}
       /\ UNCHANGED <<routes, report, uses, lease, box, late, proc, thread,
                      sent, done, faults>>

\* Mutant: an earlier settlement record is overwritten.
SettleTwice(r, outcome) ==
    /\ uses[r] > 0 /\ askedAt[r] = Now
    /\ report' = [report EXCEPT ![r] = outcome]
    /\ putting' = putting \cup {Msg("settlement", r)}
    /\ UNCHANGED <<routes, asked, askedAt, pending, grant, uses, lease, box, late,
                   proc, thread, sent, done, faults>>

\* settle after the call: the settlement is recorded and put, unless the route
\* has moved on to another epoch.  The pool reports an acquisition once
\* (CmcPoolClient.settle), so settle never finds the record it would put again.
Settle(r, outcome) ==
    /\ uses[r] > 0 /\ report[r] = "none" /\ askedAt[r] = Now
    /\ report' = [report EXCEPT ![r] = outcome]
    /\ putting' = putting \cup {Msg("settlement", r)}
    /\ UNCHANGED <<routes, asked, askedAt, pending, grant, uses, lease, box, late,
                   proc, thread, sent, done, faults>>

Put(m) ==
    /\ m \in putting /\ putting' = putting \ {m}
    /\ box' = PutFile("client", m)
    /\ sent' = sent \cup ({m} \ late)
    /\ UNCHANGED <<routes, client, lease, late, proc, thread, done, faults>>

\* The process dies before it has put the message.
PutLost(m) ==
    /\ Fault /\ m \in putting
    /\ putting' = putting \ {m}
    /\ UNCHANGED <<routes, client, lease, box, late, proc, thread, sent, done>>

-----------------------------------------------------------------------------
(* process_inbox.  A turn reads a message addressed to the node and acts on *)
(* it; a message that is skipped or that raises stays where it is.          *)

Inbox(p, m, type) ==
    /\ proc[p] = Idle /\ m.type = type
    /\ m \in box[NodeOf(p)] /\ Recipient(m) = NodeOf(p)
Turn(p, m, at) == [proc EXCEPT ![p] = [at |-> at, m |-> m]]
Stop(p) == [proc EXCEPT ![p] = Idle]

\* Every call of the authority first ends the leases that are over.
Journal == [r \in Requests |-> IF lease[r] = "open" /\ LeaseOver(r) THEN "expired" ELSE lease[r]]

\* The journal refuses another epoch while leases are open.
OneEpoch(r) == \A q \in Requests : Journal[q] = "open" => askedAt[q] = askedAt[r]

\* Mutant: a request that has a lease is not answered again.
HandleRequestOnce(p, m) ==
    /\ Inbox(p, m, "request")
    /\ askedAt[m.id] = known["authority"]
    /\ lease[m.id] = "none" /\ OneEpoch(m.id)
    /\ lease' = [Journal EXCEPT ![m.id] = "open"]
    /\ proc' = Turn(p, m, "answer")
    /\ UNCHANGED <<routes, client, putting, box, late, thread, sent, done, faults>>

\* A request of the authority's epoch is granted once; the same request again
\* gets the same lease, over or not.
HandleRequest(p, m) ==
    /\ Inbox(p, m, "request")
    /\ askedAt[m.id] = known["authority"]
    /\ lease[m.id] = "none" => OneEpoch(m.id)
    /\ lease' = [Journal EXCEPT ![m.id] = IF @ = "none" THEN "open" ELSE @]
    /\ proc' = Turn(p, m, "answer")
    /\ UNCHANGED <<routes, client, putting, box, late, thread, sent, done, faults>>

\* A request the journal refuses is left for another time; expired leases are
\* written all the same.
RefuseRequest(p, m) ==
    /\ Inbox(p, m, "request")
    /\ askedAt[m.id] = known["authority"] /\ lease[m.id] = "none" /\ OneEpoch(m.id)
    /\ lease' = Journal
    /\ UNCHANGED <<routes, client, putting, box, late, proc, thread, sent, done, faults>>

\* The grant goes into the outbox and is put.  When the lease is over the put
\* raises, which ends the turn before the request is acknowledged.
Answer(p) ==
    /\ proc[p].at = "answer"
    /\ LET g == Msg("grant", proc[p].m.id)
       IN /\ box' = PutFile("authority", g)
          /\ sent' = sent \cup ({g} \ late)
          /\ done' = IF g \in late THEN done ELSE done \cup {proc[p].m}
          /\ proc' = IF g \in late THEN Stop(p) ELSE Turn(p, proc[p].m, "drop")
    /\ UNCHANGED <<routes, client, putting, lease, late, thread, faults>>

\* A grant of the client's epoch is recorded unless there is one for that
\* request.
HandleGrant(p, m) ==
    /\ Inbox(p, m, "grant")
    /\ askedAt[m.id] = known["client"]
    /\ grant' = [grant EXCEPT ![m.id] = IF @ = "none" THEN "held" ELSE @]
    /\ done' = done \cup {m}
    /\ proc' = Turn(p, m, "drop")
    /\ UNCHANGED <<routes, asked, askedAt, pending, report, uses, putting, lease,
                   box, late, thread, sent, faults>>

\* A settlement of the authority's epoch ends an open lease.
HandleSettlement(p, m) ==
    /\ Inbox(p, m, "settlement")
    /\ askedAt[m.id] = known["authority"] /\ OneEpoch(m.id)
    /\ lease' = [Journal EXCEPT ![m.id] = IF @ = "open" THEN report[m.id] ELSE @]
    /\ done' = done \cup {m}
    /\ proc' = Turn(p, m, "drop")
    /\ UNCHANGED <<routes, client, putting, box, late, thread, sent, faults>>

\* The sender processes the acknowledgement, which removes its own copy.
HandleAck(m) ==
    /\ m \in done /\ m \in box[Sender(m)]
    /\ box' = [box EXCEPT ![Sender(m)] = @ \ {m}]
    /\ UNCHANGED <<routes, client, putting, lease, late, proc, thread, sent, done, faults>>

\* The node acknowledges for itself, and its copy is collected.
Discard(p) ==
    /\ proc[p].at = "drop"
    /\ box' = [box EXCEPT ![NodeOf(p)] = @ \ {proc[p].m}]
    /\ proc' = Stop(p)
    /\ UNCHANGED <<routes, client, putting, lease, late, thread, sent, done, faults>>

\* A process dies in the middle of its turn.
Die(p) ==
    /\ Fault /\ proc[p] # Idle
    /\ proc' = Stop(p)
    /\ UNCHANGED <<routes, client, putting, lease, box, late, thread, sent, done>>

-----------------------------------------------------------------------------
(* _sync_mailbox: a pass of the first node of a link copies messages to and *)
(* from the second.                                                         *)

Ends(l) == {<<l[1], l[2]>>, <<l[2], l[1]>>}

\* Mutant: delivery is acknowledged before the message is put.
ReadAcked(l, m) ==
    /\ thread[l] = Idle
    /\ \E e \in Ends(l) :
         /\ m \in box[e[1]]
         /\ box' = [box EXCEPT ![e[1]] = IF e[2] = Recipient(m) THEN @ \ {m} ELSE @]
         /\ thread' = [thread EXCEPT ![l] = [at |-> "put", m |-> m, from |-> e[1], to |-> e[2]]]
    /\ UNCHANGED <<routes, client, putting, lease, late, proc, sent, done, faults>>

\* A message is read at one end.  The index of the other end may be out of
\* date, so it can be there, or have been there and gone.
Read(l, m) ==
    /\ thread[l] = Idle
    /\ \E e \in Ends(l) :
         /\ m \in box[e[1]]
         /\ thread' = [thread EXCEPT ![l] = [at |-> "put", m |-> m, from |-> e[1], to |-> e[2]]]
    /\ UNCHANGED <<routes, client, putting, lease, box, late, proc, sent, done, faults>>

\* It is put at the other end; put raises when it has expired meanwhile.
Write(l) ==
    /\ thread[l].at = "put"
    /\ box' = PutFile(thread[l].to, thread[l].m)
    /\ thread' = [thread EXCEPT ![l] = IF @.m \in late THEN Idle ELSE [@ EXCEPT !.at = "ack"]]
    /\ UNCHANGED <<routes, client, putting, lease, late, proc, sent, done, faults>>

\* ack: a copy is collected when the message's recipient has the message.
Collect(m, from, to) ==
    [box EXCEPT ![from] = IF to = Recipient(m) THEN @ \ {m} ELSE @]

\* The end it came from acknowledges for the other end.
Confirm(l) ==
    /\ thread[l].at = "ack"
    /\ box' = Collect(thread[l].m, thread[l].from, thread[l].to)
    /\ thread' = [thread EXCEPT ![l] = Idle]
    /\ UNCHANGED <<routes, client, putting, lease, late, proc, sent, done, faults>>

\* The connection breaks or the pass dies.
Break(l) ==
    /\ Fault /\ thread[l] # Idle
    /\ thread' = [thread EXCEPT ![l] = Idle]
    /\ UNCHANGED <<routes, client, putting, lease, box, late, proc, sent, done>>

-----------------------------------------------------------------------------
(* The environment.                                                         *)

\* A message expires; a grant expires with its lease.
Expire(m) ==
    /\ Fault /\ m \notin late
    /\ m \in sent \cup putting \/ (m.type = "grant" /\ lease[m.id] = "open")
    /\ late' = late \cup {m}
    /\ box' = [n \in Nodes |-> box[n] \ {m}]
    /\ UNCHANGED <<routes, client, putting, lease, proc, thread, sent, done>>

AdvanceEpoch ==
    /\ Fault /\ epoch < MaxEpoch /\ epoch' = epoch + 1
    /\ UNCHANGED <<known, client, putting, lease, box, late, proc, thread, sent, done>>

\* _refresh_authority_routes.
Refresh(n) ==
    /\ known[n] # epoch /\ known' = [known EXCEPT ![n] = epoch]
    /\ UNCHANGED <<epoch, client, putting, lease, box, late, proc, thread, sent, done, faults>>

Finish(p) == Answer(p) \/ Discard(p)
Handle(p, m) == HandleRequest(p, m) \/ HandleGrant(p, m) \/ HandleSettlement(p, m)

Next ==
    \/ Ask \/ AskAgain \/ Use \/ Replace
    \/ \E r \in Requests, o \in Outcomes : Settle(r, o)
    \/ \E p \in Procs : Finish(p) \/ Die(p)
    \/ \E l \in Links : Write(l) \/ Confirm(l) \/ Break(l)
    \/ \E m \in Message :
          \/ Put(m) \/ PutLost(m) \/ Expire(m) \/ HandleAck(m)
          \/ \E p \in Procs : Handle(p, m) \/ RefuseRequest(p, m)
          \/ \E l \in Links : Read(l, m)
    \/ AdvanceEpoch
    \/ \E n \in {"client", "authority"} : Refresh(n)

Spec == Init /\ [][Next]_vars

\* A read by a pass whose index is up to date.
ReadMissing(l, m) == Read(l, m) /\ m \notin box[thread'[l].to]

\* Turns and passes go on, each of them comes to messages of every kind, and
\* requests are not refused for ever.  The code promises that of each message.
Fairness ==
    /\ \A p \in Procs : WF_vars(Finish(p))
    /\ SF_vars(\E p \in AuthorityProcs, r \in Requests : HandleRequest(p, Msg("request", r)))
    /\ SF_vars(\E p \in ClientProcs, r \in Requests : HandleGrant(p, Msg("grant", r)))
    /\ SF_vars(\E p \in AuthorityProcs, r \in Requests : HandleSettlement(p, Msg("settlement", r)))
    /\ \A l \in Links : WF_vars(Write(l) \/ Confirm(l))
    /\ \A l \in Links, t \in {"request", "grant", "settlement"} :
          SF_vars(\E r \in Requests : ReadMissing(l, Msg(t, r)))

FairSpec == Spec /\ Fairness

-----------------------------------------------------------------------------
(* Properties.                                                              *)

\* Records, mailboxes, turns and passes keep their types.
TypeOK ==
    /\ epoch \in Epochs /\ known \in [{"client", "authority"} -> Epochs]
    /\ asked \in 0..MaxRequests /\ askedAt \in [Requests -> Epochs]
    /\ pending \in [Epochs -> Requests \cup {None}]
    /\ grant \in [Requests -> {"none", "held", "consumed"}]
    /\ report \in [Requests -> Outcomes \cup {"none"}]
    /\ uses \in [Requests -> Nat]
    /\ lease \in [Requests -> Outcomes \cup {"none", "open", "expired"}]
    /\ {putting, late, sent, done} \subseteq SUBSET Message
    /\ box \in [Nodes -> SUBSET Message]
    /\ proc \in [Procs -> Work \cup {Idle}]
    /\ thread \in [Links -> Copy \cup {Idle}]
    /\ faults \in 0..MaxFaults

\* "durable outbox": until its recipient has processed it, a message that was
\* put and has not expired is in some mailbox, however acknowledgements,
\* repeated copies, broken passes and deaths interleave.  A request counts as
\* processed when its grant has been put.
NotLost == \A m \in sent \ (done \cup late) : \E n \in Nodes : m \in box[n]

\* "one key for exactly one request attempt": a lease is used once, while the
\* authority still counts it as open.
UsedLeaseOpen ==
    [][\A r \in Requests : uses'[r] # uses[r] =>
          uses[r] = 0 /\ uses'[r] = 1 /\ lease[r] = "open"]_vars

\* An outcome in the journal is the one the client reported for a call it
\* made with that lease.
SettledTrue ==
    \A r \in Requests : lease[r] \in Outcomes => uses[r] = 1 /\ report[r] = lease[r]

\* As long as nothing expires and the authority stays, every message is
\* processed in the end.
Delivered == []<>(sent \subseteq done \/ late # {} \/ epoch > 1)
=============================================================================
