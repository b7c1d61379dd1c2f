# PBGui: TLA+ models and proofs

PBGui manages Passivbot trading bots on a set of hosts. This directory holds
TLA+ models of the parts of PBGui whose correctness depends on the order in
which processes, hosts and failures act, the TLC configurations that check
them on small instances, and TLAPS proofs that hold for every instance.

Source paths below are relative to `src/`. `PROJECT.json` maps every
definition to the lines it stands for and lists runs, mutants, hazards and
theorems.

## 1. The system

### Parts modelled

**Cluster History** (`master/cluster_state.py`). Every node keeps an oplog: one
signed JSON file per operation, `(actor, seq)` being its identity, and three
snapshot files reduced from it (nodes, desired state, vector) with a commit
record that vouches for them.
*Operations*: append a local operation, write a received one, rebuild and
publish the snapshot, read it.
*Interaction*: PBCluster, the API, forced SSH commands and command-line tools
are separate processes that share these files; appending, receiving and
publishing take the `.append_sequence` lock, and readers do not, unless they
fall back.
*Hard*: four files are replaced one by one under readers without a lock, and any
process may die between two of them.
*Correct when*: a returned snapshot is the reduction of one history, a commit
vouches for complete files only, commits do not go back, two appends never
take the same number.

**Cluster Sync** (`master/cluster_sync_worker.py`, `cluster_sync_command.py`).
PBCluster repeats a pass: one thread per peer does a handshake (exchange of
vectors), pulls what it lacks, pushes what the peer lacks, through forced SSH
commands that run at the peer.
*State*: oplogs; per pass the local vector and a shared list of local operations;
per thread the remote vector, the ranges to pull, what was fetched, what is
being pushed.
*Hard*: vectors are out of date as soon as they are read; passes of both ends
overlap; credential operations are held back to the end of a batch and left out
for peers that cannot read them; connections break anywhere; with an active
checkpoint, an oplog with a gap cannot be replayed at all.
*Correct when*: replicas hold only issued operations, one content per id; no
vector claims what its oplog lacks; only credential operations can be missing
below a held one; everything is delivered in the end and gaps heal.

**Cluster checkpoints** (`master/cluster_checkpoint.py`,
`cluster_sync_worker.py`: `_commit_checkpoint_clusterwide`,
`_reconcile_peer_checkpoint`). The coordinator proposes a checkpoint of its
history; when every replica has built the same one and acknowledged it, all
activate it, and the files it replaces may be deleted. *State*: the current and
the previous checkpoint of each node, acknowledged proposals, the operations above
the checkpoint, the journal of a prune. *Operations*: propose, prepare, commit,
activate, install a peer's checkpoint, prune. *Interaction*: remote commands with
timeouts, beside appends and passes. *Hard*: replicas activate one after the
other, or not at all; a command outlives its caller; an operation appended on one
side of an activation is refused on the other; prunes are cut off. *Correct when*:
nothing that a replica has reduced is taken back, whatever a replica has activated
all of them know, equal vectors mean equal states, all end up with the same
checkpoint.

**CMC lease authority** (`cmc_leases.py`, `CmcLeaseAuthority`). One node grants
short leases on the credits of CoinMarketCap keys. *State*: a journal with
leases, counters per key and per quota domain (minute, day, month), and the
last report of the provider. *Operations*: grant, settle, expire, reconcile the
domain with an authority epoch, record a provider event, status. *Interaction*:
processes of the node share the journal; requests of other nodes come through a
mailbox, late. *Hard*: windows roll over and keys rotate while leases are open,
leases end twice (expiry, late settlement), processes know different epochs.
*Correct when*: the counters equal the open leases, no minute, day, month or key
exceeds its limit, all open leases are of one epoch.

**Market-data job queue** (`task_queue.py`, `task_worker.py`, `api/jobs.py`). A
job is a file in `pending/`, `running/`, `done/` or `failed/`. *Operations*:
enqueue, cancel, retry, delete, run, recover abandoned jobs, schedule, execute.
*Interaction*: a resident worker with one thread per running job, detached
one-shot runners, API handlers, a watchdog that restarts the worker; all share
the directories, and a lock around single writes and moves. *Hard*: each
transition is a rewrite followed by a move, decisions are taken on unlocked
reads, every process may die between two steps, and abandonment is inferred
from a process number and a file time. *Correct when*: a job is in one runner's
hands, files agree with their directories, every job ends and every
cancellation that comes in time takes effect.

**CMC lease exchange** (`cmc_leases.py`: `CmcLeaseProvider`, `ClusterMailbox`;
`master/cluster_sync_worker.py`: `_sync_mailbox`). A node that is not the
authority asks for leases by messages. *State*: the provider's file (pending
request per epoch, grants held, settlements), mailbox directories, what a pass
has in hand. *Operations*: acquire (ask, use, replace), settle, process the inbox
(request, grant, settlement, acknowledgement), copy messages in a pass, collect
acknowledged ones. *Interaction*: mailboxes are copied by Cluster Sync; the
answers come from the authority's journal. *Hard*: every record is written before
the message that tells of it, messages are copied again by passes that looked
at an old index, they expire, epochs change, processes die between any two
writes. *Correct when*: a message is not lost before it is processed, a lease
serves one call and only while the authority counts it as open, the journal's
outcome is what the client saw, every message is processed in the end.

**Task worker ownership** (`task_worker_ownership.py`). Decides which process
is the resident worker of the job queue. *State*: lifetime lock, owner file, pid
file, suppression file. *Operations*: claim, release, status (with adoption
of a worker of an older version), start, stop, clean-up of a start that failed.
*Interaction*: the API server's watchdog and handlers, the Services page and
shells all start or stop workers. *Hard*: two files are written one after the
other, workers and coordinators die between any two steps, a start times out
while its child is claiming, a process cannot be inspected. *Correct when*: two
workers never execute jobs at the same time, a ready worker keeps its record, a
worker comes back while none is suppressed.

**Profit Sweep** (`profit_sweep.py`, `api/profit_sweep.py`,
`profit_sweep_transfers.py`). Moves a share of an account's new profit to
another wallet. *State*: one SQLite store with the policy, the accounting row and
the intents of each account. *Operations*: evaluate, reserve, claim, submit, read
the outcome, resolve, forward (leg 2 of a Vault withdrawal), reconcile, recover
after a restart, and the user's changes of the policy. *Interaction*: one thread
at a time per account, the exchange, and requests that do not take the account's
lock. *Hard*: money moves before the answer is recorded, answers get lost or are
unclear, the history shows a transfer late, the process dies between any two
writes, midnight passes in between, two legs fail separately. *Correct when*: a
transfer is submitted at most once, its recorded outcome is the true one, the
books balance, no more is taken than the profit entitles to, limits hold, a pause
can be resolved, an executed transfer is settled in the end.

### Parts not modelled

| Part | State and operations | What makes it hard, what it should guarantee | Here |
|---|---|---|---|
| Credential migration (`credential_migration.py`, `cluster_credentials.py`, registry) | capability heartbeats, phases | no node is cut off from its keys, no plaintext after commit | planned |
| Hyperliquid nonces, rate-limit budget | shared counters and leases | monotone under concurrency and crashes | planned, small |
| Pid handoff, update lock, lifecycle lock | one file each | restart of the API server by itself | planned, last; other modules take the locks as atomic sections |
| PBRun and bot supervision | processes, materialized configuration | desired against running | after materialization |
| Vast.ai jobs, PB8 loop | remote rentals, SQLite | deadline against billing | candidate; mostly remote process control |
| VPS monitor, storage, CoinData, backtests, AI, explorer, installer, front end | see `PROJECT.json` | display, data processing, external commands | out of scope: most of the repository's lines are here, and they hold no protocol state |

## 2. Modules

| Module | What it is |
|---|---|
| `OplogVectors` | sequence numbers: next number, contiguous prefix, gap freedom; no state |
| `ClusterHistory` | one node's oplog, snapshot files and commit record; concurrent processes that may die |
| `ReplicatedOplog` | abstract specification: issued operations and what each replica holds; implemented by the next two |
| `ClusterSync` | passes and peer threads between nodes; implements `ReplicatedOplog` |
| `ClusterCheckpoint` | checkpoints of all replicas: commit in two phases, installation, pruning; implements `ReplicatedOplog` |
| `CmcAuthority` | the lease authority's journal, with clock, epochs and key rotations |
| `TaskQueue` | job files, worker loop, job threads, one-shot runners, Run requests |
| `CmcExchange` | a client's provider, the authority's inbox, mailboxes and the passes that copy them |
| `TaskWorkerOwnership` | resident workers, their two files, and the calls that start and stop them |
| `ProfitSweep` | one account's policy, accounting and intents, the API process, the exchange |
| `MC...` | parameters for TLC |
| `...Proofs` | theorems about the module of that name, one for each of the eight with state that models code |

`ClusterHistory` and `ClusterSync` both build on `OplogVectors`: the first keeps
the inside of an append and of a replay, the second takes both as one step and
keeps the exchange. That is justified by the theorems of the first: an append
has a number of its own, and a read returns the state of one history.

`ClusterSync` has one checkpoint that all nodes share, or none, and looks at what
passes do above it; `ClusterCheckpoint` has the checkpoints and takes the passes as
"an operation a peer lacks arrives, in the order of its actor's numbers". It leaves
out credential operations, which are what makes gaps. Both implement
`ReplicatedOplog`: what a replica holds grows by issued operations only, whether
they arrive in a pass or inside a checkpoint, and no checkpoint takes one back.

`CmcExchange` takes the journal of `CmcAuthority` as something that grants or
refuses at will and remembers the state of each lease; `TaskQueue` has one
resident worker, which is what `TaskWorkerOwnership` guarantees.

### ClusterHistory

`log` is the set of operation numbers with an author; `files` the three snapshot
files, `com` the commit record, `draft` and `since` what a process has read so
far. `AppendBegin`/`AppendWrite` are the two halves of `append_operation` (the
number is read under the lock, the file is written under the lock);
`Receive` is a pulled or pushed operation; `RebuildBegin`, `WriteNodes`,
`WriteDesired`, `WriteVector`, `WriteCommit` the publication;
`ReadHistory` to `RecheckHistory` the optimistic read, `LockedRead` its fallback.
`Crash` ends a process between any two file operations. With a checkpoint, a
history with a gap raises in every replay (`Reducible`).

### ClusterSync

One action per step of a peer thread that another process can see: `StartPass`
and `EndPass` (run_once), `Handshake`, `RepairGap`, `HandshakeFails`, `Fetch`,
`WritePulled`, `WriteLate`, `PullFails`, `NothingToPush`, `PlanPush`,
`PushBundle`, `PushOne`, `PushEnds`, `Drop`. A remote command is one step of
the peer's files per file it writes, since it can be killed in between. `vec`
and `cache` are read once per pass and shared by its threads, as in the code.
`repairs` counts the gap repairs of a thread: the code gives up after 64
(`MAX_PRE_HANDSHAKE_GAP_REPAIRS`), the constant `MaxRepairs` stands for that.
Operations are reduced to author, number and kind; there are two kinds because
credential operations are written last and are not sent to nodes that cannot
read them. Signatures, hashes and blobs are left out: an accepted
operation is a valid one.

The refinement maps `issued` to the union of all oplogs and `held` to the
oplogs: an operation is issued at its author before anybody else has it.

### ClusterCheckpoint

`active` and `prev` are `checkpoints/commit.json`, `prepared` the files of
acknowledged proposals, `journal` a prune that was cut off, `co` the coordinator
inside `_commit_checkpoint_clusterwide`, `calls` the remote commands sent or
running. A checkpoint is a baseline and the set of operations it has reduced, so
`State`, the materialized state, is the checkpoint's operations and those of the
tail. `Propose`, `Proof`, `LocalCheck`, `LocalActivate`, `GiveUp` are the
coordinator, `Prepare`, `Commit`, `CommitActivate`, `Install` the commands at a
replica. `Commit` and `CommitActivate` are two steps because the vector is
compared outside the lock that the activation takes; so are `LocalCheck` and
`LocalActivate`. `Abandon` ends the coordinator and leaves its commands running,
`Lose` a command, `Expire` the 300 seconds of a proposal. `Reconcile` is a pass
that finds a newer checkpoint at either end. `Install` and `Prune` may be cut off
after the activation and between deletions. The refinement of `ReplicatedOplog`
maps `held` to `State` and `issued` to its union. Left out: joining, blobs, the
migration seal (closed), changes of membership and coordinator, damaged
objects.

### CmcAuthority

Each call of the authority runs under the journal lock and replaces the journal
atomically, so it is one action; a call that raises changes nothing. Calls first
expire leases and roll windows over, and so do the actions. `known` is the
epoch each process read last. One quota domain is modelled, requests are for one
call each (the only value used). Limits are constants; the credits of a set of
leases (`Credits`) are counted as units, one pair of lease and number for each,
which is their sum without a recursion over the leases. A settlement charges what was
reserved: `settle` can take the actual cost (`actual_credits`, `actual_credits_micros`),
but no caller passes it.

### TaskQueue

`dir` and `job` are the files; `job[j].owner` is the live process whose number
`worker_pid` holds (a dead process's number is the same as none, since the
recovery waits 60 seconds in both cases); `old` says that the file was not written for
a minute. Moving a file keeps `old`, writing clears it. `Update` is
`update_job_file`, a no-op when the file is no longer there. The worker loop is
`WorkerSweep`, `WorkerScan`, `WorkerStartJob`, `WorkerIterates`; `run[r]` is a job
thread or a one-shot process in `_run_job`, with a step for each lock section and
each unlocked read; `req[q]` is `start_pending_job`, likewise. `raised` is a runner
whose move to `done/` found no file, on its way to the handler of exceptions.
`Delete` takes any finished or waiting job, and `DeleteRunning` one that runs, as
the API lets it. Jobs of one type are modelled, since slots are counted per type.

Bounds that stand for time: `Age` lets a minute pass for files of
running jobs whose function executes or that nobody holds, and, with
`AgePending`, for pending ones; every other step of a runner or a request takes
less than a minute. Not in the model: jobs created straight in `running/`, the
DB Sync recovery, dedupe keys, and `request_run_job`, which only tests call.

### CmcExchange

`pending`, `grant`, `report` and `uses` are the client's file, `lease` the
authority's journal, `box` the mailboxes, `late` the messages past their expiry.
`Ask`, `AskAgain`, `Use`, `Replace` are the branches of `acquire`; `Settle` is
`CmcPoolClient.settle`, which reports a call once; both record first and put the message afterwards (`putting`, `Put`,
`PutLost` when the process dies in between). `Handle...`, `Answer`, `Discard` and
`RefuseRequest` are one turn of `process_inbox`: journal or file, then the answer,
then the acknowledgement. `Read`, `Write`, `Confirm`, `Break` are a pass over the
mailboxes of a link, with the index it read earlier. One client with one kind of
call is modelled; clocks agree; an acknowledgement arrives at any time or never.
Left out: provider events, the short cut of a node that is its own authority,
signatures, the mailbox's size limit, the order of the messages in one turn.

### TaskWorkerOwnership

A process stands for its pid, creation time and owner id together; that a pid which
a file still names goes to another *worker* is excluded, that it goes to anything
else is not. The parameter `d` of an action is the process whose inspection fails.
`proc` is where a worker is in `main`: `Acquire` the lifetime lock, `Claim`, loop,
stop, release; workers of an older version have a pid file only. Each section of the
owner lock is one step, except that it writes two files: `ClaimTorn`, `ReleaseTorn`
and `PublishTorn` die between them. A coordinator is at `check`, `wait` (somebody
else's worker is starting), `spawn`, `poll`, and after a failure at `fail`, `term`,
`reap`, `end`, `drop`; `CoordDies` ends it anywhere. `Status` is the whole of
`_status_locked`, repairs and adoption included. Left out: the generation number in
the suppression file, which counts its changes for display, and damaged files.

### ProfitSweep

`mode`, `live`, `dryBase`, `intent` are the store, `job` the thread that holds the
account's lock, `api` the process, `world` what the exchange did with each
transfer, `taken` what it took out of the account. A write is one transaction and
so one action: `Evaluate`, `Reserve`, `Claim`, `Post`/`NotPosted`, `Answered`,
`Poll`, `Resolve`, `Forward`/`ForwardRefused`, `Reconcile`, `Recover`,
`ScanForwards`, `NextForward`, `Crash`, `Restart`; the user's `SavePolicy`,
`ActivateLive`, `RebaselineLive`, `ResetBaseline`, `DeletePolicy`, `CreatePolicy`,
of which `ResetBaseline` and `DeletePolicy` do not wait for the lock, as in the
code. `Exchange(o)` executes a request that arrived, in full, with a clear or an odd
record, or refuses it. The three routes are a direct transfer (`spot`), a Vault
withdrawal that stays in Main Perps (`perps`) and one that is forwarded (`forward`
with `leg2`). Amounts are small integers; rule numbers are constants. Left out:
manual transfers, Dry evaluation beyond its baseline, display.

## 3. Runs

| Run | Instance | Shows |
|---|---|---|
| `history` | 2 processes, active checkpoint | `ReadCoherent`, `CommittedSnapshotComplete`, `NumberReserved`, `CommitMonotone` under concurrent appends, receipts, publications, reads and crashes |
| `sync` | 3 nodes in a chain whose middle and far end both run passes, one writer of 3 operations, batches of 2, 1 repair per handshake, active checkpoint, one fault; fair | `VectorsSound`, `OnlyCredentialGaps`, refinement of `ReplicatedOplog`, `Delivered`: everything reaches everybody, what a push leaves over and oplogs that nobody can replay included |
| `sync_gap` | 2 nodes, both writing, active checkpoint; fair | violation of `GapFetched`, see findings |
| `checkpoint` | 3 replicas, 2 of them write one operation each, 2 proposals, or one and a fault; fair | `TypeOK`, `CommittedKnown`, `EqualVectorsEqualState`, refinement of `ReplicatedOplog`, `Converges` |
| `cmc` | 2 processes that know different epochs, 1 key that rotates, 3 requests, all windows roll over | `LeasesCounted`, `CreditsCounted`, `PlanKept`, `MinuteKept`, `KeyLimitsKept`, `OneEpochOpen` |
| `exchange` | 1 request and its replacement, 2 possible outcomes, 2 epochs, 1 fault: a death, a broken pass, an expired message or a new epoch; fair | `NotLost`, `SettledTrue`, `UsedLeaseOpen`; `Delivered`: while the epoch stays, every message is processed |
| `queue` | 2 jobs, 2 runners, a Run request, 1 fault, 1 retry | `OneRunner`, `StatusFits` |
| `queue_live` | 2 jobs, 1 fault; fair | `JobsEnd`, `CancelTakesEffect` |
| `queue_handoff` | a job that waited for a minute | violation of `HandoffKept` |
| `ownership` | 3 processes, one of them perhaps of an older version, 2 coordinators, 4 faults; fair | `OneWorker`, `OwnerKept`, `WorkerReturns` |
| `sweep` | 2 transfers, all routes, 1 death, 2 policy changes, a midnight; fair | `PostedOnce`, `OutcomeTrue`, `BooksBalance`, `TakenWithinEntitlement`, `DailyLimitKept`, `PauseExplained`, `Settles` |
| `sweep_disabled` | Vault withdrawals with leg 2, 2 policy changes, no death | violation of `LiveAsChosen` |

Why the bounds are enough. The interesting cases of the histories need two
writers and one reader per file, which two processes give (each may be either);
two numbers per author make a gap. Sync needs a push that leaves a rest
(`BatchLimit = 2`, with three operations to send, stands for 16), one or two credential
operations below another operation, so that one repair may not be enough, one fault at any step, and a third node for relays. In `cmc` each
limit is reached, each window rolls over at least once, a lease outlives a
rollover, and a process lags behind an epoch. In the exchange one
request and its replacement meet all three message types, each of them copied
twice without any fault, and one of them expired, overtaken by an epoch or cut off by a
death (`MaxFaults` bounds these together; several of them are left to the theorems). In the queue two jobs compete for one slot while a third
party starts, kills, cancels or retries them. Checkpoints need a coordinator,
a replica that writes and one that only lags behind; the two writers append on
either side of an activation, and two proposals give a checkpoint with a predecessor,
or a late command of the first beside the second. (`MaxEvents` counts proposals and
faults together: with two, a checkpoint and a lost command, a second checkpoint
without fault, or one death before and one after an activation. A baseline that would
move backwards needs three.) Coordinators exclude each other by
the spawn lock, so of two one can die with the lock while the other takes over; three
processes are an owner, its successor and a stray child. A sweep is limited by one
unresolved transfer per account, so two operations are a transfer and its
successor, or both legs of a Vault withdrawal; the share is above the single and the
daily limit, so that something stays due. The proofs below remove the bounds
for all safety properties.

The history and sync runs have an active checkpoint because only then every branch
is reachable; a cluster without one differs in that no replay raises, and the
theorems cover it (there a vector has to stop at a gap; with a checkpoint nobody
gets to read one). So they do several writers and other topologies of `sync`,
independent and overlapping calls of one client (`Overlap`; the runs have one
request and its replacement when its grant came too late), relays of the exchange,
and requests from before a key rotation (`LateCandidates`), for which
`KeyLimitsKept` fails, see sections 5 and 6. `queue` and `queue_live` have `AgePending =
FALSE`: jobs are picked up within a minute. Without it `OneRunner` fails, as
`queue_handoff` shows. `queue_live` has no retries, see section 6.

Every property of a passing run has a mutant in `PROJECT.json`: a change of one
mapped definition of the kind a slip in that code would be, under which TLC finds
the property violated.

## 4. Fairness

`ClusterSync`: passes start and end and threads advance, weakly fair: PBCluster
repeats `run_once` for ever, and every SSH command has a timeout, after which the
thread ends. Appends, faults and process deaths are not fair.

`ClusterCheckpoint`: commands end, by their timeout at the latest, the coordinator
goes on, and each node's passes come back to each peer, so that a node that lags
behind is found, and an installation that was sent runs (weak). Proposals, appends,
prunes and faults are not fair. `Converges` is about replicas that nobody has
stranded, see section 6.

`CmcExchange`: a turn that took a message goes on to its end and a pass writes
and confirms what it read (weak). Turns and passes come back for ever and each goes
through all messages, so a message of each kind and lease is handled, and read by a
pass with an up-to-date index, if that is possible again and again (strong). That
includes that a request is not refused for ever, which holds while credits are renewed.

`TaskQueue`: the loop iterates for ever, and the API server's watchdog starts a
missing worker while jobs are queued, so the worker's steps are weakly fair; so
are the steps of handlers and runners (a job's function ends) and the passing of
time. Progress writes, users and faults are not. A worker stopped on purpose
stays stopped, which this model leaves out and the next one has.

`TaskWorkerOwnership`: workers and coordinators advance (weak); the watchdog tries
every 60 seconds for ever, so some `AutoStart` happens if it is possible again and
again (strong). Deaths, timeouts and failed inspections are bounded faults:
the property is about what happens after the last one.

`ProfitSweep`: the thread advances, the service restarts the process, recovery
follows (weak). `Settles` also assumes that the user keeps reconciling what is
unresolved and that the exchange's history shows a transfer in the end (strong).
The code gives no stronger promise: a Live intent is reconciled by the user or at a
restart only.

`ClusterHistory` and `CmcAuthority` need no fairness.

## 5. Proofs

All theorems hold for every value of the constants that satisfies the module's
named assumptions (`MaxSeqAssumption`, `HistoryAssumption`, `SyncAssumption`,
`AuthorityAssumption`, `NoneAssumption`, `ExchangeAssumption`, `QueueAssumption`,
`OwnershipAssumption`, `SweepAssumption`), which say no more than the types of
the parameters, that special values differ from ordinary ones and, for the
sweep, that its step and minimum are positive.

* `ClusterHistoryProofs`: `HistoryInv` is inductive. A commit that names the
  current history implies complete files only if the process in the middle of a
  publication is the lock's owner and has drafted from a history no longer than the
  log, and a reader is coherent only if each file it has read so far is tied to a
  commit it has seen. From it: type correctness, `ReadCoherent`,
  `CommittedSnapshotComplete`, `NumberReserved` and the action property
  `CommitMonotone`. What `OplogVectors` takes from the code, the longest
  contiguous prefix and a number above all used ones, is stated as lemmas for use
  here and in the next module.
* `ClusterSyncProofs`: `SyncInv` is `TypeOK` with three parts. `LogOK`: every
  operation in an oplog is in its author's, an author's oplog has one operation
  per number, and whatever is missing below a held operation is a credential one.
  `PassOK`: vectors and shared lists of a pass are within the oplog, which only
  grows. `ThreadOK`: what a thread carries is issued, it has everything below
  what it still has to write, or that is a credential operation. The last is needed
  because a write in the middle of a batch is safe only by the order of the batch.
  From it: the four invariants and `SyncImplementsOplog` (initial states map to
  initial states; every step issues, delivers or stutters).
* `ClusterCheckpointProofs`: everything is about `Held(n)`, the operations of n's
  active checkpoint and those in its files. `HistoryOK`: `Held` has no gap, each actor
  holds its own operations, one for each number. `ActiveOK`: an active checkpoint is
  whole and within everybody's `Held`. These two are not inductive alone: who is
  about to activate must know the same. `CoordinatorOK` says so of the acknowledged
  replicas while a proposal is in preparation and of all after it, `CallsOK` of each
  command under way, late ones included, and `JournalOK` that an interrupted prune
  names only files below its safe vector, so that resuming it later hides
  nothing. Then `State` equals `Held`, only an append and an exchange change it, and
  from that follow types, `CommittedKnown`, `EqualVectorsEqualState`,
  `NothingForgotten` (no step takes an operation from a replica's state) and the
  refinement of `ReplicatedOplog`. The proof needs no assumption on the number of
  replicas, only that `None` is not a checkpoint.
* `CmcAuthorityProofs`: `AuthorityInv`: counters equal the open leases, open
  leases share the journal's epoch, the minute window holds every request of the
  last minute. Each needs the others: an epoch or a generation changes only when
  a counter says nothing is open. On top of it `BooksOK`: reserved credits
  are exactly those of the open leases, and what a window has reserved and used
  covers every lease granted in it. It is the cover that is inductive, not equality,
  because a rollover drops reservations of leases that are still open and their late
  settlement books them in the next window. `KeysOK` is the same for a generation of
  a key. Sums are cardinalities of sets of units, so that no induction is needed.
  From them: types, `CreditsCounted`, `PlanKept`. `KeyLimitsKept` follows from
  `[][GenerationsAdvance]_vars`: as long as no call takes a key of the journal back to
  a generation it has left, the limits hold, whatever old generations late requests
  name and however leases end. The code does not guarantee that hypothesis, see section
  6; the theorem says that a return to an old generation is the one way past the limits.
  `OpenLeasesFitKey` needs no hypothesis: what is open on a key at one time is within
  its limits even when its used counters have been cleared.
* `CmcExchangeProofs`: `MessagesInv` (a settlement is about only after its outcome was
  recorded, a grant only after the journal has the lease), `LeaseInv` (what the
  client's file and the journal can say of the same lease), `CopiesInv` (who is
  about to drop a copy knows that it was processed, or that the recipient
  has it). `NotLost` is not inductive without the last: a process deletes a
  copy on the strength of what it read earlier. From it: types, `NotLost`,
  `SettledTrue` and the action property `UsedLeaseOpen`, for any relays, links,
  processes, requests, faults and expiries.
* `TaskQueueProofs`: `TypeOK` needs `Aimed` (a runner that marks or moves its job
  has a verdict) to be inductive. `Hands` says what each runner and each request under way can rely on about its job's file,
  that nobody else has it, and that files nobody has are at rest. It is inductive as
  long as each claim finds a file younger than a minute (`FreshClaim`); the proof
  uses this in the claims only, where the moved file keeps its time. So `OneRunner`,
  `StatusFits` and `HandoffKept` follow from `[][FreshClaim]_vars`. The code does not guarantee that a
  job is claimed within a minute, as `queue_handoff` shows; the theorems say that a claim
  of an older file is the only cause of such a violation.
* `TaskWorkerOwnershipProofs`: `LockInv`, one process holds the lifetime lock, is
  not enough for `OneWorker`, because a worker of an older version holds no lock.
  `LegacyInv` adds that such a worker is always named, by the owner file or by a
  pid file without owner, so that every claim is refused. From both: types,
  `OneWorker`, and `OwnerKept` by a case for each writer of the owner file.
* `ProfitSweepProofs`: `OpInv` ties a row to what the exchange did with the
  transfer, `JobInv` says how far the thread is with its operation, `LegsInv` that
  leg 2 forwards what leg 1 received, once unless it fails, `BooksInv` that there is
  one reservation, covered by what is due. `TakenInv` accounts for money between the
  wallets: it belongs to the one unresolved transfer or to the one leg 1 that
  waits. `WaitInv` is the reason nothing else is reserved meanwhile: the policy is
  not Live, or the recovery of this process has still to come to that leg.
  `PauseInv`: a pause has a cause. From it: types and the six safety
  properties of the run. `LiveAsChosen`, which `sweep_disabled` violates, follows from
  `[][RefusalKeepsOff]_vars` by `ChosenInv`: a pause that the user has not chosen can
  only come from the refusal of a leg 2 while the policy is off. No other pause,
  resolution, reconciliation or restart makes a policy Live against the user's choice.

Model-checked only: liveness (both `Delivered`, `Converges`, `JobsEnd`,
`CancelTakesEffect`, `Settles`, `WorkerReturns`), which the prover cannot treat.
Every safety property of a passing run is a theorem, `KeyLimitsKept`, `OneRunner`
and `StatusFits` under the hypotheses named above, which their runs meet.
Proved and not in a run
any more, because a theorem says it for all instances or a property of the run
implies it: the types of `ClusterHistory`, `ClusterSync`, `CmcExchange`,
`TaskQueue`, `TaskWorkerOwnership` and `ProfitSweep`, `OnlyIssued`, and
`NothingForgotten`, which the refinement implies.

## 6. Findings

* **Two nodes can lock each other out** (`sync_gap`). Credential operations of a
  pulled range are written after the others, and before each of them the local
  history is replayed. With an active checkpoint that replay raises, because the
  operation to be written is the gap; the pull stops and no later pass can start.
  A peer can repair it, unless it is in the same state.
* **A waiting job can be started twice** (`queue_handoff`). A move keeps the file
  time, so a job that waited for a minute looks abandoned until its number is
  stamped, and the recovery puts it back while its thread goes on.
* **A disabled sweep can come back to life** (`sweep_disabled`). Leg 1 of a Vault
  withdrawal is confirmed and leg 2 refused; the user disables the policy. Reconciling
  leg 1 tries leg 2 again, which is refused because the policy is disabled, and that
  refusal sets `paused_unknown` whatever the mode was. Reconciling once more forwards,
  since a pause allows leg 2, and its confirmation turns the pause into Live.
  `docs/help/46_profit_sweep.md:96` says that Disable prevents future scheduled
  submissions.

Seen while modelling and not covered by a run.

*Cluster Sync*: a peer's vector cannot pass an operation it is never sent, so each
pass selects the same first 16 operations and what comes after them waits.

*Cluster checkpoints*: an operation appended on a node after a peer has activated a
new checkpoint and before the node has, strands the node: the checkpoint cannot be
installed there ("local operation tail diverges"), peers refuse the operation as a
stale branch, and no later proposal is the same everywhere, so maintenance does not
resume (`docs/help/39_cluster_sync.md` says that it does when the cluster is
healthy). The coordinator, which activates last, is the likeliest node. An append
between the comparison and the activation inside one commit leaves a history that no
replay accepts. Activating the current checkpoint once more (a late commit after an
installation) makes it its own predecessor, so the real one is no longer kept. A
journal left by a prune that was cut off makes every later prune raise once another
checkpoint is active.

*CMC authority*: granting a request from before a key rotation takes over the
old generation and clears the key's counters, so that the key can be leased beyond its
limits (`KeyLimitsKept` fails with `LateCandidates = TRUE`); a process of the authority
node that still knows the old epoch can move the journal back to it when no lease is
open.

*CMC exchange*: a pending request whose message expired unanswered is not
replaced in that epoch; a request that is delivered again after its lease expired,
and a settlement of another epoch, make `process_inbox` raise in each turn until they
expire, and the messages after them wait; a pass can pull back its own node's
unprocessed message, so copies occur without any fault; a settlement whose process
dies between record and message is never sent, and the lease expires as used.

*Job queue*: a retried job keeps the number of the worker that ran it before and
is not recovered while that one lives; two concurrent Run requests can start three
jobs of a type, because they count without the lock.

*Task worker ownership*: a claim does not look at the suppression. A worker
launched by a coordinator that died before recording it claims after a manual Stop
has ended, and runs although automatic start is suppressed. A start that gave a
process up checks and releases in two lock sections
(`task_worker_ownership.py:658-661`, `683-685`): if the process becomes ready in
between it loses its record and stops (the exception in `OwnerKept`). A claim cut off
between its files leaves a pid file whose unclaimed process is adopted as ready. A
process that cannot be inspected under a stale pid blocks every start.

*Profit Sweep*: activating again with Include Dry Period starts from a baseline
below profit that was swept already; disabling and activating while a leg 1 waits to
be forwarded allows another withdrawal, which is why `TakenWithinEntitlement` and
`DailyLimitKept` are about rows that began with nothing carried over; activating again
while a leg 1 waits can also leave it larger than what is due, so that reconciling it
does not end the pause that `PauseExplained` explains; an intent whose request never reached the
exchange stays unknown, and the policy paused.

## 7. Plan

The modules above cover the protocols with the most concurrency and failure
handling. What is left, in order:

1. `ClusterCheckpoint`: nodes that join, collection of blobs.
2. `TaskQueue` gains dedupe keys, jobs created in `running/` and the DB Sync
   recovery; `CmcExchange` the order of the messages in a turn and a second client;
   `ProfitSweep` manual transfers.
3. `CredentialMigration` with the process registry; nonces and rate-limit budget as
   small modules; pid handoff and lifecycle lock last.
4. Proofs: that an append of `ClusterHistory` is the `Issue` of `ReplicatedOplog`;
   the promise of `CmcAuthority` that `CmcExchange` relies on, as an abstract
   specification both are related to.
