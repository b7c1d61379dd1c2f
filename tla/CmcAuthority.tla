---------------------------- MODULE CmcAuthority ----------------------------
(***************************************************************************)
(* The CMC lease authority (cmc_leases.py, CmcLeaseAuthority): one node    *)
(* hands out short leases on provider credits.  Every call runs under the  *)
(* journal lock and replaces the journal file atomically, so it is one     *)
(* step; a call that raises, or dies before the write, changes nothing.    *)
(* The processes of the node share the journal; each knows the authority   *)
(* epoch from the cluster snapshot it read last.                           *)
(*                                                                         *)
(* One quota domain is modelled: a call only touches the domain it is      *)
(* routed to.  Every request is for one provider call (request_count = 1,  *)
(* the only value the callers use).                                        *)
(***************************************************************************)
EXTENDS Integers, FiniteSets

CONSTANTS
    Procs,          \* processes of the authority node
    NumKeys,        \* credentials, ordered by id
    Requests,       \* request ids; a lease has the id of its request
    Costs,          \* credits that requests ask for
    MaxLease,       \* max_lease_credits
    KeyCredits,     \* per_key_credit_limit
    KeyRequests,    \* per_key_request_limit
    MinuteLimit,    \* minute_request_limit
    DayLimit,       \* daily_credit_limit
    MonthLimit,     \* monthly_credit_limit
    Concurrent,     \* concurrent_limit
    Ttl,            \* lease_ttl
    Minute, Day, Month, \* lengths of the windows, in clock ticks
    Remains,        \* remaining credits a provider may report
    LateCandidates, \* whether requests may name a rotated key's old generation
    MaxTime, MaxEpoch, MaxGen, \* bounds: clock, authority epochs, rotations
    None

Keys == 1..NumKeys
Gens == 1..MaxGen
Epochs == 1..MaxEpoch

ASSUME AuthorityAssumption ==
    /\ NumKeys \in Nat \ {0}
    /\ Costs \subseteq Nat /\ Remains \subseteq Nat /\ None \notin Nat
    /\ IsFiniteSet(Requests)
    /\ {KeyCredits, KeyRequests, DayLimit, MonthLimit, MaxLease, MaxTime} \subseteq Nat
    /\ {MinuteLimit, Concurrent, Ttl, Minute, Day, Month, MaxEpoch, MaxGen} \subseteq Nat \ {0}
    /\ LateCandidates \in BOOLEAN

VARIABLES
    now,        \* the clock, in ticks
    epoch,      \* the authority epoch of the desired state
    known,      \* known[p]: the epoch process p read last
    rotation,   \* rotation[k]: the current generation of key k
    lease,      \* lease[r]: the lease of request r, or None
    key,        \* key[k]: the journal's counters of key k; gen 0 is no entry
    domain,     \* the quota domain: its epoch, recent requests, open leases
    window,     \* its credits reserved and used in the current day and month
    report      \* what the provider last said it has left, and until when

vars == <<now, epoch, known, rotation, lease, key, domain, window, report>>
cluster == <<now, epoch, known, rotation>>

Lease == [cred : Keys, gen : Gens, epoch : Epochs, credits : Nat,
          granted : 0..MaxTime, terminal : BOOLEAN]

KeyEntry == [gen : 0..MaxGen, resCredits : Nat, resRequests : Nat,
             usedCredits : Nat, usedRequests : Nat]

Domain == [epoch : Epochs, minute : SUBSET Requests, active : Nat]
Window == [day : Nat, dayReserved : Nat, dayUsed : Nat,
           month : Nat, monthReserved : Nat, monthUsed : Nat]
Report == [remaining : Nat \cup {None}, resetAt : Nat \cup {None}]

ASSUME NoneAssumption == None \notin Lease

-----------------------------------------------------------------------------
(* The journal.                                                             *)

Granted == {r \in Requests : lease[r] # None}
Active == {r \in Granted : ~lease[r].terminal}
\* The credits the leases S have together, counted unit by unit.
Credits(S) == Cardinality(UNION {{r} \X (1..lease[r].credits) : r \in S})
Today == now \div Day
ThisMonth == now \div Month

\* Mutant: a counter may go below zero.
LessUnclamped(a, b) == a - b
\* A counter never goes below zero.
Less(a, b) == IF a > b THEN a - b ELSE 0

\* _apply_terminal_unlocked for the leases S: what they reserved is used.
LeaseAfter(S) ==
    [r \in Requests |->
        IF r \notin S THEN lease[r]
        ELSE [cred |-> lease[r].cred, gen |-> lease[r].gen, epoch |-> lease[r].epoch,
              credits |-> lease[r].credits, granted |-> lease[r].granted, terminal |-> TRUE]]

KeyAfter(S) ==
    [k \in Keys |->
        LET T == {r \in S : lease[r].cred = k} IN
        [gen |-> key[k].gen,
         resCredits |-> Less(key[k].resCredits, Credits(T)),
         resRequests |-> Less(key[k].resRequests, Cardinality(T)),
         usedCredits |-> key[k].usedCredits + Credits(T),
         usedRequests |-> key[k].usedRequests + Cardinality(T)]]

DomainAfter(S) ==
    [epoch |-> domain.epoch, minute |-> domain.minute,
     active |-> Less(domain.active, Cardinality(S))]

WindowAfter(w, S) ==
    [w EXCEPT !.dayReserved = Less(@, Credits(S)), !.dayUsed = @ + Credits(S),
              !.monthReserved = Less(@, Credits(S)), !.monthUsed = @ + Credits(S)]

\* _expire_unlocked: unsettled leases past their time count as used.
Expired == {r \in Active : lease[r].granted + Ttl <= now}

\* Mutant: the minute window forgets requests one second early.
RecentShort(S) == {r \in S : lease[r].granted > now - Minute + 1}
Recent(S) == {r \in S : lease[r].granted > now - Minute}

\* Mutant: the epoch changes under active leases.
MayAlwaysReconcile(d, e) == d.epoch \in Nat /\ e \in Epochs
\* _reconcile_domain_unlocked raises when the epoch changes under active
\* leases; otherwise it starts new days and months and prunes the minute.
MayReconcile(d, e) == d.epoch = e \/ d.active = 0

ReconcileDomain(d, e) ==
    [epoch |-> e, minute |-> Recent(d.minute), active |-> d.active]

ReconcileWindow(w) ==
    LET newDay == w.day # Today
        newMonth == w.month # ThisMonth
    IN  [w EXCEPT !.day = Today,
                  !.dayReserved = IF newDay THEN 0 ELSE @,
                  !.dayUsed = IF newDay THEN 0 ELSE @,
                  !.month = ThisMonth,
                  !.monthReserved = IF newMonth THEN 0 ELSE @,
                  !.monthUsed = IF newMonth THEN 0 ELSE @]

NoReport == [remaining |-> None, resetAt |-> None]
ReconcileReport ==
    IF report.resetAt # None /\ report.resetAt <= now THEN NoReport ELSE report

-----------------------------------------------------------------------------
Init ==
    /\ now = 0 /\ epoch = 1
    /\ known = [p \in Procs |-> 1]
    /\ rotation = [k \in Keys |-> 1]
    /\ lease = [r \in Requests |-> None]
    /\ key = [k \in Keys |-> [gen |-> 0, resCredits |-> 0, resRequests |-> 0,
                              usedCredits |-> 0, usedRequests |-> 0]]
    /\ domain = [epoch |-> 1, minute |-> {}, active |-> 0]
    /\ window = [day |-> 0, dayReserved |-> 0, dayUsed |-> 0,
                 month |-> 0, monthReserved |-> 0, monthUsed |-> 0]
    /\ report = NoReport

\* Mutant: the generation changes under open leases.
AdmittedAlways(g, entry) == g \in Gens /\ entry.gen \in Nat
\* A candidate key whose generation is not the journal's starts from zero,
\* unless leases of the other generation are open.
Admitted(g, entry) == entry.gen = g \/ entry.resRequests = 0
Fresh(g, entry) ==
    IF entry.gen = g THEN entry
    ELSE [gen |-> g, resCredits |-> 0, resRequests |-> 0, usedCredits |-> 0, usedRequests |-> 0]

\* Mutant: only finished leases count against the key.
WithinKeyUsed(entry, c) ==
    /\ entry.usedCredits + c <= KeyCredits
    /\ entry.usedRequests + 1 <= KeyRequests
WithinKey(entry, c) ==
    /\ entry.resCredits + entry.usedCredits + c <= KeyCredits
    /\ entry.resRequests + entry.usedRequests + 1 <= KeyRequests

\* Mutant: only finished leases count against the plan.
WithinPlanUsed(w, c) ==
    /\ w.dayUsed + c <= DayLimit
    /\ w.monthUsed + c <= MonthLimit
WithinPlan(w, c) ==
    /\ w.dayReserved + w.dayUsed + c <= DayLimit
    /\ w.monthReserved + w.monthUsed + c <= MonthLimit

WithinDomain(d, rep, c) ==
    /\ Cardinality(d.minute) + 1 <= MinuteLimit
    /\ d.active + 1 <= Concurrent
    /\ rep.remaining # None => rep.remaining >= c

\* The journal's keys after the candidates C, with generations g, were read.
Entries(C, g) ==
    LET keys == KeyAfter(Expired)
    IN  [k \in Keys |-> IF k \in C /\ Admitted(g[k], keys[k])
                        THEN Fresh(g[k], keys[k]) ELSE keys[k]]

Eligible(C, g, c, d) ==
    {k \in C : /\ Admitted(g[k], KeyAfter(Expired)[k])
               /\ WithinKey(Entries(C, g)[k], c)
               /\ WithinPlan(ReconcileWindow(WindowAfter(window, Expired)), c)
               /\ WithinDomain(d, ReconcileReport, c)}

\* grant for a request without a lease.  The caller routes it at the epoch it
\* knows; among the eligible keys the least used one, then the first, is taken.
GrantNew(p, r, c, C, g) ==
    LET d == ReconcileDomain(DomainAfter(Expired), known[p])
        w == ReconcileWindow(WindowAfter(window, Expired))
        entry == Entries(C, g)
        spent(k) == entry[k].resCredits + entry[k].usedCredits
    IN  /\ lease[r] = None /\ c <= MaxLease
        /\ MayReconcile(DomainAfter(Expired), known[p])
        /\ \E k \in Eligible(C, g, c, d) :
              /\ \A m \in Eligible(C, g, c, d) :
                    spent(k) < spent(m) \/ (spent(k) = spent(m) /\ k <= m)
              /\ lease' = [LeaseAfter(Expired) EXCEPT ![r] =
                             [cred |-> k, gen |-> g[k], epoch |-> known[p],
                              credits |-> c, granted |-> now, terminal |-> FALSE]]
              /\ key' = [entry EXCEPT ![k] =
                             [gen |-> g[k],
                              resCredits |-> entry[k].resCredits + c,
                              resRequests |-> entry[k].resRequests + 1,
                              usedCredits |-> entry[k].usedCredits,
                              usedRequests |-> entry[k].usedRequests]]
        /\ domain' = [epoch |-> known[p], minute |-> d.minute \cup {r},
                      active |-> d.active + 1]
        /\ window' = [w EXCEPT !.dayReserved = @ + c, !.monthReserved = @ + c]
        /\ report' = ReconcileReport
        /\ UNCHANGED cluster

\* No candidate is eligible; the counters were brought up to date all the same.
GrantRefused(p, r, c, C, g) ==
    LET d == ReconcileDomain(DomainAfter(Expired), known[p])
    IN  /\ lease[r] = None /\ c <= MaxLease
        /\ MayReconcile(DomainAfter(Expired), known[p])
        /\ Eligible(C, g, c, d) = {}
        /\ lease' = LeaseAfter(Expired)
        /\ key' = Entries(C, g)
        /\ domain' = d
        /\ window' = ReconcileWindow(WindowAfter(window, Expired))
        /\ report' = ReconcileReport
        /\ UNCHANGED cluster

\* Expired leases are written back; nothing else changes.
WriteExpired ==
    /\ lease' = LeaseAfter(Expired)
    /\ key' = KeyAfter(Expired)
    /\ domain' = DomainAfter(Expired)
    /\ window' = WindowAfter(window, Expired)
    /\ UNCHANGED <<report, cluster>>

\* grant for a request that has a lease returns it, open or not; a lease of
\* another epoch raises.
GrantAgain(p, r) == lease[r] # None /\ lease[r].epoch = known[p] /\ WriteExpired

\* grant for more than max_lease_credits.
GrantTooLarge(r, c) == lease[r] = None /\ c > MaxLease /\ WriteExpired

\* settle: a lease of another epoch raises.  Its credits count as used in the
\* day of the settlement; the provider may report what it has left.  settle can
\* also take what the call really cost; no caller passes it, so a settlement
\* charges what was reserved.
Settle(p, r, remaining, resetAt) ==
    /\ r \in Active \ Expired /\ lease[r].epoch = known[p]
    /\ MayReconcile(DomainAfter(Expired), lease[r].epoch)
    /\ lease' = LeaseAfter(Expired \cup {r})
    /\ key' = KeyAfter(Expired \cup {r})
    /\ domain' = ReconcileDomain(DomainAfter(Expired \cup {r}), lease[r].epoch)
    /\ window' = WindowAfter(ReconcileWindow(WindowAfter(window, Expired)), {r})
    /\ report' = [remaining |-> IF remaining = None THEN ReconcileReport.remaining ELSE remaining,
                  resetAt |-> IF resetAt = None THEN ReconcileReport.resetAt ELSE resetAt]
    /\ UNCHANGED cluster

\* The counters are brought up to date at epoch e.
BringUpToDate(e) ==
    /\ MayReconcile(DomainAfter(Expired), e)
    /\ lease' = LeaseAfter(Expired)
    /\ key' = KeyAfter(Expired)
    /\ domain' = ReconcileDomain(DomainAfter(Expired), e)
    /\ window' = ReconcileWindow(WindowAfter(window, Expired))
    /\ report' = ReconcileReport
    /\ UNCHANGED cluster

\* settle of a lease that was settled or has expired returns its settlement.
SettleAgain(p, r) ==
    /\ r \in (Granted \ Active) \cup Expired /\ lease[r].epoch = known[p]
    /\ BringUpToDate(lease[r].epoch)

Status == BringUpToDate(domain.epoch)

-----------------------------------------------------------------------------
(* The environment.                                                         *)

Tick == /\ now < MaxTime /\ now' = now + 1
        /\ UNCHANGED <<epoch, known, rotation, lease, key, domain, window, report>>

\* The desired state names a new authority epoch; a process reads it.
AdvanceEpoch == /\ epoch < MaxEpoch /\ epoch' = epoch + 1
                /\ UNCHANGED <<now, known, rotation, lease, key, domain, window, report>>
Refresh(p) == /\ known' = [known EXCEPT ![p] = epoch]
              /\ UNCHANGED <<now, epoch, rotation, lease, key, domain, window, report>>

Rotate(k) == /\ rotation[k] < MaxGen
             /\ rotation' = [rotation EXCEPT ![k] = @ + 1]
             /\ UNCHANGED <<now, epoch, known, lease, key, domain, window, report>>

Candidates ==
    {g \in [Keys -> Gens] : \A k \in Keys :
        IF LateCandidates THEN g[k] <= rotation[k] ELSE g[k] = rotation[k]}

Next ==
    \/ \E p \in Procs, r \in Requests, c \in Costs :
          \E C \in SUBSET Keys \ {{}}, g \in Candidates :
             GrantNew(p, r, c, C, g) \/ GrantRefused(p, r, c, C, g)
    \/ \E p \in Procs, r \in Requests :
          \/ GrantAgain(p, r) \/ SettleAgain(p, r)
          \/ \E rem \in Remains \cup {None}, at \in {None, now + 1} : Settle(p, r, rem, at)
    \/ \E r \in Requests, c \in Costs : GrantTooLarge(r, c)
    \/ Status
    \/ Tick \/ AdvanceEpoch
    \/ \E p \in Procs : Refresh(p)
    \/ \E k \in Keys : Rotate(k)

Spec == Init /\ [][Next]_vars

-----------------------------------------------------------------------------
(* Properties.                                                              *)

\* The journal holds leases and counters of their types.
TypeOK ==
    /\ now \in 0..MaxTime /\ epoch \in Epochs
    /\ known \in [Procs -> Epochs]
    /\ rotation \in [Keys -> Gens]
    /\ lease \in [Requests -> Lease \cup {None}]
    /\ key \in [Keys -> KeyEntry]
    /\ domain \in Domain
    /\ window \in Window
    /\ report \in Report

\* The open-lease counters are exactly the open leases, so max(0, ...) in
\* _apply_terminal_unlocked never hides a lease that ended twice or never, and
\* a key's generation never changes under its leases.
LeasesCounted ==
    /\ domain.active = Cardinality(Active)
    /\ \A k \in Keys :
          key[k].resRequests = Cardinality({r \in Active : lease[r].cred = k})

\* So are a key's reserved credits.
CreditsCounted ==
    \A k \in Keys : key[k].resCredits = Credits({r \in Active : lease[r].cred = k})

\* Whatever is settled, expires or rolls over, the credits leased on one day
\* and in one month stay within the plan, although a rollover forgets the
\* reservations of leases that are still open.
PlanKept ==
    /\ Credits({r \in Granted : lease[r].granted \div Day = window.day}) <= DayLimit
    /\ Credits({r \in Granted : lease[r].granted \div Month = window.month}) <= MonthLimit

\* No 60 seconds see more leases than minute_request_limit.
MinuteKept ==
    Cardinality({r \in Granted : lease[r].granted > now - Minute}) <= MinuteLimit

\* "Configure conservative per-key limits": the leases on one generation of a
\* key never exceed per_key_credit_limit and per_key_request_limit.
KeyLimitsKept ==
    \A k \in Keys, g \in Gens :
        LET on == {r \in Granted : lease[r].cred = k /\ lease[r].gen = g}
        IN  Credits(on) <= KeyCredits /\ Cardinality(on) <= KeyRequests

\* No call takes a key of the journal back to a generation it has left.
GenerationsAdvance == \A k \in Keys : key'[k].gen >= key[k].gen

\* Open leases are all of the domain's epoch: the epoch only moves when none
\* is open, so no settlement is applied to another epoch's counters.
OneEpochOpen == \A r \in Active : lease[r].epoch = domain.epoch
=============================================================================
