------------------------- MODULE CmcAuthorityProofs -------------------------
(***************************************************************************)
(* Proofs about the lease authority for any number of processes, keys and  *)
(* requests, any limits and any window lengths.                            *)
(*                                                                         *)
(* The open-lease counters are exact in every reachable journal.  From     *)
(* that it follows that an epoch or a generation only changes when no      *)
(* lease depends on it, and that the minute window counts every request.   *)
(*                                                                         *)
(* Credits are counted as the units of the leases that hold them, so sums  *)
(* are cardinalities.  The books -- what is reserved plus what is used --  *)
(* never cover less than the credits leased in the current day and month,  *)
(* and on a key's current generation, whatever ends or rolls over.         *)
(***************************************************************************)
EXTENDS CmcAuthority, FiniteSetTheorems, TLAPS

GrantedIn(L) == {r \in Requests : L[r] # None}
ActiveIn(L) == {r \in GrantedIn(L) : ~L[r].terminal}
OnKey(L, k) == {r \in ActiveIn(L) : L[r].cred = k}

ClockOK ==
    /\ now \in 0..MaxTime /\ epoch \in Epochs
    /\ known \in [Procs -> Epochs] /\ rotation \in [Keys -> Gens]
    /\ lease \in [Requests -> Lease \cup {None}]

\* The minute window holds every request of the last minute.
WindowOK ==
    /\ domain.minute \subseteq Granted
    /\ Recent(Granted) \subseteq domain.minute

AuthorityInv ==
    /\ ClockOK
    /\ LeasesCounted
    /\ OneEpochOpen
    /\ WindowOK
    /\ MinuteKept

-----------------------------------------------------------------------------
LEMMA RequestsFinite == ASSUME NEW S, S \subseteq Requests PROVE IsFiniteSet(S)
BY AuthorityAssumption, FS_Subset

LEMMA CountNat == ASSUME NEW S, S \subseteq Requests PROVE Cardinality(S) \in Nat
BY RequestsFinite, FS_CardinalityType

\* Ending leases S that are open lowers a counter of open leases to the rest.
LEMMA Lowered ==
    ASSUME NEW A, A \subseteq Requests, NEW S, S \subseteq A
    PROVE  Less(Cardinality(A), Cardinality(S)) = Cardinality(A \ S)
<1>1. IsFiniteSet(A) /\ Cardinality(A \ S) = Cardinality(A) - Cardinality(A \cap S)
  BY RequestsFinite, FS_Difference
<1>2. A \cap S = S  OBVIOUS
<1>3. /\ Cardinality(A) \in Nat /\ Cardinality(S) \in Nat /\ Cardinality(A \ S) \in Nat
  BY CountNat
<1>4. \A a, b, c \in Nat : c = a - b => Less(a, b) = c  BY DEF Less
<1> QED BY <1>1, <1>2, <1>3, <1>4

\* Ending leases keeps everything but their state.
LEMMA EndedLeases ==
    ASSUME AuthorityInv, NEW S, S \subseteq Active
    PROVE  /\ LeaseAfter(S) \in [Requests -> Lease \cup {None}]
           /\ GrantedIn(LeaseAfter(S)) = Granted
           /\ ActiveIn(LeaseAfter(S)) = Active \ S
           /\ \A r \in Granted : /\ LeaseAfter(S)[r].cred = lease[r].cred
                                 /\ LeaseAfter(S)[r].epoch = lease[r].epoch
                                 /\ LeaseAfter(S)[r].granted = lease[r].granted
                                 /\ LeaseAfter(S)[r].gen = lease[r].gen
                                 /\ LeaseAfter(S)[r].credits = lease[r].credits
<1> DEFINE L == LeaseAfter(S)
<1>1. lease \in [Requests -> Lease \cup {None}]  BY DEF AuthorityInv, ClockOK
<1>2. S \subseteq Requests /\ \A r \in S : lease[r] \in Lease /\ lease[r] # None
  BY <1>1 DEF Active, Granted
<1>3. \A r \in Requests : r \notin S => L[r] = lease[r]  BY DEF LeaseAfter
<1>4. ASSUME NEW r \in S
      PROVE  /\ L[r] \in Lease /\ L[r].terminal
             /\ L[r].cred = lease[r].cred /\ L[r].epoch = lease[r].epoch
             /\ L[r].granted = lease[r].granted
             /\ L[r].gen = lease[r].gen /\ L[r].credits = lease[r].credits
  BY <1>2 DEF LeaseAfter, Lease
<1>5. \A r \in S : L[r] # None  BY <1>4, NoneAssumption
<1>6. L \in [Requests -> Lease \cup {None}]  BY <1>1, <1>3, <1>4 DEF LeaseAfter
<1> HIDE DEF L
<1>7. GrantedIn(L) = Granted  BY <1>2, <1>3, <1>5 DEF GrantedIn, Granted
<1>8. ActiveIn(L) = Active \ S  BY <1>3, <1>4, <1>7 DEF ActiveIn, Active, Granted
<1>9. \A r \in Granted : /\ L[r].cred = lease[r].cred /\ L[r].epoch = lease[r].epoch
                         /\ L[r].granted = lease[r].granted
                         /\ L[r].gen = lease[r].gen /\ L[r].credits = lease[r].credits
  BY <1>3, <1>4 DEF Granted
<1> QED BY <1>6, <1>7, <1>8, <1>9 DEF L

\* The counters after leases S ended count the leases that are still open.
LEMMA EndedCounters ==
    ASSUME AuthorityInv, NEW S, S \subseteq Active
    PROVE  /\ DomainAfter(S).active = Cardinality(ActiveIn(LeaseAfter(S)))
           /\ \A k \in Keys : KeyAfter(S)[k].resRequests = Cardinality(OnKey(LeaseAfter(S), k))
<1> DEFINE L == LeaseAfter(S)
<1>1. Active \subseteq Requests  BY DEF Active, Granted
<1>2. ActiveIn(L) = Active \ S /\ \A r \in Granted : L[r].cred = lease[r].cred
  BY EndedLeases
<1>3. DomainAfter(S).active = Cardinality(ActiveIn(L))
  <2>1. domain.active = Cardinality(Active)  BY DEF AuthorityInv, LeasesCounted
  <2> QED BY <2>1, <1>1, <1>2, Lowered DEF DomainAfter
<1>4. ASSUME NEW k \in Keys PROVE KeyAfter(S)[k].resRequests = Cardinality(OnKey(L, k))
  <2> DEFINE A == {r \in Active : lease[r].cred = k}
             T == {r \in S : lease[r].cred = k}
  <2>1. key[k].resRequests = Cardinality(A)  BY DEF AuthorityInv, LeasesCounted
  <2>2. T \subseteq A /\ A \subseteq Requests  BY <1>1
  <2>3. KeyAfter(S)[k].resRequests = Less(key[k].resRequests, Cardinality(T))
    BY DEF KeyAfter
  <2>4. OnKey(L, k) = A \ T
    <3> HIDE DEF L
    <3> QED BY <1>2 DEF OnKey, Active
  <2> HIDE DEF A, T
  <2> QED BY <2>1, <2>2, <2>3, <2>4, Lowered
<1> QED BY <1>3, <1>4

\* Every call that only ends leases keeps the invariant.
LEMMA EndedInv ==
    ASSUME AuthorityInv, NEW S, S \subseteq Active, UNCHANGED cluster,
           lease' = LeaseAfter(S),
           \A k \in Keys : key'[k].resRequests = KeyAfter(S)[k].resRequests,
           domain'.active = DomainAfter(S).active,
           domain'.minute \in {domain.minute, Recent(domain.minute)},
           domain'.epoch = domain.epoch \/ DomainAfter(S).active = 0
    PROVE  AuthorityInv'
<1>0. ClockOK /\ OneEpochOpen /\ WindowOK /\ MinuteKept  BY DEF AuthorityInv
<1>1. /\ lease' \in [Requests -> Lease \cup {None}]
      /\ GrantedIn(lease') = Granted /\ ActiveIn(lease') = Active \ S
      /\ \A r \in Granted : /\ lease'[r].cred = lease[r].cred
                            /\ lease'[r].epoch = lease[r].epoch
                            /\ lease'[r].granted = lease[r].granted
  BY EndedLeases
<1>2. Granted' = GrantedIn(lease') /\ Active' = ActiveIn(lease')
  BY DEF Granted, Active, GrantedIn, ActiveIn
<1>3. domain'.active = Cardinality(Active')
  BY <1>2, EndedCounters
<1>4. ASSUME NEW k \in Keys
      PROVE  key'[k].resRequests = Cardinality({r \in Active' : lease'[r].cred = k})
  <2>1. {r \in Active' : lease'[r].cred = k} = OnKey(lease', k)  BY <1>2 DEF OnKey
  <2>2. KeyAfter(S)[k].resRequests = Cardinality(OnKey(LeaseAfter(S), k))
    BY EndedCounters
  <2>3. key'[k].resRequests = Cardinality(OnKey(lease', k))  BY <2>2
  <2> QED BY <2>1, <2>3
<1>5. LeasesCounted'  BY <1>3, <1>4 DEF LeasesCounted
<1>6. OneEpochOpen'
  <2>1. CASE domain'.epoch = domain.epoch
    BY <1>0, <1>1, <1>2, <2>1 DEF OneEpochOpen, Active
  <2>2. CASE DomainAfter(S).active = 0
    <3>1. Active' \subseteq Requests /\ Cardinality(Active') = 0
      BY <1>2, <1>3, <2>2 DEF ActiveIn, GrantedIn
    <3>2. Active' = {}  BY <3>1, RequestsFinite, FS_EmptySet
    <3> QED BY <3>2 DEF OneEpochOpen
  <2> QED BY <2>1, <2>2
<1>7. now' = now /\ ClockOK'  BY <1>0, <1>1 DEF ClockOK, cluster
<1>8. WindowOK'
  <2>1. Recent(Granted)' = Recent(Granted)  BY <1>1, <1>2, <1>7 DEF Recent
  <2> QED BY <1>0, <1>1, <1>2, <2>1 DEF WindowOK, Recent
<1>9. MinuteKept'
  <2>1. {r \in Granted : lease[r].granted > now - Minute}'
          = {r \in Granted : lease[r].granted > now - Minute}
    BY <1>1, <1>2, <1>7
  <2> QED BY <1>0, <2>1 DEF MinuteKept
<1> QED BY <1>5, <1>6, <1>7, <1>8, <1>9 DEF AuthorityInv

LEMMA ExpiredOpen == Expired \subseteq Active
BY DEF Expired

\* Reading candidates changes no counter of open leases.
LEMMA EntriesCount ==
    ASSUME AuthorityInv, NEW C, NEW g, NEW k \in Keys
    PROVE  Entries(C, g)[k].resRequests = KeyAfter(Expired)[k].resRequests
BY DEF Entries, Admitted, Fresh

\* A new lease is counted everywhere, and its request fits in the minute.
LEMMA GrantInv ==
    ASSUME AuthorityInv, NEW p \in Procs, NEW r \in Requests, NEW c \in Costs,
           NEW C \in SUBSET Keys, NEW g \in [Keys -> Gens], GrantNew(p, r, c, C, g)
    PROVE  AuthorityInv'
<1> DEFINE d == ReconcileDomain(DomainAfter(Expired), known[p])
           entry == Entries(C, g)
           L == LeaseAfter(Expired)
<1>0. ClockOK /\ OneEpochOpen /\ WindowOK /\ MinuteKept /\ Expired \subseteq Active
  BY ExpiredOpen DEF AuthorityInv
<1> USE DEF GrantNew
<1>1. PICK k \in Eligible(C, g, c, d) :
         /\ lease' = [L EXCEPT ![r] = [cred |-> k, gen |-> g[k], epoch |-> known[p],
                                       credits |-> c, granted |-> now, terminal |-> FALSE]]
         /\ key' = [entry EXCEPT ![k] = [gen |-> g[k],
                                         resCredits |-> entry[k].resCredits + c,
                                         resRequests |-> entry[k].resRequests + 1,
                                         usedCredits |-> entry[k].usedCredits,
                                         usedRequests |-> entry[k].usedRequests]]
  OBVIOUS
<1>2. /\ lease[r] = None /\ UNCHANGED cluster
      /\ MayReconcile(DomainAfter(Expired), known[p])
      /\ domain'.epoch = known[p]
      /\ domain'.minute = Recent(domain.minute) \cup {r}
      /\ domain'.active = DomainAfter(Expired).active + 1
  BY DEF ReconcileDomain, DomainAfter
<1>3. k \in Keys /\ Cardinality(Recent(domain.minute)) + 1 <= MinuteLimit
  BY <1>1 DEF Eligible, WithinDomain, ReconcileDomain, DomainAfter
<1> HIDE DEF GrantNew, d, entry
<1>4. /\ L \in [Requests -> Lease \cup {None}]
      /\ GrantedIn(L) = Granted /\ ActiveIn(L) = Active \ Expired
      /\ \A q \in Granted : /\ L[q].cred = lease[q].cred /\ L[q].epoch = lease[q].epoch
                            /\ L[q].granted = lease[q].granted
  BY <1>0, EndedLeases
<1>5. /\ DomainAfter(Expired).active = Cardinality(ActiveIn(L))
      /\ \A m \in Keys : KeyAfter(Expired)[m].resRequests = Cardinality(OnKey(L, m))
  BY <1>0, EndedCounters
<1> HIDE DEF L
<1> DEFINE new == [cred |-> k, gen |-> g[k], epoch |-> known[p],
                   credits |-> c, granted |-> now, terminal |-> FALSE]
<1>6. new \in Lease
  BY <1>0, <1>3, AuthorityAssumption DEF Lease, ClockOK
<1>7. /\ lease'[r] = new /\ new # None /\ new.cred = k /\ ~new.terminal
      /\ new.epoch = known[p] /\ new.granted = now
      /\ \A q \in Requests \ {r} : lease'[q] = L[q]
      /\ lease' \in [Requests -> Lease \cup {None}]
  BY <1>1, <1>4, <1>6, NoneAssumption
<1> HIDE DEF new
<1>8. r \notin GrantedIn(L) /\ r \notin ActiveIn(L)
  BY <1>2, <1>4 DEF Granted, Active
<1>9. Granted' = Granted \cup {r}  BY <1>4, <1>7 DEF Granted, GrantedIn
<1>10. Active' = ActiveIn(L) \cup {r}  BY <1>7 DEF Active, Granted, ActiveIn, GrantedIn
<1>11. ActiveIn(L) \subseteq Requests  BY DEF ActiveIn, GrantedIn
<1>12. domain'.active = Cardinality(Active')
  <2>1. Cardinality(Active') = Cardinality(ActiveIn(L)) + 1
    BY <1>8, <1>10, <1>11, RequestsFinite, FS_AddElement
  <2> QED BY <2>1, <1>2, <1>5
<1>13. ASSUME NEW m \in Keys
       PROVE  key'[m].resRequests = Cardinality({q \in Active' : lease'[q].cred = m})
  <2>0. DOMAIN entry = Keys  BY DEF entry, Entries
  <2>1. entry[m].resRequests = Cardinality(OnKey(L, m))
    BY <1>5, EntriesCount DEF entry
  <2>2. OnKey(L, m) \subseteq Requests /\ r \notin OnKey(L, m)
    BY <1>8 DEF OnKey, ActiveIn, GrantedIn
  <2>3. CASE m = k
    <3>1. {q \in Active' : lease'[q].cred = m} = OnKey(L, m) \cup {r}
      BY <1>7, <1>8, <1>10, <1>11, <2>3 DEF OnKey
    <3>2. Cardinality(OnKey(L, m) \cup {r}) = Cardinality(OnKey(L, m)) + 1
      BY <2>2, RequestsFinite, FS_AddElement
    <3>3. key'[m].resRequests = entry[m].resRequests + 1  BY <1>1, <2>0, <2>3
    <3> QED BY <2>1, <3>1, <3>2, <3>3
  <2>4. CASE m # k
    <3>1. {q \in Active' : lease'[q].cred = m} = OnKey(L, m)
      BY <1>7, <1>8, <1>10, <1>11, <2>4 DEF OnKey
    <3>2. key'[m] = entry[m]  BY <1>1, <2>0, <2>4
    <3> QED BY <2>1, <3>1, <3>2
  <2> QED BY <2>3, <2>4
<1>14. LeasesCounted'  BY <1>12, <1>13 DEF LeasesCounted
<1>15. OneEpochOpen'
  <2>1. \A q \in ActiveIn(L) : L[q].epoch = known[p]
    <3>1. CASE domain.epoch = known[p]
      BY <1>0, <1>4, <3>1 DEF OneEpochOpen, Active
    <3>2. CASE DomainAfter(Expired).active = 0
      <4>1. ActiveIn(L) = {}
        BY <1>5, <1>11, <3>2, RequestsFinite, FS_EmptySet
      <4> QED BY <4>1
    <3> QED BY <1>2, <3>1, <3>2 DEF MayReconcile, DomainAfter
  <2> QED BY <2>1, <1>2, <1>7, <1>8, <1>10, <1>11 DEF OneEpochOpen
<1>16. now' = now /\ ClockOK'  BY <1>0, <1>2, <1>7 DEF ClockOK, cluster
<1>17. Recent(Granted)' \subseteq Recent(domain.minute) \cup {r}
  <2> SUFFICES ASSUME NEW q \in Granted, q # r, lease'[q].granted > now - Minute
               PROVE  q \in Recent(domain.minute)
    BY <1>9, <1>16 DEF Recent
  <2>1. lease[q].granted > now - Minute  BY <1>4, <1>7 DEF Granted
  <2> QED BY <2>1, <1>0 DEF WindowOK, Recent
<1>18. WindowOK'
  BY <1>0, <1>2, <1>9, <1>17 DEF WindowOK, Recent
<1>19. MinuteKept'
  <2>1. Recent(domain.minute) \subseteq Requests
    BY <1>0 DEF WindowOK, Recent, Granted
  <2>2. Cardinality(Recent(domain.minute) \cup {r}) <= MinuteLimit
    <3>1. /\ IsFiniteSet(Recent(domain.minute)) /\ Cardinality(Recent(domain.minute)) \in Nat
      BY <2>1, RequestsFinite, CountNat
    <3>2. Cardinality(Recent(domain.minute) \cup {r}) \in
             {Cardinality(Recent(domain.minute)), Cardinality(Recent(domain.minute)) + 1}
      BY <3>1, FS_AddElement
    <3>3. MinuteLimit \in Nat  BY AuthorityAssumption
    <3> QED BY <1>3, <3>1, <3>2, <3>3
  <2>3. /\ Cardinality(Recent(Granted)') <= Cardinality(Recent(domain.minute) \cup {r})
        /\ Cardinality(Recent(Granted)') \in Nat
        /\ Cardinality(Recent(domain.minute) \cup {r}) \in Nat
    BY <1>17, <2>1, RequestsFinite, CountNat, FS_Subset
  <2>4. {q \in Granted : lease[q].granted > now - Minute}' = Recent(Granted)'
    BY DEF Recent
  <2>5. MinuteLimit \in Nat  BY AuthorityAssumption
  <2>6. Cardinality(Recent(Granted)') <= MinuteLimit  BY <2>2, <2>3, <2>5
  <2> QED BY <2>4, <2>6 DEF MinuteKept
<1> QED BY <1>14, <1>15, <1>16, <1>18, <1>19 DEF AuthorityInv

LEMMA AuthorityInit == Init => AuthorityInv
<1> SUFFICES ASSUME Init PROVE AuthorityInv
  OBVIOUS
<1>1. ClockOK  BY AuthorityAssumption DEF Init, ClockOK, Epochs, Gens
<1>2. Granted = {} /\ Active = {}  BY DEF Init, Granted, Active
<1>3. Cardinality({}) = 0  BY FS_EmptySet
<1>4. LeasesCounted
  <2>1. \A k \in Keys : {r \in Active : lease[r].cred = k} = {}  BY <1>2
  <2> QED BY <1>2, <1>3, <2>1 DEF Init, LeasesCounted
<1>5. OneEpochOpen  BY <1>2 DEF OneEpochOpen
<1>6. WindowOK  BY <1>2 DEF Init, WindowOK, Recent
<1>7. MinuteKept
  <2>1. {r \in Granted : lease[r].granted > now - Minute} = {}  BY <1>2
  <2> QED BY <2>1, <1>3, AuthorityAssumption DEF MinuteKept
<1> QED BY <1>1, <1>4, <1>5, <1>6, <1>7 DEF AuthorityInv

\* Only the clock, the desired state and what processes know of it changed.
LEMMA ClusterInv ==
    ASSUME AuthorityInv, UNCHANGED <<lease, key, domain>>, ClockOK', now' \in {now, now + 1}
    PROVE  AuthorityInv'
<1>0. ClockOK /\ LeasesCounted /\ OneEpochOpen /\ WindowOK /\ MinuteKept
  BY DEF AuthorityInv
<1>1. Granted' = Granted /\ Active' = Active  BY DEF Granted, Active
<1>2. LeasesCounted' /\ OneEpochOpen'  BY <1>0, <1>1 DEF LeasesCounted, OneEpochOpen
<1>3. now \in Nat /\ now' \in Nat /\ Minute \in Nat
  BY <1>0, AuthorityAssumption DEF ClockOK
<1>4. \A r \in Granted : lease[r].granted \in Nat
  <2>1. \A r \in Granted : lease[r] \in Lease  BY <1>0 DEF ClockOK, Granted
  <2> QED BY <2>1, AuthorityAssumption DEF Lease
<1>5. Recent(Granted)' \subseteq Recent(Granted)
  BY <1>1, <1>3, <1>4 DEF Recent
<1>6. WindowOK'  BY <1>0, <1>1, <1>5 DEF WindowOK
<1>7. MinuteKept'
  <2>1. Recent(Granted) \subseteq Requests  BY DEF Recent, Granted
  <2>2. /\ Cardinality(Recent(Granted)') <= Cardinality(Recent(Granted))
        /\ Cardinality(Recent(Granted)') \in Nat /\ Cardinality(Recent(Granted)) \in Nat
    BY <1>5, <2>1, RequestsFinite, CountNat, FS_Subset
  <2>3. /\ {r \in Granted : lease[r].granted > now - Minute} = Recent(Granted)
        /\ {r \in Granted : lease[r].granted > now - Minute}' = Recent(Granted)'
    BY DEF Recent
  <2>4. MinuteLimit \in Nat  BY AuthorityAssumption
  <2>5. Cardinality(Recent(Granted)) <= MinuteLimit  BY <1>0, <2>3 DEF MinuteKept
  <2>6. Cardinality(Recent(Granted)') <= MinuteLimit  BY <2>2, <2>4, <2>5
  <2> QED BY <2>3, <2>6 DEF MinuteKept
<1> QED BY <1>2, <1>6, <1>7 DEF AuthorityInv

LEMMA AuthorityStep == AuthorityInv /\ [Next]_vars => AuthorityInv'
<1> SUFFICES ASSUME AuthorityInv, [Next]_vars PROVE AuthorityInv'
  OBVIOUS
<1>0. ClockOK /\ Expired \subseteq Active  BY ExpiredOpen DEF AuthorityInv
<1>1. ASSUME NEW p \in Procs, NEW r \in Requests, NEW c \in Costs,
             NEW C \in SUBSET Keys \ {{}}, NEW g \in Candidates, GrantNew(p, r, c, C, g)
      PROVE  AuthorityInv'
  <2>1. g \in [Keys -> Gens]  BY DEF Candidates
  <2> QED BY <1>1, <2>1, GrantInv
<1>2. ASSUME NEW p \in Procs, NEW r \in Requests, NEW c \in Costs,
             NEW C \in SUBSET Keys \ {{}}, NEW g \in Candidates, GrantRefused(p, r, c, C, g)
      PROVE  AuthorityInv'
  <2>1. \A k \in Keys : key'[k].resRequests = KeyAfter(Expired)[k].resRequests
    BY <1>2, EntriesCount DEF GrantRefused
  <2>2. /\ domain'.active = DomainAfter(Expired).active
        /\ domain'.minute = Recent(domain.minute)
        /\ domain'.epoch = domain.epoch \/ DomainAfter(Expired).active = 0
        /\ lease' = LeaseAfter(Expired) /\ UNCHANGED cluster
    BY <1>2 DEF GrantRefused, ReconcileDomain, DomainAfter, MayReconcile
  <2> QED BY <1>0, <2>1, <2>2, EndedInv
<1>3. ASSUME WriteExpired PROVE AuthorityInv'
  <2>1. /\ domain'.active = DomainAfter(Expired).active
        /\ domain'.minute = domain.minute /\ domain'.epoch = domain.epoch
        /\ lease' = LeaseAfter(Expired) /\ key' = KeyAfter(Expired) /\ UNCHANGED cluster
    BY <1>3 DEF WriteExpired, DomainAfter
  <2> QED BY <1>0, <2>1, EndedInv
<1>4. ASSUME NEW p \in Procs, NEW r \in Requests, NEW rem, NEW at, Settle(p, r, rem, at)
      PROVE  AuthorityInv'
  <2> DEFINE S == Expired \cup {r}
  <2>1. S \subseteq Active /\ lease[r].epoch = domain.epoch
    BY <1>0, <1>4 DEF Settle, AuthorityInv, OneEpochOpen
  <2>2. /\ domain'.active = DomainAfter(S).active
        /\ domain'.minute = Recent(domain.minute) /\ domain'.epoch = lease[r].epoch
        /\ lease' = LeaseAfter(S) /\ key' = KeyAfter(S) /\ UNCHANGED cluster
    BY <1>4 DEF Settle, ReconcileDomain, DomainAfter
  <2> HIDE DEF S
  <2> QED BY <2>1, <2>2, EndedInv
<1>5. ASSUME NEW e, BringUpToDate(e) PROVE AuthorityInv'
  <2>1. /\ domain'.active = DomainAfter(Expired).active
        /\ domain'.minute = Recent(domain.minute)
        /\ domain'.epoch = domain.epoch \/ DomainAfter(Expired).active = 0
        /\ lease' = LeaseAfter(Expired) /\ key' = KeyAfter(Expired) /\ UNCHANGED cluster
    BY <1>5 DEF BringUpToDate, ReconcileDomain, DomainAfter, MayReconcile
  <2> QED BY <1>0, <2>1, EndedInv
<1>6. CASE Tick
  <2>1. ClockOK' /\ now' = now + 1 /\ UNCHANGED <<lease, key, domain>>
    BY <1>0, <1>6, AuthorityAssumption DEF Tick, ClockOK
  <2> QED BY <2>1, ClusterInv
<1>7. CASE AdvanceEpoch
  <2>1. ClockOK' /\ now' = now /\ UNCHANGED <<lease, key, domain>>
    BY <1>0, <1>7, AuthorityAssumption DEF AdvanceEpoch, ClockOK, Epochs
  <2> QED BY <2>1, ClusterInv
<1>8. ASSUME NEW p \in Procs, Refresh(p) PROVE AuthorityInv'
  <2>1. ClockOK' /\ now' = now /\ UNCHANGED <<lease, key, domain>>
    BY <1>0, <1>8 DEF Refresh, ClockOK
  <2> QED BY <2>1, ClusterInv
<1>9. ASSUME NEW k \in Keys, Rotate(k) PROVE AuthorityInv'
  <2>1. ClockOK' /\ now' = now /\ UNCHANGED <<lease, key, domain>>
    BY <1>0, <1>9, AuthorityAssumption DEF Rotate, ClockOK, Gens
  <2> QED BY <2>1, ClusterInv
<1>10. CASE UNCHANGED vars
  <2>1. ClockOK' /\ now' = now /\ UNCHANGED <<lease, key, domain>>
    BY <1>0, <1>10 DEF vars, ClockOK
  <2> QED BY <2>1, ClusterInv
<1> QED BY <1>1, <1>2, <1>3, <1>4, <1>5, <1>6, <1>7, <1>8, <1>9, <1>10
        DEF Next, GrantAgain, GrantTooLarge, SettleAgain, Status

\* The invariant holds in every history of grants, settlements and expiries.
THEOREM AuthoritySafe == Spec => []AuthorityInv
BY AuthorityInit, AuthorityStep, PTL DEF Spec

\* The counters of open leases are exact, so an ended lease is never counted
\* twice and max(0, ...) never hides one (_apply_terminal_unlocked).
THEOREM LeasesAreCounted == Spec => []LeasesCounted
<1>1. AuthorityInv => LeasesCounted  BY DEF AuthorityInv
<1> QED BY <1>1, AuthoritySafe, PTL

\* All open leases belong to the epoch of the journal's domain: the epoch only
\* moves when none is open (_reconcile_domain_unlocked).
THEOREM OpenLeasesShareEpoch == Spec => []OneEpochOpen
<1>1. AuthorityInv => OneEpochOpen  BY DEF AuthorityInv
<1> QED BY <1>1, AuthoritySafe, PTL

\* The rolling minute never has more leases than its limit, although slots are
\* pruned only when a call happens to come (minute_requests).
THEOREM MinuteIsKept == Spec => []MinuteKept
<1>1. AuthorityInv => MinuteKept  BY DEF AuthorityInv
<1> QED BY <1>1, AuthoritySafe, PTL

-----------------------------------------------------------------------------
(* Sums of credits.  The leases of a journal L hold at most MaxLease credits *)
(* each, so the units of any of them are a finite set.                       *)

LeasesOK(L) ==
    \A r \in GrantedIn(L) : L[r].credits \in 0..MaxLease

Units(L, S) == UNION {{r} \X (1..L[r].credits) : r \in S}
CreditsIn(L, S) == Cardinality(Units(L, S))

LEMMA CountUpTo == ASSUME NEW n \in Nat PROVE IsFiniteSet(1..n) /\ Cardinality(1..n) = n
<1>1. /\ IsFiniteSet(1..n)
      /\ Cardinality(1..n) = IF 1 > n THEN 0 ELSE n - 1 + 1
  BY FS_Interval
<1> QED BY <1>1

LEMMA CountApart ==
    ASSUME NEW A, IsFiniteSet(A), NEW B, IsFiniteSet(B), A \cap B = {}
    PROVE  Cardinality(A \cup B) = Cardinality(A) + Cardinality(B)
<1>1. Cardinality(A) \in Nat /\ Cardinality(B) \in Nat /\ Cardinality({}) = 0
  BY FS_CardinalityType, FS_EmptySet
<1>2. Cardinality(A \cup B) = Cardinality(A) + Cardinality(B) - Cardinality({})
  BY FS_Union
<1> QED BY <1>1, <1>2

LEMMA UnitsFinite ==
    ASSUME NEW L, LeasesOK(L), NEW S, S \subseteq GrantedIn(L)
    PROVE  IsFiniteSet(Units(L, S)) /\ CreditsIn(L, S) \in Nat
<1>1. Units(L, S) \subseteq Requests \X (1..MaxLease)
  <2> SUFFICES ASSUME NEW r \in S, NEW i \in 1..L[r].credits
               PROVE  <<r, i>> \in Requests \X (1..MaxLease)
    BY DEF Units
  <2>1. L[r].credits \in 0..MaxLease /\ r \in Requests  BY DEF LeasesOK, GrantedIn
  <2> QED BY <2>1, AuthorityAssumption
<1>2. IsFiniteSet(Requests \X (1..MaxLease))
  <2>1. MaxLease \in Nat /\ IsFiniteSet(Requests)  BY AuthorityAssumption
  <2>2. IsFiniteSet(1..MaxLease)  BY <2>1, CountUpTo
  <2> QED BY <2>1, <2>2, FS_Product
<1> QED BY <1>1, <1>2, FS_Subset, FS_CardinalityType DEF CreditsIn

\* The credits of a set of leases are those of a part and of the rest.
LEMMA CreditsSplit ==
    ASSUME NEW L, LeasesOK(L), NEW S, S \subseteq GrantedIn(L), NEW T, T \subseteq S
    PROVE  CreditsIn(L, S) = CreditsIn(L, S \ T) + CreditsIn(L, T)
<1>1. /\ IsFiniteSet(Units(L, S \ T)) /\ CreditsIn(L, S \ T) \in Nat
      /\ IsFiniteSet(Units(L, T)) /\ CreditsIn(L, T) \in Nat
  BY UnitsFinite
<1>2. Units(L, S) = Units(L, S \ T) \cup Units(L, T)  BY DEF Units
<1>3. Units(L, S \ T) \cap Units(L, T) = {}
  <2> SUFFICES ASSUME NEW u \in Units(L, S \ T), u \in Units(L, T) PROVE FALSE
    OBVIOUS
  <2>1. PICK r \in S \ T : u \in {r} \X (1..L[r].credits)  BY DEF Units
  <2>2. PICK q \in T : u \in {q} \X (1..L[q].credits)  BY DEF Units
  <2> QED BY <2>1, <2>2
<1> QED BY <1>1, <1>2, <1>3, CountApart DEF CreditsIn

LEMMA CreditsNone == \A L : CreditsIn(L, {}) = 0
BY FS_EmptySet DEF CreditsIn, Units

LEMMA CreditsOne ==
    ASSUME NEW L, LeasesOK(L), NEW r \in GrantedIn(L)
    PROVE  CreditsIn(L, {r}) = L[r].credits
<1>1. L[r].credits \in Nat  BY AuthorityAssumption DEF LeasesOK
<1>2. Units(L, {r}) = {r} \X (1..L[r].credits)  BY DEF Units
<1>3. IsFiniteSet(1..L[r].credits) /\ Cardinality(1..L[r].credits) = L[r].credits
  BY <1>1, CountUpTo
<1>4. IsFiniteSet({r}) /\ Cardinality({r}) = 1  BY FS_Singleton
<1>5. Cardinality({r} \X (1..L[r].credits)) = Cardinality({r}) * Cardinality(1..L[r].credits)
  BY <1>3, <1>4, FS_Product
<1>6. CreditsIn(L, {r}) = 1 * L[r].credits
  BY <1>2, <1>3, <1>4, <1>5, Zenon DEF CreditsIn
<1> QED BY <1>1, <1>6

\* Only the credits of the leases matter.
LEMMA CreditsSame ==
    ASSUME NEW L, NEW M, NEW S, \A r \in S : L[r].credits = M[r].credits
    PROVE  CreditsIn(L, S) = CreditsIn(M, S)
BY DEF CreditsIn, Units

\* One more lease adds its credits.
LEMMA CreditsAdd ==
    ASSUME NEW L, NEW M, LeasesOK(M), NEW S, S \subseteq GrantedIn(M),
           NEW r \in GrantedIn(M) \ S, \A q \in S : L[q].credits = M[q].credits
    PROVE  CreditsIn(M, S \cup {r}) = CreditsIn(L, S) + M[r].credits
<1> DEFINE T == S \cup {r}
<1>1. T \subseteq GrantedIn(M) /\ {r} \subseteq T /\ T \ {r} = S  OBVIOUS
<1> HIDE DEF T
<1>2. CreditsIn(M, T) = CreditsIn(M, S) + CreditsIn(M, {r})  BY <1>1, CreditsSplit
<1>3. CreditsIn(L, S) = CreditsIn(M, S)  BY CreditsSame
<1>4. CreditsIn(M, {r}) = M[r].credits  BY CreditsOne
<1> QED BY <1>2, <1>3, <1>4 DEF T

-----------------------------------------------------------------------------
(* The books: what the journal's counters say of the credits leased.  A      *)
(* counter covers the leases it stands for when it is at least their sum.    *)

InWindow(L, len, d) == {r \in GrantedIn(L) : L[r].granted \div len = d}
OfGen(L, k, g) == {r \in GrantedIn(L) : L[r].cred = k /\ L[r].gen = g}

\* The leases of window d, the last that has any, are booked and in the limit.
Kept(L, len, d, booked, limit) ==
    /\ \A r \in GrantedIn(L) : L[r].granted \div len <= d
    /\ CreditsIn(L, InWindow(L, len, d)) <= booked
    /\ CreditsIn(L, InWindow(L, len, d)) <= limit

PlanBooked(L, w) ==
    /\ Kept(L, Day, w.day, w.dayReserved + w.dayUsed, DayLimit)
    /\ Kept(L, Month, w.month, w.monthReserved + w.monthUsed, MonthLimit)

\* So are the leases of a key's generation in the journal, its last.
KeyBooked(L, k, e) ==
    /\ \A r \in GrantedIn(L) : L[r].cred = k => L[r].gen <= e.gen
    /\ CreditsIn(L, OfGen(L, k, e.gen)) <= e.resCredits + e.usedCredits
    /\ Cardinality(OfGen(L, k, e.gen)) <= e.resRequests + e.usedRequests

BooksOK ==
    /\ key \in [Keys -> KeyEntry] /\ domain \in Domain
    /\ window \in Window /\ report \in Report
    /\ LeasesOK(lease)
    /\ CreditsCounted
    /\ window.day <= Today /\ window.month <= ThisMonth
    /\ PlanBooked(lease, window)

KeysOK ==
    /\ KeyLimitsKept
    /\ \A k \in Keys : KeyBooked(lease, k, key[k])

\* The same leases, open or ended, are covered by the same books.
SameGrants(L, M) ==
    /\ GrantedIn(M) = GrantedIn(L)
    /\ \A r \in GrantedIn(L) : /\ M[r].cred = L[r].cred /\ M[r].gen = L[r].gen
                               /\ M[r].credits = L[r].credits
                               /\ M[r].granted = L[r].granted

LEMMA SameBooked ==
    ASSUME NEW L, NEW M, SameGrants(L, M)
    PROVE  /\ LeasesOK(L) => LeasesOK(M)
           /\ \A w : PlanBooked(L, w) => PlanBooked(M, w)
           /\ \A k, e : KeyBooked(L, k, e) => KeyBooked(M, k, e)
           /\ \A k, g : /\ OfGen(M, k, g) = OfGen(L, k, g)
                        /\ CreditsIn(M, OfGen(M, k, g)) = CreditsIn(L, OfGen(L, k, g))
<1>1. ASSUME NEW S, S \subseteq GrantedIn(L) PROVE CreditsIn(M, S) = CreditsIn(L, S)
  BY <1>1, CreditsSame DEF SameGrants
<1>2. LeasesOK(L) => LeasesOK(M)  BY DEF LeasesOK, SameGrants
<1>3. ASSUME NEW len, NEW d
      PROVE  /\ InWindow(M, len, d) = InWindow(L, len, d)
             /\ CreditsIn(M, InWindow(M, len, d)) = CreditsIn(L, InWindow(L, len, d))
  <2>1. InWindow(M, len, d) = InWindow(L, len, d) /\ InWindow(L, len, d) \subseteq GrantedIn(L)
    BY DEF InWindow, SameGrants
  <2> QED BY <2>1, <1>1
<1>4. ASSUME NEW len, NEW d, NEW b, NEW l, Kept(L, len, d, b, l) PROVE Kept(M, len, d, b, l)
  BY <1>3, <1>4 DEF Kept, SameGrants
<1>5. \A w : PlanBooked(L, w) => PlanBooked(M, w)  BY <1>4 DEF PlanBooked
<1>6. ASSUME NEW k, NEW g
      PROVE  /\ OfGen(M, k, g) = OfGen(L, k, g)
             /\ CreditsIn(M, OfGen(M, k, g)) = CreditsIn(L, OfGen(L, k, g))
  <2>1. OfGen(M, k, g) = OfGen(L, k, g) /\ OfGen(L, k, g) \subseteq GrantedIn(L)
    BY DEF OfGen, SameGrants
  <2> QED BY <2>1, <1>1
<1>7. \A k, e : KeyBooked(L, k, e) => KeyBooked(M, k, e)
  BY <1>6 DEF KeyBooked, SameGrants
<1> QED BY <1>2, <1>5, <1>6, <1>7

LEMMA LessFacts ==
    ASSUME NEW a \in Nat, NEW b \in Nat
    PROVE  Less(a, b) \in Nat /\ Less(a, b) + b >= a
BY DEF Less

\* Ending leases books no fewer credits.
LEMMA AfterBooked ==
    ASSUME NEW L, LeasesOK(L), NEW w \in Window, PlanBooked(L, w), NEW S, Credits(S) \in Nat
    PROVE  /\ WindowAfter(w, S) \in Window /\ PlanBooked(L, WindowAfter(w, S))
           /\ WindowAfter(w, S).day = w.day /\ WindowAfter(w, S).month = w.month
<1> DEFINE v == WindowAfter(w, S)
<1>1. /\ w.dayReserved \in Nat /\ w.dayUsed \in Nat
      /\ w.monthReserved \in Nat /\ w.monthUsed \in Nat /\ w.day \in Nat /\ w.month \in Nat
  BY DEF Window
<1>2. /\ v.day = w.day /\ v.month = w.month
      /\ v.dayReserved = Less(w.dayReserved, Credits(S)) /\ v.dayUsed = w.dayUsed + Credits(S)
      /\ v.monthReserved = Less(w.monthReserved, Credits(S))
      /\ v.monthUsed = w.monthUsed + Credits(S)
  BY DEF WindowAfter, Window
<1>3. v \in Window
  <2>0. w.dayUsed + Credits(S) \in Nat /\ w.monthUsed + Credits(S) \in Nat  BY <1>1
  <2>1. Less(w.dayReserved, Credits(S)) \in Nat /\ Less(w.monthReserved, Credits(S)) \in Nat
    BY <1>1, LessFacts
  <2> DEFINE a == Less(w.dayReserved, Credits(S))
             b == w.dayUsed + Credits(S)
             c == Less(w.monthReserved, Credits(S))
             e == w.monthUsed + Credits(S)
  <2>2. v = [w EXCEPT !.dayReserved = a, !.dayUsed = b, !.monthReserved = c, !.monthUsed = e]
    BY DEF WindowAfter, Window
  <2> HIDE DEF a, b, c, e, v
  <2>3. a \in Nat /\ b \in Nat /\ c \in Nat /\ e \in Nat  BY <2>0, <2>1 DEF a, b, c, e
  <2> QED BY <2>2, <2>3 DEF Window
<1> HIDE DEF v
<1>4. /\ v.dayReserved + v.dayUsed \in Nat /\ v.dayReserved + v.dayUsed >= w.dayReserved + w.dayUsed
      /\ v.monthReserved + v.monthUsed \in Nat
      /\ v.monthReserved + v.monthUsed >= w.monthReserved + w.monthUsed
      /\ v.day = w.day /\ v.month = w.month
  <2>1. /\ Less(w.dayReserved, Credits(S)) \in Nat /\ Less(w.monthReserved, Credits(S)) \in Nat
        /\ Less(w.dayReserved, Credits(S)) + Credits(S) >= w.dayReserved
        /\ Less(w.monthReserved, Credits(S)) + Credits(S) >= w.monthReserved
    BY <1>1, LessFacts
  <2> QED BY <1>1, <1>2, <2>1
<1>5. ASSUME NEW len, NEW d, NEW l, NEW b \in Nat, NEW c \in Nat, b <= c, Kept(L, len, d, b, l)
      PROVE  Kept(L, len, d, c, l)
  <2>1. InWindow(L, len, d) \subseteq GrantedIn(L)  BY DEF InWindow
  <2>2. CreditsIn(L, InWindow(L, len, d)) \in Nat  BY <2>1, UnitsFinite
  <2> QED BY <2>2, <1>5 DEF Kept
<1>6. w.dayReserved + w.dayUsed \in Nat /\ w.monthReserved + w.monthUsed \in Nat
  BY <1>1
<1>7. PlanBooked(L, v)
  <2>1. Kept(L, Day, w.day, w.dayReserved + w.dayUsed, DayLimit)
    BY DEF PlanBooked
  <2>2. Kept(L, Month, w.month, w.monthReserved + w.monthUsed, MonthLimit)
    BY DEF PlanBooked
  <2>3. Kept(L, Day, v.day, v.dayReserved + v.dayUsed, DayLimit)
    BY <2>1, <1>4, <1>5, <1>6
  <2>4. Kept(L, Month, v.month, v.monthReserved + v.monthUsed, MonthLimit)
    BY <2>2, <1>4, <1>5, <1>6
  <2> QED BY <2>3, <2>4 DEF PlanBooked
<1> QED BY <1>3, <1>4, <1>7 DEF v

\* A new window has no leases yet: nothing needs to be booked.
LEMMA RolledBooked ==
    ASSUME NEW L, NEW w \in Window, PlanBooked(L, w), now \in Nat,
           \A r \in GrantedIn(L) : L[r].granted \in Nat,
           w.day <= Today, w.month <= ThisMonth
    PROVE  /\ ReconcileWindow(w) \in Window /\ PlanBooked(L, ReconcileWindow(w))
           /\ ReconcileWindow(w).day = Today /\ ReconcileWindow(w).month = ThisMonth
<1> DEFINE v == ReconcileWindow(w)
<1>0. /\ Day \in Nat \ {0} /\ Month \in Nat \ {0} /\ DayLimit \in Nat /\ MonthLimit \in Nat
  BY AuthorityAssumption
<1>1. /\ w.dayReserved \in Nat /\ w.dayUsed \in Nat /\ w.day \in Nat
      /\ w.monthReserved \in Nat /\ w.monthUsed \in Nat /\ w.month \in Nat
  BY DEF Window
<1>2. /\ v.day = Today /\ v.month = ThisMonth
      /\ v.dayReserved = IF w.day # Today THEN 0 ELSE w.dayReserved
      /\ v.dayUsed = IF w.day # Today THEN 0 ELSE w.dayUsed
      /\ v.monthReserved = IF w.month # ThisMonth THEN 0 ELSE w.monthReserved
      /\ v.monthUsed = IF w.month # ThisMonth THEN 0 ELSE w.monthUsed
  BY DEF ReconcileWindow, Window
<1>3. Today \in Nat /\ ThisMonth \in Nat  BY <1>0 DEF Today, ThisMonth
<1>4. v \in Window  BY <1>1, <1>3 DEF ReconcileWindow, Window
<1> HIDE DEF v
<1>5. ASSUME NEW len \in Nat \ {0}, NEW d \in Nat, NEW e \in Nat, NEW b, NEW l \in Nat,
             d < e, Kept(L, len, d, b, l)
      PROVE  Kept(L, len, e, 0, l)
  <2>1. \A r \in GrantedIn(L) : L[r].granted \div len <= d /\ L[r].granted \div len \in Int
    BY <1>5 DEF Kept
  <2>2. InWindow(L, len, e) = {}  BY <2>1, <1>5 DEF InWindow
  <2>3. \A r \in GrantedIn(L) : L[r].granted \div len <= e  BY <2>1, <1>5
  <2> QED BY <2>2, <2>3, CreditsNone, <1>5 DEF Kept
<1>6. Kept(L, Day, v.day, v.dayReserved + v.dayUsed, DayLimit)
  <2>1. Kept(L, Day, w.day, w.dayReserved + w.dayUsed, DayLimit)
    BY DEF PlanBooked
  <2>2. CASE w.day = Today  BY <2>1, <2>2, <1>2
  <2>3. CASE w.day # Today
    <3>1. w.day < Today /\ v.day = Today /\ v.dayReserved + v.dayUsed = 0
      BY <2>3, <1>1, <1>2, <1>3
    <3> QED BY <2>1, <3>1, <1>0, <1>1, <1>3, <1>5
  <2> QED BY <2>2, <2>3
<1>7. Kept(L, Month, v.month, v.monthReserved + v.monthUsed, MonthLimit)
  <2>1. Kept(L, Month, w.month, w.monthReserved + w.monthUsed, MonthLimit)
    BY DEF PlanBooked
  <2>2. CASE w.month = ThisMonth  BY <2>1, <2>2, <1>2
  <2>3. CASE w.month # ThisMonth
    <3>1. w.month < ThisMonth /\ v.month = ThisMonth /\ v.monthReserved + v.monthUsed = 0
      BY <2>3, <1>1, <1>2, <1>3
    <3> QED BY <2>1, <3>1, <1>0, <1>1, <1>3, <1>5
  <2> QED BY <2>2, <2>3
<1> QED BY <1>2, <1>4, <1>6, <1>7 DEF PlanBooked, v

LEMMA BooksCredits ==
    ASSUME AuthorityInv, BooksOK
    PROVE  /\ \A S \in SUBSET Granted : Credits(S) = CreditsIn(lease, S) /\ Credits(S) \in Nat
           /\ \A k \in Keys : key[k].resCredits = CreditsIn(lease, OnKey(lease, k))
<1>1. ASSUME NEW S \in SUBSET Granted
      PROVE  Credits(S) = CreditsIn(lease, S) /\ Credits(S) \in Nat
  <2>1. Credits(S) = CreditsIn(lease, S)  BY DEF Credits, CreditsIn, Units
  <2>2. S \subseteq GrantedIn(lease) /\ LeasesOK(lease)  BY DEF BooksOK, Granted, GrantedIn
  <2> QED BY <2>1, <2>2, UnitsFinite
<1>2. ASSUME NEW k \in Keys PROVE key[k].resCredits = CreditsIn(lease, OnKey(lease, k))
  <2>1. {r \in Active : lease[r].cred = k} = OnKey(lease, k)
    BY DEF OnKey, ActiveIn, GrantedIn, Active, Granted
  <2>2. OnKey(lease, k) \in SUBSET Granted
    BY DEF OnKey, ActiveIn, GrantedIn, Granted
  <2>3. key[k].resCredits = Credits(OnKey(lease, k))
    BY <2>1 DEF BooksOK, CreditsCounted
  <2> QED BY <1>1, <2>2, <2>3
<1> QED BY <1>1, <1>2

LEMMA EndedGrants ==
    ASSUME AuthorityInv, NEW S, S \subseteq Active
    PROVE  SameGrants(lease, LeaseAfter(S))
<1>1. GrantedIn(lease) = Granted  BY DEF GrantedIn, Granted
<1> QED BY <1>1, EndedLeases DEF SameGrants

\* Ended leases are no longer reserved on their key, but still booked on it.
LEMMA EndedKey ==
    ASSUME AuthorityInv, BooksOK, NEW S, S \subseteq Active, NEW k \in Keys
    PROVE  /\ KeyAfter(S)[k] \in KeyEntry /\ KeyAfter(S)[k].gen = key[k].gen
           /\ KeyAfter(S)[k].resCredits = CreditsIn(LeaseAfter(S), OnKey(LeaseAfter(S), k))
           /\ KeyBooked(lease, k, key[k]) => KeyBooked(lease, k, KeyAfter(S)[k])
<1> DEFINE T == {r \in S : lease[r].cred = k}
           L == LeaseAfter(S)
           A == OnKey(lease, k)
           e == KeyAfter(S)[k]
<1>1. /\ e.gen = key[k].gen
      /\ e.resCredits = Less(key[k].resCredits, Credits(T))
      /\ e.resRequests = Less(key[k].resRequests, Cardinality(T))
      /\ e.usedCredits = key[k].usedCredits + Credits(T)
      /\ e.usedRequests = key[k].usedRequests + Cardinality(T)
      /\ e = [gen |-> e.gen, resCredits |-> e.resCredits, resRequests |-> e.resRequests,
              usedCredits |-> e.usedCredits, usedRequests |-> e.usedRequests]
  BY DEF KeyAfter
<1>2. T \subseteq A /\ A \subseteq Granted /\ Granted \subseteq Requests /\ T \subseteq Granted
  BY DEF OnKey, ActiveIn, GrantedIn, Active, Granted
<1>3. /\ OnKey(L, k) = A \ T
      /\ \A r \in Granted : L[r].credits = lease[r].credits
  <2>1. /\ ActiveIn(L) = Active \ S
        /\ \A r \in Granted : L[r].cred = lease[r].cred /\ L[r].credits = lease[r].credits
    BY EndedLeases
  <2>2. ActiveIn(lease) = Active /\ Active \subseteq Granted
    BY DEF ActiveIn, GrantedIn, Active, Granted
  <2> HIDE DEF L
  <2> QED BY <2>1, <2>2 DEF OnKey
<1>4. /\ Credits(T) \in Nat /\ Cardinality(T) \in Nat
      /\ key[k].resCredits \in Nat /\ key[k].resRequests \in Nat
      /\ key[k].usedCredits \in Nat /\ key[k].usedRequests \in Nat /\ key[k].gen \in 0..MaxGen
  BY <1>2, BooksCredits, CountNat DEF BooksOK, KeyEntry
<1> HIDE DEF T, L, A, e
<1>5. /\ e.resCredits \in Nat /\ e.resCredits + Credits(T) >= key[k].resCredits
      /\ e.resRequests \in Nat /\ e.resRequests + Cardinality(T) >= key[k].resRequests
  BY <1>1, <1>4, LessFacts
<1>6. e \in KeyEntry  BY <1>1, <1>4, <1>5 DEF KeyEntry
<1>7. e.resCredits = CreditsIn(L, OnKey(L, k))
  <2>1. LeasesOK(lease) /\ A \subseteq GrantedIn(lease)
    BY <1>2 DEF BooksOK, GrantedIn, Granted
  <2>2. CreditsIn(lease, A) = CreditsIn(lease, A \ T) + CreditsIn(lease, T)
    BY <1>2, <2>1, CreditsSplit
  <2>3. key[k].resCredits = CreditsIn(lease, A) /\ Credits(T) = CreditsIn(lease, T)
    BY <1>2, BooksCredits DEF A
  <2>4. CreditsIn(L, A \ T) = CreditsIn(lease, A \ T)
    BY <1>2, <1>3, CreditsSame
  <2>5. CreditsIn(lease, A \ T) \in Nat /\ CreditsIn(lease, T) \in Nat
    BY <1>2, <2>1, UnitsFinite
  <2>6. \A a, b \in Nat : Less(a + b, b) = a  BY DEF Less
  <2> QED BY <1>1, <1>3, <2>2, <2>3, <2>4, <2>5, <2>6
<1>8. ASSUME KeyBooked(lease, k, key[k]) PROVE KeyBooked(lease, k, e)
  <2> DEFINE G == OfGen(lease, k, key[k].gen)
  <2>1. G \in SUBSET Granted /\ G \subseteq Requests
    BY DEF OfGen, GrantedIn, Granted
  <2>2. CreditsIn(lease, G) \in Nat /\ Cardinality(G) \in Nat
    BY <2>1, BooksCredits, CountNat
  <2>3. /\ CreditsIn(lease, G) <= key[k].resCredits + key[k].usedCredits
        /\ Cardinality(G) <= key[k].resRequests + key[k].usedRequests
    BY <1>8 DEF KeyBooked
  <2>4. /\ CreditsIn(lease, G) <= e.resCredits + e.usedCredits
        /\ Cardinality(G) <= e.resRequests + e.usedRequests
    BY <2>2, <2>3, <1>1, <1>4, <1>5
  <2> QED BY <2>4, <1>1, <1>8 DEF KeyBooked
<1> QED BY <1>1, <1>6, <1>7, <1>8 DEF e, L

\* A key that starts from zero has no open leases, nor any of its new generation.
LEMMA EntryKey ==
    ASSUME AuthorityInv, BooksOK, NEW C, NEW g \in [Keys -> Gens], NEW k \in Keys
    PROVE  LET e == Entries(C, g)[k]
               L == LeaseAfter(Expired)
           IN  /\ e \in KeyEntry
               /\ e.gen \in {key[k].gen, g[k]}
               /\ k \in C /\ Admitted(g[k], KeyAfter(Expired)[k]) => e.gen = g[k]
               /\ e.resCredits = CreditsIn(L, OnKey(L, k))
               /\ KeyBooked(lease, k, key[k]) /\ key[k].gen <= e.gen => KeyBooked(lease, k, e)
<1> DEFINE e == Entries(C, g)[k]
           L == LeaseAfter(Expired)
           a == KeyAfter(Expired)[k]
<1>1. /\ a \in KeyEntry /\ a.gen = key[k].gen
      /\ a.resCredits = CreditsIn(L, OnKey(L, k))
      /\ KeyBooked(lease, k, key[k]) => KeyBooked(lease, k, a)
  BY ExpiredOpen, EndedKey
<1>2. a.resRequests = Cardinality(OnKey(L, k))  BY ExpiredOpen, EndedCounters
<1>3. e = IF k \in C /\ Admitted(g[k], a) THEN Fresh(g[k], a) ELSE a
  BY DEF Entries
<1>4. OnKey(L, k) \subseteq Requests  BY DEF OnKey, ActiveIn, GrantedIn
<1>5. g[k] \in 0..MaxGen /\ g[k] \in Nat /\ key[k].gen \in Nat /\ MaxGen \in Nat
  BY AuthorityAssumption DEF Gens, BooksOK, KeyEntry
<1> DEFINE Goal == /\ e \in KeyEntry
                   /\ e.gen \in {key[k].gen, g[k]}
                   /\ k \in C /\ Admitted(g[k], a) => e.gen = g[k]
                   /\ e.resCredits = CreditsIn(L, OnKey(L, k))
                   /\ KeyBooked(lease, k, key[k]) /\ key[k].gen <= e.gen
                         => KeyBooked(lease, k, e)
<1> SUFFICES Goal  OBVIOUS
<1> HIDE DEF e, L, a
<1>6. CASE e = a /\ (k \in C /\ Admitted(g[k], a) => a.gen = g[k])
  BY <1>1, <1>6
<1>7. CASE ~(e = a /\ (k \in C /\ Admitted(g[k], a) => a.gen = g[k]))
  <2>1. /\ k \in C /\ a.gen # g[k] /\ a.resRequests = 0
        /\ e = [gen |-> g[k], resCredits |-> 0, resRequests |-> 0,
                usedCredits |-> 0, usedRequests |-> 0]
    BY <1>3, <1>7 DEF Admitted, Fresh
  <2>2. OnKey(L, k) = {}  BY <1>2, <1>4, <2>1, RequestsFinite, FS_EmptySet
  <2>3. CreditsIn(L, OnKey(L, k)) = 0  BY <2>2, CreditsNone
  <2>4. e \in KeyEntry  BY <1>5, <2>1 DEF KeyEntry
  <2>5. ASSUME KeyBooked(lease, k, key[k]), key[k].gen <= e.gen PROVE KeyBooked(lease, k, e)
    <3>1. \A r \in GrantedIn(lease) : lease[r].cred = k => lease[r].gen <= key[k].gen
      BY <2>5 DEF KeyBooked
    <3>2. key[k].gen < g[k]
      <4>1. key[k].gen # g[k] /\ e.gen = g[k]  BY <1>1, <2>1
      <4> QED BY <4>1, <1>5, <2>5
    <3>3. \A r \in GrantedIn(lease) : lease[r].gen \in Nat
      BY AuthorityAssumption DEF Gens, AuthorityInv, ClockOK, GrantedIn, Lease
    <3>4. OfGen(lease, k, g[k]) = {}  BY <1>5, <3>1, <3>2, <3>3 DEF OfGen
    <3>5. \A r \in GrantedIn(lease) : lease[r].cred = k => lease[r].gen <= g[k]
      BY <1>5, <3>1, <3>2, <3>3
    <3> QED BY <2>1, <3>4, <3>5, CreditsNone, FS_EmptySet DEF KeyBooked
  <2> QED BY <2>1, <2>3, <2>4, <2>5
<1> QED BY <1>6, <1>7

LEMMA CountersTyped ==
    ASSUME AuthorityInv, BooksOK
    PROVE  /\ \A S \in SUBSET Active : DomainAfter(S) \in Domain
           /\ \A d \in Domain, e \in Epochs : ReconcileDomain(d, e) \in Domain
           /\ ReconcileReport \in Report
<1>1. ASSUME NEW S \in SUBSET Active PROVE DomainAfter(S) \in Domain
  <2>1. domain \in Domain /\ Cardinality(S) \in Nat
    BY CountNat DEF BooksOK, Active, Granted
  <2>2. domain.epoch \in Epochs /\ domain.minute \in SUBSET Requests /\ domain.active \in Nat
    BY <2>1 DEF Domain
  <2>3. Less(domain.active, Cardinality(S)) \in Nat  BY <2>1, <2>2, LessFacts
  <2> QED BY <2>2, <2>3 DEF DomainAfter, Domain
<1>2. \A d \in Domain, e \in Epochs : ReconcileDomain(d, e) \in Domain
  BY DEF ReconcileDomain, Recent, Domain
<1>3. ReconcileReport \in Report
  BY DEF ReconcileReport, NoReport, Report, BooksOK
<1> QED BY <1>1, <1>2, <1>3

\* Every call that only ends leases keeps the books.
LEMMA EndedBooks ==
    ASSUME AuthorityInv, BooksOK, NEW S, S \subseteq Active, UNCHANGED cluster,
           lease' = LeaseAfter(S), key' \in [Keys -> KeyEntry],
           \A k \in Keys : key'[k].resCredits = CreditsIn(lease', OnKey(lease', k)),
           domain' \in Domain, report' \in Report, window' \in Window,
           PlanBooked(lease, window'), window'.day <= Today, window'.month <= ThisMonth
    PROVE  BooksOK'
<1>1. SameGrants(lease, lease')  BY EndedGrants
<1>2. LeasesOK(lease') /\ PlanBooked(lease', window')
  BY <1>1, SameBooked DEF BooksOK
<1>3. now' = now /\ Today' = Today /\ ThisMonth' = ThisMonth
  BY DEF cluster, Today, ThisMonth
<1>4. CreditsCounted'
  <2>1. ASSUME NEW k \in Keys
        PROVE  Credits({r \in Active : lease[r].cred = k})' = CreditsIn(lease', OnKey(lease', k))
    BY DEF Credits, CreditsIn, Units, OnKey, ActiveIn, GrantedIn, Active, Granted
  <2> QED BY <2>1 DEF CreditsCounted
<1> QED BY <1>2, <1>3, <1>4 DEF BooksOK

\* Nor does it exceed a key's limits.
LEMMA EndedKeys ==
    ASSUME AuthorityInv, KeysOK, NEW S, S \subseteq Active,
           lease' = LeaseAfter(S),
           \A k \in Keys : KeyBooked(lease, k, key'[k])
    PROVE  KeysOK'
<1>1. SameGrants(lease, lease')  BY EndedGrants
<1>2. \A k \in Keys : KeyBooked(lease', k, key'[k])
  BY <1>1, SameBooked
<1>3. KeyLimitsKept'
  <2> SUFFICES ASSUME NEW k \in Keys, NEW g \in Gens
               PROVE  /\ Credits({r \in Granted : lease[r].cred = k /\ lease[r].gen = g})' <= KeyCredits
                      /\ Cardinality({r \in Granted : lease[r].cred = k /\ lease[r].gen = g})'
                            <= KeyRequests
    BY DEF KeyLimitsKept
  <2>1. /\ CreditsIn(lease, OfGen(lease, k, g)) <= KeyCredits
        /\ Cardinality(OfGen(lease, k, g)) <= KeyRequests
    BY DEF KeysOK, KeyLimitsKept, Credits, CreditsIn, Units, OfGen, GrantedIn, Granted
  <2>2. /\ OfGen(lease', k, g) = OfGen(lease, k, g)
        /\ CreditsIn(lease', OfGen(lease', k, g)) = CreditsIn(lease, OfGen(lease, k, g))
    BY <1>1, SameBooked
  <2>3. /\ CreditsIn(lease', OfGen(lease', k, g)) <= KeyCredits
        /\ Cardinality(OfGen(lease', k, g)) <= KeyRequests
    BY <2>1, <2>2
  <2> QED BY <2>3 DEF Credits, CreditsIn, Units, OfGen, GrantedIn, Granted
<1> QED BY <1>2, <1>3 DEF KeysOK

\* M is L with one more lease.
Added(L, M, r) ==
    /\ r \notin GrantedIn(L) /\ GrantedIn(M) = GrantedIn(L) \cup {r}
    /\ \A q \in GrantedIn(L) : M[q] = L[q]

\* A lease booked in the current window, and within its limit, is covered.
LEMMA GrantKept ==
    ASSUME NEW L, NEW M, NEW r, Added(L, M, r), LeasesOK(M), NEW t, NEW len,
           M[r].granted \div len = t, t \in Int, NEW b \in Nat, NEW l \in Nat,
           Kept(L, len, t, b, l), b + M[r].credits <= l
    PROVE  Kept(M, len, t, b + M[r].credits, l)
<1> DEFINE S == InWindow(L, len, t)
           T == InWindow(M, len, t)
<1>1. M[r].credits \in Nat  BY AuthorityAssumption DEF LeasesOK, Added
<1>2. T = S \cup {r} /\ S \subseteq GrantedIn(M) /\ r \in GrantedIn(M) \ S /\ T \subseteq GrantedIn(M)
  BY DEF InWindow, Added
<1>3. \A q \in S : L[q].credits = M[q].credits  BY DEF InWindow, Added
<1>4. \A q \in GrantedIn(M) : M[q].granted \div len <= t
  BY DEF Kept, Added
<1> HIDE DEF S, T
<1>5. CreditsIn(M, T) = CreditsIn(L, S) + M[r].credits  BY <1>2, <1>3, CreditsAdd
<1>6. CreditsIn(L, S) \in Nat
  <2>1. CreditsIn(L, S) = CreditsIn(M, S)  BY <1>3, CreditsSame
  <2> QED BY <2>1, <1>2, UnitsFinite
<1>7. CreditsIn(L, S) <= b  BY DEF Kept, S
<1>8. CreditsIn(M, T) <= b + M[r].credits /\ CreditsIn(M, T) <= l
  BY <1>1, <1>5, <1>6, <1>7
<1> QED BY <1>4, <1>8 DEF Kept, T

\* What a grant on key k changes, over the books that were brought up to date.
GrantOn(r, c, k, e, w, g) ==
    /\ Added(LeaseAfter(Expired), lease', r)
    /\ lease'[r].cred = k /\ lease'[r].gen = g[k]
    /\ lease'[r].credits = c /\ lease'[r].granted = now /\ ~lease'[r].terminal
    /\ c \in 0..MaxLease /\ WithinKey(e[k], c) /\ WithinPlan(w, c)
    /\ e[k].gen = g[k]
    /\ key' = [e EXCEPT ![k] = [gen |-> g[k],
                                resCredits |-> e[k].resCredits + c,
                                resRequests |-> e[k].resRequests + 1,
                                usedCredits |-> e[k].usedCredits,
                                usedRequests |-> e[k].usedRequests]]
    /\ window' = [w EXCEPT !.dayReserved = @ + c, !.monthReserved = @ + c]
    /\ domain' \in Domain /\ report' \in Report /\ UNCHANGED cluster

LEMMA GrantFacts ==
    ASSUME AuthorityInv, BooksOK, NEW p \in Procs, NEW r \in Requests, NEW c \in Costs,
           NEW C \in SUBSET Keys, NEW g \in [Keys -> Gens], GrantNew(p, r, c, C, g)
    PROVE  \E k \in Keys : GrantOn(r, c, k, Entries(C, g),
                                   ReconcileWindow(WindowAfter(window, Expired)), g)
<1> DEFINE d == ReconcileDomain(DomainAfter(Expired), known[p])
           e == Entries(C, g)
           w == ReconcileWindow(WindowAfter(window, Expired))
           L == LeaseAfter(Expired)
<1>1. PICK k \in Eligible(C, g, c, d) :
         /\ lease' = [L EXCEPT ![r] = [cred |-> k, gen |-> g[k], epoch |-> known[p],
                                       credits |-> c, granted |-> now, terminal |-> FALSE]]
         /\ key' = [e EXCEPT ![k] = [gen |-> g[k],
                                     resCredits |-> e[k].resCredits + c,
                                     resRequests |-> e[k].resRequests + 1,
                                     usedCredits |-> e[k].usedCredits,
                                     usedRequests |-> e[k].usedRequests]]
  BY DEF GrantNew
<1>2. /\ lease[r] = None /\ c <= MaxLease
      /\ domain' = [epoch |-> known[p], minute |-> d.minute \cup {r}, active |-> d.active + 1]
      /\ window' = [w EXCEPT !.dayReserved = @ + c, !.monthReserved = @ + c]
      /\ report' = ReconcileReport /\ UNCHANGED cluster
  BY DEF GrantNew
<1>3. k \in Keys /\ k \in C /\ Admitted(g[k], KeyAfter(Expired)[k]) /\ WithinKey(e[k], c) /\ WithinPlan(w, c)
  BY <1>1 DEF Eligible
<1>4. /\ L \in [Requests -> Lease \cup {None}] /\ GrantedIn(L) = Granted
  BY ExpiredOpen, EndedLeases
<1>5. e[k].gen = g[k]  BY <1>3, EntryKey
<1>6. known[p] \in Epochs /\ now \in 0..MaxTime  BY DEF AuthorityInv, ClockOK
<1>7. domain' \in Domain /\ report' \in Report
  <2>1. d \in Domain /\ ReconcileReport \in Report  BY <1>6, ExpiredOpen, CountersTyped
  <2> HIDE DEF d
  <2> QED BY <2>1, <1>2, <1>6 DEF Domain
<1> DEFINE new == [cred |-> k, gen |-> g[k], epoch |-> known[p],
                   credits |-> c, granted |-> now, terminal |-> FALSE]
<1>8. new \in Lease  BY <1>3, <1>6, AuthorityAssumption DEF Lease
<1> HIDE DEF L, d, e, w
<1>9. /\ lease'[r] = new /\ new # None
      /\ \A q \in Requests \ {r} : lease'[q] = L[q]
  BY <1>1, <1>4, <1>8, NoneAssumption
<1>10. Added(L, lease', r)
  <2>1. r \notin GrantedIn(L)  BY <1>2, <1>4 DEF Granted
  <2> HIDE DEF new
  <2> QED BY <1>9, <2>1 DEF Added, GrantedIn
<1>11. c \in 0..MaxLease  BY <1>2, AuthorityAssumption
<1>12. /\ lease'[r].cred = k /\ lease'[r].gen = g[k]
       /\ lease'[r].credits = c /\ lease'[r].granted = now /\ ~lease'[r].terminal
  BY <1>9
<1> HIDE DEF new
<1>13. GrantOn(r, c, k, e, w, g)
  BY <1>1, <1>2, <1>3, <1>5, <1>7, <1>10, <1>11, <1>12 DEF GrantOn, L
<1> QED BY <1>3, <1>13 DEF e, w

\* So every call starts from books that cover the leases.
LEMMA ExpiredBooked ==
    ASSUME AuthorityInv, BooksOK
    PROVE  LET v == WindowAfter(window, Expired)
               w == ReconcileWindow(v)
           IN  /\ v \in Window /\ PlanBooked(lease, v) /\ v.day <= Today /\ v.month <= ThisMonth
               /\ w \in Window /\ PlanBooked(lease, w) /\ w.day = Today /\ w.month = ThisMonth
<1> DEFINE v == WindowAfter(window, Expired)
<1>1. Expired \in SUBSET Granted  BY DEF Expired, Active
<1>2. v \in Window /\ PlanBooked(lease, v) /\ v.day <= Today /\ v.month <= ThisMonth
  BY <1>1, BooksCredits, AfterBooked DEF BooksOK
<1>3. now \in Nat /\ \A q \in GrantedIn(lease) : lease[q].granted \in Nat
  BY AuthorityAssumption DEF AuthorityInv, ClockOK, GrantedIn, Lease
<1> HIDE DEF v
<1>4. /\ ReconcileWindow(v) \in Window /\ PlanBooked(lease, ReconcileWindow(v))
      /\ ReconcileWindow(v).day = Today /\ ReconcileWindow(v).month = ThisMonth
  BY <1>2, <1>3, RolledBooked
<1> QED BY <1>2, <1>4 DEF v

\* A grant keeps the books: the lease fits in the plan, and is reserved.
LEMMA GrantBooks ==
    ASSUME AuthorityInv, BooksOK, NEW p \in Procs, NEW r \in Requests, NEW c \in Costs,
           NEW C \in SUBSET Keys, NEW g \in [Keys -> Gens], GrantNew(p, r, c, C, g)
    PROVE  BooksOK'
<1> DEFINE e == Entries(C, g)
           v == WindowAfter(window, Expired)
           w == ReconcileWindow(v)
           L == LeaseAfter(Expired)
<1>1. PICK k \in Keys : GrantOn(r, c, k, e, w, g)  BY GrantFacts
<1>2. /\ c \in Nat /\ c \in 0..MaxLease /\ now \in Nat /\ Today \in Nat /\ ThisMonth \in Nat
      /\ DayLimit \in Nat /\ MonthLimit \in Nat
  BY <1>1, AuthorityAssumption DEF GrantOn, AuthorityInv, ClockOK, Today, ThisMonth
<1>3. SameGrants(lease, L)  BY ExpiredOpen, EndedGrants
<1>4. LeasesOK(lease) /\ PlanBooked(lease, window) /\ window \in Window
      /\ window.day <= Today /\ window.month <= ThisMonth
  BY DEF BooksOK
<1>5. w \in Window /\ PlanBooked(lease, w) /\ w.day = Today /\ w.month = ThisMonth
  BY ExpiredBooked
<1>6. LeasesOK(L) /\ PlanBooked(L, w)  BY <1>3, <1>4, <1>5, SameBooked
<1>7. \A m \in Keys : e[m] \in KeyEntry /\ e[m].resCredits = CreditsIn(L, OnKey(L, m))
  BY EntryKey
<1>8. DOMAIN e = Keys /\ e = [m \in Keys |-> e[m]]  BY DEF Entries
<1> HIDE DEF e, v, w, L
<1>9. /\ Added(L, lease', r)
      /\ lease'[r].cred = k /\ lease'[r].credits = c /\ lease'[r].granted = now
      /\ ~lease'[r].terminal /\ WithinPlan(w, c)
      /\ window' = [w EXCEPT !.dayReserved = @ + c, !.monthReserved = @ + c]
      /\ domain' \in Domain /\ report' \in Report /\ UNCHANGED cluster
  BY <1>1 DEF GrantOn, L
<1>10. key' \in [Keys -> KeyEntry]
  <2>1. [gen |-> g[k], resCredits |-> e[k].resCredits + c, resRequests |-> e[k].resRequests + 1,
         usedCredits |-> e[k].usedCredits, usedRequests |-> e[k].usedRequests] \in KeyEntry
    <3>1. e[k].gen = g[k] /\ e[k] \in KeyEntry  BY <1>1, <1>7 DEF GrantOn
    <3> QED BY <3>1, <1>2 DEF KeyEntry
  <2> QED BY <1>1, <1>7, <1>8, <2>1 DEF GrantOn
<1>11. LeasesOK(lease')  BY <1>2, <1>6, <1>9 DEF LeasesOK, Added
<1>12. CreditsCounted'
  <2> SUFFICES ASSUME NEW m \in Keys
               PROVE  key'[m].resCredits = CreditsIn(lease', OnKey(lease', m))
    BY DEF CreditsCounted, Credits, CreditsIn, Units, OnKey, ActiveIn, GrantedIn, Active, Granted
  <2>1. OnKey(L, m) \subseteq GrantedIn(L)  BY DEF OnKey, ActiveIn
  <2>2. CASE m = k
    <3>1. OnKey(lease', m) = OnKey(L, m) \cup {r}
      BY <1>9, <2>2 DEF OnKey, ActiveIn, Added
    <3>2. /\ OnKey(L, m) \subseteq GrantedIn(lease') /\ r \in GrantedIn(lease') \ OnKey(L, m)
          /\ \A q \in OnKey(L, m) : L[q].credits = lease'[q].credits
      BY <1>9, <2>1 DEF Added
    <3>3. CreditsIn(lease', OnKey(lease', m)) = CreditsIn(L, OnKey(L, m)) + c
      BY <1>9, <1>11, <3>1, <3>2, CreditsAdd
    <3>4. key'[m].resCredits = e[m].resCredits + c  BY <1>1, <1>8, <2>2 DEF GrantOn
    <3> QED BY <1>7, <3>3, <3>4
  <2>3. CASE m # k
    <3>1. OnKey(lease', m) = OnKey(L, m)
      BY <1>9, <2>3 DEF OnKey, ActiveIn, Added
    <3>2. \A q \in OnKey(L, m) : L[q].credits = lease'[q].credits
      BY <1>9, <2>1 DEF Added
    <3>3. CreditsIn(lease', OnKey(lease', m)) = CreditsIn(L, OnKey(L, m))
      BY <3>1, <3>2, CreditsSame
    <3>4. key'[m] = e[m]  BY <1>1, <1>8, <2>3 DEF GrantOn
    <3> QED BY <1>7, <3>3, <3>4
  <2> QED BY <2>2, <2>3
<1>13. /\ w.dayReserved \in Nat /\ w.dayUsed \in Nat
       /\ w.monthReserved \in Nat /\ w.monthUsed \in Nat
  BY <1>5 DEF Window
<1>14. /\ window' \in Window /\ window'.day = Today /\ window'.month = ThisMonth
       /\ window'.dayReserved = w.dayReserved + c /\ window'.dayUsed = w.dayUsed
       /\ window'.monthReserved = w.monthReserved + c /\ window'.monthUsed = w.monthUsed
  <2> DEFINE a == w.dayReserved + c
             b == w.monthReserved + c
  <2>1. a \in Nat /\ b \in Nat  BY <1>2, <1>13
  <2>2. window' = [w EXCEPT !.dayReserved = a, !.monthReserved = b]  BY <1>9
  <2> HIDE DEF a, b
  <2>3. /\ window' \in Window /\ window'.day = w.day /\ window'.month = w.month
        /\ window'.dayReserved = a /\ window'.dayUsed = w.dayUsed
        /\ window'.monthReserved = b /\ window'.monthUsed = w.monthUsed
    BY <1>5, <2>1, <2>2 DEF Window
  <2> QED BY <1>5, <2>3 DEF a, b
<1>15. PlanBooked(lease', window')
  <2>1. /\ Kept(L, Day, Today, w.dayReserved + w.dayUsed, DayLimit)
        /\ Kept(L, Month, ThisMonth, w.monthReserved + w.monthUsed, MonthLimit)
    BY <1>5, <1>6 DEF PlanBooked
  <2>2. /\ w.dayReserved + w.dayUsed \in Nat /\ w.dayReserved + w.dayUsed + c <= DayLimit
        /\ w.monthReserved + w.monthUsed \in Nat
        /\ w.monthReserved + w.monthUsed + c <= MonthLimit
    BY <1>9, <1>13 DEF WithinPlan
  <2>3. /\ lease'[r].granted \div Day = Today /\ lease'[r].granted \div Month = ThisMonth
    BY <1>9 DEF Today, ThisMonth
  <2>4. Kept(lease', Day, Today, w.dayReserved + w.dayUsed + lease'[r].credits, DayLimit)
    BY <1>2, <1>9, <1>11, <2>1, <2>2, <2>3, GrantKept
  <2>5. Kept(lease', Month, ThisMonth, w.monthReserved + w.monthUsed + lease'[r].credits, MonthLimit)
    BY <1>2, <1>9, <1>11, <2>1, <2>2, <2>3, GrantKept
  <2>6. /\ window'.dayReserved + window'.dayUsed = w.dayReserved + w.dayUsed + c
        /\ window'.monthReserved + window'.monthUsed = w.monthReserved + w.monthUsed + c
    BY <1>2, <1>13, <1>14
  <2> QED BY <1>9, <1>14, <2>4, <2>5, <2>6 DEF PlanBooked
<1>16. Today' = Today /\ ThisMonth' = ThisMonth  BY <1>9 DEF cluster, Today, ThisMonth
<1>17. window'.day <= Today' /\ window'.month <= ThisMonth'  BY <1>2, <1>14, <1>16
<1> QED BY <1>9, <1>10, <1>11, <1>12, <1>14, <1>15, <1>17 DEF BooksOK

\* Only the clock, the desired state and what processes know of it changed.
LEMMA ClusterBooks ==
    ASSUME AuthorityInv, BooksOK, UNCHANGED <<lease, key, domain, window, report>>,
           now' \in {now, now + 1}
    PROVE  BooksOK'
<1>1. CreditsCounted'
  BY DEF BooksOK, CreditsCounted, Credits, Active, Granted
<1>2. /\ now \in Nat /\ Day \in Nat \ {0} /\ Month \in Nat \ {0}
      /\ window.day \in Nat /\ window.month \in Nat
      /\ window.day <= now \div Day /\ window.month <= now \div Month
  BY AuthorityAssumption DEF AuthorityInv, ClockOK, BooksOK, Window, Today, ThisMonth
<1>3. \A len \in Nat \ {0} : now \div len <= now' \div len /\ now \div len \in Int /\ now' \div len \in Int
  BY <1>2
<1>4. window'.day <= Today' /\ window'.month <= ThisMonth'
  BY <1>2, <1>3 DEF Today, ThisMonth
<1> QED BY <1>1, <1>4 DEF BooksOK

LEMMA BooksInit == Init => BooksOK
<1> SUFFICES ASSUME Init PROVE BooksOK
  OBVIOUS
<1>1. Granted = {} /\ Active = {} /\ GrantedIn(lease) = {}
  BY DEF Init, Granted, Active, GrantedIn
<1>2. LeasesOK(lease)  BY <1>1 DEF LeasesOK
<1>3. key \in [Keys -> KeyEntry] /\ domain \in Domain /\ window \in Window /\ report \in Report
  BY AuthorityAssumption DEF Init, KeyEntry, Domain, Epochs, Window, Report, NoReport
<1>4. CreditsCounted
  <2>1. \A k \in Keys : {r \in Active : lease[r].cred = k} = {}  BY <1>1
  <2>2. Credits({}) = 0  BY CreditsNone DEF Credits, CreditsIn, Units
  <2> QED BY <2>1, <2>2 DEF Init, CreditsCounted
<1>5. window.day <= Today /\ window.month <= ThisMonth
  BY AuthorityAssumption DEF Init, Today, ThisMonth
<1>6. PlanBooked(lease, window)
  <2>1. \A len, d : InWindow(lease, len, d) = {}  BY <1>1 DEF InWindow
  <2>2. DayLimit \in Nat /\ MonthLimit \in Nat  BY AuthorityAssumption
  <2>3. ASSUME NEW len, NEW d, NEW l \in Nat PROVE Kept(lease, len, d, 0, l)
    BY <1>1, <2>1, CreditsNone DEF Kept
  <2>4. /\ window.dayReserved + window.dayUsed = 0
        /\ window.monthReserved + window.monthUsed = 0
    BY DEF Init
  <2> QED BY <2>2, <2>3, <2>4 DEF PlanBooked
<1> QED BY <1>2, <1>3, <1>4, <1>5, <1>6 DEF BooksOK

LEMMA BooksStep == AuthorityInv /\ BooksOK /\ [Next]_vars => BooksOK'
<1> SUFFICES ASSUME AuthorityInv, BooksOK, [Next]_vars PROVE BooksOK'
  OBVIOUS
<1> DEFINE v == WindowAfter(window, Expired)
           w == ReconcileWindow(v)
<1>0. /\ Expired \subseteq Active /\ Expired \in SUBSET Active
      /\ v \in Window /\ PlanBooked(lease, v) /\ v.day <= Today /\ v.month <= ThisMonth
      /\ w \in Window /\ PlanBooked(lease, w) /\ w.day = Today /\ w.month = ThisMonth
      /\ Today \in Int /\ ThisMonth \in Int
  <2>1. Today \in Int /\ ThisMonth \in Int
    BY AuthorityAssumption DEF Today, ThisMonth, AuthorityInv, ClockOK
  <2> QED BY <2>1, ExpiredOpen, ExpiredBooked
<1> HIDE DEF v, w
<1>1. ASSUME NEW p \in Procs, NEW r \in Requests, NEW c \in Costs,
             NEW C \in SUBSET Keys \ {{}}, NEW g \in Candidates, GrantNew(p, r, c, C, g)
      PROVE  BooksOK'
  <2>1. g \in [Keys -> Gens]  BY DEF Candidates
  <2> QED BY <1>1, <2>1, GrantBooks
<1>2. ASSUME NEW p \in Procs, NEW r \in Requests, NEW c \in Costs,
             NEW C \in SUBSET Keys \ {{}}, NEW g \in Candidates, GrantRefused(p, r, c, C, g)
      PROVE  BooksOK'
  <2>1. /\ lease' = LeaseAfter(Expired) /\ key' = Entries(C, g) /\ window' = w
        /\ domain' = ReconcileDomain(DomainAfter(Expired), known[p])
        /\ report' = ReconcileReport /\ UNCHANGED cluster
    BY <1>2 DEF GrantRefused, w, v
  <2>2. known[p] \in Epochs /\ g \in [Keys -> Gens]
    BY DEF AuthorityInv, ClockOK, Candidates
  <2>3. domain' \in Domain /\ report' \in Report  BY <1>0, <2>1, <2>2, CountersTyped
  <2>4. \A k \in Keys : Entries(C, g)[k] \in KeyEntry
                        /\ Entries(C, g)[k].resCredits = CreditsIn(lease', OnKey(lease', k))
    BY <2>1, <2>2, EntryKey
  <2>5. key' \in [Keys -> KeyEntry]  BY <2>1, <2>4 DEF Entries
  <2> QED BY <1>0, <2>1, <2>3, <2>4, <2>5, EndedBooks
<1>3. ASSUME NEW S, S \subseteq Active, lease' = LeaseAfter(S), key' = KeyAfter(S),
             domain' \in Domain, report' \in Report, window' \in Window, UNCHANGED cluster,
             PlanBooked(lease, window'), window'.day <= Today, window'.month <= ThisMonth
      PROVE  BooksOK'
  <2>1. \A k \in Keys : KeyAfter(S)[k] \in KeyEntry
                        /\ KeyAfter(S)[k].resCredits = CreditsIn(lease', OnKey(lease', k))
    BY <1>3, EndedKey
  <2>2. key' \in [Keys -> KeyEntry]  BY <1>3, <2>1 DEF KeyAfter
  <2> QED BY <1>3, <2>1, <2>2, EndedBooks
<1>4. ASSUME WriteExpired PROVE BooksOK'
  <2>1. /\ lease' = LeaseAfter(Expired) /\ key' = KeyAfter(Expired) /\ window' = v
        /\ domain' = DomainAfter(Expired) /\ report' = report /\ UNCHANGED cluster
    BY <1>4 DEF WriteExpired, v
  <2>2. domain' \in Domain /\ report' \in Report
    BY <1>0, <2>1, CountersTyped DEF BooksOK
  <2> QED BY <1>0, <1>3, <2>1, <2>2
<1>5. ASSUME NEW e \in Epochs, BringUpToDate(e) PROVE BooksOK'
  <2>1. /\ lease' = LeaseAfter(Expired) /\ key' = KeyAfter(Expired) /\ window' = w
        /\ domain' = ReconcileDomain(DomainAfter(Expired), e)
        /\ report' = ReconcileReport /\ UNCHANGED cluster
    BY <1>5 DEF BringUpToDate, w, v
  <2>2. domain' \in Domain /\ report' \in Report  BY <1>0, <2>1, CountersTyped
  <2> QED BY <1>0, <1>3, <2>1, <2>2
<1>6. ASSUME NEW r \in Requests, lease[r] # None PROVE lease[r].epoch \in Epochs
  BY <1>6 DEF AuthorityInv, ClockOK, Lease
<1>7. ASSUME NEW p \in Procs, NEW r \in Requests, NEW rem \in Remains \cup {None},
             NEW at \in {None, now + 1}, Settle(p, r, rem, at)
      PROVE  BooksOK'
  <2> DEFINE S == Expired \cup {r}
             u == WindowAfter(w, {r})
  <2>1. /\ r \in Active /\ lease' = LeaseAfter(S) /\ key' = KeyAfter(S) /\ window' = u
        /\ domain' = ReconcileDomain(DomainAfter(S), lease[r].epoch)
        /\ report' = [remaining |-> IF rem = None THEN ReconcileReport.remaining ELSE rem,
                      resetAt |-> IF at = None THEN ReconcileReport.resetAt ELSE at]
        /\ UNCHANGED cluster
    BY <1>7 DEF Settle, w, v
  <2>2. S \in SUBSET Active /\ {r} \in SUBSET Granted /\ lease[r].epoch \in Epochs
    BY <1>0, <1>6, <2>1 DEF Active, Granted
  <2>3. domain' \in Domain  BY <2>1, <2>2, CountersTyped
  <2>4. report' \in Report
    <3>1. ReconcileReport \in Report /\ now + 1 \in Nat /\ Remains \subseteq Nat
      BY AuthorityAssumption, CountersTyped DEF AuthorityInv, ClockOK
    <3> QED BY <2>1, <3>1 DEF Report
  <2>5. u \in Window /\ PlanBooked(lease, u) /\ u.day = w.day /\ u.month = w.month
    <3>1. Credits({r}) \in Nat /\ LeasesOK(lease)  BY <2>2, BooksCredits DEF BooksOK
    <3> QED BY <1>0, <3>1, AfterBooked
  <2> HIDE DEF S, u
  <2> QED BY <1>0, <1>3, <2>1, <2>2, <2>3, <2>4, <2>5
<1>8. ASSUME UNCHANGED <<lease, key, domain, window, report>>, now' \in {now, now + 1}
      PROVE  BooksOK'
  BY <1>8, ClusterBooks
<1>9. CASE Tick  BY <1>8, <1>9 DEF Tick
<1>10. CASE AdvanceEpoch  BY <1>8, <1>10 DEF AdvanceEpoch
<1>11. ASSUME NEW p \in Procs, Refresh(p) PROVE BooksOK'  BY <1>8, <1>11 DEF Refresh
<1>12. ASSUME NEW k \in Keys, Rotate(k) PROVE BooksOK'  BY <1>8, <1>12 DEF Rotate
<1>13. CASE UNCHANGED vars  BY <1>8, <1>13 DEF vars
<1>14. ASSUME NEW p \in Procs, NEW r \in Requests, SettleAgain(p, r) PROVE BooksOK'
  <2>1. lease[r] # None /\ BringUpToDate(lease[r].epoch)
    BY <1>14 DEF SettleAgain, Granted, Active, Expired
  <2> QED BY <1>5, <1>6, <2>1
<1>15. CASE Status
  BY <1>5, <1>15 DEF Status, BooksOK, Domain
<1> QED BY <1>1, <1>2, <1>4, <1>7, <1>9, <1>10, <1>11, <1>12, <1>13, <1>14, <1>15
        DEF Next, GrantAgain, GrantTooLarge

\* A grant that takes no key back to an older generation keeps within its limits.
LEMMA GrantKeys ==
    ASSUME AuthorityInv, BooksOK, KeysOK, NEW p \in Procs, NEW r \in Requests, NEW c \in Costs,
           NEW C \in SUBSET Keys, NEW g \in [Keys -> Gens], GenerationsAdvance,
           GrantNew(p, r, c, C, g)
    PROVE  KeysOK'
<1> DEFINE e == Entries(C, g)
           w == ReconcileWindow(WindowAfter(window, Expired))
           L == LeaseAfter(Expired)
<1>1. PICK k \in Keys : GrantOn(r, c, k, e, w, g)  BY GrantFacts
<1>2. SameGrants(lease, L)  BY ExpiredOpen, EndedGrants
<1>3. /\ LeasesOK(L) /\ c \in Nat
      /\ KeyCredits \in Nat /\ KeyRequests \in Nat /\ Gens \subseteq Nat
  BY <1>1, <1>2, SameBooked, AuthorityAssumption DEF BooksOK, GrantOn, Gens
<1>4. \A m \in Keys : e[m] \in KeyEntry /\ KeyBooked(L, m, e[m])
  <2> SUFFICES ASSUME NEW m \in Keys PROVE e[m] \in KeyEntry /\ KeyBooked(L, m, e[m])
    OBVIOUS
  <2>1. KeyBooked(lease, m, key[m])  BY DEF KeysOK
  <2>2. key'[m].gen = e[m].gen  BY <1>1 DEF GrantOn, Entries
  <2>3. key[m].gen <= e[m].gen
    <3>1. key[m].gen \in Nat /\ e[m].gen \in Nat /\ key'[m].gen >= key[m].gen
      BY <1>3, EntryKey DEF BooksOK, KeyEntry, GenerationsAdvance
    <3> QED BY <2>2, <3>1
  <2>4. e[m] \in KeyEntry /\ KeyBooked(lease, m, e[m])  BY <2>1, <2>3, EntryKey
  <2> HIDE DEF e, L
  <2> QED BY <1>2, <2>4, SameBooked
<1>5. DOMAIN e = Keys  BY DEF Entries
<1>6. \A m \in Keys, h \in Gens : /\ CreditsIn(L, OfGen(L, m, h)) <= KeyCredits
                                  /\ Cardinality(OfGen(L, m, h)) <= KeyRequests
  <2> SUFFICES ASSUME NEW m \in Keys, NEW h \in Gens
               PROVE  /\ CreditsIn(L, OfGen(L, m, h)) <= KeyCredits
                      /\ Cardinality(OfGen(L, m, h)) <= KeyRequests
    OBVIOUS
  <2>1. /\ CreditsIn(lease, OfGen(lease, m, h)) <= KeyCredits
        /\ Cardinality(OfGen(lease, m, h)) <= KeyRequests
    BY DEF KeysOK, KeyLimitsKept, Credits, CreditsIn, Units, OfGen, GrantedIn, Granted
  <2> QED BY <1>2, <2>1, SameBooked
<1> HIDE DEF e, w, L
<1>7. /\ Added(L, lease', r) /\ lease'[r].cred = k /\ lease'[r].gen = g[k]
      /\ lease'[r].credits = c /\ WithinKey(e[k], c) /\ e[k].gen = g[k] /\ UNCHANGED cluster
  BY <1>1 DEF GrantOn, L
<1>8. LeasesOK(lease')
  BY <1>1, <1>3, <1>7 DEF LeasesOK, Added, GrantOn
<1> DEFINE S == OfGen(L, k, g[k])
           T == OfGen(lease', k, g[k])
<1>9. /\ T = S \cup {r} /\ S \subseteq GrantedIn(L) /\ GrantedIn(L) \subseteq Requests
      /\ S \subseteq GrantedIn(lease') /\ r \in GrantedIn(lease') \ S
      /\ \A q \in S : L[q].credits = lease'[q].credits
  BY <1>7 DEF OfGen, Added, GrantedIn
<1> HIDE DEF S, T
<1>10. CreditsIn(lease', T) = CreditsIn(L, S) + c /\ CreditsIn(L, S) \in Nat
  BY <1>3, <1>7, <1>8, <1>9, CreditsAdd, UnitsFinite
<1>11. Cardinality(T) = Cardinality(S) + 1 /\ Cardinality(S) \in Nat
  BY <1>9, RequestsFinite, CountNat, FS_AddElement
<1>12. /\ CreditsIn(L, S) <= e[k].resCredits + e[k].usedCredits
       /\ Cardinality(S) <= e[k].resRequests + e[k].usedRequests
       /\ e[k].resCredits + e[k].usedCredits + c <= KeyCredits
       /\ e[k].resRequests + e[k].usedRequests + 1 <= KeyRequests
       /\ e[k].resCredits \in Nat /\ e[k].usedCredits \in Nat
       /\ e[k].resRequests \in Nat /\ e[k].usedRequests \in Nat
  BY <1>4, <1>7 DEF KeyBooked, WithinKey, KeyEntry, S
<1>13. /\ key'[k].gen = g[k] /\ key'[k].resCredits = e[k].resCredits + c
       /\ key'[k].resRequests = e[k].resRequests + 1
       /\ key'[k].usedCredits = e[k].usedCredits /\ key'[k].usedRequests = e[k].usedRequests
       /\ \A m \in Keys \ {k} : key'[m] = e[m]
  BY <1>1, <1>5 DEF GrantOn
<1>14. ASSUME NEW m \in Keys, NEW h, ~(m = k /\ h = g[k])
       PROVE  /\ OfGen(lease', m, h) = OfGen(L, m, h)
              /\ CreditsIn(lease', OfGen(lease', m, h)) = CreditsIn(L, OfGen(L, m, h))
  <2>1. OfGen(lease', m, h) = OfGen(L, m, h)  BY <1>7, <1>14 DEF OfGen, Added
  <2>2. \A q \in OfGen(L, m, h) : L[q].credits = lease'[q].credits
    BY <1>7 DEF OfGen, Added
  <2> QED BY <2>1, <2>2, CreditsSame
<1>15. ASSUME NEW m \in Keys PROVE KeyBooked(lease', m, key'[m])
  <2>2. CASE m = k
    <3>1. \A q \in GrantedIn(lease') : lease'[q].cred = k => lease'[q].gen <= g[k]
      <4>1. \A q \in GrantedIn(L) : L[q].cred = k => L[q].gen <= g[k]
        BY <1>4, <1>7 DEF KeyBooked
      <4>2. g[k] \in Nat  BY <1>3, Zenon
      <4>3. g[k] <= g[k]  BY <4>2
      <4> QED BY <4>1, <4>3, <1>7 DEF Added
    <3>2. /\ CreditsIn(lease', T) <= key'[k].resCredits + key'[k].usedCredits
          /\ Cardinality(T) <= key'[k].resRequests + key'[k].usedRequests
      BY <1>3, <1>10, <1>11, <1>12, <1>13
    <3>3. KeyBooked(lease', k, key'[k])  BY <1>13, <3>1, <3>2 DEF KeyBooked, T
    <3> QED BY <2>2, <3>3
  <2>3. CASE m # k
    <3>1. \A q \in GrantedIn(lease') : lease'[q].cred = m => q \in GrantedIn(L) /\ lease'[q] = L[q]
      BY <1>7, <2>3 DEF Added
    <3>2. KeyBooked(L, m, e[m])  BY <1>4
    <3>3. KeyBooked(lease', m, e[m])  BY <1>14, <2>3, <3>1, <3>2 DEF KeyBooked
    <3> QED BY <1>13, <2>3, <3>3
  <2> QED BY <2>2, <2>3
<1>16. KeyLimitsKept'
  <2> SUFFICES ASSUME NEW m \in Keys, NEW h \in Gens
               PROVE  /\ CreditsIn(lease', OfGen(lease', m, h)) <= KeyCredits
                      /\ Cardinality(OfGen(lease', m, h)) <= KeyRequests
    BY DEF KeyLimitsKept, Credits, CreditsIn, Units, OfGen, GrantedIn, Granted
  <2>1. CASE m = k /\ h = g[k]
    <3>1. CreditsIn(lease', T) <= KeyCredits /\ Cardinality(T) <= KeyRequests
      BY <1>3, <1>10, <1>11, <1>12
    <3> QED BY <2>1, <3>1 DEF T
  <2>2. CASE ~(m = k /\ h = g[k])
    BY <1>6, <1>14, <2>2
  <2> QED BY <2>1, <2>2
<1> QED BY <1>15, <1>16 DEF KeysOK

LEMMA KeysInit == Init => KeysOK
<1> SUFFICES ASSUME Init PROVE KeysOK
  OBVIOUS
<1>1. Granted = {} /\ GrantedIn(lease) = {}  BY DEF Init, Granted, GrantedIn
<1>2. KeyCredits \in Nat /\ KeyRequests \in Nat  BY AuthorityAssumption
<1>3. Credits({}) = 0 /\ Cardinality({}) = 0
  BY CreditsNone, FS_EmptySet DEF Credits, CreditsIn, Units
<1>4. KeyLimitsKept
  <2>1. \A k, g : {r \in Granted : lease[r].cred = k /\ lease[r].gen = g} = {}  BY <1>1
  <2> QED BY <1>2, <1>3, <2>1 DEF KeyLimitsKept
<1>5. ASSUME NEW k \in Keys PROVE KeyBooked(lease, k, key[k])
  <2>1. /\ key[k].resCredits + key[k].usedCredits = 0
        /\ key[k].resRequests + key[k].usedRequests = 0
    BY DEF Init
  <2>2. OfGen(lease, k, key[k].gen) = {}  BY <1>1 DEF OfGen
  <2> QED BY <1>1, <1>3, <2>1, <2>2, CreditsNone DEF KeyBooked
<1> QED BY <1>4, <1>5 DEF KeysOK

\* The leases and the journal's keys were left alone.
LEMMA ClusterKeys == ASSUME KeysOK, UNCHANGED <<lease, key>> PROVE KeysOK'
<1>1. KeyLimitsKept'  BY DEF KeysOK, KeyLimitsKept, Credits, Granted
<1>2. \A k \in Keys : KeyBooked(lease', k, key'[k])  BY DEF KeysOK
<1> QED BY <1>1, <1>2 DEF KeysOK

LEMMA KeysStep ==
    AuthorityInv /\ BooksOK /\ KeysOK /\ [Next]_vars /\ [GenerationsAdvance]_vars => KeysOK'
<1> SUFFICES ASSUME AuthorityInv, BooksOK, KeysOK, [Next]_vars, [GenerationsAdvance]_vars
             PROVE  KeysOK'
  OBVIOUS
<1>0. Expired \subseteq Active  BY ExpiredOpen
<1>1. \A g \in Candidates : g \in [Keys -> Gens]  BY DEF Candidates
<1>2. ASSUME UNCHANGED <<lease, key>> PROVE KeysOK'  BY <1>2, ClusterKeys
<1>3. CASE UNCHANGED vars  BY <1>2, <1>3 DEF vars
<1> SUFFICES ASSUME Next, GenerationsAdvance PROVE KeysOK'
  BY <1>3
<1>4. ASSUME NEW p \in Procs, NEW r \in Requests, NEW c \in Costs,
             NEW C \in SUBSET Keys \ {{}}, NEW g \in Candidates, GrantNew(p, r, c, C, g)
      PROVE  KeysOK'
  BY <1>1, <1>4, GrantKeys
<1>5. ASSUME NEW p \in Procs, NEW r \in Requests, NEW c \in Costs,
             NEW C \in SUBSET Keys \ {{}}, NEW g \in Candidates, GrantRefused(p, r, c, C, g)
      PROVE  KeysOK'
  <2>1. lease' = LeaseAfter(Expired) /\ key' = Entries(C, g)
    BY <1>5 DEF GrantRefused
  <2>2. ASSUME NEW k \in Keys PROVE KeyBooked(lease, k, key'[k])
    <3>1. g \in [Keys -> Gens] /\ KeyBooked(lease, k, key[k])  BY <1>1 DEF KeysOK
    <3>2. key[k].gen \in Nat /\ Entries(C, g)[k].gen \in Nat
      BY <3>1, EntryKey, AuthorityAssumption DEF BooksOK, KeyEntry
    <3>3. key[k].gen <= Entries(C, g)[k].gen
      BY <2>1, <3>2 DEF GenerationsAdvance
    <3>4. KeyBooked(lease, k, Entries(C, g)[k])  BY <3>1, <3>3, EntryKey
    <3> QED BY <2>1, <3>4
  <2> QED BY <1>0, <2>1, <2>2, EndedKeys
<1>6. ASSUME NEW S, S \subseteq Active, lease' = LeaseAfter(S), key' = KeyAfter(S)
      PROVE  KeysOK'
  <2>1. \A k \in Keys : KeyBooked(lease, k, key'[k])
    BY <1>6, EndedKey DEF KeysOK
  <2> QED BY <1>6, <2>1, EndedKeys
<1>7. ASSUME WriteExpired PROVE KeysOK'  BY <1>0, <1>6, <1>7 DEF WriteExpired
<1>8. ASSUME NEW e, BringUpToDate(e) PROVE KeysOK'  BY <1>0, <1>6, <1>8 DEF BringUpToDate
<1>9. ASSUME NEW p \in Procs, NEW r \in Requests, NEW rem, NEW at, Settle(p, r, rem, at)
      PROVE  KeysOK'
  <2> DEFINE S == Expired \cup {r}
  <2>1. S \subseteq Active /\ lease' = LeaseAfter(S) /\ key' = KeyAfter(S)
    BY <1>0, <1>9 DEF Settle
  <2> HIDE DEF S
  <2> QED BY <1>6, <2>1
<1>10. CASE Tick  BY <1>2, <1>10 DEF Tick
<1>11. CASE AdvanceEpoch  BY <1>2, <1>11 DEF AdvanceEpoch
<1>12. ASSUME NEW p \in Procs, Refresh(p) PROVE KeysOK'  BY <1>2, <1>12 DEF Refresh
<1>13. ASSUME NEW k \in Keys, Rotate(k) PROVE KeysOK'  BY <1>2, <1>13 DEF Rotate
<1> QED BY <1>4, <1>5, <1>7, <1>8, <1>9, <1>10, <1>11, <1>12, <1>13
        DEF Next, GrantAgain, GrantTooLarge, SettleAgain, Status

\* The books cover the leases in every history of grants, endings, rollovers and
\* rotations (_reconcile_domain_unlocked, _apply_terminal_unlocked).
THEOREM BooksSafe == Spec => [](AuthorityInv /\ BooksOK)
<1>1. Init => AuthorityInv /\ BooksOK  BY AuthorityInit, BooksInit
<1>2. AuthorityInv /\ BooksOK /\ [Next]_vars => AuthorityInv' /\ BooksOK'
  BY AuthorityStep, BooksStep
<1> QED BY <1>1, <1>2, PTL DEF Spec

\* The journal stays well-formed: no counter goes below zero or is lost.
THEOREM JournalTyped == Spec => []TypeOK
<1>1. AuthorityInv /\ BooksOK => TypeOK  BY DEF AuthorityInv, ClockOK, BooksOK, TypeOK
<1> QED BY <1>1, BooksSafe, PTL

\* A key's reserved credits are those of its open leases, so the clamp in
\* _apply_terminal_unlocked never swallows credits.
THEOREM CreditsAreCounted == Spec => []CreditsCounted
<1>1. BooksOK => CreditsCounted  BY DEF BooksOK
<1> QED BY <1>1, BooksSafe, PTL

\* The credits leased in the current day and month stay within the plan,
\* although a rollover drops the reservations of leases still open and a late
\* settlement books them again (_reconcile_domain_unlocked).
THEOREM PlanIsKept == Spec => []PlanKept
<1>1. BooksOK => PlanKept
  <2> SUFFICES ASSUME BooksOK PROVE PlanKept
    OBVIOUS
  <2>1. /\ CreditsIn(lease, InWindow(lease, Day, window.day)) <= DayLimit
        /\ CreditsIn(lease, InWindow(lease, Month, window.month)) <= MonthLimit
    BY DEF BooksOK, PlanBooked, Kept
  <2> QED BY <2>1 DEF PlanKept, Credits, CreditsIn, Units, InWindow, GrantedIn, Granted
<1> QED BY <1>1, BooksSafe, PTL

\* In every history whose grants take no key of the journal back to a generation
\* it has left -- requests may come late, keys rotate, leases expire or be
\* settled -- the leases on one generation of a key stay within its limits
\* (grant).  A request that does take a key back clears its counters, and the
\* limits are then exceeded.
THEOREM KeyLimitsAreKept == Spec /\ [][GenerationsAdvance]_vars => []KeyLimitsKept
<1>1. Init => KeysOK  BY KeysInit
<1>2. AuthorityInv /\ BooksOK /\ KeysOK /\ [Next]_vars /\ [GenerationsAdvance]_vars => KeysOK'
  BY KeysStep
<1>3. KeysOK => KeyLimitsKept  BY DEF KeysOK
<1> QED BY <1>1, <1>2, <1>3, BooksSafe, PTL DEF Spec

\* The open leases of every key are within its limits.
OpenFit ==
    \A k \in Keys :
        LET open == {r \in Active : lease[r].cred = k}
        IN  Credits(open) <= KeyCredits /\ Cardinality(open) <= KeyRequests

\* What a key has reserved is within its limits.
ReservedOK ==
    \A k \in Keys : key[k].resCredits <= KeyCredits /\ key[k].resRequests <= KeyRequests

\* Ending leases and reading candidates never raises what a key has reserved.
LEMMA ReservedFalls ==
    ASSUME AuthorityInv, BooksOK, ReservedOK, NEW S, S \subseteq Active, NEW k \in Keys
    PROVE  /\ KeyAfter(S)[k].resCredits <= KeyCredits
           /\ KeyAfter(S)[k].resRequests <= KeyRequests
<1> DEFINE T == {r \in S : lease[r].cred = k}
<1>1. /\ KeyAfter(S)[k].resCredits = Less(key[k].resCredits, Credits(T))
      /\ KeyAfter(S)[k].resRequests = Less(key[k].resRequests, Cardinality(T))
  BY DEF KeyAfter
<1>2. T \subseteq Granted /\ T \subseteq Requests  BY DEF Active, Granted
<1>3. /\ Credits(T) \in Nat /\ Cardinality(T) \in Nat
      /\ key[k].resCredits \in Nat /\ key[k].resRequests \in Nat
      /\ KeyCredits \in Nat /\ KeyRequests \in Nat
  BY <1>2, BooksCredits, CountNat, AuthorityAssumption DEF BooksOK, KeyEntry
<1> HIDE DEF T
<1>4. \A a, b, l \in Nat : a <= l => Less(a, b) <= l  BY DEF Less
<1> QED BY <1>1, <1>3, <1>4 DEF ReservedOK

LEMMA ReservedEntry ==
    ASSUME AuthorityInv, BooksOK, ReservedOK, NEW C, NEW g, NEW k \in Keys
    PROVE  /\ Entries(C, g)[k].resCredits <= KeyCredits
           /\ Entries(C, g)[k].resRequests <= KeyRequests
<1>1. /\ KeyAfter(Expired)[k].resCredits <= KeyCredits
      /\ KeyAfter(Expired)[k].resRequests <= KeyRequests
  BY ExpiredOpen, ReservedFalls
<1>2. KeyCredits \in Nat /\ KeyRequests \in Nat  BY AuthorityAssumption
<1> QED BY <1>1, <1>2 DEF Entries, Fresh

LEMMA ReservedStep == AuthorityInv /\ BooksOK /\ ReservedOK /\ [Next]_vars => ReservedOK'
<1> SUFFICES ASSUME AuthorityInv, BooksOK, ReservedOK, [Next]_vars PROVE ReservedOK'
  OBVIOUS
<1>1. ASSUME NEW p \in Procs, NEW r \in Requests, NEW c \in Costs,
             NEW C \in SUBSET Keys \ {{}}, NEW g \in Candidates, GrantNew(p, r, c, C, g)
      PROVE  ReservedOK'
  <2> DEFINE e == Entries(C, g)
             w == ReconcileWindow(WindowAfter(window, Expired))
  <2>1. g \in [Keys -> Gens]  BY DEF Candidates
  <2>2. PICK k \in Keys : GrantOn(r, c, k, e, w, g)  BY <1>1, <2>1, GrantFacts
  <2>3. DOMAIN e = Keys  BY DEF Entries
  <2>4. e[k] \in KeyEntry  BY <2>1, EntryKey
  <2>5. \A m \in Keys : e[m].resCredits <= KeyCredits /\ e[m].resRequests <= KeyRequests
    BY ReservedEntry
  <2>6. c \in Nat /\ KeyCredits \in Nat /\ KeyRequests \in Nat
    BY <2>2, AuthorityAssumption DEF GrantOn
  <2> HIDE DEF e, w
  <2>7. /\ key'[k].resCredits = e[k].resCredits + c
        /\ key'[k].resRequests = e[k].resRequests + 1
        /\ \A m \in Keys \ {k} : key'[m] = e[m]
        /\ WithinKey(e[k], c)
    BY <2>2, <2>3 DEF GrantOn
  <2>8. key'[k].resCredits <= KeyCredits /\ key'[k].resRequests <= KeyRequests
    BY <2>4, <2>6, <2>7 DEF WithinKey, KeyEntry
  <2> QED BY <2>5, <2>7, <2>8 DEF ReservedOK
<1>2. ASSUME NEW p \in Procs, NEW r \in Requests, NEW c \in Costs,
             NEW C \in SUBSET Keys \ {{}}, NEW g \in Candidates, GrantRefused(p, r, c, C, g)
      PROVE  ReservedOK'
  BY <1>2, ReservedEntry DEF GrantRefused, ReservedOK
<1>3. ASSUME NEW S, S \subseteq Active, key' = KeyAfter(S) PROVE ReservedOK'
  BY <1>3, ReservedFalls DEF ReservedOK
<1>4. ASSUME WriteExpired PROVE ReservedOK'  BY <1>3, <1>4, ExpiredOpen DEF WriteExpired
<1>5. ASSUME NEW e, BringUpToDate(e) PROVE ReservedOK'
  BY <1>3, <1>5, ExpiredOpen DEF BringUpToDate
<1>6. ASSUME NEW p \in Procs, NEW r \in Requests, NEW rem, NEW at, Settle(p, r, rem, at)
      PROVE  ReservedOK'
  <2> DEFINE S == Expired \cup {r}
  <2>1. S \subseteq Active /\ key' = KeyAfter(S)  BY <1>6, ExpiredOpen DEF Settle
  <2> HIDE DEF S
  <2> QED BY <1>3, <2>1
<1>7. CASE UNCHANGED key  BY <1>7 DEF ReservedOK
<1> QED BY <1>1, <1>2, <1>4, <1>5, <1>6, <1>7
        DEF Next, GrantAgain, GrantTooLarge, SettleAgain, Status, Tick, AdvanceEpoch,
            Refresh, Rotate, vars

\* The open leases of a key stay within its limits, even when a late request
\* takes the key back to an older generation and clears what it has used: its
\* reservations are exact, and a key with open leases keeps its generation
\* (grant).
THEOREM OpenLeasesFitKey == Spec => []OpenFit
<1>1. Init => ReservedOK  BY AuthorityAssumption DEF Init, ReservedOK
<1>2. AuthorityInv /\ BooksOK /\ ReservedOK /\ [Next]_vars => ReservedOK'  BY ReservedStep
<1>3. AuthorityInv /\ BooksOK /\ ReservedOK => OpenFit
  BY DEF AuthorityInv, LeasesCounted, BooksOK, CreditsCounted, ReservedOK, OpenFit
<1> QED BY <1>1, <1>2, <1>3, BooksSafe, PTL DEF Spec
=============================================================================
