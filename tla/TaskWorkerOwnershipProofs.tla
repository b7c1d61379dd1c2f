---------------------- MODULE TaskWorkerOwnershipProofs ----------------------
(* Proofs about TaskWorkerOwnership, for any number of processes,            *)
(* coordinators and faults.                                                   *)
EXTENDS TaskWorkerOwnership, TLAPS

Doubts == Procs \cup {None}

(* What a look at the owner files returns.                                  *)

\* The kinds of the three results.
LEMMA StatusType ==
    ASSUME TypeOK, NEW d \in Doubts
    PROVE  /\ Status(d).rec \in Records
           /\ Status(d).pid \in Procs \cup {None}
           /\ Status(d).sure \in BOOLEAN
<1>1. NoOwner \in Records
  BY DEF NoOwner, Owner, Records
<1>2. ASSUME NEW p \in Procs PROVE Owner(p, "ready", "legacy") \in Records
  BY DEF Owner, Records
<1>3. rec \in Records /\ rec.proc \in Procs \cup {None} /\ pidf \in Procs \cup {None}
  BY DEF TypeOK, Records
<1>4. CASE rec.proc # None /\ (rec.proc = d \/ Alive(rec.proc))
  <2>1. Status(d) = [rec |-> rec, pid |-> IF rec.proc = d THEN pidf ELSE rec.proc,
                     sure |-> rec.proc # d]
    BY <1>4 DEF Status
  <2> QED BY <2>1, <1>3
<1>5. CASE ~(rec.proc # None /\ (rec.proc = d \/ Alive(rec.proc)))
  <2> DEFINE p == IF pidf = rec.proc THEN None ELSE pidf
  <2>1. p \in Procs \cup {None}
    BY <1>3
  <2>2. CASE p # None /\ (p = d \/ Alive(p))
    <3>1. Status(d) = [rec |-> IF p = d THEN NoOwner ELSE Owner(p, "ready", "legacy"),
                       pid |-> p, sure |-> p # d]
      BY <1>5, <2>2 DEF Status
    <3> HIDE DEF p
    <3>2. Owner(p, "ready", "legacy") \in Records
      BY <2>1, <2>2, <1>2
    <3> QED BY <3>1, <3>2, <2>1, <1>1
  <2>3. CASE ~(p # None /\ (p = d \/ Alive(p)))
    <3>1. Status(d) = [rec |-> NoOwner, pid |-> None, sure |-> TRUE]
      BY <1>5, <2>3 DEF Status
    <3> QED BY <3>1, <1>1
  <2> QED BY <2>2, <2>3
<1> QED BY <1>4, <1>5

\* A live owner stays, whoever looks and whatever cannot be inspected.
LEMMA StatusKeeps ==
    ASSUME NEW d \in Doubts, rec.proc # None, Alive(rec.proc)
    PROVE  Status(d).rec = rec
BY DEF Status

\* An owner that is gone from the file was dead.
LEMMA StatusClears ==
    ASSUME NEW d \in Doubts, rec.proc # None, Status(d).rec # rec
    PROVE  ~Alive(rec.proc)
BY DEF Status

-----------------------------------------------------------------------------
(* Types, part by part.                                                     *)

Busy == {"wait", "poll", "fail", "term", "reap", "end", "drop"}

ProcOK == proc \in [Procs -> Places]
FilesOK == rec \in Records /\ pidf \in Procs \cup {None}
CoordOK ==
    /\ coord \in [Coords -> Work]
    /\ \A c \in Coords : coord[c].at \in Busy => coord[c].own # None

\* The parts are the whole.
LEMMA TypeParts ==
    TypeOK <=> ProcOK /\ FilesOK /\ CoordOK /\ sup \in BOOLEAN /\ faults \in 0..MaxFaults
BY DEF TypeOK, ProcOK, FilesOK, CoordOK, Busy

LEMMA TypePartsNext ==
    ASSUME ProcOK', FilesOK', CoordOK', sup' \in BOOLEAN, faults' \in 0..MaxFaults
    PROVE  TypeOK'
BY DEF TypeOK, ProcOK, FilesOK, CoordOK, Busy

\* Where a process can go.
LEMMA GoesType ==
    ASSUME ProcOK, NEW w \in Procs, NEW at \in Places, Goes(w, at)
    PROVE  ProcOK' /\ proc'[w] = at /\ \A p \in Procs \ {w} : proc'[p] = proc[p]
BY DEF ProcOK, Goes

\* What a look, a write and a clean-up leave behind.
LEMMA FilesType ==
    ASSUME TypeOK, NEW d \in Doubts, Files(Status(d))
    PROVE  FilesOK'
BY StatusType DEF Files, FilesOK

LEMMA WriteType ==
    ASSUME NEW w \in Procs, NEW state \in {"starting", "ready"}, Write(Owner(w, state, "own"))
    PROVE  FilesOK'
BY DEF Write, Owner, FilesOK, Records

LEMMA ClearType ==
    ASSUME FilesOK, NEW w \in Procs, Clear(w)
    PROVE  FilesOK'
BY DEF Clear, FilesOK, Records, NoOwner, Owner, files

\* What a step of a coordinator leaves behind.
LEMMA CoordSame ==
    ASSUME CoordOK, UNCHANGED coord
    PROVE  CoordOK'
BY DEF CoordOK

LEMMA EndsType ==
    ASSUME CoordOK, NEW c \in Coords, Ends(c)
    PROVE  CoordOK'
BY DEF CoordOK, Ends, Idle, Work, Busy

LEMMA SpawnNextType ==
    ASSUME CoordOK, NEW c \in Coords, SpawnNext(c)
    PROVE  CoordOK'
BY DEF CoordOK, SpawnNext, Idle, Work, Busy

LEMMA MovesType ==
    ASSUME CoordOK, NEW c \in Coords, coord[c].at \in Busy, NEW at \in Busy, Moves(c, at)
    PROVE  CoordOK'
BY DEF CoordOK, Moves, Work, Busy

LEMMA TargetsType ==
    ASSUME CoordOK, NEW c \in Coords, NEW p \in Procs, NEW task \in {"stop", "clean", "fail"},
           Targets(c, task, p)
    PROVE  CoordOK'
<1>1. None \notin Procs BY OwnershipAssumption
<1> QED BY <1>1 DEF CoordOK, Targets, Work, Busy

\* A coordinator that is busy with a process has one.
LEMMA OwnType ==
    ASSUME CoordOK, NEW c \in Coords, coord[c].at \in Busy
    PROVE  Own(c) \in Procs /\ coord[c].pub \in BOOLEAN
BY DEF CoordOK, Own, Work

\* The fault counter and the failed inspections.
LEMMA FaultType ==
    ASSUME faults \in 0..MaxFaults, Fault
    PROVE  faults' \in 0..MaxFaults
BY OwnershipAssumption DEF Fault

LEMMA InspectsType ==
    ASSUME faults \in 0..MaxFaults, NEW d, Inspects(d)
    PROVE  faults' \in 0..MaxFaults
BY FaultType DEF Inspects

\* The initial states have their types.
LEMMA TypeInit == Init => TypeOK
<1> SUFFICES ASSUME Init PROVE TypeOK
  OBVIOUS
<1>1. ProcOK BY DEF Init, ProcOK, Places, Older
<1>2. FilesOK BY DEF Init, FilesOK, Records, NoOwner, Owner
<1>3. CoordOK BY DEF Init, CoordOK, Idle, Work, Busy
<1>4. sup \in BOOLEAN BY DEF Init
<1>5. faults \in 0..MaxFaults BY OwnershipAssumption DEF Init
<1> QED BY <1>1, <1>2, <1>3, <1>4, <1>5, TypeParts

\* SIGTERM sends a process to a place there is.
LEMMA TerminatedType ==
    ASSUME NEW p \in Procs
    PROVE  Terminated(p) \in Places
BY DEF Terminated, Places, Locked, Older

\* The steps of a worker keep the types.
LEMMA WorkerTypes ==
    ASSUME TypeOK, NEW w \in Procs,
           \/ WorkerStep(w) \/ StartByHand(w)
           \/ ClaimTorn(w) \/ ReleaseTorn(w) \/ Fails(w) \/ Dies(w)
    PROVE  TypeOK'
<1>0. ProcOK /\ FilesOK /\ CoordOK /\ sup \in BOOLEAN /\ faults \in 0..MaxFaults
  BY TypeParts
<1>1. UNCHANGED <<sup, coord>>
  BY DEF WorkerStep, StartByHand, ClaimTorn, ReleaseTorn, Fails, Dies, Acquire, Handlers,
         Release, Exit, Claim, Heartbeat
<1>2. faults' \in 0..MaxFaults
  BY <1>0, FaultType, InspectsType
     DEF WorkerStep, StartByHand, ClaimTorn, ReleaseTorn, Fails, Dies, Acquire, Handlers,
         Release, Exit, Claim, Heartbeat
<1>3. ProcOK'
  <2>1. \/ UNCHANGED proc
        \/ \E at \in Places : Goes(w, at)
    <3>1. {"gone", "boot", "locked", "claimed", "loop", "stop", "unlock"} \subseteq Places
      BY DEF Places, Locked
    <3> QED
      BY <3>1 DEF WorkerStep, StartByHand, ClaimTorn, ReleaseTorn, Fails, Dies, Acquire,
                  Handlers, Release, Exit, Claim, Heartbeat
  <2> QED BY <2>1, <1>0, GoesType DEF ProcOK
<1>4. FilesOK'
  <2> USE <1>0
  <2>1. CASE UNCHANGED files BY <2>1 DEF files, FilesOK
  <2>2. CASE Release(w) BY <2>2, ClearType DEF Release
  <2>3. CASE ReleaseTorn(w)
    BY <2>3 DEF ReleaseTorn, FilesOK, Records, NoOwner, Owner
  <2>4. CASE ClaimTorn(w)
    <3>1. None \in Doubts BY DEF Doubts
    <3> QED BY <2>4, <3>1, StatusType DEF ClaimTorn, FilesOK, Records, Owner
  <2>5. ASSUME NEW d \in Doubts, Claim(w, d) PROVE FilesOK'
    BY <2>5, <2>1, FilesType, WriteType DEF Claim
  <2>6. ASSUME NEW d \in Doubts, Heartbeat(w, d) PROVE FilesOK'
    BY <2>6, <2>1, WriteType DEF Heartbeat
  <2> QED
    BY <2>1, <2>2, <2>3, <2>4, <2>5, <2>6
       DEF WorkerStep, StartByHand, Fails, Dies, Acquire, Handlers, Exit, Doubts
<1> QED BY <1>0, <1>1, <1>2, <1>3, <1>4, TypePartsNext, CoordSame

\* The steps of a coordinator keep the types: where it goes.
LEMMA CoordTypes ==
    ASSUME TypeOK, NEW c \in Coords,
           \/ AutoStart(c) \/ ExplicitStart(c) \/ Stop(c) \/ CoordStep(c)
           \/ PublishTorn(c) \/ WaitTimeout(c) \/ ReapTimeout(c) \/ CoordDies(c)
    PROVE  CoordOK'
<1>0. CoordOK BY TypeParts
<1> USE <1>0
<1>1. CASE AutoStart(c) \/ ExplicitStart(c)
  BY <1>1 DEF AutoStart, ExplicitStart, Moves, CoordOK, Work, Busy
<1>2. CASE Stop(c)
  BY <1>2 DEF Stop, CoordOK, Idle, Work, Busy
<1>3. CASE Ends(c) BY <1>3, EndsType
<1>4. CASE SpawnNext(c) BY <1>4, SpawnNextType
<1>5. CASE \E p \in Procs, task \in {"stop", "clean", "fail"} : Targets(c, task, p)
  BY <1>5, TargetsType
<1>6. CASE coord[c].at \in Busy /\ \E at \in Busy : Moves(c, at)
  BY <1>6, MovesType
<1>7. ASSUME NEW w \in Procs, Spawn(c, w) PROVE CoordOK'
  <2>1. /\ coord' = [coord EXCEPT ![c] = [@ EXCEPT !.at = "poll", !.own = w]]
        /\ coord \in [Coords -> Work] /\ w # None
    BY <1>7, OwnershipAssumption DEF Spawn, CoordOK
  <2>2. coord'[c].own = w /\ \A b \in Coords \ {c} : coord'[b] = coord[b]
    BY <2>1 DEF Work
  <2>3. coord' \in [Coords -> Work]
    BY <2>1 DEF Work
  <2> QED BY <2>1, <2>2, <2>3 DEF CoordOK
<1>8. WaitTimeout(c) \/ ReapTimeout(c) \/ CoordDies(c) \/ PublishTorn(c) \/ Drop(c) => CoordOK'
  <2>1. WaitTimeout(c) => CoordOK'
    BY <1>5, OwnType DEF WaitTimeout, At, Busy
  <2>2. ReapTimeout(c) => CoordOK'
    BY <1>3, <1>6 DEF ReapTimeout, At, Busy
  <2> QED BY <2>1, <2>2, <1>3, <1>4 DEF CoordDies, PublishTorn, Drop
<1>9. ASSUME NEW d \in Doubts,
             \/ CheckStart(c, d) \/ CheckStop(c, d) \/ Wait(c, d) \/ PollReturns(c, d)
             \/ Publish(c, d) \/ GivesUp(c, d) \/ Fail(c, d) \/ Term(c, d) \/ Reap(c, d)
             \/ CleanEnd(c, d)
      PROVE  CoordOK'
  <2>0. Status(d).rec.proc # None => Status(d).rec.proc \in Procs
    BY StatusType DEF Records
  <2>1. CASE CheckStart(c, d)
    <3>1. CASE \E p \in Procs : coord' = [coord EXCEPT ![c].at = "wait", ![c].own = p]
      <4> PICK p \in Procs : coord' = [coord EXCEPT ![c].at = "wait", ![c].own = p]
        BY <3>1
      <4> QED BY OwnershipAssumption, ZenonT(60) DEF CoordOK, Work, Busy
    <3> QED BY <2>0, <2>1, <3>1, <1>3, <1>4 DEF CheckStart
  <2>2. CASE CheckStop(c, d) BY <2>0, <2>2, <1>3, <1>5 DEF CheckStop
  <2>3. CASE Wait(c, d) BY <2>0, <2>3, <1>3, <1>4, <1>5 DEF Wait
  <2>4. CASE Publish(c, d)
    <3>1. CASE \E b \in BOOLEAN : coord' = [coord EXCEPT ![c].pub = b]
      BY <3>1 DEF CoordOK, Work, Busy
    <3>2. Names(Status(d).rec, c) \in BOOLEAN BY DEF Names
    <3> QED BY <2>4, <3>1, <3>2, <1>6 DEF Publish, At, Busy
  <2>5. CASE GivesUp(c, d) BY <2>5, <1>3, <1>6 DEF GivesUp, At, Busy
  <2>6. CASE Fail(c, d) BY <2>6, <1>3, <1>5, OwnType DEF Fail, At, Busy
  <2>7. CASE Term(c, d) BY <2>7, <1>3, <1>6 DEF Term, At, Busy
  <2>8. CASE Reap(c, d) BY <2>8, <1>3, <1>4, <1>6 DEF Reap, At, Busy
  <2>9. CASE CleanEnd(c, d) BY <2>9, <1>3, <1>6 DEF CleanEnd, At, Busy
  <2> QED BY <1>9, <2>1, <2>2, <2>3, <2>4, <2>5, <2>6, <2>7, <2>8, <2>9, <1>3 DEF PollReturns
<1> QED BY <1>1, <1>2, <1>7, <1>8, <1>9 DEF CoordStep, Doubts

\* The steps of a coordinator keep the types: what it does to processes and files.
LEMMA CoordStepTypes ==
    ASSUME TypeOK, NEW c \in Coords,
           \/ AutoStart(c) \/ ExplicitStart(c) \/ Stop(c) \/ CoordStep(c)
           \/ PublishTorn(c) \/ WaitTimeout(c) \/ ReapTimeout(c) \/ CoordDies(c)
    PROVE  TypeOK'
<1>0. ProcOK /\ FilesOK /\ CoordOK /\ sup \in BOOLEAN /\ faults \in 0..MaxFaults
  BY TypeParts
<1> USE <1>0
<1>1. CoordOK' BY CoordTypes
<1>2. sup' \in BOOLEAN
  BY DEF AutoStart, ExplicitStart, Stop, CoordStep, PublishTorn, WaitTimeout, ReapTimeout,
         CoordDies, CheckStart, CheckStop, Wait, PollReturns, Publish, GivesUp, Fail, Term, Reap,
         CleanEnd, Spawn, Drop
<1>3. faults' \in 0..MaxFaults
  BY FaultType, InspectsType
     DEF AutoStart, ExplicitStart, Stop, CoordStep, PublishTorn, WaitTimeout, ReapTimeout,
         CoordDies, CheckStart, CheckStop, Wait, PollReturns, Publish, GivesUp, Fail, Term, Reap,
         CleanEnd, Spawn, Drop
<1>4. ProcOK'
  <2>1. \/ UNCHANGED proc
        \/ \E w \in Procs, at \in Places : Goes(w, at)
    <3>1. "gone" \in Places /\ "boot" \in Places BY DEF Places
    <3>2. coord[c].at \in Busy => Own(c) \in Procs /\ Terminated(Own(c)) \in Places
      BY OwnType, TerminatedType
    <3> QED
      BY <3>1, <3>2
         DEF AutoStart, ExplicitStart, Stop, CoordStep, PublishTorn, WaitTimeout, ReapTimeout,
             CoordDies, CheckStart, CheckStop, Wait, PollReturns, Publish, GivesUp, Fail, Term,
             Reap, CleanEnd, Spawn, Drop, At, Busy
  <2> QED BY <2>1, GoesType DEF ProcOK
<1>5. FilesOK'
  <2>1. CASE UNCHANGED files BY <2>1 DEF files, FilesOK
  <2>2. CASE \E d \in Doubts : Files(Status(d)) BY <2>2, FilesType
  <2>3. CASE Drop(c) BY <2>3, ClearType, OwnType DEF Drop, At, Busy
  <2>4. CASE PublishTorn(c)
    <3>1. None \in Doubts BY DEF Doubts
    <3>2. Own(c) \in Procs BY <2>4, OwnType DEF PublishTorn, At, Busy
    <3> QED BY <2>4, <3>1, <3>2, StatusType DEF PublishTorn, FilesOK, Records, Owner
  <2>5. ASSUME NEW d \in Doubts, Publish(c, d) PROVE FilesOK'
    <3>1. Own(c) \in Procs BY <2>5, OwnType DEF Publish, At, Busy
    <3> QED BY <2>1, <2>2, <2>5, <3>1, WriteType DEF Publish
  <2>6. ASSUME NEW d \in Doubts, Term(c, d) PROVE FilesOK'
    <3>1. None \in Doubts BY DEF Doubts
    <3> QED BY <2>1, <2>2, <2>6, <3>1 DEF Term
  <2> QED
    BY <2>1, <2>2, <2>3, <2>4, <2>5, <2>6
       DEF AutoStart, ExplicitStart, Stop, CoordStep, WaitTimeout, ReapTimeout, CoordDies,
           CheckStart, CheckStop, Wait, PollReturns, GivesUp, Fail, Reap, CleanEnd, Spawn, Doubts
<1> QED BY <1>1, <1>2, <1>3, <1>4, <1>5, TypePartsNext

\* Every step keeps the types.
LEMMA TypeStep == TypeOK /\ [Next]_vars => TypeOK'
<1> SUFFICES ASSUME TypeOK, [Next]_vars PROVE TypeOK'
  OBVIOUS
<1>1. CASE UNCHANGED vars BY <1>1 DEF vars, TypeOK
<1>2. ASSUME NEW d \in Doubts, Look(d) PROVE TypeOK'
  <2>1. FilesOK' BY <1>2, FilesType DEF Look
  <2>2. ProcOK' BY <1>2, TypeParts DEF Look, ProcOK
  <2>3. CoordOK' BY <1>2, TypeParts, CoordSame DEF Look
  <2>4. sup' \in BOOLEAN BY <1>2, TypeParts DEF Look
  <2>5. faults' \in 0..MaxFaults BY <1>2, TypeParts, InspectsType DEF Look
  <2> QED BY <2>1, <2>2, <2>3, <2>4, <2>5, TypePartsNext
<1> QED BY <1>1, <1>2, WorkerTypes, CoordStepTypes DEF Next, Doubts

\* Processes, files and coordinators keep their types, whatever happens.
THEOREM OwnershipTyped == Spec => []TypeOK
BY TypeInit, TypeStep, PTL DEF Spec

-----------------------------------------------------------------------------
(* One worker at a time.                                                    *)

LockInv == \A v, w \in Procs : proc[v] \in Locked /\ proc[w] \in Locked => v = w

\* A worker of an older version is always named, so that claims are refused.
Named(l) == rec = Owner(l, "ready", "legacy") \/ (rec.proc = None /\ pidf = l)
LegacyInv ==
    \A l \in Procs : proc[l] \in Older =>
        /\ Named(l)
        /\ \A w \in Procs : proc[w] \notin {"claimed", "loop", "stop"}

\* What a step may do to a process.
Follows(p) ==
    \/ proc'[p] = proc[p]
    \/ proc[p] \notin Older /\ proc'[p] \in {"gone", "boot"}
    \/ proc[p] \in Older /\ proc'[p] \in {"gone", "oldstop"}
    \/ /\ proc[p] = "boot" /\ proc'[p] = "locked"
       /\ \A v \in Procs : proc[v] \notin Locked /\ (v # p => proc'[v] = proc[v])
    \/ proc[p] = "locked" /\ proc'[p] = "claimed"
    \/ proc[p] \in {"claimed", "loop", "stop"} /\ proc'[p] \in {"loop", "stop", "unlock"}

\* A worker's own step takes it along its path and no other process.
LEMMA WorkerFollows ==
    ASSUME TypeOK, NEW w \in Procs, NEW p \in Procs,
           \/ WorkerStep(w) \/ StartByHand(w)
           \/ ClaimTorn(w) \/ ReleaseTorn(w) \/ Fails(w) \/ Dies(w)
    PROVE  Follows(p)
<1>1. proc \in [Procs -> Places] BY DEF TypeOK
<1>2. CASE StartByHand(w)
  BY <1>1, <1>2 DEF StartByHand, Goes, Follows, Fresh, Alive, Older
<1>3. CASE ClaimTorn(w) \/ ReleaseTorn(w)
  BY <1>1, <1>3 DEF ClaimTorn, ReleaseTorn, Goes, Follows, Older
<1>4. CASE Fails(w) \/ Dies(w)
  BY <1>1, <1>4 DEF Fails, Dies, Goes, Follows, Older
<1>5. CASE Acquire(w) BY <1>1, <1>5 DEF Acquire, Goes, Follows, Older
<1>6. CASE Handlers(w) \/ Release(w) \/ Exit(w)
  BY <1>1, <1>6 DEF Handlers, Release, Exit, Goes, Follows, Older
<1>7. ASSUME NEW d \in Doubts, Claim(w, d) PROVE Follows(p)
  BY <1>1, <1>7 DEF Claim, Goes, Follows, Older
<1>8. ASSUME NEW d \in Doubts, Heartbeat(w, d) PROVE Follows(p)
  BY <1>1, <1>8 DEF Heartbeat, Goes, Follows, Older
<1> QED BY <1>2, <1>3, <1>4, <1>5, <1>6, <1>7, <1>8 DEF WorkerStep, Doubts

\* A coordinator only launches, terminates or kills processes.
LEMMA CoordFollows ==
    ASSUME TypeOK, NEW c \in Coords, NEW p \in Procs,
           \/ AutoStart(c) \/ ExplicitStart(c) \/ Stop(c) \/ CoordStep(c)
           \/ PublishTorn(c) \/ WaitTimeout(c) \/ ReapTimeout(c) \/ CoordDies(c)
    PROVE  Follows(p)
<1>1. proc \in [Procs -> Places] BY DEF TypeOK
<1>2. coord[c].at \in Busy => Own(c) \in Procs BY TypeParts, OwnType
<1>3. CASE UNCHANGED proc BY <1>3 DEF Follows
<1>4. CASE ReapTimeout(c)
  BY <1>1, <1>2, <1>4 DEF ReapTimeout, Goes, Follows, At, Busy
<1>5. ASSUME NEW d \in Doubts, Term(c, d) PROVE Follows(p)
  BY <1>1, <1>2, <1>5, <1>3 DEF Term, Goes, Follows, Terminated, At, Busy, Older
<1>6. ASSUME NEW w \in Procs, Spawn(c, w) PROVE Follows(p)
  BY <1>1, <1>6 DEF Spawn, Goes, Follows, Fresh, Alive, Older
<1> QED
  BY <1>3, <1>4, <1>5, <1>6
     DEF AutoStart, ExplicitStart, Stop, CoordStep, PublishTorn, WaitTimeout, CoordDies,
         CheckStart, CheckStop, Wait, PollReturns, Publish, GivesUp, Fail, Reap, CleanEnd, Drop,
         Doubts

\* Every process takes an allowed step in every step of the system.
LEMMA StepFollows ==
    ASSUME TypeOK, [Next]_vars, NEW p \in Procs
    PROVE  Follows(p)
<1>1. CASE UNCHANGED proc BY <1>1 DEF Follows
<1> QED BY <1>1, WorkerFollows, CoordFollows DEF Next, vars, Look

\* The lifetime lock has one holder.
LEMMA LockStep == TypeOK /\ LockInv /\ [Next]_vars => LockInv'
<1> SUFFICES ASSUME TypeOK, LockInv, [Next]_vars, NEW v \in Procs, NEW w \in Procs,
                    proc'[v] \in Locked, proc'[w] \in Locked
             PROVE  v = w
  BY DEF LockInv
<1>1. Follows(v) /\ Follows(w) BY StepFollows
<1> QED BY <1>1 DEF Follows, LockInv, Locked, Older

\* A look at the files still finds an older worker, or finds nothing out.
LEMMA StatusNamed ==
    ASSUME NEW l \in Procs, Alive(l), Named(l), NEW d \in Doubts
    PROVE  LET s == Status(d) IN
           \/ s.rec = Owner(l, "ready", "legacy")
           \/ s.rec.proc = None /\ s.pid = l /\ ~s.sure
<1>1. l # None BY OwnershipAssumption
<1>2. CASE rec = Owner(l, "ready", "legacy")
  BY <1>1, <1>2 DEF Status, Owner
<1>3. CASE rec.proc = None /\ pidf = l
  BY <1>1, <1>3 DEF Status, Owner, NoOwner
<1> QED BY <1>2, <1>3 DEF Named

\* No step takes an older worker that lives out of the files.
LEMMA NamedStep ==
    ASSUME TypeOK, LegacyInv, [Next]_vars, NEW l \in Procs, proc[l] \in Older
    PROVE  Named(l)'
<1>0. Named(l) /\ Alive(l) /\ l # None BY OwnershipAssumption DEF LegacyInv, Alive, Older
<1>1. \A w \in Procs : proc[w] \notin {"claimed", "loop", "stop"} BY DEF LegacyInv
<1>2. CASE UNCHANGED files BY <1>0, <1>2 DEF files, Named
<1>3. CASE \E d \in Doubts : Files(Status(d))
  <2> PICK d \in Doubts : Files(Status(d)) BY <1>3
  <2> QED BY <1>0, StatusNamed DEF Files, Named
<1>4. ASSUME NEW w \in Procs, NEW d \in Doubts, Claim(w, d) PROVE Named(l)'
  <2>1. w # l BY <1>4 DEF Claim, Older
  <2>2. Status(d).sure => Status(d).rec = Owner(l, "ready", "legacy")
    BY <1>0, StatusNamed, Zenon
  <2>3. Status(d).rec = Owner(l, "ready", "legacy") => Refused(w, Status(d))
    BY <2>1, OwnershipAssumption DEF Refused, Running, Owner
  <2> QED BY <1>2, <1>3, <1>4, <2>2, <2>3 DEF Claim
<1>5. ASSUME NEW w \in Procs, ClaimTorn(w) PROVE FALSE
  <2>1. w # l BY <1>5 DEF ClaimTorn, Older
  <2>2. None \in Doubts BY DEF Doubts
  <2>3. Status(None).rec = Owner(l, "ready", "legacy")
    BY <1>0 DEF Status, Named, Owner
  <2> QED BY <1>0, <1>5, <2>1, <2>3 DEF ClaimTorn, Refused, Running, Owner
<1>6. ASSUME NEW w \in Procs,
             \/ Release(w) \/ ReleaseTorn(w) \/ \E d \in Doubts : Heartbeat(w, d)
      PROVE  FALSE
  BY <1>1, <1>6 DEF Release, ReleaseTorn, Heartbeat
<1>7. ASSUME NEW c \in Coords, NEW d \in Doubts, Publish(c, d) PROVE Named(l)'
  <2>1. Status(d).sure => Status(d).rec = Owner(l, "ready", "legacy")
    BY <1>0, StatusNamed, Zenon
  <2>2. Status(d).rec = Owner(l, "ready", "legacy") => Status(d).rec.proc # None
    BY OwnershipAssumption DEF Owner
  <2> QED BY <1>2, <1>3, <1>7, <2>1, <2>2 DEF Publish
<1>8. ASSUME NEW c \in Coords, PublishTorn(c) PROVE FALSE
  <2>1. Status(None).rec = Owner(l, "ready", "legacy")
    BY <1>0 DEF Status, Named, Owner
  <2> QED BY <1>0, <1>8, <2>1 DEF PublishTorn, Owner
<1>9. ASSUME NEW c \in Coords, Drop(c) PROVE Named(l)'
  <2>1. Own(c) \in Procs BY <1>9, TypeParts, OwnType DEF Drop, At, Busy
  <2>2. Own(c) # None BY <2>1, OwnershipAssumption
  <2>3. ~(rec.proc = Own(c) /\ rec.id = "own") BY <1>0, <2>2 DEF Named, Owner
  <2> QED BY <1>2, <1>9, <2>3 DEF Drop, Clear
<1>10. ASSUME NEW c \in Coords, NEW d \in Doubts, Term(c, d) PROVE Named(l)'
  <2>1. None \in Doubts BY DEF Doubts
  <2> QED BY <1>2, <1>3, <1>10, <2>1 DEF Term
<1>11. ASSUME NEW w \in Procs,
              \/ WorkerStep(w) \/ StartByHand(w)
              \/ ClaimTorn(w) \/ ReleaseTorn(w) \/ Fails(w) \/ Dies(w)
       PROVE  Named(l)'
  BY <1>2, <1>4, <1>5, <1>6, <1>11
     DEF WorkerStep, StartByHand, Fails, Dies, Acquire, Handlers, Exit, Doubts
<1>12. ASSUME NEW c \in Coords,
              \/ AutoStart(c) \/ ExplicitStart(c) \/ Stop(c) \/ CoordStep(c)
              \/ PublishTorn(c) \/ WaitTimeout(c) \/ ReapTimeout(c) \/ CoordDies(c)
       PROVE  Named(l)'
  BY <1>2, <1>3, <1>7, <1>8, <1>9, <1>10, <1>12
     DEF AutoStart, ExplicitStart, Stop, CoordStep, WaitTimeout, ReapTimeout, CoordDies,
         CheckStart, CheckStop, Wait, PollReturns, GivesUp, Fail, Reap, CleanEnd, Spawn, Doubts
<1> QED
  BY <1>2, <1>3, <1>11, <1>12 DEF Next, vars, files, Look, Doubts

\* No process claims while an older worker lives.
LEMMA NoClaim ==
    ASSUME TypeOK, LegacyInv, [Next]_vars, NEW l \in Procs, proc[l] \in Older,
           NEW w \in Procs, proc[w] = "locked"
    PROVE  proc'[w] # "claimed"
<1>0. Named(l) /\ Alive(l) /\ w # l /\ proc \in [Procs -> Places]
  BY DEF LegacyInv, Alive, Older, TypeOK
<1>1. ASSUME NEW v \in Procs, NEW d \in Doubts, Claim(v, d) PROVE proc'[w] # "claimed"
  <2>1. v # l BY <1>1 DEF Claim, Older
  <2>2. Status(d).sure => Status(d).rec = Owner(l, "ready", "legacy")
    BY <1>0, StatusNamed, Zenon
  <2>3. Status(d).rec = Owner(l, "ready", "legacy") => Refused(v, Status(d))
    BY <2>1, OwnershipAssumption DEF Refused, Running, Owner
  <2> QED BY <1>0, <1>1, <2>2, <2>3 DEF Claim, Goes
<1>2. ASSUME NEW v \in Procs,
             \/ WorkerStep(v) \/ StartByHand(v)
             \/ ClaimTorn(v) \/ ReleaseTorn(v) \/ Fails(v) \/ Dies(v)
      PROVE  proc'[w] # "claimed"
  BY <1>0, <1>1, <1>2
     DEF WorkerStep, StartByHand, ClaimTorn, ReleaseTorn, Fails, Dies, Acquire, Handlers,
         Release, Exit, Heartbeat, Goes, Doubts
<1>3. ASSUME NEW c \in Coords, NEW d \in Doubts, Term(c, d) PROVE proc'[w] # "claimed"
  BY <1>0, <1>3 DEF Term, Goes, Terminated
<1>4. ASSUME NEW c \in Coords,
             \/ AutoStart(c) \/ ExplicitStart(c) \/ Stop(c) \/ CoordStep(c)
             \/ PublishTorn(c) \/ WaitTimeout(c) \/ ReapTimeout(c) \/ CoordDies(c)
      PROVE  proc'[w] # "claimed"
  BY <1>0, <1>3, <1>4
     DEF AutoStart, ExplicitStart, Stop, CoordStep, PublishTorn, WaitTimeout, ReapTimeout,
         CoordDies, CheckStart, CheckStop, Wait, PollReturns, Publish, GivesUp, Fail, Reap,
         CleanEnd, Spawn, Drop, Goes, Doubts
<1> QED BY <1>2, <1>4 DEF Next, vars, Look

\* While a worker of an older version lives it stays named, and no other
\* process gets past its claim.
LEMMA LegacyStep == TypeOK /\ LegacyInv /\ [Next]_vars => LegacyInv'
<1> SUFFICES ASSUME TypeOK, LegacyInv, [Next]_vars, NEW l \in Procs, proc'[l] \in Older
             PROVE  Named(l)' /\ \A w \in Procs : proc'[w] \notin {"claimed", "loop", "stop"}
  BY DEF LegacyInv
<1>1. proc[l] \in Older
  <2>1. Follows(l) BY StepFollows
  <2> QED BY <2>1 DEF Follows, Older
<1>2. Named(l)' BY <1>1, NamedStep
<1>3. ASSUME NEW w \in Procs PROVE proc'[w] \notin {"claimed", "loop", "stop"}
  <2>1. proc[w] \notin {"claimed", "loop", "stop"} BY <1>1 DEF LegacyInv
  <2>2. Follows(w) BY StepFollows
  <2>3. proc[w] = "locked" => proc'[w] # "claimed" BY <1>1, NoClaim
  <2> QED BY <2>1, <2>2, <2>3 DEF Follows
<1> QED BY <1>2, <1>3

IInv == TypeOK /\ LockInv /\ LegacyInv

\* The inductive invariant holds initially.
LEMMA InvInit == Init => IInv
<1> SUFFICES ASSUME Init PROVE IInv
  OBVIOUS
<1>1. LockInv BY DEF Init, LockInv, Locked
<1>2. LegacyInv BY DEF Init, LegacyInv, Named, NoOwner, Owner, Older
<1> QED BY <1>1, <1>2, TypeInit DEF IInv

\* Every step of a worker or coordinator preserves it.
LEMMA InvStep == IInv /\ [Next]_vars => IInv'
BY TypeStep, LockStep, LegacyStep DEF IInv

\* The lock excludes two new workers, the names a new one beside an old one.
LEMMA InvOne == IInv => OneWorker
<1> SUFFICES ASSUME IInv, NEW v \in Procs, NEW w \in Procs, Executing(v), Executing(w)
             PROVE  v = w
  BY DEF OneWorker
<1>1. CASE proc[v] \in Older /\ proc[w] \in Older
  BY <1>1, OwnershipAssumption DEF IInv, LegacyInv, Named, Owner
<1>2. CASE proc[v] \notin Older /\ proc[w] \notin Older
  BY <1>2 DEF IInv, LockInv, Locked, Executing
<1> QED BY <1>1, <1>2 DEF IInv, LegacyInv, Executing, Older

\* Two workers never execute jobs at the same time, with any number of
\* starts, stops, deaths, failed inspections and torn writes.
THEOREM OneWorkerAtATime == Spec => []OneWorker
<1>1. Spec => []IInv BY InvInit, InvStep, PTL DEF Spec
<1> QED BY <1>1, InvOne, PTL

-----------------------------------------------------------------------------
(* A live owner keeps its record.                                           *)

Leaves(w) ==
    \/ proc'[w] \in {"gone", "unlock"}
    \/ \E c \in Coords : At(c, "drop") /\ Own(c) = w

\* Who takes the record of a live ready worker away: the worker itself, or
\* the start that gave it up.
LEMMA KeptStep ==
    ASSUME TypeOK, Next, NEW w \in Procs, rec.proc = w, rec.state = "ready", rec'.proc # w
    PROVE  Leaves(w)
<1>0. proc \in [Procs -> Places] /\ w # None BY OwnershipAssumption DEF TypeOK
<1>1. CASE UNCHANGED rec BY <1>1
\* A process that is dead and is not launched stays dead.
<1>2. ASSUME ~Alive(w) PROVE proc'[w] = "gone"
  <2>1. Follows(w) BY StepFollows
  <2>2. proc'[w] # "boot"
    <3>1. ASSUME NEW v \in Procs,
                 \/ WorkerStep(v) \/ StartByHand(v)
                 \/ ClaimTorn(v) \/ ReleaseTorn(v) \/ Fails(v) \/ Dies(v)
          PROVE  proc'[w] # "boot"
      BY <1>0, <1>2, <3>1
         DEF WorkerStep, StartByHand, ClaimTorn, ReleaseTorn, Fails, Dies, Acquire, Handlers,
             Release, Exit, Claim, Heartbeat, Goes, Fresh, Alive
    <3>2. ASSUME NEW c \in Coords,
                 \/ AutoStart(c) \/ ExplicitStart(c) \/ Stop(c) \/ CoordStep(c)
                 \/ PublishTorn(c) \/ WaitTimeout(c) \/ ReapTimeout(c) \/ CoordDies(c)
          PROVE  proc'[w] # "boot"
      BY <1>0, <1>2, <3>2
         DEF AutoStart, ExplicitStart, Stop, CoordStep, PublishTorn, WaitTimeout, ReapTimeout,
             CoordDies, CheckStart, CheckStop, Wait, PollReturns, Publish, GivesUp, Fail, Term,
             Reap, CleanEnd, Spawn, Drop, Goes, Fresh, Alive, Terminated
    <3> QED BY <3>1, <3>2, <1>0, <1>2 DEF Next, Look, Alive
  <2> QED BY <1>2, <2>1, <2>2 DEF Follows, Alive, Older
<1>3. CASE ~Alive(w) BY <1>2, <1>3 DEF Leaves
<1> SUFFICES ASSUME Alive(w) PROVE Leaves(w)
  BY <1>3
<1>4. ASSUME NEW d \in Doubts PROVE Status(d).rec = rec
  BY <1>0, StatusKeeps
<1>5. CASE \E d \in Doubts : Files(Status(d)) BY <1>4, <1>5 DEF Files
<1>6. ASSUME NEW v \in Procs,
             \/ WorkerStep(v) \/ StartByHand(v)
             \/ ClaimTorn(v) \/ ReleaseTorn(v) \/ Fails(v) \/ Dies(v)
      PROVE  Leaves(w)
  <2>1. CASE ClaimTorn(v)
    <3>1. None \in Doubts BY DEF Doubts
    <3> QED BY <1>0, <1>4, <2>1, <3>1 DEF ClaimTorn, Refused, Running, Owner
  <2>2. ASSUME NEW d \in Doubts, Claim(v, d) PROVE Leaves(w)
    BY <1>0, <1>1, <1>4, <1>5, <2>2 DEF Claim, Refused, Running, Write, Owner, files
  <2>3. ASSUME NEW d \in Doubts, Heartbeat(v, d) PROVE Leaves(w)
    BY <1>1, <2>3 DEF Heartbeat, Write, Owner, files
  <2>4. CASE Release(v)
    BY <1>0, <1>1, <2>4 DEF Release, Clear, Goes, Leaves, files
  <2>5. CASE ReleaseTorn(v)
    BY <1>0, <2>5 DEF ReleaseTorn, Goes, Leaves
  <2> QED
    BY <1>1, <1>6, <2>1, <2>2, <2>3, <2>4, <2>5
       DEF WorkerStep, StartByHand, Fails, Dies, Acquire, Handlers, Exit, files, Doubts
<1>7. ASSUME NEW c \in Coords,
             \/ AutoStart(c) \/ ExplicitStart(c) \/ Stop(c) \/ CoordStep(c)
             \/ PublishTorn(c) \/ WaitTimeout(c) \/ ReapTimeout(c) \/ CoordDies(c)
      PROVE  Leaves(w)
  <2>1. CASE PublishTorn(c)
    <3>1. None \in Doubts BY DEF Doubts
    <3> QED BY <1>0, <1>4, <2>1, <3>1 DEF PublishTorn
  <2>2. ASSUME NEW d \in Doubts, Publish(c, d) PROVE Leaves(w)
    BY <1>0, <1>1, <1>4, <1>5, <2>2 DEF Publish, files
  <2>3. CASE Drop(c)
    BY <1>1, <2>3 DEF Drop, Clear, Leaves, files
  <2>4. ASSUME NEW d \in Doubts, Term(c, d) PROVE Leaves(w)
    <3>1. None \in Doubts BY DEF Doubts
    <3> QED BY <1>1, <1>5, <2>4, <3>1 DEF Term, files
  <2> QED
    BY <1>1, <1>5, <1>7, <2>1, <2>2, <2>3, <2>4
       DEF AutoStart, ExplicitStart, Stop, CoordStep, WaitTimeout, ReapTimeout, CoordDies,
           CheckStart, CheckStop, Wait, PollReturns, GivesUp, Fail, Reap, CleanEnd, Spawn, files,
           Doubts
<1> QED BY <1>5, <1>6, <1>7 DEF Next, Look, Doubts

\* A live worker recorded as ready stays recorded until it leaves, unless a start
\* that gave it up releases it.
THEOREM OwnersAreKept == Spec => OwnerKept
<1>1. TypeOK /\ [Next]_vars =>
        [\A w \in Procs : rec.proc = w /\ rec.state = "ready" /\ rec'.proc # w =>
            \/ proc'[w] \in {"gone", "unlock"}
            \/ \E c \in Coords : At(c, "drop") /\ Own(c) = w]_vars
  BY KeptStep DEF Leaves
<1> QED BY <1>1, OwnershipTyped, PTL DEF Spec, OwnerKept
=============================================================================
