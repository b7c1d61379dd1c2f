------------------------- MODULE TaskWorkerOwnership -------------------------
(* Which process is the resident task worker (task_worker_ownership.py).      *)
(*                                                                            *)
(* A worker holds a lifetime lock while it lives and names itself in an owner *)
(* file and a pid file.  Coordinators (the API server's watchdog and handlers *)
(* that start a worker, the Services page that starts or stops one) work      *)
(* under a spawn lock; each look at the files is a section of the owner lock. *)
(* Processes die between any two sections, and between the two file writes of *)
(* one.  A worker of an older version has no lock and only a pid file.        *)
(*                                                                            *)
(* A process stands for its pid, creation time and owner id: a pid a file     *)
(* still names is not given to another worker.  Any other process under that  *)
(* pid is not the worker, or cannot be inspected: the parameter d of an       *)
(* action is the process whose inspection fails, None when none does.         *)
EXTENDS Naturals, FiniteSets

CONSTANTS
    Procs,        \* resident workers, of this version or an older one
    Coords,       \* calls of ensure_task_worker_started and stop_task_worker
    None,
    ByHand,       \* may somebody start a worker from a shell?
    MaxFaults     \* bound: deaths, failed inspections, timeouts

ASSUME OwnershipAssumption ==
    None \notin Procs /\ MaxFaults \in Nat /\ ByHand \in BOOLEAN

VARIABLES
    proc,         \* where each process is in task_worker.main
    rec,          \* worker.owner.json
    pidf,         \* worker.pid
    sup,          \* worker.suppression.json: automatic start is suppressed
    coord,        \* where each coordinator is
    faults

files == <<rec, pidf>>
vars == <<proc, rec, pidf, sup, coord, faults>>

-----------------------------------------------------------------------------
Locked == {"locked", "claimed", "loop", "stop", "unlock"}  \* lifetime lock held
Older == {"old", "oldstop"}                                \* no lock, no owner file
Places == {"gone", "boot"} \cup Locked \cup Older

\* id: the owner id the process was started with, or one made up for its pid.
Owner(p, state, id) == [proc |-> p, state |-> state, id |-> id]
NoOwner == Owner(None, "ready", "own")
Records == [proc : Procs \cup {None}, state : {"starting", "ready"}, id : {"own", "legacy"}]

\* pub: ensure_task_worker_started knows that its child is in the owner file.
Idle == [at |-> "idle", task |-> "start", own |-> None, pub |-> FALSE]
Work == [at : {"idle", "check", "wait", "spawn", "poll", "fail", "term", "reap", "end", "drop"},
         task : {"start", "stop", "clean", "fail"}, own : Procs \cup {None}, pub : BOOLEAN]

Init ==
    /\ pidf \in Procs \cup {None}
    /\ proc = [p \in Procs |-> IF p = pidf THEN "old" ELSE "gone"]
    /\ rec = NoOwner
    /\ sup = FALSE
    /\ coord = [c \in Coords |-> Idle]
    /\ faults = 0

Alive(p) == proc[p] # "gone"

Fault == faults < MaxFaults /\ faults' = faults + 1
Inspects(d) == IF d = None THEN UNCHANGED faults ELSE Fault

\* Mutant: a pid file without an owner is not adopted.
StatusForgets(d) ==
    IF rec.proc # None /\ (rec.proc = d \/ Alive(rec.proc))
    THEN [rec |-> rec, pid |-> IF rec.proc = d THEN pidf ELSE rec.proc, sure |-> rec.proc # d]
    ELSE [rec |-> NoOwner, pid |-> None, sure |-> TRUE]

\* _status_locked: a dead owner is cleared, a live one's pid file repaired, and
\* a pid file without an owner that names a live worker is adopted.
Status(d) ==
    IF rec.proc # None /\ (rec.proc = d \/ Alive(rec.proc))
    THEN [rec |-> rec, pid |-> IF rec.proc = d THEN pidf ELSE rec.proc, sure |-> rec.proc # d]
    ELSE LET p == IF pidf = rec.proc THEN None ELSE pidf IN
         IF p # None /\ (p = d \/ Alive(p))
         THEN [rec |-> IF p = d THEN NoOwner ELSE Owner(p, "ready", "legacy"), pid |-> p, sure |-> p # d]
         ELSE [rec |-> NoOwner, pid |-> None, sure |-> TRUE]

Running(s) == s.rec.proc # None /\ s.rec.state = "ready"
Files(s) == rec' = s.rec /\ pidf' = s.pid

\* status() by the Jobs page, the watchdog or anybody else.
Look(d) ==
    /\ Inspects(d) /\ Files(Status(d))
    /\ UNCHANGED <<proc, sup, coord>>

\* _write_owner_locked.
Write(owner) == rec' = owner /\ pidf' = owner.proc

\* Mutant: the owner files are removed without a look at whose they are.
ClearAny(p) == rec' = NoOwner /\ pidf' = IF pidf = p THEN None ELSE pidf

\* _clear_owner_locked: only the files of that owner.
Clear(p) ==
    IF rec.proc = p /\ rec.id = "own"
    THEN rec' = NoOwner /\ pidf' = IF pidf = p THEN None ELSE pidf
    ELSE UNCHANGED files

-----------------------------------------------------------------------------
(* A worker: task_worker.main.                                              *)

Goes(w, at) == proc' = [proc EXCEPT ![w] = at]

Fresh(w) == ~Alive(w) /\ w \notin {rec.proc, pidf} /\ \A c \in Coords : coord[c].own # w

StartByHand(w) ==
    /\ ByHand /\ Fresh(w)
    /\ Goes(w, "boot")
    /\ UNCHANGED <<files, sup, coord, faults>>

\* acquire_lifetime: a second worker ends at once.
Acquire(w) ==
    /\ proc[w] = "boot"
    /\ Goes(w, IF \E p \in Procs : proc[p] \in Locked THEN "gone" ELSE "locked")
    /\ UNCHANGED <<files, sup, coord, faults>>

\* claim_current: refuses when another worker is alive and ready.
Refused(w, s) == Running(s) /\ (s.rec.proc # w \/ s.rec.id = "legacy")
Claim(w, d) ==
    LET s == Status(d) IN
    /\ proc[w] = "locked" /\ Inspects(d)
    /\ IF d = w THEN UNCHANGED files /\ Goes(w, "gone")
       ELSE IF ~s.sure \/ Refused(w, s) THEN Files(s) /\ Goes(w, "gone")
       ELSE Write(Owner(w, "ready", "own")) /\ Goes(w, "claimed")
    /\ UNCHANGED <<sup, coord>>

\* It dies when the owner file is written and the pid file is not.
ClaimTorn(w) ==
    LET s == Status(None) IN
    /\ proc[w] = "locked" /\ ~Refused(w, s) /\ Fault
    /\ rec' = Owner(w, "ready", "own") /\ pidf' = s.pid
    /\ Goes(w, "gone")
    /\ UNCHANGED <<sup, coord>>

\* The capability heartbeat and the signal handlers; the first may raise.
Handlers(w) ==
    /\ proc[w] = "claimed"
    /\ Goes(w, "loop")
    /\ UNCHANGED <<files, sup, coord, faults>>

\* heartbeat: a worker that is no longer the owner stops.
Heartbeat(w, d) ==
    /\ proc[w] = "loop" /\ Inspects(d)
    /\ IF rec.proc # w \/ rec.id = "legacy"
       THEN Goes(w, "stop") /\ UNCHANGED files
       ELSE UNCHANGED proc /\ IF d = w THEN UNCHANGED files ELSE Write(Owner(w, "ready", "own"))
    /\ UNCHANGED <<sup, coord>>

\* Ten errors in a row, or an exception before the loop.
Fails(w) ==
    /\ proc[w] \in {"claimed", "loop"} /\ Fault
    /\ Goes(w, "stop")
    /\ UNCHANGED <<files, sup, coord>>

\* The job threads have ended: release the owner file, then the lock.
Release(w) ==
    /\ proc[w] = "stop"
    /\ Clear(w)
    /\ Goes(w, "unlock")
    /\ UNCHANGED <<sup, coord, faults>>

ReleaseTorn(w) ==
    /\ proc[w] = "stop" /\ rec.proc = w /\ rec.id = "own" /\ Fault
    /\ rec' = NoOwner /\ UNCHANGED pidf
    /\ Goes(w, "gone")
    /\ UNCHANGED <<sup, coord>>

Exit(w) ==
    /\ proc[w] \in {"unlock", "oldstop"}
    /\ Goes(w, "gone")
    /\ UNCHANGED <<files, sup, coord, faults>>

Dies(w) ==
    /\ Alive(w) /\ Fault
    /\ Goes(w, "gone")
    /\ UNCHANGED <<files, sup, coord>>

-----------------------------------------------------------------------------
(* A coordinator: ensure_task_worker_started and stop_task_worker.          *)

At(c, at) == coord[c].at = at
On(c, at, task) == At(c, at) /\ coord[c].task = task
Own(c) == coord[c].own
\* The record is the one this coordinator means: an adopted one has another id.
Names(r, c) == r.proc = Own(c) /\ (coord[c].task = "stop" \/ r.id = "own")
Moves(c, at) == coord' = [coord EXCEPT ![c].at = at]
Ends(c) == coord' = [coord EXCEPT ![c] = Idle]
Targets(c, task, p) ==
    coord' = [coord EXCEPT ![c] = [at |-> "term", task |-> task, own |-> p, pub |-> @.pub]]
SpawnNext(c) == coord' = [coord EXCEPT ![c] = [Idle EXCEPT !.at = "spawn"]]

SpawnLockFree == \A c \in Coords : At(c, "idle")

AutoStart(c) ==
    /\ SpawnLockFree /\ ~sup
    /\ Moves(c, "check")
    /\ UNCHANGED <<proc, files, sup, faults>>

ExplicitStart(c) ==
    /\ SpawnLockFree
    /\ sup' = FALSE
    /\ Moves(c, "check")
    /\ UNCHANGED <<proc, files, faults>>

Stop(c) ==
    /\ SpawnLockFree
    /\ sup' = TRUE
    /\ coord' = [coord EXCEPT ![c] = [Idle EXCEPT !.at = "check", !.task = "stop"]]
    /\ UNCHANGED <<proc, files, faults>>

CheckStart(c, d) ==
    LET s == Status(d) IN
    /\ On(c, "check", "start") /\ Inspects(d) /\ Files(s)
    /\ IF ~s.sure \/ Running(s) THEN Ends(c)
       ELSE IF s.rec.proc = None THEN SpawnNext(c)
       ELSE coord' = [coord EXCEPT ![c].at = "wait", ![c].own = s.rec.proc]
    /\ UNCHANGED <<proc, sup>>

CheckStop(c, d) ==
    LET s == Status(d) IN
    /\ On(c, "check", "stop") /\ Inspects(d) /\ Files(s)
    /\ IF ~s.sure \/ s.rec.proc = None THEN Ends(c) ELSE Targets(c, "stop", s.rec.proc)
    /\ UNCHANGED <<proc, sup>>

\* _wait_for_ready: a worker is starting already, left by another coordinator.
Wait(c, d) ==
    LET s == Status(d) IN
    /\ At(c, "wait") /\ Inspects(d) /\ Files(s)
    /\ Running(s) \/ s.rec.proc # Own(c)
    /\ IF Running(s) THEN Ends(c)
       ELSE IF s.rec.proc = None THEN SpawnNext(c)
       ELSE Targets(c, "clean", s.rec.proc)
    /\ UNCHANGED <<proc, sup>>

WaitTimeout(c) ==
    /\ At(c, "wait") /\ Fault
    /\ Targets(c, "clean", Own(c))
    /\ UNCHANGED <<proc, files, sup>>

Spawn(c, w) ==
    /\ At(c, "spawn") /\ Fresh(w)
    /\ Goes(w, "boot")
    /\ coord' = [coord EXCEPT ![c].at = "poll", ![c].own = w]
    /\ UNCHANGED <<files, sup, faults>>

\* Somebody is ready, this child or another; or another is starting.
PollReturns(c, d) ==
    LET s == Status(d) IN
    /\ At(c, "poll") /\ Inspects(d) /\ Files(s)
    /\ Running(s) \/ s.rec.proc \notin {None, Own(c)}
    /\ Ends(c)
    /\ UNCHANGED <<proc, sup>>

\* publish_starting: not over another live owner.
Publish(c, d) ==
    LET s == Status(d) IN
    /\ At(c, "poll") /\ ~coord[c].pub /\ Alive(Own(c)) /\ Inspects(d)
    /\ IF d = Own(c) THEN UNCHANGED files /\ Moves(c, "fail")
       ELSE IF ~s.sure THEN Files(s) /\ Moves(c, "fail")
       ELSE IF s.rec.proc # None
            THEN Files(s) /\ coord' = [coord EXCEPT ![c].pub = Names(s.rec, c)]
       ELSE Write(Owner(Own(c), "starting", "own")) /\ coord' = [coord EXCEPT ![c].pub = TRUE]
    /\ UNCHANGED <<proc, sup>>

PublishTorn(c) ==
    LET s == Status(None) IN
    /\ At(c, "poll") /\ ~coord[c].pub /\ Alive(Own(c)) /\ s.rec.proc = None /\ Fault
    /\ rec' = Owner(Own(c), "starting", "own") /\ pidf' = s.pid
    /\ Ends(c)
    /\ UNCHANGED <<proc, sup>>

\* Mutant: the exit of the child is not noticed.
GivesUpLate(c, d) ==
    LET s == Status(d) IN
    /\ At(c, "poll") /\ Files(s)
    /\ d = None /\ Fault
    /\ IF Running(s) THEN Ends(c) ELSE Moves(c, "fail")
    /\ UNCHANGED <<proc, sup>>

\* The child exited, or did not acknowledge in time.
GivesUp(c, d) ==
    LET s == Status(d) IN
    /\ At(c, "poll") /\ Files(s)
    /\ IF Alive(Own(c)) THEN d = None /\ Fault ELSE Inspects(d)
    /\ IF Running(s) THEN Ends(c) ELSE Moves(c, "fail")
    /\ UNCHANGED <<proc, sup>>

\* A child that never came into the owner file is left alone.
Fail(c, d) ==
    LET s == Status(d) IN
    /\ At(c, "fail") /\ Inspects(d)
    /\ IF coord[c].pub THEN d = None /\ UNCHANGED files /\ Targets(c, "fail", Own(c))
       ELSE /\ Files(s)
            /\ IF Names(s.rec, c) THEN Targets(c, "fail", Own(c)) ELSE Ends(c)
    /\ UNCHANGED <<proc, sup>>

\* SIGTERM ends a process that has no handler yet.
Terminated(p) == CASE proc[p] \in {"loop", "stop"} -> "stop" [] proc[p] = "unlock" -> "unlock"
                   [] proc[p] \in Older -> "oldstop" [] OTHER -> "gone"

\* signal_owner: only the process the owner file names.
Term(c, d) ==
    LET p == Own(c) s == Status(None) IN
    /\ At(c, "term") /\ Inspects(d)
    /\ IF Names(rec, c) /\ d = p THEN Ends(c) /\ UNCHANGED <<proc, files>>
       ELSE IF Names(rec, c) /\ Alive(p) THEN Goes(p, Terminated(p)) /\ Moves(c, "reap") /\ UNCHANGED files
       ELSE /\ IF coord[c].task = "stop" THEN Files(s) /\ Ends(c)
                                         ELSE UNCHANGED files /\ Moves(c, "end")
            /\ UNCHANGED proc
    /\ UNCHANGED sup

\* Wait for it to be gone: in the owner file, or as a child.
Reap(c, d) ==
    LET s == Status(d) gone == ~Names(s.rec, c) IN
    /\ At(c, "reap") /\ Inspects(d)
    /\ \/ coord[c].task = "stop" /\ gone /\ Files(s) /\ Ends(c)
       \/ coord[c].task = "clean" /\ gone /\ Files(s) /\ SpawnNext(c)
       \/ coord[c].task = "fail" /\ ~Alive(Own(c)) /\ d = None /\ UNCHANGED files /\ Moves(c, "end")
    /\ UNCHANGED <<proc, sup>>

\* A stop raises; a clean-up kills.
ReapTimeout(c) ==
    /\ At(c, "reap") /\ Fault
    /\ IF coord[c].task = "stop" THEN Ends(c) /\ UNCHANGED proc
       ELSE /\ Moves(c, "end")
            /\ IF Names(rec, c) /\ Alive(Own(c)) THEN Goes(Own(c), "gone") ELSE UNCHANGED proc
    /\ UNCHANGED <<files, sup>>

\* Is it still the owner?  If not, release whatever it left.
CleanEnd(c, d) ==
    LET s == Status(d) IN
    /\ At(c, "end") /\ Inspects(d) /\ Files(s)
    /\ IF Names(s.rec, c) THEN Ends(c) ELSE Moves(c, "drop")
    /\ UNCHANGED <<proc, sup>>

Drop(c) ==
    /\ At(c, "drop")
    /\ Clear(Own(c))
    /\ IF coord[c].task = "clean" THEN SpawnNext(c) ELSE Ends(c)
    /\ UNCHANGED <<proc, sup, faults>>

\* Its process dies, or the launch fails.
CoordDies(c) ==
    /\ ~At(c, "idle") /\ Fault
    /\ Ends(c)
    /\ UNCHANGED <<proc, files, sup>>

-----------------------------------------------------------------------------
WorkerStep(w) ==
    \/ Acquire(w) \/ Handlers(w) \/ Release(w) \/ Exit(w)
    \/ \E d \in Procs \cup {None} : Claim(w, d) \/ Heartbeat(w, d)

CoordStep(c) ==
    \/ \E d \in Procs \cup {None} :
          \/ CheckStart(c, d) \/ CheckStop(c, d) \/ Wait(c, d) \/ PollReturns(c, d)
          \/ Publish(c, d) \/ GivesUp(c, d) \/ Fail(c, d) \/ Term(c, d) \/ Reap(c, d)
          \/ CleanEnd(c, d)
    \/ \E w \in Procs : Spawn(c, w)
    \/ Drop(c)

Next ==
    \/ \E w \in Procs : \/ WorkerStep(w) \/ StartByHand(w)
                         \/ ClaimTorn(w) \/ ReleaseTorn(w) \/ Fails(w) \/ Dies(w)
    \/ \E c \in Coords : \/ AutoStart(c) \/ ExplicitStart(c) \/ Stop(c) \/ CoordStep(c)
                          \/ PublishTorn(c) \/ WaitTimeout(c) \/ ReapTimeout(c) \/ CoordDies(c)
    \/ \E d \in Procs \cup {None} : Look(d)

\* Processes advance, and the watchdog tries again for ever while jobs wait.
Fairness ==
    /\ \A w \in Procs : WF_vars(WorkerStep(w))
    /\ \A c \in Coords : WF_vars(CoordStep(c))
    /\ SF_vars(\E c \in Coords : AutoStart(c))

Spec == Init /\ [][Next]_vars
FairSpec == Spec /\ Fairness

-----------------------------------------------------------------------------
(* Properties.                                                              *)

\* Processes, files and coordinators hold values of their kind.
TypeOK ==
    /\ proc \in [Procs -> Places]
    /\ rec \in Records /\ pidf \in Procs \cup {None} /\ sup \in BOOLEAN
    /\ coord \in [Coords -> Work]
    /\ \A c \in Coords : coord[c].at \in {"wait", "poll", "fail", "term", "reap", "end", "drop"}
                            => coord[c].own # None
    /\ faults \in 0..MaxFaults

Executing(w) == proc[w] \in {"loop", "stop"} \cup Older

\* Two workers never execute jobs at the same time, whatever dies and whoever
\* starts one, not even one of an older version that knows no lock.
OneWorker == \A v, w \in Procs : Executing(v) /\ Executing(w) => v = w

\* A live worker that is recorded as ready stays recorded until it leaves: no
\* status call, start or stop takes the record away, with the exception of a
\* start that gave that very process up before it became ready.
OwnerKept ==
    [][\A w \in Procs : rec.proc = w /\ rec.state = "ready" /\ rec'.proc # w =>
          \/ proc'[w] \in {"gone", "unlock"}
          \/ \E c \in Coords : At(c, "drop") /\ Own(c) = w]_vars

\* While automatic start is not suppressed, a worker is running again in the end.
WorkerReturns == ~sup ~> (sup \/ \E w \in Procs : proc[w] \in {"loop", "old"})
=============================================================================
