----------------------------- MODULE TaskQueue -----------------------------
(***************************************************************************)
(* The market-data job queue (task_queue.py) and those who run its jobs:   *)
(* the resident worker's scheduling loop and job threads (task_worker.py)  *)
(* and the detached one-shot runners the API's Run starts.                 *)
(*                                                                         *)
(* A job is a JSON file in pending/, running/, done/ or failed/.  Rewriting *)
(* it and moving it are two sections of the queue lock, so other processes *)
(* act in between; both are no-ops or errors once the file has left the    *)
(* directory its path names.  Moving keeps the file's modification time.   *)
(*                                                                         *)
(* Jobs of one type are modelled, since slots are counted per type.  There *)
(* is one resident worker at a time (task_worker_ownership.py).  Process   *)
(* numbers are not reused while a file still holds them.                   *)
(***************************************************************************)
EXTENDS Integers, FiniteSets

CONSTANTS
    NumJobs,        \* jobs, numbered in the order of their file names
    Runners,        \* bound: job threads and one-shot processes at a time
    Requests,       \* API handlers that can serve Run at the same time
    AgePending,     \* whether a job may wait in pending/ for a minute
    MaxFaults,      \* bound: processes killed or stopped, failed launches,
                    \* running jobs deleted
    MaxRetries,     \* bound: retries of failed jobs
    Worker,         \* the process of the resident worker
    None

Jobs == 1..NumJobs
Procs == {Worker} \cup Runners

ASSUME QueueAssumption ==
    /\ {NumJobs, MaxFaults, MaxRetries} \subseteq Nat
    /\ AgePending \in BOOLEAN
    /\ Worker \notin Runners /\ None \notin Procs

VARIABLES
    dir,        \* dir[j]: the directory of job j's file
    job,        \* job[j]: its contents, and whether it is a minute old
    loop,       \* the resident worker: where it is, and what it scanned
    run,        \* run[r]: a job thread of the worker, or a one-shot process
    req,        \* req[q]: a Run request being served
    stopping,   \* processes that were sent SIGTERM
    faults, retries

vars == <<dir, job, loop, run, req, stopping, faults, retries>>
files == <<dir, job>>
procs == <<loop, run, req, stopping>>
bounds == <<faults, retries>>

\* owner is the live process whose number worker_pid holds, or None.
Job == [status : {"pending", "running", "cancelling", "done", "failed"},
        cancel : BOOLEAN, manual : BOOLEAN, owner : Procs \cup {None}, old : BOOLEAN]
Run == [at : {"started", "loaded", "execute", "raised", "mark", "move"},
        job : Jobs, proc : Procs, to : {"none", "done", "failed", "pending"}]

NewJob == [status |-> "pending", cancel |-> FALSE, manual |-> FALSE, owner |-> None,
           old |-> FALSE]
Off == [at |-> "off"]
Idle == [at |-> "idle"]
Stopped == [at |-> "stopped", busy |-> FALSE, queue |-> {}]

-----------------------------------------------------------------------------
(* Files.                                                                   *)

In(d) == {j \in Jobs : dir[j] = d}

\* update_job_file on the path of job j in directory d, with new contents v.
Update(d, j, v) ==
    job' = IF dir[j] = d THEN [job EXCEPT ![j] = [v EXCEPT !.old = FALSE]] ELSE job

\* Mutant: no job is recovered.
StaleNever(j) == FALSE

\* _requeue_stale_running_jobs.  Its max_age_s is 0 or 60, so a file is
\* always left alone for 60 seconds.
Stale(j) == dir[j] = "running" /\ job[j].owner = None /\ job[j].old

Recovered(j) == IF job[j].cancel THEN "failed" ELSE "pending"
Sweep ==
    /\ dir' = [j \in Jobs |-> IF Stale(j) THEN Recovered(j) ELSE dir[j]]
    /\ job' = [j \in Jobs |->
                 IF Stale(j)
                 THEN [job[j] EXCEPT !.status = Recovered(j), !.manual = FALSE,
                                     !.owner = None, !.old = FALSE]
                 ELSE job[j]]

\* A process ends; its number in a file is that of no live process.
Forget(p) == [j \in Jobs |-> IF job[j].owner = p THEN [job[j] EXCEPT !.owner = None]
                             ELSE job[j]]

-----------------------------------------------------------------------------
Init ==
    /\ dir = [j \in Jobs |-> "none"]
    /\ job = [j \in Jobs |-> NewJob]
    /\ loop = Stopped
    /\ run = [r \in Runners |-> Off]
    /\ req = [q \in Requests |-> Idle]
    /\ stopping = {}
    /\ faults = 0 /\ retries = 0

\* Something goes wrong, within the bound.
Fault == faults < MaxFaults /\ faults' = faults + 1 /\ UNCHANGED retries

-----------------------------------------------------------------------------
(* task_queue.py: operations of one lock section.                           *)

\* enqueue_job; file names grow with time.
Enqueue(j) ==
    /\ dir[j] = "none" /\ \A k \in Jobs : k < j => dir[k] # "none"
    /\ dir' = [dir EXCEPT ![j] = "pending"]
    /\ UNCHANGED <<job, procs, bounds>>

\* Mutant: a status that says the job ended is overwritten.
AlwaysCancelling(s) == "cancelling"
CancelStatus(s) == IF s \in {"pending", "running"} THEN "cancelling" ELSE s

\* request_cancel_job
Cancel(j) ==
    /\ dir[j] \in {"pending", "running"} /\ ~job[j].cancel
    /\ Update(dir[j], j, [job[j] EXCEPT !.cancel = TRUE, !.status = CancelStatus(@)])
    /\ UNCHANGED <<dir, procs, bounds>>

\* retry_failed_job keeps worker_pid and manual_parallel.
Retry(j) ==
    /\ dir[j] = "failed" /\ retries < MaxRetries
    /\ retries' = retries + 1
    /\ Update("failed", j, [job[j] EXCEPT !.status = "pending", !.cancel = FALSE])
    /\ dir' = [dir EXCEPT ![j] = "pending"]
    /\ UNCHANGED <<procs, faults>>

\* delete_job; the contents go with the file.  By default running/ is left out,
\* but a caller of the API may name it: the runner then goes on without a file.
Remove(j) ==
    /\ dir' = [dir EXCEPT ![j] = "gone"]
    /\ job' = [job EXCEPT ![j] = NewJob]
    /\ UNCHANGED procs
Delete(j) == dir[j] \in {"pending", "done", "failed"} /\ Remove(j) /\ UNCHANGED bounds
DeleteRunning(j) == Fault /\ dir[j] = "running" /\ Remove(j)

\* A minute passes without a write to the file.  All the steps of a runner and
\* a request take less, except the job's function.
Age(j) ==
    /\ ~job[j].old
    /\ dir[j] \in IF AgePending THEN {"pending", "running"} ELSE {"running"}
    /\ \A r \in Runners : run[r] # Off /\ run[r].job = j => run[r].at = "execute"
    /\ \A q \in Requests : req[q].at \notin {"idle", "check"} => req[q].job # j
    /\ job' = [job EXCEPT ![j].old = TRUE]
    /\ UNCHANGED <<dir, procs, bounds>>

-----------------------------------------------------------------------------
(* task_worker.py, main: the scheduling loop.                               *)

WorkerStart ==
    /\ loop = Stopped
    /\ loop' = [Stopped EXCEPT !.at = "top"]
    /\ UNCHANGED <<files, run, req, stopping, bounds>>

\* The top of an iteration recovers abandoned jobs.
WorkerSweep ==
    /\ loop.at = "top" /\ Worker \notin stopping
    /\ Sweep
    /\ loop' = [loop EXCEPT !.at = "scan"]
    /\ UNCHANGED <<run, req, stopping, bounds>>

\* It counts the running jobs and lists the pending ones, without the lock.
WorkerScan ==
    /\ loop.at = "scan"
    /\ loop' = [at |-> "start", busy |-> In("running") # {}, queue |-> In("pending")]
    /\ UNCHANGED <<files, run, req, stopping, bounds>>

\* The next job of the list is started if the regular slot is free.
WorkerStartJob(r) ==
    /\ loop.at = "start" /\ ~loop.busy /\ Worker \notin stopping
    /\ run[r] = Off
    /\ \E j \in loop.queue :
          /\ \A k \in loop.queue : j <= k
          /\ loop' = [loop EXCEPT !.busy = dir[j] = "pending", !.queue = @ \ {j}]
          /\ IF dir[j] = "pending"
             THEN /\ dir' = [dir EXCEPT ![j] = "running"]
                  /\ run' = [run EXCEPT ![r] = [at |-> "started", job |-> j,
                                                proc |-> Worker, to |-> "none"]]
             ELSE UNCHANGED <<dir, run>>
    /\ UNCHANGED <<job, req, stopping, bounds>>

WorkerIterates ==
    /\ loop.at = "start" /\ (loop.queue = {} \/ loop.busy \/ Worker \in stopping)
    /\ loop' = [Stopped EXCEPT !.at = "top"]
    /\ UNCHANGED <<files, run, req, stopping, bounds>>

Threads == {r \in Runners : run[r] # Off /\ run[r].proc = Worker}

\* After SIGTERM the loop ends, the threads are joined and the process exits.
WorkerExit ==
    /\ loop.at = "top" /\ Worker \in stopping /\ Threads = {}
    /\ loop' = Stopped
    /\ stopping' = stopping \ {Worker}
    /\ job' = Forget(Worker)
    /\ UNCHANGED <<dir, run, req, bounds>>

-----------------------------------------------------------------------------
(* start_pending_job, behind the API's Run.                                 *)

ReqAt(q, s) == req[q].at = s
ReqGoes(q, s) == req' = [req EXCEPT ![q].at = s]
ReqEnds(q) == req' = [req EXCEPT ![q] = Idle]

RunRequest(q, j) ==
    /\ req[q] = Idle
    /\ Sweep
    /\ req' = [req EXCEPT ![q] = [at |-> "check", job |-> j]]
    /\ UNCHANGED <<loop, run, stopping, bounds>>

\* One regular and one manual job of a type at a time, counted without the lock.
SlotFree ==
    /\ Cardinality(In("running")) < 2
    /\ \A j \in In("running") : ~job[j].manual

RunCheck(q) ==
    LET j == req[q].job IN
    /\ ReqAt(q, "check")
    /\ IF dir[j] = "pending" /\ job[j].status = "pending" /\ SlotFree
       THEN ReqGoes(q, "claim") ELSE ReqEnds(q)
    /\ UNCHANGED <<files, loop, run, stopping, bounds>>

RunClaim(q) ==
    LET j == req[q].job IN
    /\ ReqAt(q, "claim")
    /\ Update("pending", j, [job[j] EXCEPT !.status = "pending"])
    /\ ReqGoes(q, "move")
    /\ UNCHANGED <<dir, loop, run, stopping, bounds>>

RunMove(q) ==
    LET j == req[q].job IN
    /\ ReqAt(q, "move")
    /\ IF dir[j] = "pending"
       THEN dir' = [dir EXCEPT ![j] = "running"] /\ ReqGoes(q, "mark")
       ELSE UNCHANGED dir /\ ReqEnds(q)
    /\ UNCHANGED <<job, loop, run, stopping, bounds>>

RunMark(q) ==
    LET j == req[q].job IN
    /\ ReqAt(q, "mark")
    /\ Update("running", j, [job[j] EXCEPT !.status = "running", !.manual = TRUE])
    /\ ReqGoes(q, "launch")
    /\ UNCHANGED <<dir, loop, run, stopping, bounds>>

RunLaunch(q, r) ==
    /\ ReqAt(q, "launch") /\ run[r] = Off
    /\ run' = [run EXCEPT ![r] = [at |-> "started", job |-> req[q].job,
                                  proc |-> r, to |-> "none"]]
    /\ ReqEnds(q)
    /\ UNCHANGED <<files, loop, stopping, bounds>>

\* Popen fails: the job is put back, by an update and a move.
RunLaunchFails(q) ==
    LET j == req[q].job IN
    /\ ReqAt(q, "launch") /\ faults < MaxFaults
    /\ faults' = faults + 1
    /\ Update("running", j, [job[j] EXCEPT !.status = "pending", !.manual = FALSE])
    /\ ReqGoes(q, "undo")
    /\ UNCHANGED <<dir, loop, run, stopping, retries>>

RunUndo(q) ==
    LET j == req[q].job IN
    /\ ReqAt(q, "undo")
    /\ dir' = IF dir[j] = "running" THEN [dir EXCEPT ![j] = "pending"] ELSE dir
    /\ ReqEnds(q)
    /\ UNCHANGED <<job, loop, run, stopping, bounds>>

-----------------------------------------------------------------------------
(* _run_job, in a job thread or a one-shot process.                         *)

RunnerAt(r, s) == run[r].at = s
RunnerGoes(r, s) == run' = [run EXCEPT ![r].at = s]
RunnerMarks(r, d) == run' = [run EXCEPT ![r].at = "mark", ![r].to = d]

\* The runner is done; a one-shot process exits.
RunnerEnds(r) ==
    /\ run' = [run EXCEPT ![r] = Off]
    /\ stopping' = stopping \ {r}
    /\ job' = Forget(r)

\* Mutant: cancel_requested is not looked at.
RunnerLoadBlind(r) ==
    /\ RunnerAt(r, "started")
    /\ IF dir[run[r].job] # "running"
       THEN run' = [run EXCEPT ![r].at = "move", ![r].to = "failed"]
       ELSE RunnerGoes(r, "loaded")
    /\ UNCHANGED <<files, loop, req, stopping, bounds>>

\* Load the file and look at cancel_requested.  Without a file the job is
\* moved to failed/, which raises unless the file has come back.
RunnerLoad(r) ==
    LET j == run[r].job IN
    /\ RunnerAt(r, "started")
    /\ IF dir[j] # "running"
       THEN run' = [run EXCEPT ![r].at = "move", ![r].to = "failed"]
       ELSE IF job[j].cancel THEN RunnerMarks(r, "failed") ELSE RunnerGoes(r, "loaded")
    /\ UNCHANGED <<files, loop, req, stopping, bounds>>

\* Mutant: the worker's number is not recorded.
Unstamped(r) == [job[run[r].job] EXCEPT !.status = "running"]
Stamped(r) == [job[run[r].job] EXCEPT !.status = "running", !.owner = run[r].proc]
RunnerStamp(r) ==
    /\ RunnerAt(r, "loaded")
    /\ Update("running", run[r].job, Stamped(r))
    /\ RunnerGoes(r, "execute")
    /\ UNCHANGED <<dir, loop, req, stopping, bounds>>

\* The job's function reports progress, which writes the file.
RunnerProgress(r) ==
    LET j == run[r].job IN
    /\ RunnerAt(r, "execute") /\ dir[j] = "running" /\ job[j].old
    /\ Update("running", j, job[j])
    /\ UNCHANGED <<dir, procs, bounds>>

\* It returns, or it raises: an error, a cancellation or a stop it noticed.
RunnerReturns(r) ==
    /\ RunnerAt(r, "execute")
    /\ RunnerMarks(r, "done")
    /\ UNCHANGED <<files, loop, req, stopping, bounds>>

\* The handler's look at the stop flag and at the file.
Requeue(r) ==
    /\ run[r].proc \in stopping /\ dir[run[r].job] = "running"
    /\ ~job[run[r].job].cancel
RunnerRaises(r) ==
    /\ RunnerAt(r, "execute") \/ RunnerAt(r, "raised")
    /\ RunnerMarks(r, IF Requeue(r) THEN "pending" ELSE "failed")
    /\ UNCHANGED <<files, loop, req, stopping, bounds>>

RunnerMark(r) ==
    LET j == run[r].job to == run[r].to IN
    /\ RunnerAt(r, "mark")
    /\ Update("running", j,
              [job[j] EXCEPT !.status = to,
                             !.owner = IF to = "pending" THEN None ELSE @,
                             !.manual = @ /\ to # "pending"])
    /\ RunnerGoes(r, "move")
    /\ UNCHANGED <<dir, loop, req, stopping, bounds>>

\* A move of a file that is gone raises: the handler takes over after a move
\* to done/, and marks the job failed after one of its own to pending/.
RunnerMove(r) ==
    LET j == run[r].job IN
    /\ RunnerAt(r, "move")
    /\ IF dir[j] # "running" /\ run[r].to # "failed"
       THEN /\ IF run[r].to = "done" THEN RunnerGoes(r, "raised") ELSE RunnerMarks(r, "failed")
            /\ UNCHANGED <<files, stopping>>
       ELSE /\ dir' = IF dir[j] = "running" THEN [dir EXCEPT ![j] = run[r].to] ELSE dir
            /\ RunnerEnds(r)
    /\ UNCHANGED <<loop, req, bounds>>

-----------------------------------------------------------------------------
(* Processes die or are stopped.                                            *)

WorkerDies ==
    /\ Fault /\ loop # Stopped
    /\ loop' = Stopped
    /\ run' = [r \in Runners |-> IF r \in Threads THEN Off ELSE run[r]]
    /\ stopping' = stopping \ {Worker}
    /\ job' = Forget(Worker)
    /\ UNCHANGED <<dir, req>>

RunnerDies(r) ==
    /\ Fault /\ run[r] # Off /\ run[r].proc = r
    /\ RunnerEnds(r)
    /\ UNCHANGED <<dir, loop, req>>

ApiDies(q) ==
    /\ Fault /\ req[q] # Idle
    /\ ReqEnds(q)
    /\ UNCHANGED <<files, loop, run, stopping>>

Sigterm(p) ==
    /\ Fault /\ p \notin stopping
    /\ IF p = Worker THEN loop # Stopped ELSE run[p] # Off /\ run[p].proc = p
    /\ stopping' = stopping \cup {p}
    /\ UNCHANGED <<files, loop, run, req>>

-----------------------------------------------------------------------------
WorkerStep ==
    \/ WorkerStart \/ WorkerSweep \/ WorkerScan \/ WorkerIterates \/ WorkerExit
    \/ \E r \in Runners : WorkerStartJob(r)
RequestStep(q) ==
    \/ RunCheck(q) \/ RunClaim(q) \/ RunMove(q) \/ RunMark(q) \/ RunUndo(q)
    \/ \E r \in Runners : RunLaunch(q, r)
RunnerStep(r) ==
    \/ RunnerLoad(r) \/ RunnerStamp(r) \/ RunnerReturns(r) \/ RunnerRaises(r)
    \/ RunnerMark(r) \/ RunnerMove(r)

Next ==
    \/ \E j \in Jobs : Enqueue(j) \/ Cancel(j) \/ Retry(j) \/ Delete(j) \/ DeleteRunning(j)
                          \/ Age(j)
    \/ WorkerStep \/ WorkerDies
    \/ \E q \in Requests : RequestStep(q) \/ RunLaunchFails(q) \/ ApiDies(q)
                             \/ \E j \in Jobs : RunRequest(q, j)
    \/ \E r \in Runners : RunnerStep(r) \/ RunnerProgress(r) \/ RunnerDies(r)
    \/ \E p \in Procs : Sigterm(p)

\* The loop iterates for ever, the API server starts a worker that is missing,
\* handlers and jobs end, and time passes.  Users and faults are not fair.
Fairness ==
    /\ WF_vars(WorkerStep)
    /\ \A q \in Requests : WF_vars(RequestStep(q))
    /\ \A r \in Runners : WF_vars(RunnerStep(r))
    /\ \A j \in Jobs : WF_vars(Age(j))

Spec == Init /\ [][Next]_vars
FairSpec == Spec /\ Fairness

-----------------------------------------------------------------------------
(* Properties.                                                              *)

\* Files and processes hold values of their kind.
TypeOK ==
    /\ dir \in [Jobs -> {"none", "pending", "running", "done", "failed", "gone"}]
    /\ job \in [Jobs -> Job]
    /\ loop \in [at : {"stopped", "top", "scan", "start"}, busy : BOOLEAN, queue : SUBSET Jobs]
    /\ run \in [Runners -> Run \cup {Off}]
    /\ req \in [Requests -> {Idle} \cup
                  [at : {"check", "claim", "move", "mark", "launch", "undo"}, job : Jobs]]
    /\ stopping \subseteq Procs
    /\ faults \in 0..MaxFaults /\ retries \in 0..MaxRetries

\* The runners that have a job as theirs.
Holders(j) == {r \in Runners : run[r] # Off /\ run[r].job = j}

\* Where pending jobs are picked up within a minute (AgePending = FALSE), a job
\* is in the hands of one runner at a time, whatever dies or is stopped and
\* whoever starts it: no two executions write the same market data.
OneRunner == \A j \in Jobs : Cardinality(Holders(j)) <= 1

\* Under the same condition a file at rest says what its directory says: what
\* the Jobs page shows as finished was marked finished, and nothing pending was
\* marked anything else.
StatusFits ==
    \A j \in Jobs :
        /\ dir[j] = "done" => job[j].status = "done"
        /\ dir[j] = "failed" => job[j].status = "failed"
        /\ dir[j] = "pending" => job[j].status \in {"pending", "cancelling"}

\* "Never reclaim a newly claimed job during that handoff": a job leaves
\* running/ for pending/ only while nobody is about to execute it.
HandoffKept ==
    [][\A j \in Jobs : dir[j] = "running" /\ dir'[j] = "pending" =>
          \A r \in Holders(j) : run[r].at \notin {"started", "loaded"}]_vars

\* A cancellation is obeyed: one that comes while the job waits, or before its
\* runner has looked at cancel_requested, ends it in failed/, whoever dies,
\* stops, recovers or cannot be launched meanwhile; only a deletion forestalls
\* that.  The job's function is never entered, or the job would end in done/.
CancelTakesEffect ==
    \A j \in Jobs :
        (/\ dir[j] \in {"pending", "running"} /\ job[j].cancel
         /\ \A r \in Holders(j) : run[r].at = "started") ~> dir[j] \in {"failed", "gone"}

\* Every job ends: none starves in pending/, none is abandoned in running/.
JobsEnd ==
    \A j \in Jobs : dir[j] \in {"pending", "running"} ~> dir[j] \in {"done", "failed", "gone"}
=============================================================================
