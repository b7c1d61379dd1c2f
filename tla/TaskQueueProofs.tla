-------------------------- MODULE TaskQueueProofs --------------------------
(***************************************************************************)
(* Proofs about the job queue for any number of jobs, runners, requests,   *)
(* faults and retries, whether or not pending jobs age.                    *)
(*                                                                         *)
(* One runner per job, fitting statuses and the unbroken handoff hold as   *)
(* long as a claim finds a fresh file (FreshClaim): a file that is a       *)
(* minute old when it is claimed is the one cause of their violation.      *)
(*                                                                         *)
(* The recovery is the only step that moves a job somebody else may hold,  *)
(* and it is blind to a runner that has not written its number yet.  A job *)
(* deleted while it runs leaves its runner without a file, and never comes *)
(* back.                                                                   *)
(***************************************************************************)
EXTENDS TaskQueue, FiniteSetTheorems, TLAPS

Dirs == {"none", "pending", "running", "done", "failed", "gone"}
Waits == {"check", "claim", "move", "mark", "launch", "undo"}

FilesOK == dir \in [Jobs -> Dirs] /\ job \in [Jobs -> Job]
LoopOK == loop \in [at : {"stopped", "top", "scan", "start"}, busy : BOOLEAN,
                    queue : SUBSET Jobs]
RunOK == run \in [Runners -> Run \cup {Off}]
ReqOK == req \in [Requests -> {Idle} \cup [at : Waits, job : Jobs]]
\* A runner that writes its verdict has one.
Aimed == \A r \in Runners : run[r].at \in {"mark", "move"} => run[r].to # "none"
RestOK == stopping \subseteq Procs /\ faults \in 0..MaxFaults /\ retries \in 0..MaxRetries

LEMMA TypeParts == TypeOK <=> FilesOK /\ LoopOK /\ RunOK /\ ReqOK /\ RestOK
BY DEF TypeOK, FilesOK, LoopOK, RunOK, ReqOK, RestOK, Dirs, Waits

-----------------------------------------------------------------------------
(* Files.                                                                   *)

\* update_job_file keeps the files well formed.
LEMMA UpdateType ==
    ASSUME FilesOK, NEW d, NEW j \in Jobs, NEW v \in Job, Update(d, j, v)
    PROVE  job' \in [Jobs -> Job]
BY DEF FilesOK, Update, Job

LEMMA SweepType == ASSUME FilesOK, Sweep PROVE FilesOK'
<1>1. \A j \in Jobs : Recovered(j) \in {"failed", "pending"}
  BY DEF Recovered
<1>2. dir' \in [Jobs -> Dirs]
  BY <1>1 DEF FilesOK, Sweep, Dirs
<1>3. \A j \in Jobs : [job[j] EXCEPT !.status = Recovered(j), !.manual = FALSE,
                          !.owner = None, !.old = FALSE] \in Job
  BY <1>1 DEF FilesOK, Job
<1>4. job' \in [Jobs -> Job]
  BY <1>3 DEF FilesOK, Sweep
<1>. QED BY <1>2, <1>4 DEF FilesOK

LEMMA ForgetType == ASSUME FilesOK, NEW p PROVE Forget(p) \in [Jobs -> Job]
BY DEF FilesOK, Forget, Job

-----------------------------------------------------------------------------
(* Type correctness.                                                        *)

LEMMA InitType == Init => TypeOK
BY QueueAssumption DEF Init, TypeOK, Job, NewJob, Stopped, Off, Idle, Jobs, Procs

LEMMA QueueStepType ==
    ASSUME TypeOK, NEW j \in Jobs,
           Enqueue(j) \/ Cancel(j) \/ Retry(j) \/ Delete(j) \/ DeleteRunning(j) \/ Age(j)
    PROVE  TypeOK'
<1>1. FilesOK /\ LoopOK /\ RunOK /\ ReqOK /\ RestOK
  BY TypeParts
<1>2. job[j] \in Job
  BY <1>1 DEF FilesOK
<1>3. CASE Enqueue(j)
  BY <1>3 DEF TypeOK, Enqueue, procs, bounds
<1>7. CASE Delete(j) \/ DeleteRunning(j)
  <2>1. NewJob \in Job
    BY DEF NewJob, Job
  <2>2. FilesOK' /\ UNCHANGED procs
    BY <1>1, <1>7, <2>1 DEF Delete, DeleteRunning, Remove, FilesOK, Dirs
  <2>3. faults' \in 0..MaxFaults /\ UNCHANGED retries
    BY <1>1, <1>7, QueueAssumption DEF Delete, DeleteRunning, Fault, RestOK, bounds
  <2>. QED BY <2>2, <2>3 DEF TypeOK, FilesOK, Dirs, procs
<1>4. CASE Cancel(j)
  <2>1. [job[j] EXCEPT !.cancel = TRUE, !.status = CancelStatus(@)] \in Job
    BY <1>2 DEF Job, CancelStatus
  <2>2. job' \in [Jobs -> Job]
    BY <1>1, <1>4, <2>1, UpdateType DEF Cancel
  <2>. QED BY <1>4, <2>2 DEF TypeOK, Cancel, procs, bounds
<1>5. CASE Retry(j)
  <2>1. [job[j] EXCEPT !.status = "pending", !.cancel = FALSE] \in Job
    BY <1>2 DEF Job
  <2>2. job' \in [Jobs -> Job]
    BY <1>1, <1>5, <2>1, UpdateType DEF Retry
  <2>3. retries' \in 0..MaxRetries
    BY <1>1, <1>5, QueueAssumption DEF RestOK, Retry
  <2>. QED BY <1>5, <2>2, <2>3 DEF TypeOK, Retry, procs
<1>6. CASE Age(j)
  <2>1. job' \in [Jobs -> Job]
    BY <1>1, <1>6 DEF FilesOK, Age, Job
  <2>. QED BY <1>6, <2>1 DEF TypeOK, Age, procs, bounds
<1>. QED BY <1>3, <1>4, <1>5, <1>6, <1>7

LEMMA WorkerStepType == ASSUME TypeOK, WorkerStep PROVE TypeOK'
<1>1. FilesOK /\ LoopOK /\ RunOK /\ ReqOK /\ RestOK
  BY TypeParts
<1>2. CASE WorkerStart \/ WorkerIterates
  BY <1>2 DEF TypeOK, WorkerStart, WorkerIterates, Stopped, files, bounds
<1>3. CASE WorkerSweep
  <2>1. FilesOK'
    BY <1>1, <1>3, SweepType DEF WorkerSweep
  <2>2. LoopOK' /\ RunOK' /\ ReqOK' /\ RestOK'
    BY <1>1, <1>3 DEF WorkerSweep, LoopOK, RunOK, ReqOK, RestOK, bounds
  <2>. QED BY <2>1, <2>2, TypeParts DEF TypeOK, FilesOK, LoopOK, RunOK, ReqOK, RestOK, Dirs, Waits
<1>4. CASE WorkerScan
  BY <1>4 DEF TypeOK, WorkerScan, In, files, bounds
<1>5. CASE WorkerExit
  <2>1. job' \in [Jobs -> Job]
    BY <1>1, <1>5, ForgetType DEF WorkerExit
  <2>. QED BY <1>5, <2>1 DEF TypeOK, WorkerExit, Stopped, bounds
<1>6. ASSUME NEW r \in Runners, WorkerStartJob(r) PROVE TypeOK'
  <2>1. PICK j \in loop.queue :
          /\ loop' = [loop EXCEPT !.busy = dir[j] = "pending", !.queue = @ \ {j}]
          /\ IF dir[j] = "pending"
             THEN /\ dir' = [dir EXCEPT ![j] = "running"]
                  /\ run' = [run EXCEPT ![r] = [at |-> "started", job |-> j,
                                                proc |-> Worker, to |-> "none"]]
             ELSE UNCHANGED <<dir, run>>
    BY <1>6 DEF WorkerStartJob
  <2>2. j \in Jobs
    BY <1>1 DEF LoopOK
  <2>3. LoopOK'
    BY <1>1, <2>1 DEF LoopOK
  <2>4. dir' \in [Jobs -> Dirs]
    BY <1>1, <2>1, <2>2 DEF FilesOK, Dirs
  <2>5. [at |-> "started", job |-> j, proc |-> Worker, to |-> "none"] \in Run
    BY <2>2 DEF Run, Procs
  <2>6. RunOK'
    BY <1>1, <2>1, <2>5 DEF RunOK
  <2>. QED BY <1>6, <2>3, <2>4, <2>6
           DEF TypeOK, WorkerStartJob, LoopOK, RunOK, Dirs, bounds
<1>. QED BY <1>2, <1>3, <1>4, <1>5, <1>6 DEF WorkerStep
\* A request being served names a job.
LEMMA ReqJob ==
    ASSUME ReqOK, NEW q \in Requests, req[q] # Idle
    PROVE  req[q].job \in Jobs /\ req[q] = [at |-> req[q].at, job |-> req[q].job]
BY DEF ReqOK

LEMMA RequestStepType ==
    ASSUME TypeOK, NEW q \in Requests,
           RequestStep(q) \/ RunLaunchFails(q) \/ ApiDies(q) \/ \E j \in Jobs : RunRequest(q, j)
    PROVE  TypeOK'
<1>1. FilesOK /\ LoopOK /\ RunOK /\ ReqOK /\ RestOK
  BY TypeParts
<1>2. ASSUME req[q].at \in Waits
      PROVE  req[q].job \in Jobs /\ job[req[q].job] \in Job
  <2>1. req[q] # Idle
    BY <1>2 DEF Waits, Idle
  <2>. QED BY <1>1, <2>1, ReqJob DEF FilesOK
<1>3. ASSUME req[q].at \in Waits, NEW s \in Waits, ReqGoes(q, s) PROVE ReqOK'
  <2>1. req[q] \in [at : Waits, job : Jobs]
    BY <1>1, <1>3 DEF ReqOK, Idle, Waits
  <2>2. [req[q] EXCEPT !.at = s] \in [at : Waits, job : Jobs]
    BY <1>3, <2>1
  <2>. QED BY <1>1, <1>3, <2>2 DEF ReqGoes, ReqOK
<1>4. ReqEnds(q) => ReqOK'
  BY <1>1 DEF ReqEnds, ReqOK
<1>5. CASE RunCheck(q)
  <2>1. ReqOK'
    BY <1>3, <1>4, <1>5 DEF RunCheck, ReqAt, Waits
  <2>. QED BY <1>5, <2>1 DEF TypeOK, RunCheck, ReqOK, Waits, files, bounds
<1>6. CASE RunClaim(q)
  <2>1. ReqOK'
    BY <1>3, <1>6 DEF RunClaim, ReqAt, Waits
  <2>2. [job[req[q].job] EXCEPT !.status = "pending"] \in Job
    BY <1>2, <1>6 DEF RunClaim, ReqAt, Waits, Job
  <2>3. job' \in [Jobs -> Job]
    BY <1>1, <1>2, <1>6, <2>2, UpdateType DEF RunClaim, ReqAt, Waits
  <2>. QED BY <1>6, <2>1, <2>3 DEF TypeOK, RunClaim, ReqOK, Waits, bounds
<1>7. CASE RunMove(q)
  <2>1. ReqOK'
    BY <1>3, <1>4, <1>7 DEF RunMove, ReqAt, Waits
  <2>2. dir' \in [Jobs -> Dirs]
    BY <1>1, <1>7 DEF RunMove, FilesOK, Dirs
  <2>. QED BY <1>7, <2>1, <2>2 DEF TypeOK, RunMove, ReqOK, Waits, Dirs, bounds
<1>8. CASE RunMark(q)
  <2>1. ReqOK'
    BY <1>3, <1>8 DEF RunMark, ReqAt, Waits
  <2>2. [job[req[q].job] EXCEPT !.status = "running", !.manual = TRUE] \in Job
    BY <1>2, <1>8 DEF RunMark, ReqAt, Waits, Job
  <2>3. job' \in [Jobs -> Job]
    BY <1>1, <1>2, <1>8, <2>2, UpdateType DEF RunMark, ReqAt, Waits
  <2>. QED BY <1>8, <2>1, <2>3 DEF TypeOK, RunMark, ReqOK, Waits, bounds
<1>9. CASE RunUndo(q)
  <2>1. dir' \in [Jobs -> Dirs]
    BY <1>1, <1>9 DEF RunUndo, FilesOK, Dirs
  <2>. QED BY <1>4, <1>9, <2>1 DEF TypeOK, RunUndo, ReqOK, Waits, Dirs, bounds
<1>10. ASSUME NEW r \in Runners, RunLaunch(q, r) PROVE TypeOK'
  <2>1. [at |-> "started", job |-> req[q].job, proc |-> r, to |-> "none"] \in Run
    BY <1>2, <1>10 DEF RunLaunch, ReqAt, Waits, Run, Procs
  <2>2. RunOK'
    BY <1>1, <1>10, <2>1 DEF RunLaunch, RunOK
  <2>. QED BY <1>4, <1>10, <2>2 DEF TypeOK, RunLaunch, ReqOK, RunOK, Waits, files, bounds
<1>11. CASE RunLaunchFails(q)
  <2>1. ReqOK'
    BY <1>3, <1>11 DEF RunLaunchFails, ReqAt, Waits
  <2>2. [job[req[q].job] EXCEPT !.status = "pending", !.manual = FALSE] \in Job
    BY <1>2, <1>11 DEF RunLaunchFails, ReqAt, Waits, Job
  <2>3. job' \in [Jobs -> Job]
    BY <1>1, <1>2, <1>11, <2>2, UpdateType DEF RunLaunchFails, ReqAt, Waits
  <2>4. faults' \in 0..MaxFaults
    BY <1>1, <1>11, QueueAssumption DEF RunLaunchFails, RestOK
  <2>. QED BY <1>11, <2>1, <2>3, <2>4 DEF TypeOK, RunLaunchFails, ReqOK, Waits
<1>12. CASE ApiDies(q)
  <2>1. faults' \in 0..MaxFaults
    BY <1>1, <1>12, QueueAssumption DEF ApiDies, Fault, RestOK
  <2>. QED BY <1>4, <1>12, <2>1 DEF TypeOK, ApiDies, Fault, ReqOK, Waits, files
<1>13. ASSUME NEW j \in Jobs, RunRequest(q, j) PROVE TypeOK'
  <2>1. FilesOK'
    BY <1>1, <1>13, SweepType DEF RunRequest
  <2>2. ReqOK'
    BY <1>1, <1>13 DEF RunRequest, ReqOK, Waits
  <2>. QED BY <1>13, <2>1, <2>2 DEF TypeOK, RunRequest, FilesOK, ReqOK, Dirs, Waits, bounds
<1>. QED BY <1>5, <1>6, <1>7, <1>8, <1>9, <1>10, <1>11, <1>12, <1>13 DEF RequestStep

\* A runner that is not off has a job.
LEMMA RunnerJob ==
    ASSUME RunOK, NEW r \in Runners, run[r] # Off
    PROVE  run[r] \in Run /\ run[r].job \in Jobs
BY DEF RunOK, Run

LEMMA RunnerEndsType ==
    ASSUME TypeOK, NEW r \in Runners, RunnerEnds(r)
    PROVE  RunOK' /\ job' \in [Jobs -> Job] /\ stopping' \subseteq Procs
<1>1. FilesOK /\ RunOK /\ RestOK
  BY TypeParts
<1>2. job' \in [Jobs -> Job]
  BY <1>1, ForgetType DEF RunnerEnds
<1>3. RunOK'
  BY <1>1 DEF RunnerEnds, RunOK
<1>4. stopping' \subseteq Procs
  BY <1>1 DEF RunnerEnds, RestOK
<1>. QED BY <1>2, <1>3, <1>4

LEMMA RunnerStepType ==
    ASSUME TypeOK, Aimed, NEW r \in Runners,
           RunnerStep(r) \/ RunnerProgress(r) \/ RunnerDies(r)
    PROVE  TypeOK'
<1>1. FilesOK /\ LoopOK /\ RunOK /\ ReqOK /\ RestOK
  BY TypeParts
<1> DEFINE Places == {"started", "loaded", "execute", "raised", "mark", "move"}
<1>2. ASSUME run[r].at \in Places
      PROVE  run[r] \in Run /\ run[r].job \in Jobs /\ job[run[r].job] \in Job
  <2>1. run[r] # Off
    BY <1>2 DEF Off
  <2>. QED BY <1>1, <2>1, RunnerJob DEF FilesOK
<1>3. ASSUME run[r].at \in Places, NEW s \in Places, RunnerGoes(r, s) PROVE RunOK'
  <2>1. [run[r] EXCEPT !.at = s] \in Run
    BY <1>2, <1>3 DEF Run
  <2>. QED BY <1>1, <1>3, <2>1 DEF RunnerGoes, RunOK
<1>4. ASSUME run[r].at \in Places, NEW s \in Places, NEW d \in {"done", "failed", "pending"},
             run' = [run EXCEPT ![r].at = s, ![r].to = d]
      PROVE  RunOK'
  <2>1. [run[r] EXCEPT !.at = s, !.to = d] \in Run
    BY <1>2, <1>4 DEF Run
  <2>2. run' = [run EXCEPT ![r] = [run[r] EXCEPT !.at = s, !.to = d]]
    BY <1>1, <1>2, <1>4 DEF RunOK, Run
  <2>. QED BY <1>1, <2>1, <2>2 DEF RunOK
<1>5. CASE RunnerLoad(r)
  <2>1. RunOK'
    BY <1>3, <1>4, <1>5 DEF RunnerLoad, RunnerAt, RunnerMarks
  <2>. QED BY <1>5, <2>1 DEF TypeOK, RunnerLoad, RunOK, files, bounds
<1>6. CASE RunnerStamp(r)
  <2>1. RunOK'
    BY <1>3, <1>6 DEF RunnerStamp, RunnerAt
  <2>2. Stamped(r) \in Job
    BY <1>2, <1>6 DEF RunnerStamp, RunnerAt, Stamped, Job, Run
  <2>3. job' \in [Jobs -> Job]
    BY <1>1, <1>2, <1>6, <2>2, UpdateType DEF RunnerStamp, RunnerAt
  <2>. QED BY <1>6, <2>1, <2>3 DEF TypeOK, RunnerStamp, RunOK, bounds
<1>7. CASE RunnerProgress(r)
  <2>1. job' \in [Jobs -> Job]
    BY <1>1, <1>2, <1>7, UpdateType DEF RunnerProgress, RunnerAt
  <2>. QED BY <1>7, <2>1 DEF TypeOK, RunnerProgress, procs, bounds
<1>8. CASE RunnerReturns(r) \/ RunnerRaises(r)
  <2>1. RunOK'
    BY <1>4, <1>8 DEF RunnerReturns, RunnerRaises, RunnerAt, RunnerMarks
  <2>. QED BY <1>8, <2>1 DEF TypeOK, RunnerReturns, RunnerRaises, RunOK, files, bounds
<1>9. CASE RunnerMark(r)
  <2>1. RunOK'
    BY <1>3, <1>9 DEF RunnerMark, RunnerAt
  <2>2. run[r].to \in {"done", "failed", "pending"}
    BY <1>2, <1>9 DEF RunnerMark, RunnerAt, Aimed, Run
  <2>3. [job[run[r].job] EXCEPT !.status = run[r].to,
           !.owner = IF run[r].to = "pending" THEN None ELSE @,
           !.manual = @ /\ run[r].to # "pending"] \in Job
    BY <1>2, <1>9, <2>2 DEF RunnerMark, RunnerAt, Job
  <2>4. job' \in [Jobs -> Job]
    BY <1>1, <1>2, <1>9, <2>3, UpdateType DEF RunnerMark, RunnerAt
  <2>. QED BY <1>9, <2>1, <2>4 DEF TypeOK, RunnerMark, RunOK, bounds
<1>10. CASE RunnerMove(r)
  <2>1. run[r].to \in {"done", "failed", "pending"}
    BY <1>2, <1>10 DEF RunnerMove, RunnerAt, Aimed, Run
  <2>2. CASE dir[run[r].job] # "running" /\ run[r].to # "failed"
    <3>1. RunOK'
      BY <1>3, <1>4, <1>10, <2>2 DEF RunnerMove, RunnerAt, RunnerMarks
    <3>. QED BY <1>10, <2>2, <3>1 DEF TypeOK, RunnerMove, RunOK, files, bounds
  <2>3. CASE ~(dir[run[r].job] # "running" /\ run[r].to # "failed")
    <3>1. RunnerEnds(r)
      BY <1>10, <2>3 DEF RunnerMove
    <3>2. dir' \in [Jobs -> Dirs]
      BY <1>1, <1>10, <2>1, <2>3 DEF RunnerMove, FilesOK, Dirs
    <3>. QED BY <1>10, <3>1, <3>2, RunnerEndsType DEF TypeOK, RunnerMove, RunOK, Dirs, bounds
  <2>. QED BY <2>2, <2>3
<1>11. CASE RunnerDies(r)
  <2>1. faults' \in 0..MaxFaults
    BY <1>1, <1>11, QueueAssumption DEF RunnerDies, Fault, RestOK
  <2>. QED BY <1>11, <2>1, RunnerEndsType DEF TypeOK, RunnerDies, Fault, RunOK
<1>. QED BY <1>5, <1>6, <1>7, <1>8, <1>9, <1>10, <1>11 DEF RunnerStep

LEMMA StopType == ASSUME TypeOK, WorkerDies \/ \E p \in Procs : Sigterm(p) PROVE TypeOK'
<1>1. FilesOK /\ LoopOK /\ RunOK /\ ReqOK /\ RestOK
  BY TypeParts
<1>2. (WorkerDies \/ \E p \in Procs : Sigterm(p)) => faults' \in 0..MaxFaults
  BY <1>1, QueueAssumption DEF WorkerDies, Sigterm, Fault, RestOK
<1>3. CASE WorkerDies
  <2>1. job' \in [Jobs -> Job]
    BY <1>1, <1>3, ForgetType DEF WorkerDies
  <2>2. RunOK'
    BY <1>1, <1>3 DEF WorkerDies, RunOK
  <2>. QED BY <1>2, <1>3, <2>1, <2>2 DEF TypeOK, WorkerDies, Fault, Stopped, RunOK
<1>4. ASSUME NEW p \in Procs, Sigterm(p) PROVE TypeOK'
  BY <1>2, <1>4 DEF TypeOK, Sigterm, Fault, files
<1>. QED BY <1>3, <1>4

-----------------------------------------------------------------------------
(* The verdict of a runner.                                                 *)

LEMMA AimedStep == ASSUME TypeOK, Aimed, [Next]_vars PROVE Aimed'
<1>1. RunOK
  BY TypeParts
<1>2. ASSUME UNCHANGED run PROVE Aimed'
  BY <1>2 DEF Aimed
<1>3. ASSUME NEW r \in Runners, NEW v, run' = [run EXCEPT ![r] = v],
             v.at \in {"mark", "move"} => v.to # "none"
      PROVE  Aimed'
  BY <1>1, <1>3 DEF Aimed, RunOK
<1>4. ASSUME NEW r \in Runners, NEW j, NEW p,
             run' = [run EXCEPT ![r] = [at |-> "started", job |-> j, proc |-> p, to |-> "none"]]
      PROVE  Aimed'
  BY <1>3, <1>4
<1>5. ASSUME NEW r \in Runners, run' = [run EXCEPT ![r] = Off] PROVE Aimed'
  BY <1>3, <1>5 DEF Off
<1>6. ASSUME NEW r \in Runners, RunnerStep(r) PROVE Aimed'
  <2>1. ASSUME run[r] # Off, NEW s, RunnerGoes(r, s),
               s \in {"mark", "move"} => run[r].at \in {"mark", "move"}
        PROVE  Aimed'
    <3>1. run[r] \in Run
      BY <1>1, <2>1, RunnerJob
    <3>2. run' = [run EXCEPT ![r] = [run[r] EXCEPT !.at = s]]
      BY <2>1 DEF RunnerGoes
    <3>3. run[r].at \in {"mark", "move"} => run[r].to # "none"
      BY DEF Aimed
    <3>4. /\ [run[r] EXCEPT !.at = s].at = s
          /\ [run[r] EXCEPT !.at = s].to = run[r].to
      BY <3>1 DEF Run
    <3>. QED BY <1>3, <2>1, <3>2, <3>3, <3>4
  <2>2. ASSUME run[r] # Off, NEW s, NEW d, d # "none",
               run' = [run EXCEPT ![r].at = s, ![r].to = d]
        PROVE  Aimed'
    <3>1. run[r] \in Run
      BY <1>1, <2>2, RunnerJob
    <3>2. run' = [run EXCEPT ![r] = [run[r] EXCEPT !.at = s, !.to = d]]
      BY <1>1, <2>2, <3>1 DEF RunOK, Run
    <3>3. [run[r] EXCEPT !.at = s, !.to = d].to = d
      BY <3>1 DEF Run
    <3>. QED BY <1>3, <2>2, <3>2, <3>3
  <2>3. CASE RunnerLoad(r)
    <3>1. run[r] # Off
      BY <2>3 DEF RunnerLoad, RunnerAt, Off
    <3>. QED BY <2>1, <2>2, <2>3, <3>1 DEF RunnerLoad, RunnerMarks
  <2>4. CASE RunnerStamp(r)
    <3>1. run[r] # Off
      BY <2>4 DEF RunnerStamp, RunnerAt, Off
    <3>. QED BY <2>1, <2>4, <3>1 DEF RunnerStamp
  <2>5. CASE RunnerReturns(r) \/ RunnerRaises(r)
    <3>1. run[r] # Off
      BY <2>5 DEF RunnerReturns, RunnerRaises, RunnerAt, Off
    <3>. QED BY <2>2, <2>5, <3>1 DEF RunnerReturns, RunnerRaises, RunnerMarks
  <2>6. CASE RunnerMark(r)
    <3>1. run[r] # Off /\ run[r].at = "mark"
      BY <2>6 DEF RunnerMark, RunnerAt, Off
    <3>. QED BY <2>1, <2>6, <3>1 DEF RunnerMark
  <2>7. CASE RunnerMove(r)
    <3>1. run[r] # Off
      BY <2>7 DEF RunnerMove, RunnerAt, Off
    <3>. QED BY <1>5, <2>1, <2>2, <2>7, <3>1 DEF RunnerMove, RunnerMarks, RunnerEnds
  <2>. QED BY <1>6, <2>3, <2>4, <2>5, <2>6, <2>7 DEF RunnerStep
<1>7. CASE WorkerDies
  BY <1>1, <1>7 DEF WorkerDies, Aimed, Off, RunOK
<1>8. CASE WorkerStep
  <2>1. ASSUME NEW r \in Runners, WorkerStartJob(r) PROVE Aimed'
    <3>1. \/ UNCHANGED run
          \/ \E j \in loop.queue :
                run' = [run EXCEPT ![r] = [at |-> "started", job |-> j,
                                           proc |-> Worker, to |-> "none"]]
      BY <2>1, Zenon DEF WorkerStartJob
    <3>. QED BY <1>2, <1>4, <3>1
  <2>2. CASE WorkerStart \/ WorkerSweep \/ WorkerScan \/ WorkerIterates \/ WorkerExit
    BY <1>2, <2>2 DEF WorkerStart, WorkerSweep, WorkerScan, WorkerIterates, WorkerExit
  <2>. QED BY <1>8, <2>1, <2>2 DEF WorkerStep
<1>9. ASSUME NEW q \in Requests, RequestStep(q) PROVE Aimed'
  BY <1>2, <1>4, <1>9 DEF RequestStep, RunCheck, RunClaim, RunMove, RunMark, RunUndo, RunLaunch
<1>10. ASSUME NEW q \in Requests,
              RunLaunchFails(q) \/ ApiDies(q) \/ \E j \in Jobs : RunRequest(q, j)
       PROVE  Aimed'
  BY <1>2, <1>10 DEF RunLaunchFails, ApiDies, RunRequest
<1>11. ASSUME NEW r \in Runners, RunnerProgress(r) \/ RunnerDies(r) PROVE Aimed'
  BY <1>2, <1>5, <1>11 DEF RunnerProgress, RunnerDies, RunnerEnds, procs
<1>12. ASSUME NEW j \in Jobs,
              Enqueue(j) \/ Cancel(j) \/ Retry(j) \/ Delete(j) \/ DeleteRunning(j) \/ Age(j)
       PROVE  Aimed'
  BY <1>2, <1>12 DEF Enqueue, Cancel, Retry, Delete, DeleteRunning, Remove, Age, procs
<1>13. ASSUME NEW p \in Procs, Sigterm(p) PROVE Aimed'
  BY <1>2, <1>13 DEF Sigterm
<1>14. CASE UNCHANGED vars
  BY <1>2, <1>14 DEF vars
<1>. QED BY <1>6, <1>7, <1>8, <1>9, <1>10, <1>11, <1>12, <1>13, <1>14 DEF Next

\* Files, processes and bounds stay well formed; a runner that marks or moves
\* its job knows where to.
LEMMA QueueInductive == Spec => [](TypeOK /\ Aimed)
<1>1. Init => TypeOK /\ Aimed
  <2>1. Init => Aimed
    BY DEF Init, Aimed, Off
  <2>. QED BY <2>1, InitType
<1>2. TypeOK /\ Aimed /\ [Next]_vars => TypeOK' /\ Aimed'
  <2>. SUFFICES ASSUME TypeOK, Aimed, [Next]_vars PROVE TypeOK'
    BY AimedStep
  <2>1. CASE UNCHANGED vars
    BY <2>1 DEF vars, TypeOK
  <2>2. CASE Next
    BY <2>2, QueueStepType, WorkerStepType, RequestStepType, RunnerStepType, StopType DEF Next
  <2>. QED BY <2>1, <2>2
<1>. QED BY <1>1, <1>2, PTL DEF Spec

\* Every file, process and request of the job queue holds a value of its kind:
\* no directory or status comes from a runner that has no verdict.
THEOREM QueueTypeOK == Spec => []TypeOK
BY QueueInductive, PTL

-----------------------------------------------------------------------------
(* Who has a job in hand: its runner, or the request that claimed it.        *)

Claims(q) == req[q].at \in {"mark", "launch", "undo"}

\* A runner's file is in running/, and until the runner has written its number
\* there, and once it has written its verdict, the file is fresh.
RunnerFile(r) ==
    LET j == run[r].job IN
    /\ dir[j] = "running"
    /\ run[r].at \in {"started", "loaded", "execute", "mark", "move"}
    /\ run[r].at \in {"started", "loaded", "move"} => ~job[j].old
    /\ run[r].at = "execute" => job[j].owner = run[r].proc
    /\ run[r].at = "mark" => ~job[j].old \/ job[j].owner = run[r].proc
    /\ run[r].at = "move" => IF run[r].to = "pending"
                             THEN job[j].status \in {"pending", "cancelling"}
                             ELSE job[j].status = run[r].to

\* Or somebody has deleted it, for good.
RunnerOK(r) ==
    /\ run[r].proc \in {Worker, r}
    /\ dir[run[r].job] = "gone" \/ RunnerFile(r)

ClaimFile(q) ==
    LET j == req[q].job IN
    /\ dir[j] = "running" /\ ~job[j].old
    /\ req[q].at = "undo" => job[j].status \in {"pending", "cancelling"}

ClaimOK(q) == dir[req[q].job] = "gone" \/ ClaimFile(q)

\* Nobody else has it.
Alone ==
    /\ \A r, s \in Runners : run[r] # Off /\ run[s] # Off /\ run[r].job = run[s].job => r = s
    /\ \A q, p \in Requests : Claims(q) /\ Claims(p) /\ req[q].job = req[p].job => q = p
    /\ \A r \in Runners, q \in Requests :
          run[r] # Off /\ Claims(q) => run[r].job # req[q].job

\* A file that waits says so, and is fresh where waits are short.
WaitingOK ==
    \A j \in Jobs :
        /\ ~AgePending /\ dir[j] \in {"none", "pending"} => ~job[j].old
        /\ dir[j] = "none" => job[j].status = "pending"

Hands ==
    /\ \A r \in Runners : run[r] # Off => RunnerOK(r)
    /\ \A q \in Requests : Claims(q) => ClaimOK(q)
    /\ Alone /\ WaitingOK /\ StatusFits

\* What a file must say once nobody has it in hand.
AtRest(j) ==
    /\ ~AgePending /\ dir'[j] \in {"none", "pending"} => ~job'[j].old
    /\ dir'[j] = "none" => job'[j].status = "pending"
    /\ dir'[j] = "done" => job'[j].status = "done"
    /\ dir'[j] = "failed" => job'[j].status = "failed"
    /\ dir'[j] = "pending" => job'[j].status \in {"pending", "cancelling"}

\* A change of a file that whoever has the job in hand need not notice.
Calm(j) ==
    \/ dir'[j] = "gone"
    \/ /\ dir'[j] = dir[j]
       /\ job'[j].old => job[j].old
       /\ \/ job'[j].status = job[j].status
          \/ /\ dir[j] \in {"pending", "running"} /\ job[j].status \in {"pending", "running"}
             /\ job'[j].status = "cancelling"
       /\ \A s \in Runners : run'[s] # Off /\ run'[s].proc = job[j].owner
                                => job'[j].owner = job[j].owner

Free(j) ==
    /\ \A r \in Runners : run[r] # Off => run[r].job # j
    /\ \A q \in Requests : Claims(q) => req[q].job # j

\* A step that moves a job to running/ finds a file younger than a minute.
FreshClaim == \A j \in Jobs : dir[j] = "pending" /\ dir'[j] = "running" => ~job[j].old

LEMMA CalmRunner ==
    ASSUME TypeOK, Hands, NEW s \in Runners, run[s] # Off, run'[s] = run[s], Calm(run[s].job)
    PROVE  RunnerOK(s)'
<1> DEFINE j == run[s].job
<1>1. RunnerOK(s)  BY DEF Hands
<1>2. run'[s].job = j /\ run'[s].proc \in {Worker, s}
  BY <1>1 DEF RunnerOK
<1>3. CASE dir'[j] = "gone"
  BY <1>2, <1>3 DEF RunnerOK
<1>4. CASE dir'[j] # "gone"
  <2>1. RunnerFile(s) /\ dir'[j] = "running"
    BY <1>1, <1>4 DEF RunnerOK, RunnerFile, Calm
  <2>2. job'[j].old => job[j].old  BY <1>4 DEF Calm
  <2>3. job[j].owner = run[s].proc => job'[j].owner = run'[s].proc
    BY <1>4 DEF Calm
  <2>4. run[s].at = "move" => IF run[s].to = "pending"
                              THEN job'[j].status \in {"pending", "cancelling"}
                              ELSE job'[j].status = run[s].to
    <3>1. ASSUME run[s].at = "move", run[s].to # "pending", job'[j].status # job[j].status
          PROVE  FALSE
      <4>1. job[j].status = run[s].to /\ job[j].status \in {"pending", "running"}
        BY <1>4, <2>1, <3>1 DEF RunnerFile, Calm
      <4>2. run[s].to \in {"none", "done", "failed", "pending"}
        BY TypeParts, RunnerJob DEF Run
      <4> QED BY <3>1, <4>1, <4>2
    <3> QED BY <1>4, <2>1, <3>1 DEF RunnerFile, Calm
  <2> HIDE DEF j
  <2>5. RunnerFile(s) => /\ run[s].at \in {"started", "loaded", "execute", "mark", "move"}
                         /\ run[s].at \in {"started", "loaded", "move"} => ~job[j].old
                         /\ run[s].at = "execute" => job[j].owner = run[s].proc
                         /\ run[s].at = "mark" => ~job[j].old \/ job[j].owner = run[s].proc
    BY Zenon DEF RunnerFile, j
  <2>6. /\ run'[s].at \in {"started", "loaded", "execute", "mark", "move"}
        /\ run'[s].at \in {"started", "loaded", "move"} => ~job'[j].old
        /\ run'[s].at = "execute" => job'[j].owner = run'[s].proc
        /\ run'[s].at = "mark" => ~job'[j].old \/ job'[j].owner = run'[s].proc
    BY <2>1, <2>2, <2>3, <2>5, Zenon
  <2>7. run'[s].at = "move" => IF run'[s].to = "pending"
                               THEN job'[run'[s].job].status \in {"pending", "cancelling"}
                               ELSE job'[run'[s].job].status = run'[s].to
    BY <1>2, <2>4
  <2>8. RunnerFile(s)'  BY <1>2, <2>1, <2>6, <2>7 DEF RunnerFile
  <2> QED BY <1>2, <2>8 DEF RunnerOK
<1> QED BY <1>3, <1>4

LEMMA CalmClaim ==
    ASSUME Hands, NEW q \in Requests, Claims(q), req'[q] = req[q], Calm(req[q].job)
    PROVE  ClaimOK(q)'
<1>1. CASE dir'[req[q].job] = "gone"
  BY <1>1 DEF ClaimOK
<1>2. CASE dir'[req[q].job] # "gone"
  <2>1. ClaimFile(q)  BY <1>2 DEF Hands, ClaimOK, Calm
  <2>2. ClaimFile(q)'  BY <1>2, <2>1 DEF ClaimFile, Calm
  <2> QED BY <2>2 DEF ClaimOK
<1> QED BY <1>1, <1>2

LEMMA CalmFile == ASSUME Hands, NEW j \in Jobs, Calm(j) PROVE AtRest(j)
BY DEF Hands, WaitingOK, StatusFits, Calm, AtRest

LEMMA HandsParts ==
    ASSUME \A s \in Runners : run'[s] # Off => RunnerOK(s)',
           \A q \in Requests : Claims(q)' => ClaimOK(q)',
           Alone', \A j \in Jobs : AtRest(j)
    PROVE  Hands'
BY DEF Hands, WaitingOK, StatusFits, AtRest

\* Nobody gets a job in hand; files change in calm or have nobody.
LEMMA QuietHands ==
    ASSUME TypeOK, Hands,
           \A s \in Runners : run'[s] \in {run[s], Off},
           \A q \in Requests : Claims(q)' => req'[q] = req[q],
           \A j \in Jobs : Calm(j) \/ (Free(j) /\ AtRest(j))
    PROVE  Hands'
<1>0. RunOK /\ ReqOK  BY TypeParts
<1>1. ASSUME NEW s \in Runners, run'[s] # Off PROVE RunnerOK(s)'
  <2>1. run'[s] = run[s] /\ run[s] # Off /\ run[s].job \in Jobs
    BY <1>0, <1>1, RunnerJob
  <2>2. Calm(run[s].job)  BY <2>1 DEF Free
  <2> QED BY <2>1, <2>2, CalmRunner
<1>2. ASSUME NEW q \in Requests, Claims(q)' PROVE ClaimOK(q)'
  <2>1. req'[q] = req[q] /\ Claims(q)  BY <1>2 DEF Claims
  <2>2. req[q].job \in Jobs
    <3>1. req[q] # Idle  BY <2>1 DEF Claims, Idle
    <3> QED BY <1>0, <3>1, ReqJob
  <2>3. Calm(req[q].job)  BY <2>1, <2>2 DEF Free
  <2> QED BY <2>1, <2>3, CalmClaim
<1>3. Alone'
  BY DEF Hands, Alone, Claims
<1>4. \A j \in Jobs : AtRest(j)  BY CalmFile
<1> QED BY <1>1, <1>2, <1>3, <1>4, HandsParts

\* Runner r has or gets job k, which nobody else has, and may let go of it.
LEMMA RunnerHands ==
    ASSUME TypeOK, Hands, NEW r \in Runners, NEW k \in Jobs,
           \A s \in Runners \ {r} : run'[s] = run[s] /\ (run[s] # Off => run[s].job # k),
           \A q \in Requests : Claims(q)' => req'[q] = req[q] /\ req[q].job # k,
           \A j \in Jobs \ {k} : Calm(j),
           run'[r] # Off => run'[r].job = k /\ RunnerOK(r)',
           AtRest(k)
    PROVE  Hands'
<1>0. RunOK /\ ReqOK  BY TypeParts
<1>1. ASSUME NEW s \in Runners, run'[s] # Off PROVE RunnerOK(s)'
  <2>1. CASE s = r  BY <1>1, <2>1
  <2>2. CASE s # r
    <3>1. run'[s] = run[s] /\ run[s] # Off /\ run[s].job \in Jobs \ {k}
      BY <1>0, <1>1, <2>2, RunnerJob
    <3> QED BY <3>1, CalmRunner
  <2> QED BY <2>1, <2>2
<1>2. ASSUME NEW q \in Requests, Claims(q)' PROVE ClaimOK(q)'
  <2>1. req'[q] = req[q] /\ Claims(q) /\ req[q].job # k  BY <1>2 DEF Claims
  <2>2. req[q].job \in Jobs
    <3>1. req[q] # Idle  BY <2>1 DEF Claims, Idle
    <3> QED BY <1>0, <3>1, ReqJob
  <2> QED BY <2>1, <2>2, CalmClaim
<1>3. Alone'
  <2>1. \A q \in Requests : Claims(q)' => Claims(q) /\ req'[q] = req[q] /\ req[q].job # k
    BY DEF Claims
  <2>2. \A s \in Runners : run'[s] # Off => \/ s = r /\ run'[s].job = k
                                            \/ run'[s] = run[s] /\ run[s].job # k /\ run[s] # Off
    OBVIOUS
  <2>3. \A q \in Requests : Claims(q)' <=> req'[q].at \in {"mark", "launch", "undo"}
    BY DEF Claims
  <2> QED BY <2>1, <2>2, <2>3 DEF Hands, Alone
<1>4. \A j \in Jobs : AtRest(j)  BY CalmFile
<1> QED BY <1>1, <1>2, <1>3, <1>4, HandsParts

\* Request p has or gets job k, which nobody else has.
LEMMA RequestHands ==
    ASSUME TypeOK, Hands, NEW p \in Requests, NEW k \in Jobs,
           \A s \in Runners : run'[s] = run[s] /\ (run[s] # Off => run[s].job # k),
           \A q \in Requests \ {p} : Claims(q)' => req'[q] = req[q] /\ req[q].job # k,
           \A j \in Jobs \ {k} : Calm(j),
           Claims(p)' => req'[p].job = k /\ ClaimOK(p)',
           AtRest(k)
    PROVE  Hands'
<1>0. RunOK /\ ReqOK  BY TypeParts
<1>1. ASSUME NEW s \in Runners, run'[s] # Off PROVE RunnerOK(s)'
  <2>1. run'[s] = run[s] /\ run[s] # Off /\ run[s].job \in Jobs \ {k}
    BY <1>0, <1>1, RunnerJob
  <2> QED BY <2>1, CalmRunner
<1>2. ASSUME NEW q \in Requests, Claims(q)' PROVE ClaimOK(q)'
  <2>1. CASE q = p  BY <1>2, <2>1
  <2>2. CASE q # p
    <3>1. req'[q] = req[q] /\ Claims(q) /\ req[q].job # k  BY <1>2, <2>2 DEF Claims
    <3>2. req[q].job \in Jobs
      <4>1. req[q] # Idle  BY <3>1 DEF Claims, Idle
      <4> QED BY <1>0, <4>1, ReqJob
    <3> QED BY <3>1, <3>2, CalmClaim
  <2> QED BY <2>1, <2>2
<1>3. Alone'
  <2>1. \A q \in Requests : Claims(q)' => \/ q = p /\ req'[q].job = k
                                          \/ Claims(q) /\ req'[q] = req[q] /\ req[q].job # k
    BY DEF Claims
  <2>2. \A s \in Runners : run'[s] = run[s] /\ (run[s] # Off => run[s].job # k)
    OBVIOUS
  <2>3. \A q \in Requests : Claims(q)' <=> req'[q].at \in {"mark", "launch", "undo"}
    BY DEF Claims
  <2> QED BY <2>1, <2>2, <2>3 DEF Hands, Alone
<1>4. \A j \in Jobs : AtRest(j)  BY CalmFile
<1> QED BY <1>1, <1>2, <1>3, <1>4, HandsParts

-----------------------------------------------------------------------------
LEMMA SameCalm ==
    ASSUME NEW j, dir'[j] = dir[j], job'[j] = job[j] PROVE Calm(j)
BY DEF Calm

LEMMA NotRunningFree ==
    ASSUME TypeOK, Hands, NEW j \in Jobs, dir[j] \in {"none", "pending", "done", "failed"}
    PROVE  Free(j)
BY DEF Free, Hands, RunnerOK, RunnerFile, ClaimOK, ClaimFile

\* An abandoned file has no runner: a live one has written its number there,
\* or touched the file a moment ago.
LEMMA StaleFree ==
    ASSUME TypeOK, Hands, NEW j \in Jobs, Stale(j) PROVE Free(j)
<1>1. dir[j] = "running" /\ job[j].old /\ job[j].owner = None  BY DEF Stale
<1>2. ASSUME NEW r \in Runners, run[r] # Off, run[r].job = j PROVE FALSE
  <2>1. RunnerOK(r)  BY <1>2 DEF Hands
  <2>2. run[r].proc # None
    BY <2>1, QueueAssumption DEF RunnerOK, Procs
  <2>3. RunnerFile(r)  BY <1>1, <1>2, <2>1 DEF RunnerOK
  <2> QED BY <1>1, <1>2, <2>2, <2>3 DEF RunnerFile
<1>3. ASSUME NEW q \in Requests, Claims(q), req[q].job = j PROVE FALSE
  BY <1>1, <1>3 DEF Hands, ClaimOK, ClaimFile
<1> QED BY <1>2, <1>3 DEF Free

LEMMA SweepHands ==
    ASSUME TypeOK, Hands, Sweep, UNCHANGED run,
           \A q \in Requests : Claims(q)' => req'[q] = req[q]
    PROVE  Hands'
<1>1. ASSUME NEW j \in Jobs PROVE Calm(j) \/ (Free(j) /\ AtRest(j))
  <2>1. CASE Stale(j)
    <3>1. dir'[j] = Recovered(j) /\ Recovered(j) \in {"failed", "pending"}
      BY <2>1 DEF Sweep, Recovered
    <3>2. job'[j].status = Recovered(j) /\ ~job'[j].old
      <4>1. job[j] \in Job  BY DEF TypeOK
      <4>2. job'[j] = [job[j] EXCEPT !.status = Recovered(j), !.manual = FALSE,
                                     !.owner = None, !.old = FALSE]
        BY <2>1 DEF Sweep
      <4> QED BY <4>1, <4>2 DEF Job
    <3> QED BY <2>1, <3>1, <3>2, StaleFree DEF AtRest
  <2>2. CASE ~Stale(j)
    BY <2>2, SameCalm DEF Sweep
  <2> QED BY <2>1, <2>2
<1> QED BY <1>1, QuietHands

\* A process ends and leaves no runner.
LEMMA ForgetCalm ==
    ASSUME TypeOK, NEW p, job' = Forget(p), NEW j \in Jobs, dir'[j] = dir[j],
           \A s \in Runners : run'[s] # Off => run'[s].proc # p
    PROVE  Calm(j)
<1>1. job[j] \in Job  BY DEF TypeOK
<1>2. job'[j].old = job[j].old /\ job'[j].status = job[j].status
  BY <1>1 DEF Forget, Job
<1>3. job[j].owner # p => job'[j].owner = job[j].owner
  BY DEF Forget
<1> QED BY <1>2, <1>3 DEF Calm

LEMMA QueueHands ==
    ASSUME TypeOK, Hands, NEW j \in Jobs,
           Enqueue(j) \/ Cancel(j) \/ Retry(j) \/ Delete(j) \/ DeleteRunning(j)
    PROVE  Hands'
<1>0. job[j] \in Job /\ dir \in [Jobs -> Dirs] /\ job \in [Jobs -> Job]
  BY DEF TypeOK, Dirs
<1>1. UNCHANGED <<run, req>>
  BY DEF Enqueue, Cancel, Retry, Delete, DeleteRunning, Remove, procs
<1>2. ASSUME NEW k \in Jobs, k # j PROVE Calm(k)
  <2>1. dir'[k] = dir[k] /\ job'[k] = job[k]
    BY <1>0, <1>2 DEF Enqueue, Cancel, Retry, Delete, DeleteRunning, Remove, Update
  <2> QED BY <2>1, SameCalm
<1>3. Calm(j) \/ (Free(j) /\ AtRest(j))
  <2>1. CASE Enqueue(j)
    <3>1. dir[j] = "none" /\ dir'[j] = "pending" /\ job'[j] = job[j]
      BY <1>0, <2>1 DEF Enqueue
    <3> QED BY <3>1, NotRunningFree DEF AtRest, Hands, WaitingOK
  <2>2. CASE Cancel(j)
    <3>1. /\ dir'[j] = dir[j] /\ dir[j] \in {"pending", "running"}
          /\ ~job'[j].old /\ job'[j].owner = job[j].owner
          /\ job'[j].status = CancelStatus(job[j].status)
      BY <1>0, <2>2 DEF Cancel, Update, Job
    <3> QED BY <3>1 DEF Calm, CancelStatus
  <2>3. CASE Retry(j)
    <3>1. /\ dir[j] = "failed" /\ dir'[j] = "pending"
          /\ ~job'[j].old /\ job'[j].status = "pending"
      BY <1>0, <2>3 DEF Retry, Update, Job
    <3> QED BY <3>1, NotRunningFree DEF AtRest
  <2>4. CASE Delete(j) \/ DeleteRunning(j)
    BY <1>0, <2>4 DEF Delete, DeleteRunning, Remove, Calm
  <2> QED BY <2>1, <2>2, <2>3, <2>4
<1> QED BY <1>1, <1>2, <1>3, QuietHands

\* A running file ages only while its runner executes.
LEMMA AgeHands ==
    ASSUME TypeOK, Hands, NEW j \in Jobs, Age(j)
    PROVE  Hands'
<1>0. job[j] \in Job /\ job \in [Jobs -> Job] /\ RunOK /\ ReqOK
  BY TypeParts DEF TypeOK
<1>1. /\ UNCHANGED <<dir, run, req>> /\ dir[j] \in {"pending", "running"}
      /\ ~AgePending => dir[j] = "running"
  BY DEF Age, procs
<1>2. /\ job'[j].owner = job[j].owner /\ job'[j].status = job[j].status
      /\ \A k \in Jobs \ {j} : job'[k] = job[k]
  BY <1>0 DEF Age, Job
<1>3. ASSUME NEW s \in Runners, run'[s] # Off PROVE RunnerOK(s)'
  <2>1. run[s] # Off /\ run'[s] = run[s] /\ RunnerOK(s) /\ run[s].job \in Jobs
    BY <1>0, <1>1, <1>3, RunnerJob DEF Hands
  <2>2. CASE run[s].job = j
    <3>1. run[s].at = "execute"  BY <2>1, <2>2 DEF Age
    <3>2. RunnerFile(s)  BY <1>1, <2>1, <2>2 DEF RunnerOK
    <3>3. RunnerFile(s)'  BY <1>1, <1>2, <2>1, <2>2, <3>1, <3>2 DEF RunnerFile
    <3> QED BY <2>1, <3>3 DEF RunnerOK
  <2>3. CASE run[s].job # j
    BY <1>1, <1>2, <2>1, <2>3, SameCalm, CalmRunner
  <2> QED BY <2>2, <2>3
<1>4. ASSUME NEW q \in Requests, Claims(q)' PROVE ClaimOK(q)'
  <2>1. Claims(q) /\ req'[q] = req[q]  BY <1>1, <1>4 DEF Claims
  <2>2. req[q].job # j  BY <2>1 DEF Age, Claims
  <2>3. req[q].job \in Jobs
    <3>1. req[q] # Idle  BY <2>1 DEF Claims, Idle
    <3> QED BY <1>0, <3>1, ReqJob
  <2> QED BY <1>1, <1>2, <2>1, <2>2, <2>3, SameCalm, CalmClaim
<1>5. Alone'  BY <1>1 DEF Hands, Alone, Claims
<1>6. ASSUME NEW k \in Jobs PROVE AtRest(k)
  <2>1. CASE k = j
    BY <1>1, <1>2, <2>1 DEF AtRest, Hands, StatusFits
  <2>2. CASE k # j  BY <1>1, <1>2, <2>2, SameCalm, CalmFile
  <2> QED BY <2>1, <2>2
<1> QED BY <1>3, <1>4, <1>5, <1>6, HandsParts

LEMMA WorkerHands ==
    ASSUME TypeOK, Hands, FreshClaim, WorkerStep \/ WorkerDies
    PROVE  Hands'
<1>0. dir \in [Jobs -> Dirs] /\ RunOK /\ ReqOK /\ LoopOK
  BY TypeParts DEF TypeOK, Dirs
<1>1. CASE WorkerStart \/ WorkerScan \/ WorkerIterates
  <2>1. UNCHANGED <<dir, job, run, req>>
    BY <1>1 DEF WorkerStart, WorkerScan, WorkerIterates, files
  <2> QED BY <2>1, SameCalm, QuietHands
<1>2. CASE WorkerSweep
  BY <1>2, SweepHands DEF WorkerSweep
<1>3. CASE WorkerExit
  <2>1. UNCHANGED <<dir, run, req>> /\ job' = Forget(Worker) /\ Threads = {}
    BY <1>3 DEF WorkerExit
  <2>2. \A s \in Runners : run'[s] # Off => run'[s].proc # Worker
    BY <2>1 DEF Threads
  <2>3. \A j \in Jobs : Calm(j)  BY <2>1, <2>2, ForgetCalm
  <2> QED BY <2>1, <2>3, QuietHands
<1>4. CASE WorkerDies
  <2>1. /\ UNCHANGED <<dir, req>> /\ job' = Forget(Worker)
        /\ run' = [r \in Runners |-> IF r \in Threads THEN Off ELSE run[r]]
    BY <1>4 DEF WorkerDies
  <2>2. \A s \in Runners : run'[s] # Off => run'[s].proc # Worker
    BY <2>1 DEF Threads
  <2>3. \A j \in Jobs : Calm(j)  BY <2>1, <2>2, ForgetCalm
  <2>4. \A s \in Runners : run'[s] \in {run[s], Off}  BY <2>1
  <2> QED BY <2>1, <2>3, <2>4, QuietHands
<1>5. ASSUME NEW r \in Runners, WorkerStartJob(r) PROVE Hands'
  <2>1. UNCHANGED <<job, req>> /\ run[r] = Off  BY <1>5 DEF WorkerStartJob
  <2>2. PICK j \in loop.queue :
          IF dir[j] = "pending"
             THEN /\ dir' = [dir EXCEPT ![j] = "running"]
                  /\ run' = [run EXCEPT ![r] = [at |-> "started", job |-> j,
                                                proc |-> Worker, to |-> "none"]]
             ELSE UNCHANGED <<dir, run>>
    BY <1>5 DEF WorkerStartJob
  <2>3. j \in Jobs  BY <1>0 DEF LoopOK
  <2>4. CASE dir[j] # "pending"
    BY <2>1, <2>2, <2>4, SameCalm, QuietHands
  <2>5. CASE dir[j] = "pending"
    <3>1. /\ dir'[j] = "running" /\ \A k \in Jobs \ {j} : dir'[k] = dir[k]
          /\ run'[r] = [at |-> "started", job |-> j, proc |-> Worker, to |-> "none"]
          /\ \A s \in Runners \ {r} : run'[s] = run[s]
      BY <1>0, <2>2, <2>3, <2>5 DEF RunOK
    <3>2. Free(j)  BY <2>3, <2>5, NotRunningFree
    <3>3. ~job'[j].old  BY <2>1, <2>3, <2>5, <3>1 DEF FreshClaim
    <3>4. RunnerOK(r)'  BY <3>1, <3>3 DEF RunnerOK, RunnerFile
    <3>5. \A k \in Jobs \ {j} : Calm(k)  BY <2>1, <3>1, SameCalm
    <3>6. AtRest(j)  BY <3>1 DEF AtRest
    <3>7. \A q \in Requests : Claims(q)' => req'[q] = req[q] /\ req[q].job # j
      BY <2>1, <3>2 DEF Claims, Free
    <3>8. \A s \in Runners \ {r} : run'[s] = run[s] /\ (run[s] # Off => run[s].job # j)
      BY <3>1, <3>2 DEF Free
    <3>9. run'[r].job = j  BY <3>1
    <3> QED BY <2>3, <3>4, <3>5, <3>6, <3>7, <3>8, <3>9, RunnerHands
  <2> QED BY <2>4, <2>5
<1> QED BY <1>1, <1>2, <1>3, <1>4, <1>5 DEF WorkerStep

LEMMA RequestStepHands ==
    ASSUME TypeOK, Hands, FreshClaim, NEW q \in Requests,
           RequestStep(q) \/ RunLaunchFails(q) \/ ApiDies(q) \/ \E j \in Jobs : RunRequest(q, j)
    PROVE  Hands'
<1> DEFINE j == req[q].job
<1>0. /\ dir \in [Jobs -> Dirs] /\ job \in [Jobs -> Job] /\ RunOK
      /\ req \in [Requests -> {Idle} \cup [at : Waits, job : Jobs]] /\ ReqOK
  BY TypeParts DEF TypeOK, Dirs, ReqOK
<1>1. ASSUME req[q].at \in Waits PROVE j \in Jobs /\ job[j] \in Job /\ req[q] # Idle
  <2>1. req[q] # Idle  BY <1>1 DEF Waits, Idle
  <2> QED BY <1>0, <2>1, ReqJob
<1>2. ASSUME NEW s, ReqGoes(q, s)
      PROVE  \A p \in Requests \ {q} : req'[p] = req[p]
  BY <1>0, <1>2 DEF ReqGoes
<1>3. ASSUME ReqEnds(q)
      PROVE  ~Claims(q)' /\ \A p \in Requests \ {q} : req'[p] = req[p]
  BY <1>0, <1>3 DEF ReqEnds, Claims, Idle
<1>4. ASSUME req[q].at \in Waits, NEW s, ReqGoes(q, s)
      PROVE  req'[q].at = s /\ req'[q].job = j
  <2>1. req[q] \in [at : Waits, job : Jobs]  BY <1>0, <1>1, <1>4 DEF ReqOK
  <2> QED BY <1>0, <1>4, <2>1 DEF ReqGoes
\* The request's job is in nobody else's hands.
<1>5. ASSUME Claims(q)
      PROVE  /\ ClaimOK(q)
             /\ \A s \in Runners : run[s] # Off => run[s].job # j
             /\ \A p \in Requests \ {q} : Claims(p) => req[p].job # j
  BY <1>5 DEF Hands, Alone
<1>6. ASSUME UNCHANGED <<dir, job, run>>, ~Claims(q)',
             \A p \in Requests \ {q} : req'[p] = req[p]
      PROVE  Hands'
  BY <1>6, SameCalm, QuietHands
<1>7. CASE RunCheck(q)
  <2>1. ~Claims(q)'
    BY <1>3, <1>4, <1>7 DEF RunCheck, ReqAt, Waits, Claims
  <2> QED BY <1>2, <1>3, <1>6, <1>7, <2>1 DEF RunCheck, files
<1>8. CASE RunClaim(q)
  <2>1. j \in Jobs /\ job[j] \in Job /\ ~Claims(q)'
    BY <1>1, <1>4, <1>8 DEF RunClaim, ReqAt, Waits, Claims
  <2>2. UNCHANGED <<dir, run>> /\ \A p \in Requests \ {q} : req'[p] = req[p]
    BY <1>2, <1>8 DEF RunClaim
  <2>3. \A k \in Jobs \ {j} : Calm(k)
    BY <1>0, <1>8, <2>2, SameCalm DEF RunClaim, Update
  <2>4. Calm(j) \/ (Free(j) /\ AtRest(j))
    <3>1. CASE dir[j] = "pending"
      <4>1. ~job'[j].old /\ job'[j].status = "pending"
        BY <1>0, <1>8, <2>1, <3>1 DEF RunClaim, Update, Job
      <4> QED BY <2>1, <2>2, <3>1, <4>1, NotRunningFree DEF AtRest
    <3>2. CASE dir[j] # "pending"
      BY <1>8, <2>2, <3>2, SameCalm DEF RunClaim, Update
    <3> QED BY <3>1, <3>2
  <2>5. \A p \in Requests : Claims(p)' => req'[p] = req[p]  BY <2>1, <2>2
  <2> QED BY <2>2, <2>3, <2>4, <2>5, QuietHands
<1>9. CASE RunMove(q)
  <2>1. j \in Jobs /\ UNCHANGED <<job, run>>
    BY <1>1, <1>9 DEF RunMove, ReqAt, Waits
  <2>2. CASE dir[j] # "pending"
    BY <1>3, <1>6, <1>9, <2>1, <2>2 DEF RunMove
  <2>3. CASE dir[j] = "pending"
    <3>1. /\ dir' = [dir EXCEPT ![j] = "running"]
          /\ req'[q].at = "mark" /\ req'[q].job = j
          /\ \A p \in Requests \ {q} : req'[p] = req[p]
      BY <1>2, <1>4, <1>9, <2>3 DEF RunMove, ReqAt, Waits
    <3> HIDE DEF j
    <3>2. dir'[j] = "running" /\ \A k \in Jobs \ {j} : dir'[k] = dir[k]
      BY <1>0, <2>1, <3>1
    <3>3. Free(j)  BY <2>1, <2>3, NotRunningFree
    <3>4. ~job'[j].old  BY <2>1, <2>3, <3>2 DEF FreshClaim
    <3>5. ClaimOK(q)'  BY <3>1, <3>2, <3>4 DEF ClaimOK, ClaimFile
    <3>6. AtRest(j)  BY <3>2 DEF AtRest
    <3>7. \A k \in Jobs \ {j} : Calm(k)  BY <2>1, <3>2, SameCalm
    <3>8. \A s \in Runners : run'[s] = run[s] /\ (run[s] # Off => run[s].job # j)
      BY <2>1, <3>3 DEF Free
    <3>9. \A p \in Requests \ {q} : Claims(p)' => req'[p] = req[p] /\ req[p].job # j
      BY <3>1, <3>3 DEF Free, Claims
    <3> QED BY <2>1, <3>1, <3>5, <3>6, <3>7, <3>8, <3>9, RequestHands
  <2> QED BY <2>2, <2>3
\* Steps in which a request that has its job in hand keeps it.
<1>10. ASSUME Claims(q), j \in Jobs, UNCHANGED <<dir, run>>, NEW s,
              s \in {"launch", "undo"}, ReqGoes(q, s),
              \A k \in Jobs \ {j} : job'[k] = job[k],
              \/ dir[j] = "gone"
              \/ ~job'[j].old /\ (s = "undo" => job'[j].status \in {"pending", "cancelling"})
       PROVE  Hands'
  <2>1. /\ req'[q].at = s /\ req'[q].job = j
        /\ \A p \in Requests \ {q} : req'[p] = req[p]
    BY <1>2, <1>4, <1>10 DEF Claims, Waits
  <2>3. dir'[j] \in {"running", "gone"}  BY <1>5, <1>10 DEF ClaimOK, ClaimFile
  <2> HIDE DEF j
  <2>4. ClaimOK(q)'  BY <1>10, <2>1, <2>3 DEF ClaimOK, ClaimFile
  <2>5. AtRest(j)  BY <2>3 DEF AtRest
  <2>6. \A k \in Jobs \ {j} : Calm(k)  BY <1>10, SameCalm
  <2>7. \A t \in Runners : run'[t] = run[t] /\ (run[t] # Off => run[t].job # j)
    BY <1>5, <1>10
  <2>8. \A p \in Requests \ {q} : Claims(p)' => req'[p] = req[p] /\ req[p].job # j
    BY <1>5, <1>10, <2>1 DEF Claims
  <2> QED BY <1>10, <2>1, <2>4, <2>5, <2>6, <2>7, <2>8, RequestHands
<1>11. CASE RunMark(q)
  <2>1. Claims(q) /\ j \in Jobs /\ job[j] \in Job
    BY <1>1, <1>11 DEF RunMark, ReqAt, Claims, Waits
  <2>2. dir[j] \in {"running", "gone"}
    BY <1>5, <2>1 DEF ClaimOK, ClaimFile
  <2>3. dir[j] = "running" => ~job'[j].old
    BY <1>0, <1>11, <2>1 DEF RunMark, Update, Job
  <2>4. \A k \in Jobs \ {j} : job'[k] = job[k]
    BY <1>0, <1>11 DEF RunMark, Update
  <2> QED BY <1>10, <1>11, <2>1, <2>2, <2>3, <2>4 DEF RunMark
<1>12. CASE RunLaunchFails(q)
  <2>1. Claims(q) /\ j \in Jobs /\ job[j] \in Job
    BY <1>1, <1>12 DEF RunLaunchFails, ReqAt, Claims, Waits
  <2>2. dir[j] \in {"running", "gone"}
    BY <1>5, <2>1 DEF ClaimOK, ClaimFile
  <2>3. dir[j] = "running" => ~job'[j].old /\ job'[j].status \in {"pending", "cancelling"}
    BY <1>0, <1>12, <2>1 DEF RunLaunchFails, Update, Job
  <2>4. \A k \in Jobs \ {j} : job'[k] = job[k]
    BY <1>0, <1>12 DEF RunLaunchFails, Update
  <2> QED BY <1>10, <1>12, <2>1, <2>2, <2>3, <2>4 DEF RunLaunchFails
<1>13. ASSUME NEW r \in Runners, RunLaunch(q, r) PROVE Hands'
  <2>1. /\ Claims(q) /\ j \in Jobs /\ UNCHANGED <<dir, job>> /\ ~Claims(q)'
        /\ run[r] = Off
        /\ \A p \in Requests \ {q} : req'[p] = req[p]
        /\ run' = [run EXCEPT ![r] = [at |-> "started", job |-> j, proc |-> r, to |-> "none"]]
    BY <1>1, <1>3, <1>13 DEF RunLaunch, ReqAt, Claims, Waits, files
  <2>2. ClaimOK(q)  BY <1>5, <2>1
  <2>3. dir'[j] = "gone" \/ (dir'[j] = "running" /\ ~job'[j].old)
    BY <2>1, <2>2 DEF ClaimOK, ClaimFile
  <2> HIDE DEF j
  <2>4. /\ run'[r] = [at |-> "started", job |-> j, proc |-> r, to |-> "none"]
        /\ \A s \in Runners \ {r} : run'[s] = run[s]
    BY <1>0, <2>1 DEF RunOK
  <2>5. RunnerOK(r)' /\ run'[r].job = j  BY <2>3, <2>4 DEF RunnerOK, RunnerFile
  <2>6. AtRest(j)  BY <2>3 DEF AtRest
  <2>7. \A k \in Jobs \ {j} : Calm(k)  BY <2>1, SameCalm
  <2>8. \A s \in Runners \ {r} : run'[s] = run[s] /\ (run[s] # Off => run[s].job # j)
    BY <1>5, <2>1, <2>4
  <2>9. \A p \in Requests : Claims(p)' => req'[p] = req[p] /\ req[p].job # j
    BY <1>5, <2>1 DEF Claims
  <2> QED BY <2>1, <2>5, <2>6, <2>7, <2>8, <2>9, RunnerHands
<1>14. CASE RunUndo(q)
  <2>1. /\ Claims(q) /\ j \in Jobs /\ UNCHANGED <<job, run>> /\ ~Claims(q)'
        /\ \A p \in Requests \ {q} : req'[p] = req[p]
    BY <1>1, <1>3, <1>14 DEF RunUndo, ReqAt, Claims, Waits
  <2>2. \/ dir[j] = "gone"
        \/ dir[j] = "running" /\ ~job[j].old /\ job[j].status \in {"pending", "cancelling"}
    BY <1>5, <1>14, <2>1 DEF ClaimOK, ClaimFile, RunUndo, ReqAt
  <2>3. dir' = IF dir[j] = "running" THEN [dir EXCEPT ![j] = "pending"] ELSE dir
    BY <1>14 DEF RunUndo
  <2> HIDE DEF j
  <2>4. /\ dir[j] = "gone" => dir'[j] = "gone"
        /\ dir[j] = "running" => dir'[j] = "pending"
        /\ \A k \in Jobs \ {j} : dir'[k] = dir[k]
    BY <1>0, <2>1, <2>3
  <2>5. AtRest(j)  BY <2>1, <2>2, <2>4 DEF AtRest
  <2>6. \A k \in Jobs \ {j} : Calm(k)  BY <2>1, <2>4, SameCalm
  <2>7. \A s \in Runners : run'[s] = run[s] /\ (run[s] # Off => run[s].job # j)
    BY <1>5, <2>1
  <2>8. \A p \in Requests \ {q} : Claims(p)' => req'[p] = req[p] /\ req[p].job # j
    BY <1>5, <2>1 DEF Claims
  <2> QED BY <2>1, <2>5, <2>6, <2>7, <2>8, RequestHands
<1>15. CASE ApiDies(q)
  BY <1>3, <1>6, <1>15 DEF ApiDies, files
<1>16. ASSUME NEW k \in Jobs, RunRequest(q, k) PROVE Hands'
  <2>1. \A p \in Requests : Claims(p)' => req'[p] = req[p]
    BY <1>0, <1>16 DEF RunRequest, Claims
  <2> QED BY <1>16, <2>1, SweepHands DEF RunRequest
<1> QED BY <1>7, <1>8, <1>9, <1>11, <1>12, <1>13, <1>14, <1>15, <1>16 DEF RequestStep

LEMMA RunnerStepHands ==
    ASSUME TypeOK, Aimed, Hands, NEW r \in Runners,
           RunnerStep(r) \/ RunnerProgress(r) \/ RunnerDies(r)
    PROVE  Hands'
<1> DEFINE j == run[r].job
<1>0. /\ dir \in [Jobs -> Dirs] /\ job \in [Jobs -> Job] /\ RunOK
      /\ run \in [Runners -> Run \cup {Off}]
  BY TypeParts DEF TypeOK, Dirs, RunOK
<1>1. run[r] # Off /\ run[r] \in Run /\ j \in Jobs /\ job[j] \in Job
  <2>1. run[r] # Off
    BY DEF RunnerStep, RunnerLoad, RunnerStamp, RunnerReturns, RunnerRaises, RunnerMark,
           RunnerMove, RunnerProgress, RunnerDies, RunnerAt, Off
  <2> QED BY <1>0, <2>1, RunnerJob
<1>2. RunnerOK(r) /\ dir[j] \in {"running", "gone"}
  BY <1>1 DEF Hands, RunnerOK, RunnerFile
<1>3. \A s \in Runners \ {r} : run[s] # Off => run[s].job # j
  BY <1>1 DEF Hands, Alone
<1>4. \A q \in Requests : Claims(q) => req[q].job # j
  BY <1>1 DEF Hands, Alone
<1>5. ASSUME NEW s, RunnerGoes(r, s)
      PROVE  /\ run'[r].at = s /\ run'[r].to = run[r].to
             /\ run'[r].job = j /\ run'[r].proc = run[r].proc
             /\ \A t \in Runners \ {r} : run'[t] = run[t]
  BY <1>0, <1>1, <1>5 DEF RunnerGoes, Run
<1>6. ASSUME NEW d, RunnerMarks(r, d)
      PROVE  /\ run'[r].at = "mark" /\ run'[r].job = j /\ run'[r].proc = run[r].proc
             /\ \A t \in Runners \ {r} : run'[t] = run[t]
  BY <1>0, <1>1, <1>6 DEF RunnerMarks, Run
\* The runner goes on with its job, whose file only it may have written.
<1>7. ASSUME UNCHANGED <<dir, req>>, run'[r].job = j,
             \A s \in Runners \ {r} : run'[s] = run[s],
             \A k \in Jobs \ {j} : job'[k] = job[k], RunnerOK(r)'
      PROVE  Hands'
  <2> HIDE DEF j
  <2>1. dir'[j] \in {"running", "gone"}  BY <1>2, <1>7
  <2>2. AtRest(j)  BY <2>1 DEF AtRest
  <2>3. \A k \in Jobs \ {j} : Calm(k)  BY <1>7, SameCalm
  <2>4. \A s \in Runners \ {r} : run'[s] = run[s] /\ (run[s] # Off => run[s].job # j)
    BY <1>3, <1>7
  <2>5. \A q \in Requests : Claims(q)' => req'[q] = req[q] /\ req[q].job # j
    BY <1>4, <1>7 DEF Claims
  <2> QED BY <1>1, <1>7, <2>2, <2>3, <2>4, <2>5, RunnerHands
\* It ends, or its process does.
<1>8. ASSUME UNCHANGED req, RunnerEnds(r), \A k \in Jobs \ {j} : dir'[k] = dir[k],
             Calm(j) \/ AtRest(j)
      PROVE  Hands'
  <2> HIDE DEF j
  <2>1. run'[r] = Off /\ \A s \in Runners \ {r} : run'[s] = run[s]
    BY <1>0, <1>8 DEF RunnerEnds
  <2>2. \A s \in Runners : run'[s] # Off => run'[s].proc # r
    BY <2>1, QueueAssumption DEF Hands, RunnerOK
  <2>3. \A k \in Jobs \ {j} : Calm(k)
    BY <1>8, <2>2, ForgetCalm DEF RunnerEnds
  <2>4. AtRest(j)  BY <1>1, <1>8, CalmFile
  <2>5. \A s \in Runners \ {r} : run'[s] = run[s] /\ (run[s] # Off => run[s].job # j)
    BY <1>3, <2>1
  <2>6. \A q \in Requests : Claims(q)' => req'[q] = req[q] /\ req[q].job # j
    BY <1>4, <1>8 DEF Claims
  <2> QED BY <1>1, <2>1, <2>3, <2>4, <2>5, <2>6, RunnerHands
\* Its file is gone, and it goes on without.
<1>20. CASE dir[j] = "gone"
  <2>1. ASSUME NEW s, RunnerGoes(r, s) \/ (\E d : RunnerMarks(r, d)) \/ UNCHANGED run
                      \/ run' = [run EXCEPT ![r].at = "move", ![r].to = "failed"],
               UNCHANGED <<dir, req, job>>
        PROVE  Hands'
    <3>1. /\ run'[r].job = j /\ run'[r].proc = run[r].proc
          /\ \A t \in Runners \ {r} : run'[t] = run[t]
      BY <1>0, <1>1, <2>1 DEF RunnerGoes, RunnerMarks, Run
    <3>2. RunnerOK(r)'  BY <1>2, <1>20, <2>1, <3>1 DEF RunnerOK
    <3> QED BY <1>7, <2>1, <3>1, <3>2
  <2>2. ASSUME RunnerEnds(r), UNCHANGED <<dir, req>> PROVE Hands'
    <3>1. AtRest(j)  BY <1>20, <2>2 DEF AtRest
    <3> QED BY <1>8, <2>2, <3>1
  <2>3. CASE RunnerLoad(r) \/ RunnerReturns(r) \/ RunnerRaises(r)
    BY <1>20, <2>1, <2>3 DEF RunnerLoad, RunnerReturns, RunnerRaises, files
  <2>4. CASE RunnerStamp(r) \/ RunnerMark(r) \/ RunnerProgress(r)
    BY <1>20, <2>1, <2>4 DEF RunnerStamp, RunnerMark, RunnerProgress, Update
  <2>5. CASE RunnerMove(r)
    BY <1>20, <2>1, <2>2, <2>5 DEF RunnerMove, files
  <2>6. CASE RunnerDies(r)
    BY <2>2, <2>6 DEF RunnerDies
  <2> QED BY <2>3, <2>4, <2>5, <2>6 DEF RunnerStep
<1>21. CASE dir[j] = "running"
  <2>0. RunnerFile(r) /\ run[r].proc \in {Worker, r}  BY <1>2, <1>21 DEF RunnerOK
  <2>9. CASE RunnerLoad(r)
    <3>1. UNCHANGED <<dir, job, req>> /\ run[r].at = "started"
      BY <2>9 DEF RunnerLoad, RunnerAt, files
    <3>2. ~job[j].old  BY <2>0, <3>1 DEF RunnerFile
    <3>3. /\ run'[r].at \in {"mark", "loaded"} /\ run'[r].job = j /\ run'[r].proc = run[r].proc
          /\ \A t \in Runners \ {r} : run'[t] = run[t]
      BY <1>5, <1>6, <1>21, <2>9 DEF RunnerLoad
    <3>4. RunnerOK(r)'  BY <2>0, <3>1, <3>2, <3>3 DEF RunnerOK, RunnerFile
    <3> QED BY <1>7, <3>1, <3>3, <3>4
  <2>10. CASE RunnerStamp(r)
    <3>1. UNCHANGED <<dir, req>> /\ RunnerGoes(r, "execute")
      BY <2>10 DEF RunnerStamp
    <3>2. /\ job'[j].owner = run[r].proc
          /\ \A k \in Jobs \ {j} : job'[k] = job[k]
      BY <1>0, <1>1, <1>21, <2>10 DEF RunnerStamp, Update, Stamped, Job
    <3>3. /\ run'[r].at = "execute" /\ run'[r].job = j /\ run'[r].proc = run[r].proc
          /\ \A t \in Runners \ {r} : run'[t] = run[t]
      BY <1>5, <3>1
    <3>4. RunnerOK(r)'  BY <2>0, <3>1, <3>2, <3>3 DEF RunnerOK, RunnerFile
    <3> QED BY <1>7, <3>1, <3>2, <3>3, <3>4
  <2>11. CASE RunnerProgress(r)
    <3>1. UNCHANGED <<dir, req, run>> /\ run[r].at = "execute"
      BY <2>11 DEF RunnerProgress, RunnerAt, procs
    <3>2. /\ job'[j].owner = job[j].owner
          /\ \A k \in Jobs \ {j} : job'[k] = job[k]
      BY <1>0, <1>1, <1>21, <2>11 DEF RunnerProgress, Update, Job
    <3>3. RunnerOK(r)'  BY <2>0, <3>1, <3>2 DEF RunnerOK, RunnerFile
    <3> QED BY <1>7, <3>1, <3>2, <3>3
  <2>12. CASE RunnerReturns(r) \/ RunnerRaises(r)
    <3>1. UNCHANGED <<dir, job, req>> /\ run[r].at = "execute"
      BY <2>0, <2>12 DEF RunnerReturns, RunnerRaises, RunnerAt, RunnerFile, files
    <3>2. job[j].owner = run[r].proc  BY <2>0, <3>1 DEF RunnerFile
    <3>3. /\ run'[r].at = "mark" /\ run'[r].job = j /\ run'[r].proc = run[r].proc
          /\ \A t \in Runners \ {r} : run'[t] = run[t]
      BY <1>6, <2>12 DEF RunnerReturns, RunnerRaises
    <3>4. RunnerOK(r)'  BY <2>0, <3>1, <3>2, <3>3 DEF RunnerOK, RunnerFile
    <3> QED BY <1>7, <3>1, <3>3, <3>4
  <2>13. CASE RunnerMark(r)
    <3>1. UNCHANGED <<dir, req>> /\ RunnerGoes(r, "move")
      BY <2>13 DEF RunnerMark
    <3>2. /\ job'[j].status = run[r].to /\ ~job'[j].old
          /\ \A k \in Jobs \ {j} : job'[k] = job[k]
      BY <1>0, <1>1, <1>21, <2>13 DEF RunnerMark, Update, Job
    <3>3. /\ run'[r].at = "move" /\ run'[r].to = run[r].to
          /\ run'[r].job = j /\ run'[r].proc = run[r].proc
          /\ \A t \in Runners \ {r} : run'[t] = run[t]
      BY <1>5, <3>1
    <3>4. RunnerOK(r)'  BY <2>0, <3>1, <3>2, <3>3 DEF RunnerOK, RunnerFile
    <3> QED BY <1>7, <3>1, <3>2, <3>3, <3>4
  <2>14. CASE RunnerMove(r)
    <3>1. /\ UNCHANGED req /\ RunnerEnds(r) /\ run[r].at = "move"
          /\ dir' = [dir EXCEPT ![j] = run[r].to]
      BY <1>21, <2>14 DEF RunnerMove, RunnerAt
    <3>2. run[r].to \in {"done", "failed", "pending"}
      BY <1>1, <3>1 DEF Aimed, Run
    <3>3. job'[j].status = job[j].status /\ job'[j].old = job[j].old
      BY <1>1, <3>1 DEF RunnerEnds, Forget, Job
    <3>4. /\ ~job[j].old
          /\ IF run[r].to = "pending" THEN job[j].status \in {"pending", "cancelling"}
             ELSE job[j].status = run[r].to
      BY <2>0, <3>1 DEF RunnerFile
    <3> HIDE DEF j
    <3>5. dir'[j] = run[r].to /\ \A k \in Jobs \ {j} : dir'[k] = dir[k]
      BY <1>0, <1>1, <3>1
    <3>6. AtRest(j)  BY <3>2, <3>3, <3>4, <3>5 DEF AtRest
    <3> QED BY <1>8, <3>1, <3>5, <3>6
  <2>15. CASE RunnerDies(r)
    <3>1. UNCHANGED <<dir, req>> /\ RunnerEnds(r)
      BY <2>15 DEF RunnerDies
    <3>2. AtRest(j)  BY <1>21, <3>1 DEF AtRest
    <3> QED BY <1>8, <3>1, <3>2
  <2> QED BY <2>9, <2>10, <2>11, <2>12, <2>13, <2>14, <2>15 DEF RunnerStep
<1> QED BY <1>2, <1>20, <1>21

\* As long as a claim finds a fresh file, a job in running/ is in one pair of
\* hands, and its file says what those hands rely on.
LEMMA HandsStep == ASSUME TypeOK, Aimed, Hands, [Next /\ FreshClaim]_vars PROVE Hands'
<1>1. ASSUME UNCHANGED <<dir, job, run, req>> PROVE Hands'
  BY <1>1, SameCalm, QuietHands
<1>2. CASE UNCHANGED vars
  BY <1>1, <1>2 DEF vars
<1>3. ASSUME NEW p \in Procs, Sigterm(p) PROVE Hands'
  BY <1>1, <1>3 DEF Sigterm, files
<1>4. CASE Next /\ FreshClaim
  BY <1>3, <1>4, QueueHands, AgeHands, WorkerHands, RequestStepHands, RunnerStepHands
     DEF Next
<1>. QED BY <1>2, <1>4

LEMMA InitHands == Init => Hands
BY DEF Init, NewJob, Hands, Alone, WaitingOK, StatusFits, Claims, Idle, Off

LEMMA HandsInductive == Spec /\ [][FreshClaim]_vars => []Hands
<1>1. TypeOK /\ Aimed /\ Hands /\ [Next]_vars /\ [FreshClaim]_vars => Hands'
  BY HandsStep
<1>. QED BY <1>1, InitHands, QueueInductive, PTL DEF Spec

\* Where no job waits in pending/ for a minute, every claim finds a fresh file:
\* whatever writes or moves a job leaves it so.
LEMMA ClaimsAreFresh == ASSUME ~AgePending PROVE Spec => [][FreshClaim]_vars
<1>1. Hands => FreshClaim
  BY DEF Hands, WaitingOK, FreshClaim
<1>2. TypeOK /\ Aimed /\ Hands /\ [Next]_vars => Hands'
  BY <1>1, HandsStep
<1>. QED BY <1>1, <1>2, InitHands, QueueInductive, PTL DEF Spec

\* However many runners, requests and jobs there are, and whatever dies or is
\* stopped, no two runners ever have the same job, unless a claim moved a file
\* that was a minute old: otherwise _requeue_stale_running_jobs frees only jobs
\* whose runner is gone, and a claim moves a file once.
THEOREM OneRunnerAtATime == Spec /\ [][FreshClaim]_vars => []OneRunner
<1>1. Hands => OneRunner
  <2>. SUFFICES ASSUME Hands, NEW j \in Jobs PROVE Cardinality(Holders(j)) <= 1
    BY DEF OneRunner
  <2>1. CASE Holders(j) = {}
    BY <2>1, FS_EmptySet
  <2>2. CASE Holders(j) # {}
    <3>1. PICK r \in Runners : r \in Holders(j)  BY <2>2 DEF Holders
    <3>2. Holders(j) = {r}  BY <3>1 DEF Hands, Alone, Holders
    <3>3. Cardinality({r}) = 1  BY FS_Singleton
    <3>. QED BY <3>2, <3>3
  <2>. QED BY <2>1, <2>2
<1>. QED BY <1>1, HandsInductive, PTL

\* What the directory says of a job, its status says: a job in done/ or failed/
\* was marked so by its runner or by the recovery, and a pending one waits,
\* unless a claim moved a file that was a minute old.
THEOREM StatusAlwaysFits == Spec /\ [][FreshClaim]_vars => []StatusFits
<1>1. Hands => StatusFits  BY DEF Hands
<1>. QED BY <1>1, HandsInductive, PTL

\* The handoff from a claim to its runner is cut only after a claim of a file
\* that was a minute old: otherwise a job goes back to pending/ when its runner
\* moves it, when no runner was launched, or when nobody has it.
THEOREM HandoffIsKept == Spec /\ [][FreshClaim]_vars => HandoffKept
<1>1. ASSUME TypeOK, Aimed, Hands, [Next]_vars, NEW j \in Jobs,
             dir[j] = "running", dir'[j] = "pending", NEW r \in Holders(j)
      PROVE  run[r].at \notin {"started", "loaded"}
  <2>1. FilesOK /\ RunOK /\ ReqOK /\ dir \in [Jobs -> Dirs] /\ r \in Runners
        /\ run[r] # Off /\ run[r].job = j
    BY <1>1, TypeParts DEF FilesOK, Holders
  <2>2. dir' # dir  BY <1>1
  <2>3. ~Sweep
    <3>1. ~Stale(j)  BY <1>1, <2>1, StaleFree DEF Free
    <3>. QED BY <1>1, <3>1 DEF Sweep
  <2>4. ASSUME NEW k \in Jobs, Enqueue(k) \/ Cancel(k) \/ Retry(k) \/ Delete(k)
                               \/ DeleteRunning(k) \/ Age(k)
        PROVE  FALSE
    BY <1>1, <2>1, <2>2, <2>4 DEF Enqueue, Cancel, Retry, Delete, DeleteRunning, Remove, Age
  <2>5. ~WorkerStep /\ ~WorkerDies /\ \A p \in Procs : ~Sigterm(p)
    <3>1. \A s \in Runners : ~WorkerStartJob(s)
      BY <1>1, <2>1 DEF WorkerStartJob
    <3>. QED BY <2>2, <2>3, <3>1 DEF WorkerStep, WorkerStart, WorkerSweep, WorkerScan,
                   WorkerIterates, WorkerExit, WorkerDies, Sigterm, files
  <2>6. ASSUME NEW q \in Requests,
               RequestStep(q) \/ RunLaunchFails(q) \/ ApiDies(q) \/ \E k \in Jobs : RunRequest(q, k)
        PROVE  FALSE
    <3>1. ~RunMove(q)  BY <1>1, <2>1 DEF RunMove
    <3>2. RunUndo(q)
      BY <2>2, <2>3, <2>6, <3>1 DEF RequestStep, RunCheck, RunClaim, RunMark, RunLaunch,
           RunLaunchFails, ApiDies, RunRequest, files
    <3>3. req[q].job = j /\ Claims(q)
      BY <1>1, <2>1, <3>2 DEF RunUndo, ReqAt, Claims
    <3>. QED BY <1>1, <2>1, <3>3 DEF Hands, Alone
  <2>7. ASSUME NEW s \in Runners, RunnerStep(s) \/ RunnerProgress(s) \/ RunnerDies(s)
        PROVE  s = r /\ run[s].at = "move"
    <3>1. RunnerMove(s)
      BY <2>2, <2>7 DEF RunnerStep, RunnerLoad, RunnerStamp, RunnerReturns, RunnerRaises,
           RunnerMark, RunnerProgress, RunnerDies, files
    <3>2. run[s].at = "move" /\ run[s].job = j
      BY <1>1, <2>1, <3>1 DEF RunnerMove, RunnerAt, files
    <3>. QED BY <1>1, <2>1, <3>2 DEF Hands, Alone, Off
  <2>8. ~UNCHANGED vars  BY <2>2 DEF vars
  <2>. QED BY <1>1, <2>4, <2>5, <2>6, <2>7, <2>8 DEF Next
<1>2. TypeOK /\ Aimed /\ Hands /\ [Next]_vars =>
        [\A j \in Jobs : dir[j] = "running" /\ dir'[j] = "pending" =>
            \A r \in Holders(j) : run[r].at \notin {"started", "loaded"}]_vars
  BY <1>1
<1>. QED BY <1>2, HandsInductive, QueueInductive, PTL DEF Spec, HandoffKept
=============================================================================
