--------------------------- MODULE DeployPipeline ---------------------------
(***************************************************************************)
(* Deployments of ONE project: DeployService (trigger, cancel, retry,      *)
(* rollback), the "deploy" BullMQ queue and DeployProcessor.process.       *)
(*                                                                         *)
(* Every await is an interleaving point: a database read and the write     *)
(* that relies on it are two actions.  Each HTTP request runs in a handler *)
(* h; the single worker of the queue (default concurrency 1) is "worker".  *)
(* The project lock is abstracted to who owns its Redis key (ProjectLock   *)
(* has its detail); "dead" is a key whose owner crashed.                   *)
(***************************************************************************)
EXTENDS Integers, Sequences, FiniteSets

CONSTANTS
  MaxDeployments,  \* bound: rows ever created
  Pipelines,       \* values of Project.pipeline: sequences of "required"/"optional"
  Handlers,        \* HTTP requests that can be in flight at once
  Faults           \* which of AllFaults the environment may inject

AllFaults ==
  {"crash", "orphan", "stall", "timeout", "lockTimeout", "overrun", "edit", "delete"}

ASSUME DeployAssumption ==
  /\ MaxDeployments \in Nat \ {0}
  /\ Pipelines \subseteq Seq({"required", "optional"})
  /\ IsFiniteSet(Handlers)
  /\ Faults \subseteq AllFaults

Id == 1..MaxDeployments

VARIABLES
  project,   \* Project.status, or "deleted"
  pipeline,  \* Project.pipeline
  row,       \* Deployment rows: [status, stages, version], or NoRow
  skip,      \* job.data.resumeFromStage of each deployment's job (0 if undefined)
  job,       \* BullMQ state of each deployment's job
  stalls,    \* BullMQ stalled counter of each job
  queue,     \* waiting jobs, next first
  worker,    \* the worker's locals and program counter
  req,       \* the handlers' locals and program counters
  lock,      \* owner of the key project-lock:<id>
  procs      \* live shell processes started by stages, as <<deployment, stage>>

rows == <<project, pipeline, row>>
jobs == <<skip, job, stalls, queue>>
vars == <<rows, jobs, worker, req, lock, procs>>

StageStatus == {"PENDING", "RUNNING", "SUCCESS", "FAILED", "SKIPPED"}
Terminal == {"SUCCESS", "FAILED", "CANCELLED"}
Owner == {"free", "deploy", "task", "dead"}
NoRow == [status |-> "none", stages |-> <<>>, version |-> 0]
Idle == [pc |-> "idle", d |-> 0, plan |-> <<>>, i |-> 0]
NoReq == [pc |-> "idle", d |-> 0, skip |-> 0, len |-> 0, version |-> 0]

Exists(d) == row[d].status # "none"
Created == {d \in Id : Exists(d)}
Passed(d, i) == row[d].stages[i] \in {"SUCCESS", "SKIPPED"}
Failures(d) == {i \in DOMAIN row[d].stages : row[d].stages[i] = "FAILED"}
Least(S) == CHOOSE x \in S : \A y \in S : x <= y

InLock == {"loading", "marking", "stage", "running", "failed", "activate",
           "unlock", "abort"}

TypeOK ==
  /\ project \in {"ACTIVE", "STOPPED", "deleted"}
  /\ pipeline \in Pipelines
  /\ row \in [Id -> [status : {"none", "QUEUED", "RUNNING"} \cup Terminal,
                     stages : Seq(StageStatus),
                     version : 0..MaxDeployments]]
  /\ skip \in [Id -> Nat]
  /\ job \in [Id -> {"none", "waiting", "active", "stalled", "done", "failed"}]
  /\ stalls \in [Id -> 0..1]
  /\ queue \in Seq(Id)
  /\ worker \in [pc : {"idle", "locking"} \cup InLock, d : Id \cup {0},
                 plan : Pipelines \cup {<<>>}, i : Nat]
  /\ worker.pc # "idle" => worker.d \in Id
  /\ req \in [Handlers -> [pc : {"idle", "reading", "creating", "enqueueing", "cancelling"},
                           d : Id \cup {0}, skip : Nat, len : Nat,
                           version : 0..MaxDeployments]]
  /\ \A h \in Handlers : req[h].pc \in {"enqueueing", "cancelling"} => req[h].d \in Id
  /\ lock \in Owner
  /\ procs \subseteq Id \X Nat

Init ==
  /\ project = "STOPPED"
  /\ pipeline \in Pipelines
  /\ row = [d \in Id |-> NoRow]
  /\ skip = [d \in Id |-> 0]
  /\ job = [d \in Id |-> "none"]
  /\ stalls = [d \in Id |-> 0]
  /\ queue = <<>>
  /\ worker = Idle
  /\ req = [h \in Handlers |-> NoReq]
  /\ lock = "free"
  /\ procs = {}

----------------------------------------------------------------------------
(* DeployService: trigger, retry and rollback all end in trigger.          *)

\* Bound: no request starts that could exceed MaxDeployments rows.
Room ==
  Cardinality(Created) + Cardinality({h \in Handlers : req[h].pc \in {"reading", "creating"}})
    < MaxDeployments

\* A request is on its way to trigger with resumeFromStage k.
Begin(h, k) ==
  /\ Room
  /\ req' = [req EXCEPT ![h] = [NoReq EXCEPT !.pc = "reading", !.skip = k]]

\* POST deployments (also webhooks and uploads): no precondition.
Trigger(h) ==
  /\ req[h].pc = "idle"
  /\ Begin(h, 0)
  /\ UNCHANGED <<rows, jobs, worker, lock, procs>>

\* Mutant: the failed stage is taken for the last one that passed.
Retry_past(h, d) ==
  /\ req[h].pc = "idle"
  /\ row[d].status = "FAILED"
  /\ Begin(h, IF Failures(d) = {} THEN 0 ELSE Least(Failures(d)))
  /\ UNCHANGED <<rows, jobs, worker, lock, procs>>

\* POST :id/retry of a FAILED deployment, from its first FAILED stage.
\* findIndex gives -1 when there is none, which skips nothing.
Retry(h, d) ==
  /\ req[h].pc = "idle"
  /\ row[d].status = "FAILED"
  /\ Begin(h, IF Failures(d) = {} THEN 0 ELSE Least(Failures(d)) - 1)
  /\ UNCHANGED <<rows, jobs, worker, lock, procs>>

\* POST rollback: needs a past SUCCESS, then triggers a plain deployment.
Rollback(h) ==
  /\ req[h].pc = "idle"
  /\ \E d \in Created : row[d].status = "SUCCESS"
  /\ Begin(h, 0)
  /\ UNCHANGED <<rows, jobs, worker, lock, procs>>

\* Mutant: the new row is counted too.
ReadProject_counted(h) ==
  /\ req[h].pc = "reading"
  /\ req' = [req EXCEPT ![h].pc = "creating",
                       ![h].len = Len(pipeline),
                       ![h].version = Cardinality(Created) + 2]
  /\ UNCHANGED <<rows, jobs, worker, lock, procs>>

\* trigger: findOne (throws when the project is gone), then count the rows.
ReadProject(h) ==
  /\ req[h].pc = "reading"
  /\ IF project = "deleted"
       THEN req' = [req EXCEPT ![h] = NoReq]
       ELSE req' = [req EXCEPT ![h].pc = "creating",
                               ![h].len = Len(pipeline),
                               ![h].version = Cardinality(Created) + 1]
  /\ UNCHANGED <<rows, jobs, worker, lock, procs>>

\* trigger: insert the row (its foreign key fails once the project is gone).
CreateRow(h) ==
  /\ req[h].pc = "creating"
  /\ IF project = "deleted"
       THEN /\ req' = [req EXCEPT ![h] = NoReq]
            /\ UNCHANGED <<row, skip>>
       ELSE LET d == Least(Id \ Created) IN
              /\ row' = [row EXCEPT ![d] =
                           [status |-> "QUEUED",
                            stages |-> [i \in 1..req[h].len |-> "PENDING"],
                            version |-> req[h].version]]
              /\ skip' = [skip EXCEPT ![d] = req[h].skip]
              /\ req' = [req EXCEPT ![h].pc = "enqueueing", ![h].d = d]
  /\ UNCHANGED <<project, pipeline, job, stalls, queue, worker, lock, procs>>

\* trigger: deployQueue.add.
Enqueue(h) ==
  /\ req[h].pc = "enqueueing"
  /\ queue' = Append(queue, req[h].d)
  /\ job' = [job EXCEPT ![req[h].d] = "waiting"]
  /\ req' = [req EXCEPT ![h] = NoReq]
  /\ UNCHANGED <<rows, skip, stalls, worker, lock, procs>>

\* POST :id/cancel: read the status ...
Cancel(h, d) ==
  /\ req[h].pc = "idle"
  /\ row[d].status \in {"QUEUED", "RUNNING"}
  /\ req' = [req EXCEPT ![h] = [NoReq EXCEPT !.pc = "cancelling", !.d = d]]
  /\ UNCHANGED <<rows, jobs, worker, lock, procs>>

\* ... then overwrite it.  Neither the job nor the processor is told.
WriteCancelled(h) ==
  /\ req[h].pc = "cancelling"
  /\ LET d == req[h].d IN
       row' = IF Exists(d) THEN [row EXCEPT ![d].status = "CANCELLED"] ELSE row
  /\ req' = [req EXCEPT ![h] = NoReq]
  /\ UNCHANGED <<project, pipeline, jobs, worker, lock, procs>>

----------------------------------------------------------------------------
(* The worker: BullMQ hands it a job, process() runs inside withLock.      *)

D == worker.d
Goto(p) == worker' = [worker EXCEPT !.pc = p]
Leave(p) == worker' = [Idle EXCEPT !.pc = p, !.d = D]
SetStage(s) == row' = [row EXCEPT ![D].stages[worker.i] = s]

Take ==
  /\ worker.pc = "idle"
  /\ queue # <<>>
  /\ worker' = [Idle EXCEPT !.pc = "locking", !.d = Head(queue)]
  /\ queue' = Tail(queue)
  /\ job' = [job EXCEPT ![Head(queue)] = "active"]
  /\ UNCHANGED <<rows, skip, stalls, req, lock, procs>>

\* Mutant: SET without NX.
AcquireLock_overwrite ==
  /\ worker.pc = "locking"
  /\ lock' = "deploy"
  /\ Goto("loading")
  /\ UNCHANGED <<rows, jobs, req, procs>>

AcquireLock ==
  /\ worker.pc = "locking"
  /\ lock = "free"
  /\ lock' = "deploy"
  /\ Goto("loading")
  /\ UNCHANGED <<rows, jobs, req, procs>>

\* The job's outcome in BullMQ.  A job taken from this worker by the stalled
\* check is no longer the worker's to complete.
Settle(outcome) ==
  job' = IF job[D] = "active" THEN [job EXCEPT ![D] = outcome] ELSE job

\* Mutants: withLock has no deadline; process() swallows the exception.
LockTimeout_never == worker.pc = "timedOut" /\ UNCHANGED vars
LockTimeout_caught ==
  /\ worker.pc = "locking"
  /\ lock # "free"
  /\ worker' = Idle
  /\ Settle("done")
  /\ UNCHANGED <<rows, skip, stalls, queue, req, lock, procs>>

\* withLock throws at its deadline; process() has no handler, the job fails.
LockTimeout ==
  /\ "lockTimeout" \in Faults
  /\ worker.pc = "locking"
  /\ lock # "free"
  /\ worker' = Idle
  /\ Settle("failed")
  /\ UNCHANGED <<rows, skip, stalls, queue, req, lock, procs>>

\* projectsService.findOne: throws when the project is gone.
Load ==
  /\ worker.pc = "loading"
  /\ IF project = "deleted"
       THEN Leave("abort")
       ELSE worker' = [worker EXCEPT !.pc = "marking", !.plan = pipeline]
  /\ UNCHANGED <<rows, jobs, req, lock, procs>>

\* Mutant: the first stage to run is off by one.
MarkRunning_ahead ==
  /\ worker.pc = "marking"
  /\ row' = [row EXCEPT ![D].status = "RUNNING"]
  /\ worker' = [worker EXCEPT !.pc = "stage", !.i = skip[D] + 2]
  /\ UNCHANGED <<project, pipeline, jobs, req, lock, procs>>

\* The row becomes RUNNING whatever its status was.
MarkRunning ==
  /\ worker.pc = "marking"
  /\ IF Exists(D)
       THEN /\ row' = [row EXCEPT ![D].status = "RUNNING"]
            /\ worker' = [worker EXCEPT !.pc = "stage", !.i = skip[D] + 1]
       ELSE Leave("abort") /\ UNCHANGED row
  /\ UNCHANGED <<project, pipeline, jobs, req, lock, procs>>

\* updateStageStatus(i, RUNNING), then the stage's shell process is spawned.
\* Stage i of the pipeline may be missing from the row: TypeError.
StartStage ==
  /\ worker.pc = "stage"
  /\ worker.i <= Len(worker.plan)
  /\ IF worker.i \in DOMAIN row[D].stages
       THEN /\ SetStage("RUNNING")
            /\ procs' = procs \cup {<<D, worker.i>>}
            /\ Goto("running")
       ELSE Leave("abort") /\ UNCHANGED <<row, procs>>
  /\ UNCHANGED <<project, pipeline, jobs, req, lock>>

\* Mutant: the break is missing.
EndStage_unbroken(ok, alive) ==
  /\ worker.pc = "running" /\ ~alive
  /\ procs' = procs \ {<<D, worker.i>>}
  /\ SetStage(IF ok THEN "SUCCESS" ELSE "FAILED")
  /\ worker' = [worker EXCEPT !.pc = "stage", !.i = @ + 1]
  /\ UNCHANGED <<project, pipeline, jobs, req, lock>>

\* The stage's promise settles and its status is persisted.  At a timeout
\* the promise settles before the process has died.
EndStage(ok, alive) ==
  /\ worker.pc = "running"
  /\ alive => ~ok /\ "timeout" \in Faults
  /\ procs' = IF alive THEN procs ELSE procs \ {<<D, worker.i>>}
  /\ CASE ~Exists(D) ->
            Leave("abort") /\ UNCHANGED row
       [] Exists(D) /\ ok ->
            SetStage("SUCCESS") /\ worker' = [worker EXCEPT !.pc = "stage", !.i = @ + 1]
       [] Exists(D) /\ ~ok /\ worker.plan[worker.i] = "optional" ->
            SetStage("SKIPPED") /\ worker' = [worker EXCEPT !.pc = "stage", !.i = @ + 1]
       [] OTHER ->
            SetStage("FAILED") /\ Goto("failed")
  /\ UNCHANGED <<project, pipeline, jobs, req, lock>>

\* Mutant: the failure path never returns from process().
Finish_success ==
  /\ worker.pc = "stage" /\ worker.i > Len(worker.plan)
  /\ row' = [row EXCEPT ![D].status = "SUCCESS"]
  /\ Leave("activate")
  /\ UNCHANGED <<project, pipeline, jobs, req, lock, procs>>

\* The final status overwrites whatever the row holds.
Finish ==
  /\ \/ worker.pc = "stage" /\ worker.i > Len(worker.plan)
     \/ worker.pc = "failed"
  /\ IF ~Exists(D)
       THEN Leave("abort") /\ UNCHANGED row
       ELSE /\ row' = [row EXCEPT ![D].status =
                         IF worker.pc = "failed" THEN "FAILED" ELSE "SUCCESS"]
            /\ Leave(IF worker.pc = "failed" THEN "unlock" ELSE "activate")
  /\ UNCHANGED <<project, pipeline, jobs, req, lock, procs>>

Activate ==
  /\ worker.pc = "activate"
  /\ IF project = "deleted"
       THEN Leave("abort") /\ UNCHANGED project
       ELSE Leave("unlock") /\ project' = "ACTIVE"
  /\ UNCHANGED <<pipeline, row, jobs, req, lock, procs>>

\* finally: release the key if it is still ours; BullMQ settles the job.
Unlock ==
  /\ worker.pc \in {"unlock", "abort"}
  /\ lock' = IF lock = "deploy" THEN "free" ELSE lock
  /\ Settle(IF worker.pc = "abort" THEN "failed" ELSE "done")
  /\ worker' = Idle
  /\ UNCHANGED <<rows, skip, stalls, queue, req, procs>>

WorkerStep ==
  \/ Take \/ AcquireLock \/ LockTimeout \/ Load \/ MarkRunning \/ StartStage
  \/ \E ok, alive \in BOOLEAN : EndStage(ok, alive)
  \/ Finish \/ Activate \/ Unlock

HandlerStep ==
  \E h \in Handlers :
    \/ Trigger(h) \/ Rollback(h) \/ ReadProject(h) \/ CreateRow(h) \/ Enqueue(h)
    \/ WriteCancelled(h)
    \/ \E d \in Id : Retry(h, d) \/ Cancel(h, d)

----------------------------------------------------------------------------
(* The environment: BullMQ, the operating system, other writers.           *)

\* The event loop is blocked (execFileSync apt-get) past BullMQ's job lock:
\* the stalled check takes the job away while process() continues.
Stall ==
  /\ "stall" \in Faults
  /\ worker.pc \in InLock
  /\ job[D] = "active"
  /\ job' = [job EXCEPT ![D] = "stalled"]
  /\ UNCHANGED <<rows, skip, stalls, queue, worker, req, lock, procs>>

\* A stalled job goes back to the head of the queue once; then it fails.
Redeliver(d) ==
  /\ job[d] = "stalled"
  /\ IF stalls[d] = 0
       THEN /\ stalls' = [stalls EXCEPT ![d] = 1]
            /\ job' = [job EXCEPT ![d] = "waiting"]
            /\ queue' = <<d>> \o queue
       ELSE /\ job' = [job EXCEPT ![d] = "failed"]
            /\ UNCHANGED <<stalls, queue>>
  /\ UNCHANGED <<rows, skip, worker, req, lock, procs>>

\* The backend process dies and restarts; with "orphan" the shell processes
\* survive it ...
Dies ==
  /\ "crash" \in Faults
  /\ worker' = Idle
  /\ req' = [h \in Handlers |-> NoReq]
  /\ job' = IF worker.pc # "idle" /\ job[D] = "active"
              THEN [job EXCEPT ![D] = "stalled"] ELSE job
  /\ procs' = IF "orphan" \in Faults THEN procs ELSE {}
  /\ UNCHANGED <<rows, skip, stalls, queue>>

\* ... and so does the Redis key.
Crash ==
  /\ Dies
  /\ lock' = IF worker.pc \in InLock /\ lock = "deploy" THEN "dead" ELSE lock

\* A process nobody waits for any more ends (SIGKILL after 5 s, or by itself).
Reap(p) ==
  /\ p \in procs
  /\ ~(worker.pc = "running" /\ p = <<D, worker.i>>)
  /\ procs' = procs \ {p}
  /\ UNCHANGED <<rows, jobs, worker, req, lock>>

\* Redis expires the key: always for a dead owner, on overrun for a live one.
Expire ==
  /\ lock = "dead" \/ (lock \in {"deploy", "task"} /\ "overrun" \in Faults)
  /\ lock' = "free"
  /\ UNCHANGED <<rows, jobs, worker, req, procs>>

\* PATCH projects/:id/pipeline.
EditPipeline ==
  /\ "edit" \in Faults
  /\ project # "deleted"
  /\ pipeline' \in Pipelines \ {pipeline}
  /\ UNCHANGED <<project, row, jobs, worker, req, lock, procs>>

\* DELETE projects/:id cascades to the rows; jobs stay in Redis.
DeleteProject ==
  /\ "delete" \in Faults
  /\ project # "deleted"
  /\ project' = "deleted"
  /\ row' = [d \in Id |-> NoRow]
  /\ UNCHANGED <<pipeline, jobs, worker, req, lock, procs>>

Environment ==
  \/ Stall \/ Crash \/ Expire \/ DeleteProject
  \/ \E d \in Id : Redeliver(d)
  \/ \E p \in procs : Reap(p)

\* (ProjectExecutions adds the task processor, the lock's other user.)
Next == WorkerStep \/ HandlerStep \/ Environment \/ EditPipeline

Spec == Init /\ [][Next]_vars

(***************************************************************************)
(* The worker keeps running: every stage ends (command.stage.ts gives each *)
(* a timeout), withLock leaves its wait (ProjectLock!WaitEnds).  BullMQ's  *)
(* stalled check runs and Redis expires the key of a dead owner.  Nobody   *)
(* has to send requests.                                                   *)
(***************************************************************************)
Fairness ==
  /\ WF_vars(WorkerStep)
  /\ \A d \in Id : WF_vars(Redeliver(d))
  /\ WF_vars(lock = "dead" /\ Expire)

\* A project whose pipeline nobody edits.  For TLC, two stages, which let a retry
\* skip one.  (MCPlatform checks it under edits, and with optional stages.)
UneditedNext == WorkerStep \/ HandlerStep \/ Environment
UneditedSpec == Init /\ [][UneditedNext]_vars /\ Fairness
TwoStages == {<<"required", "required">>}

----------------------------------------------------------------------------
(***************************************************************************)
(* SUCCESS is written only when every stage the job had to run, of the     *)
(* pipeline the worker loaded, has passed: across optional failures,       *)
(* resumed and re-delivered jobs, and edits of the pipeline meanwhile.     *)
(***************************************************************************)
SuccessEarnedStep ==
  \A d \in Id :
    row'[d].status = "SUCCESS" /\ row[d].status # "SUCCESS" =>
      \A i \in skip[d] + 1 .. Len(worker.plan) : Passed(d, i)

SuccessEarned == [][SuccessEarnedStep]_vars

(***************************************************************************)
(* A FAILED deployment shows where retry must resume: its first FAILED     *)
(* stage, with every stage the job ran before it passed.  In particular    *)
(* retry's findIndex never returns -1.                                     *)
(***************************************************************************)
RetryTargetsFailure ==
  \A d \in Id : row[d].status = "FAILED" =>
    /\ Failures(d) # {}
    /\ \A i \in skip[d] + 1 .. Least(Failures(d)) - 1 : Passed(d, i)

(***************************************************************************)
(* A stage runs only after all earlier stages of the job have passed, also *)
(* when a re-delivered job runs over the stages an earlier delivery left.  *)
(***************************************************************************)
StageOrder ==
  worker.pc = "running" /\ Exists(D) =>
    /\ row[D].stages[worker.i] = "RUNNING"
    /\ \A i \in skip[D] + 1 .. worker.i - 1 : Passed(D, i)

(***************************************************************************)
(* The stages a retry skips have passed in an earlier deployment, unless   *)
(* BullMQ ran that deployment a second time meanwhile.                     *)
(***************************************************************************)
SkippedStagesPassed ==
  \A d \in Created : \A i \in 1..skip[d] :
    \E e \in Created :
      e < d /\ i \in DOMAIN row[e].stages /\ (Passed(e, i) \/ stalls[e] > 0)

(***************************************************************************)
(* Together: the stages run in the order of the pipeline, each after all   *)
(* that precede it, in this deployment or in the one it retries, and       *)
(* where they stopped is where the next retry resumes.                     *)
(***************************************************************************)
StagesInOrder == StageOrder /\ SkippedStagesPassed /\ RetryTargetsFailure

(***************************************************************************)
(* A deployment whose job BullMQ counts as completed has a terminal        *)
(* status: only a failed or never enqueued job strands a deployment.       *)
(***************************************************************************)
CompletedJobSettlesRow ==
  \A d \in Created : job[d] = "done" => row[d].status \in Terminal

(***************************************************************************)
(* Every job that reached the queue is completed or failed in the end,     *)
(* through crashes, stalls, held locks and deletion of the project.        *)
(***************************************************************************)
QueuedJobSettles ==
  \A d \in Id : job[d] = "waiting" ~> job[d] \in {"done", "failed"}

(***************************************************************************)
(* The deploy-engine design (line 173) and the cancel endpoint: a          *)
(* cancelled deployment is over.                                           *)
(***************************************************************************)
CancelledIsFinal ==
  [][\A d \in Id : row[d].status = "CANCELLED" /\ row'[d].status # "none" =>
       row'[d].status = "CANCELLED"]_vars
============================================================================
