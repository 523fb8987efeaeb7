------------------------------ MODULE TaskRuns ------------------------------
(***************************************************************************)
(* Runs of ONE project task: ProjectTasksService (triggerRun, cancelRun,   *)
(* remove, recoverStuckRuns), the "tasks" BullMQ queue and                 *)
(* ProjectTasksProcessor (process, signalCancel, runShell).                *)
(*                                                                         *)
(* As in DeployPipeline every await is an interleaving point, the queue    *)
(* has one worker, and "lock" says who owns the project lock's Redis key.  *)
(***************************************************************************)
EXTENDS Integers, Sequences, FiniteSets

CONSTANTS
  MaxRuns,   \* bound: rows ever created
  Handlers,  \* HTTP requests that can be in flight at once
  Faults     \* which of AllFaults the environment may inject

AllFaults == {"crash", "orphan", "stall", "lockTimeout", "overrun", "delete"}

ASSUME TaskAssumption == MaxRuns \in Nat \ {0} /\ Faults \subseteq AllFaults

Run == 1..MaxRuns
NoRun == 0

VARIABLES
  task,       \* "present", or "deleted" (alone or with its project)
  run,        \* ProjectTaskRun.status of each run, "none" if there is no row
  job,        \* BullMQ state of each run's job (jobId = run id)
  stalls,     \* BullMQ stalled counter of each job
  queue,      \* waiting jobs, next first
  worker,     \* the worker's locals and program counter
  cancelReq,  \* the processor's cancelRequested set
  alive,      \* runs whose process group is alive
  killed,     \* runs whose process group was sent SIGTERM, then SIGKILL
  boot,       \* recoverStuckRuns: "off", "scan", or the runs left to update
  req,        \* the handlers' locals and program counters
  lock        \* owner of the key project-lock:<id>

rows == <<task, run>>
jobs == <<job, stalls, queue>>
procs == <<cancelReq, alive, killed>>
vars == <<rows, jobs, worker, procs, boot, req, lock>>

Terminal == {"SUCCESS", "FAILED", "CANCELLED"}
Owner == {"free", "deploy", "task", "dead"}
Idle == [pc |-> "idle", r |-> NoRun, outcome |-> "none"]
NoReq == [pc |-> "idle", r |-> NoRun]
InLock == {"loading", "marking", "spawning", "running", "saving", "unlock", "abort"}

\* The program counters at which a handler has a run at hand.
RequestOfRun == {"enqueueing", "removing", "writing", "signalling"}

TypeOK ==
  /\ task \in {"present", "deleted"}
  /\ run \in [Run -> {"none", "QUEUED", "RUNNING"} \cup Terminal]
  /\ job \in [Run -> {"none", "waiting", "active", "stalled", "done", "failed"}]
  /\ stalls \in [Run -> 0..1]
  /\ queue \in Seq(Run)
  /\ worker \in [pc : {"idle", "locking"} \cup InLock, r : Run \cup {NoRun},
                 outcome : {"none"} \cup Terminal]
  /\ worker.pc # "idle" => worker.r # NoRun
  /\ worker.pc = "saving" => worker.outcome # "none"
  /\ cancelReq \subseteq Run
  /\ alive \subseteq Run
  /\ killed \subseteq Run
  /\ boot \in {[pc |-> "off", left |-> {}], [pc |-> "scan", left |-> {}]} \cup
              [pc : {"update"}, left : SUBSET Run]
  /\ req \in [Handlers -> [pc : {"idle", "creating", "enqueueing", "removing",
                                 "writing", "signalling", "deleting"},
                           r : Run \cup {NoRun}]]
  /\ \A h \in Handlers : req[h].pc \in RequestOfRun => req[h].r # NoRun
  /\ lock \in Owner

BootOff == [pc |-> "off", left |-> {}]

Init ==
  /\ task = "present"
  /\ run = [r \in Run |-> "none"]
  /\ job = [r \in Run |-> "none"]
  /\ stalls = [r \in Run |-> 0]
  /\ queue = <<>>
  /\ worker = Idle
  /\ cancelReq = {}
  /\ alive = {}
  /\ killed = {}
  /\ boot = BootOff
  /\ req = [h \in Handlers |-> NoReq]
  /\ lock = "free"

----------------------------------------------------------------------------
(* ProjectTasksService.                                                    *)

Used == {r \in Run : run[r] # "none" \/ job[r] # "none"}

\* app.listen comes after every onModuleInit: no request during the sweep.
Ready(h) == req[h].pc = "idle" /\ boot.pc = "off"

\* triggerRun: the task, its project and the working directory exist ...
Trigger(h) ==
  /\ Ready(h)
  /\ task = "present"
  /\ Cardinality(Used) + Cardinality({g \in Handlers : req[g].pc = "creating"}) < MaxRuns
  /\ req' = [req EXCEPT ![h].pc = "creating"]
  /\ UNCHANGED <<rows, jobs, worker, procs, boot, lock>>

\* ... insert the run (fails on the foreign key once the task is gone) ...
CreateRun(h) ==
  /\ req[h].pc = "creating"
  /\ \/ /\ task = "deleted"
        /\ req' = [req EXCEPT ![h] = NoReq]
        /\ UNCHANGED run
     \/ /\ task = "present"
        /\ \E r \in Run \ Used :
             /\ \A s \in Run \ Used : r <= s
             /\ run' = [run EXCEPT ![r] = "QUEUED"]
             /\ req' = [req EXCEPT ![h] = [pc |-> "enqueueing", r |-> r]]
  /\ UNCHANGED <<task, jobs, worker, procs, boot, lock>>

\* ... and add the job under the run's id.
Enqueue(h) ==
  /\ req[h].pc = "enqueueing"
  /\ job' = [job EXCEPT ![req[h].r] = "waiting"]
  /\ queue' = Append(queue, req[h].r)
  /\ req' = [req EXCEPT ![h] = NoReq]
  /\ UNCHANGED <<rows, stalls, worker, procs, boot, lock>>

\* cancelRun branches on the status it has read.
Cancel(h, r) ==
  /\ Ready(h)
  /\ run[r] \in {"QUEUED", "RUNNING"}
  /\ req' = [req EXCEPT ![h] =
               [pc |-> IF run[r] = "QUEUED" THEN "removing" ELSE "signalling", r |-> r]]
  /\ UNCHANGED <<rows, jobs, worker, procs, boot, lock>>

\* A sequence without one element, if it has it.
Without(q, r) ==
  IF \E i \in 1..Len(q) : q[i] = r
    THEN LET i == CHOOSE i \in 1..Len(q) : q[i] = r
         IN  SubSeq(q, 1, i - 1) \o SubSeq(q, i + 1, Len(q))
    ELSE q

\* job.remove() takes a waiting job out of the queue.  It throws on an active
\* (locked) one, which cancelRun ignores; any other job it just deletes.
RemoveJob(h) ==
  /\ req[h].pc = "removing"
  /\ LET r == req[h].r IN
       IF job[r] = "active"
         THEN UNCHANGED <<job, queue>>
         ELSE /\ job' = [job EXCEPT ![r] = "none"]
              /\ queue' = Without(queue, r)
  /\ req' = [req EXCEPT ![h].pc = "writing"]
  /\ UNCHANGED <<rows, stalls, worker, procs, boot, lock>>

\* The QUEUED branch writes CANCELLED whatever the status is by now.
WriteCancelled(h) ==
  /\ req[h].pc = "writing"
  /\ LET r == req[h].r IN
       run' = IF run[r] = "none" THEN run ELSE [run EXCEPT ![r] = "CANCELLED"]
  /\ req' = [req EXCEPT ![h] = NoReq]
  /\ UNCHANGED <<task, jobs, worker, procs, boot, lock>>

\* Mutant: the run the worker executes is signalled, not the one named.
SignalCancel_current(h) ==
  /\ req[h].pc = "signalling"
  /\ cancelReq' = cancelReq \cup {worker.r}
  /\ killed' = killed \cup (alive \cap {worker.r})
  /\ req' = [req EXCEPT ![h] = NoReq]
  /\ UNCHANGED <<rows, jobs, worker, alive, boot, lock>>

\* The RUNNING branch: signalCancel kills the process group if there is one.
SignalCancel(h) ==
  /\ req[h].pc = "signalling"
  /\ LET r == req[h].r IN
       /\ cancelReq' = cancelReq \cup {r}
       /\ killed' = IF worker.pc = "running" /\ worker.r = r THEN killed \cup {r} ELSE killed
  /\ req' = [req EXCEPT ![h] = NoReq]
  /\ UNCHANGED <<rows, jobs, worker, alive, boot, lock>>

\* remove: refused while a run is queued or running ...
RemoveTask(h) ==
  /\ Ready(h)
  /\ task = "present"
  /\ \A r \in Run : run[r] \notin {"QUEUED", "RUNNING"}
  /\ req' = [req EXCEPT ![h].pc = "deleting"]
  /\ UNCHANGED <<rows, jobs, worker, procs, boot, lock>>

\* ... then the delete cascades to the runs.
DeleteTask(h) ==
  /\ req[h].pc = "deleting"
  /\ task' = "deleted"
  /\ run' = [r \in Run |-> "none"]
  /\ req' = [req EXCEPT ![h] = NoReq]
  /\ UNCHANGED <<jobs, worker, procs, boot, lock>>

HandlerStep ==
  \E h \in Handlers :
    \/ Trigger(h) \/ CreateRun(h) \/ Enqueue(h)
    \/ RemoveJob(h) \/ WriteCancelled(h) \/ SignalCancel(h)
    \/ RemoveTask(h) \/ DeleteTask(h)
    \/ \E r \in Run : Cancel(h, r)

----------------------------------------------------------------------------
(* ProjectTasksProcessor.                                                  *)

R == worker.r
Goto(p) == worker' = [worker EXCEPT !.pc = p]
HasRow == run[R] # "none"

\* The job's outcome in BullMQ, unless the stalled check took the job away.
Settle(outcome) ==
  job' = IF job[R] = "active" THEN [job EXCEPT ![R] = outcome] ELSE job

\* A job whose run row is gone is completed at once.
Take ==
  /\ worker.pc = "idle"
  /\ queue # <<>>
  /\ queue' = Tail(queue)
  /\ LET r == Head(queue) IN
       IF run[r] = "none"
         THEN job' = [job EXCEPT ![r] = "done"] /\ UNCHANGED worker
         ELSE /\ job' = [job EXCEPT ![r] = "active"]
              /\ worker' = [Idle EXCEPT !.pc = "locking", !.r = r]
  /\ UNCHANGED <<rows, stalls, procs, boot, req, lock>>

AcquireLock ==
  /\ worker.pc = "locking"
  /\ lock = "free"
  /\ lock' = "task"
  /\ Goto("loading")
  /\ UNCHANGED <<rows, jobs, procs, boot, req>>

\* withLock throws at its deadline: the job fails, the run stays QUEUED.
LockTimeout ==
  /\ "lockTimeout" \in Faults
  /\ worker.pc = "locking"
  /\ lock # "free"
  /\ worker' = Idle
  /\ Settle("failed")
  /\ UNCHANGED <<rows, stalls, queue, procs, boot, req, lock>>

\* Mutant: a run whose row is gone is waited for.
Load_rowless ==
  /\ worker.pc = "loading"
  /\ HasRow
  /\ Goto("marking")
  /\ UNCHANGED <<rows, jobs, procs, boot, req, lock>>

\* No project: the update to CANCELLED throws, the row went with the project.
\* No working directory: the run FAILED.
Load ==
  /\ worker.pc = "loading"
  /\ \/ HasRow /\ Goto("marking") /\ UNCHANGED run
     \/ HasRow /\ Goto("unlock") /\ run' = [run EXCEPT ![R] = "FAILED"]
     \/ ~HasRow /\ Goto("abort") /\ UNCHANGED run
  /\ UNCHANGED <<task, jobs, procs, boot, req, lock>>

\* The run becomes RUNNING whatever its status was.
MarkRunning ==
  /\ worker.pc = "marking"
  /\ IF HasRow
       THEN run' = [run EXCEPT ![R] = "RUNNING"] /\ Goto("spawning")
       ELSE UNCHANGED run /\ Goto("abort")
  /\ UNCHANGED <<task, jobs, procs, boot, req, lock>>

\* Mutants: no check before the spawn; the early return forgets its update.
Spawn_unchecked ==
  /\ worker.pc = "spawning"
  /\ Goto("running")
  /\ alive' = alive \cup {R}
  /\ UNCHANGED <<rows, jobs, cancelReq, killed, boot, req, lock>>
Spawn_unsaved ==
  /\ worker.pc = "spawning"
  /\ Goto(IF R \in cancelReq THEN "unlock" ELSE "running")
  /\ alive' = IF R \in cancelReq THEN alive ELSE alive \cup {R}
  /\ UNCHANGED <<rows, jobs, cancelReq, killed, boot, req, lock>>

\* A cancel already requested stops the run here; otherwise runShell spawns.
Spawn ==
  /\ worker.pc = "spawning"
  /\ IF R \in cancelReq
       THEN worker' = [worker EXCEPT !.pc = "saving", !.outcome = "CANCELLED"]
            /\ UNCHANGED alive
       ELSE Goto("running") /\ alive' = alive \cup {R}
  /\ UNCHANGED <<rows, jobs, cancelReq, killed, boot, req, lock>>

\* Mutants: a cancelled run resolves before its process group has ended; the
\* exit code decides, cancelled or not.
ChildCloses_early(code) ==
  /\ worker.pc = "running"
  /\ alive' = IF R \in killed THEN alive ELSE alive \ {R}
  /\ worker' = [worker EXCEPT !.pc = "saving",
                  !.outcome = IF R \in cancelReq THEN "CANCELLED" ELSE code]
  /\ UNCHANGED <<rows, jobs, cancelReq, killed, boot, req, lock>>
ChildCloses_code(code) ==
  /\ worker.pc = "running"
  /\ alive' = alive \ {R}
  /\ worker' = [worker EXCEPT !.pc = "saving", !.outcome = code]
  /\ UNCHANGED <<rows, jobs, cancelReq, killed, boot, req, lock>>

\* The process group has gone (or failed to start): runShell resolves.
ChildCloses(code) ==
  /\ worker.pc = "running"
  /\ alive' = alive \ {R}
  /\ worker' = [worker EXCEPT !.pc = "saving",
                  !.outcome = IF R \in cancelReq THEN "CANCELLED" ELSE code]
  /\ UNCHANGED <<rows, jobs, cancelReq, killed, boot, req, lock>>

\* Write the final status; the finally block forgets the run.
Save ==
  /\ worker.pc = "saving"
  /\ run' = IF HasRow THEN [run EXCEPT ![R] = worker.outcome] ELSE run
  /\ cancelReq' = cancelReq \ {R}
  /\ Goto(IF HasRow THEN "unlock" ELSE "abort")
  /\ UNCHANGED <<task, jobs, alive, killed, boot, req, lock>>

\* withLock's finally: release the key if it is still ours.
Unlock ==
  /\ worker.pc \in {"unlock", "abort"}
  /\ lock' = IF lock = "task" THEN "free" ELSE lock
  /\ Settle(IF worker.pc = "abort" THEN "failed" ELSE "done")
  /\ killed' = killed \ {R}
  /\ worker' = Idle
  /\ UNCHANGED <<rows, stalls, queue, cancelReq, alive, boot, req>>

Closes == \E code \in {"SUCCESS", "FAILED"} : ChildCloses(code)

WorkerStep ==
  \/ Take \/ AcquireLock \/ LockTimeout \/ Load \/ MarkRunning \/ Spawn \/ Save \/ Unlock

----------------------------------------------------------------------------
(* Restart: the module's onModuleInit runs while the worker already works. *)

\* Mutant: the sweep looks for the wrong status.
Scan_queued ==
  /\ boot.pc = "scan"
  /\ boot' = [pc |-> "update", left |-> {r \in Run : run[r] = "QUEUED"}]
  /\ UNCHANGED <<rows, jobs, worker, procs, req, lock>>

Scan ==
  /\ boot.pc = "scan"
  /\ boot' = [pc |-> "update", left |-> {r \in Run : run[r] = "RUNNING"}]
  /\ UNCHANGED <<rows, jobs, worker, procs, req, lock>>

\* One blind update per run found (no request deletes rows meanwhile).
Recover ==
  /\ boot.pc = "update"
  /\ IF boot.left = {}
       THEN boot' = BootOff /\ UNCHANGED run
       ELSE \E r \in boot.left :
              /\ run' = [run EXCEPT ![r] = "FAILED"]
              /\ boot' = [boot EXCEPT !.left = @ \ {r}]
  /\ UNCHANGED <<task, jobs, worker, procs, req, lock>>

----------------------------------------------------------------------------
(* The environment.                                                        *)

\* BullMQ's stalled check takes the job away while process() continues.
Stall ==
  /\ "stall" \in Faults
  /\ worker.pc \in InLock
  /\ job[R] = "active"
  /\ job' = [job EXCEPT ![R] = "stalled"]
  /\ UNCHANGED <<rows, stalls, queue, worker, procs, boot, req, lock>>

\* A stalled job goes back to the head of the queue once; then it fails.
Redeliver(r) ==
  /\ job[r] = "stalled"
  /\ IF stalls[r] = 0
       THEN /\ stalls' = [stalls EXCEPT ![r] = 1]
            /\ job' = [job EXCEPT ![r] = "waiting"]
            /\ queue' = <<r>> \o queue
       ELSE job' = [job EXCEPT ![r] = "failed"] /\ UNCHANGED <<stalls, queue>>
  /\ UNCHANGED <<rows, worker, procs, boot, req, lock>>

\* The process dies and restarts.  With "orphan" the detached process group
\* survives it; its kill timer and the cancelRequested set do not.
Dies ==
  /\ "crash" \in Faults
  /\ worker' = Idle
  /\ req' = [h \in Handlers |-> NoReq]
  /\ cancelReq' = {}
  /\ killed' = {}
  /\ alive' = IF "orphan" \in Faults THEN alive ELSE {}
  /\ boot' = [pc |-> "scan", left |-> {}]
  /\ job' = IF worker.pc # "idle" /\ job[R] = "active"
              THEN [job EXCEPT ![R] = "stalled"] ELSE job
  /\ UNCHANGED <<rows, stalls, queue>>

Crash ==
  /\ Dies
  /\ lock' = IF worker.pc \in InLock /\ lock = "task" THEN "dead" ELSE lock

\* A process group that survived a crash ends by itself.
OrphanEnds(r) ==
  /\ r \in alive
  /\ ~(worker.pc = "running" /\ R = r)
  /\ alive' = alive \ {r}
  /\ UNCHANGED <<rows, jobs, worker, cancelReq, killed, boot, req, lock>>

Expire ==
  /\ lock = "dead" \/ (lock \in {"deploy", "task"} /\ "overrun" \in Faults)
  /\ lock' = "free"
  /\ UNCHANGED <<rows, jobs, worker, procs, boot, req>>

\* DELETE projects/:id cascades to the task and its runs.
DeleteProject ==
  /\ "delete" \in Faults
  /\ boot.pc = "off"
  /\ task' = "deleted"
  /\ run' = [r \in Run |-> "none"]
  /\ UNCHANGED <<jobs, worker, procs, boot, req, lock>>

Environment ==
  \/ Stall \/ Crash \/ Expire \/ DeleteProject
  \/ \E r \in Run : Redeliver(r) \/ OrphanEnds(r)

Next == HandlerStep \/ WorkerStep \/ Closes \/ Scan \/ Recover \/ Environment

Spec == Init /\ [][Next]_vars

(***************************************************************************)
(* The worker and the start-up sweep keep going, BullMQ's stalled check    *)
(* runs, Redis expires the key of a dead owner.  A command may run for     *)
(* ever (tasks have no timeout) unless its process group was killed.       *)
(***************************************************************************)
Fairness ==
  /\ WF_vars(WorkerStep)
  /\ WF_vars(R \in killed /\ Closes)
  /\ WF_vars(Scan \/ Recover)
  /\ WF_vars(lock = "dead" /\ Expire)
  /\ \A r \in Run : WF_vars(Redeliver(r))

FairSpec == Spec /\ Fairness

----------------------------------------------------------------------------
(***************************************************************************)
(* No run is left RUNNING: the worker is executing it, or the start-up     *)
(* sweep (recoverStuckRuns) has still to mark it FAILED.                   *)
(***************************************************************************)
RunningIsAttended ==
  \A r \in Run : run[r] = "RUNNING" =>
    \/ R = r /\ worker.pc \in {"spawning", "running", "saving"}
    \/ boot.pc = "scan"
    \/ r \in boot.left

(***************************************************************************)
(* A run whose process group cancelRun killed ends as CANCELLED: the exit  *)
(* code of the killed command is never recorded as a failure or a success. *)
(***************************************************************************)
KilledRunIsCancelled ==
  worker.pc = "unlock" /\ R \in killed /\ HasRow => run[R] = "CANCELLED"

(***************************************************************************)
(* A run whose job BullMQ counts as completed has a terminal status: only  *)
(* failed, removed or never enqueued jobs strand a run in QUEUED.          *)
(***************************************************************************)
CompletedJobSettlesRun ==
  \A r \in Run : job[r] = "done" => run[r] \notin {"QUEUED", "RUNNING"}

(***************************************************************************)
(* A cancelled command gives the worker and the lock back, however long it *)
(* would have run; a signal that comes between the update to RUNNING and   *)
(* the spawn is not lost.                                                  *)
(***************************************************************************)
CancelEndsRun ==
  \A r \in Run :
    r \in cancelReq /\ R = r /\ worker.pc \in {"spawning", "running"}
      ~> worker.pc = "idle"

(***************************************************************************)
(* Only a running command holds the queue up: through crashes, stalls and  *)
(* a dead owner's lock every waiting job is settled or some command runs.  *)
(***************************************************************************)
QueueAdvances ==
  \A r \in Run :
    job[r] = "waiting" ~> job[r] \in {"none", "done", "failed"} \/ worker.pc = "running"

(***************************************************************************)
(* The project-tasks design (line 137): cancelling a QUEUED run marks it   *)
(* CANCELLED and removes it from the queue, so that it never runs.         *)
(***************************************************************************)
CancelledNeverRuns ==
  [][\A r \in Run : run[r] = "CANCELLED" => run'[r] # "RUNNING"]_vars
============================================================================
