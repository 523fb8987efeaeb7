-------------------------- MODULE ProjectExecutions --------------------------
(***************************************************************************)
(* The two users of one project's lock together: the deploy queue with its *)
(* processor (DeployPipeline) and the tasks queue with its processor       *)
(* (TaskRuns).  They run in the one backend process, so that they crash    *)
(* together, and deleting the project cascades into both.                  *)
(***************************************************************************)
EXTENDS DeployPipeline

CONSTANTS
  MaxRuns,       \* bound: task runs ever created
  TaskHandlers   \* task requests that can be in flight at once

VARIABLES task, run, taskJob, taskStalls, taskQueue, taskWorker, cancelReq, alive,
          killed, boot, taskReq

deployVars == <<rows, jobs, worker, req, procs>>
taskVars == <<task, run, taskJob, taskStalls, taskQueue, taskWorker, cancelReq,
              alive, killed, boot, taskReq>>
allVars == <<deployVars, taskVars, lock>>

T == INSTANCE TaskRuns WITH
       Handlers <- TaskHandlers,
       Faults <- Faults \cap {"crash", "orphan", "stall", "lockTimeout", "overrun", "delete"},
       job <- taskJob, stalls <- taskStalls, queue <- taskQueue,
       worker <- taskWorker, req <- taskReq

AllTypeOK == TypeOK /\ T!TypeOK

AllInit == Init /\ T!Init

\* Bound: one request is in flight over both.
OneRequest ==
  Cardinality({h \in Handlers : req[h].pc # "idle"})
    + Cardinality({h \in TaskHandlers : taskReq[h].pc # "idle"}) <= 1

\* Steps of one side leave the other side's variables alone ...
DeploySide(A) == A /\ UNCHANGED taskVars
TaskSide(A) == A /\ UNCHANGED deployVars

DeployWorker == DeploySide(WorkerStep)
TaskWorker == TaskSide(T!WorkerStep)
TaskCommandEnds == TaskSide(T!Closes)
Request ==
  /\ boot.pc = "off"
  /\ DeploySide(HandlerStep) \/ TaskSide(T!HandlerStep)
  /\ OneRequest'
Sweep == TaskSide(T!Scan \/ T!Recover)
DeployRedelivery(d) == DeploySide(Redeliver(d))
TaskRedelivery(r) == TaskSide(T!Redeliver(r))

\* ... except for what happens to the process, the key and the project.
CrashAll ==
  /\ Dies
  /\ T!Dies
  /\ lock' = IF \/ worker.pc \in InLock /\ lock = "deploy"
                \/ taskWorker.pc \in T!InLock /\ lock = "task"
               THEN "dead" ELSE lock

ExpireKey == Expire /\ UNCHANGED taskVars

DeleteAll == boot.pc = "off" /\ DeleteProject /\ T!DeleteProject

\* (The pipeline is not edited here: the lock does not depend on it.  That a
\* process which outlives its stage ends is left out too: it may live on.)
Stalls == DeploySide(Stall) \/ TaskSide(T!Stall)

AllNext ==
  \/ DeployWorker \/ TaskWorker \/ TaskCommandEnds \/ Request \/ Sweep
  \/ CrashAll \/ ExpireKey \/ DeleteAll \/ Stalls
  \/ \E d \in Id : DeployRedelivery(d)
  \/ \E r \in T!Run : TaskRedelivery(r)

AllSpec == AllInit /\ [][AllNext]_allVars

(***************************************************************************)
(* All that DeploySettles needs: the deploy worker keeps going and BullMQ  *)
(* re-delivers.  Nothing is asked of the task processor (a command need    *)
(* not end), of the start-up sweep, or of Redis' expiry.                   *)
(***************************************************************************)
AllFairness ==
  /\ WF_allVars(DeployWorker)
  /\ \A d \in Id : WF_allVars(DeployRedelivery(d))

AllFairSpec == AllSpec /\ AllFairness

\* For TLC, pipelines of one required stage.  (MCPlatform edits the pipeline and
\* has optional stages.)
OneStage == {<<"required">>}
----------------------------------------------------------------------------
(***************************************************************************)
(* The project-tasks design (line 102): "at most one execution (deploy or  *)
(* task) per project at any moment", taken literally: over all stages and  *)
(* task commands of the project at most one process is alive.              *)
(***************************************************************************)
OneExecution == Cardinality(procs) + Cardinality(alive) <= 1

(***************************************************************************)
(* The key freed by a crash or by a deleted project never lets both        *)
(* processors in: together they implement the abstract mutex, each being   *)
(* inside while its withLock callback runs.                                *)
(***************************************************************************)
Inside ==
  {c \in {"deploy"} : worker.pc \in InLock} \cup {c \in {"task"} : taskWorker.pc \in T!InLock}

LockMutex == INSTANCE Mutex WITH Callers <- {"deploy", "task"}, inside <- Inside

ImplementsMutex == LockMutex!Spec

(***************************************************************************)
(* A deployment's job settles although the task that holds the lock may    *)
(* run for ever, and whatever crashes, stalls or is deleted meanwhile.     *)
(***************************************************************************)
DeploySettles == \A d \in Id : job[d] = "waiting" ~> job[d] \in {"done", "failed"}
=============================================================================
