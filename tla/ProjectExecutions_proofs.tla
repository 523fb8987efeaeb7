----------------------- MODULE ProjectExecutions_proofs -----------------------
(***************************************************************************)
(* For every number of deployments, task runs and requests: what the       *)
(* project lock gives to the deploy and the tasks processor together, as   *)
(* long as no callback overruns the TTL.                                   *)
(***************************************************************************)
EXTENDS ProjectExecutions, FiniteSetTheorems, TLAPS

(***************************************************************************)
(* Who is inside withLock owns the key, and the other way round.           *)
(***************************************************************************)
OwnerInside ==
  /\ worker.pc \in InLock <=> lock = "deploy"
  /\ taskWorker.pc \in T!InLock <=> lock = "task"

\* The locals have the fields that are assigned to.
LocalsShaped ==
  /\ worker = [f \in {"pc", "d", "plan", "i"} |-> worker[f]]
  /\ taskWorker = [f \in {"pc", "r", "outcome"} |-> taskWorker[f]]

LockInv == LocalsShaped /\ OwnerInside

LEMMA LockInit == AllInit => LockInv
BY DEF AllInit, Init, T!Init, LockInv, LocalsShaped, OwnerInside, Idle, T!Idle, InLock,
       T!InLock

----------------------------------------------------------------------------
(* The deploy processor's steps.                                           *)

\* A step of the worker enters, leaves, or stays where it is.
DeployEnters == lock = "free" /\ lock' = "deploy" /\ worker'.pc \in InLock
DeployLeaves == /\ worker.pc \in InLock /\ worker'.pc \notin InLock
                /\ lock' = IF lock = "deploy" THEN "free" ELSE lock
DeployStays == lock' = lock /\ (worker'.pc \in InLock <=> worker.pc \in InLock)

LEMMA DeployWorkerMoves ==
  ASSUME LocalsShaped, DeployWorker
  PROVE  /\ worker' = [f \in {"pc", "d", "plan", "i"} |-> worker'[f]]
         /\ UNCHANGED taskWorker
         /\ DeployEnters \/ DeployLeaves \/ DeployStays
<1> USE DEF LocalsShaped, DeployEnters, DeployLeaves, DeployStays, Idle, InLock
<1>1. UNCHANGED taskWorker
  BY DEF DeployWorker, DeploySide, taskVars
<1>2. WorkerStep
  BY DEF DeployWorker, DeploySide
<1>3. CASE Take
  BY <1>1, <1>3 DEF Take
<1>4. CASE AcquireLock
  BY <1>1, <1>4 DEF AcquireLock, Goto
<1>5. CASE LockTimeout
  BY <1>1, <1>5 DEF LockTimeout
<1>6. CASE Load
  BY <1>1, <1>6 DEF Load, Leave
<1>7. CASE MarkRunning
  BY <1>1, <1>7 DEF MarkRunning, Leave
<1>8. CASE StartStage
  BY <1>1, <1>8 DEF StartStage, Leave, Goto
<1>9. ASSUME NEW ok \in BOOLEAN, NEW survives \in BOOLEAN, EndStage(ok, survives)
      PROVE  /\ worker' = [f \in {"pc", "d", "plan", "i"} |-> worker'[f]]
             /\ DeployStays
  BY <1>9 DEF EndStage, Leave, Goto
<1>10. CASE Finish
  BY <1>1, <1>10 DEF Finish, Leave
<1>11. CASE Activate
  BY <1>1, <1>11 DEF Activate, Leave
<1>12. CASE Unlock
  BY <1>1, <1>12 DEF Unlock
<1> QED
  BY <1>1, <1>2, <1>3, <1>4, <1>5, <1>6, <1>7, <1>8, <1>9, <1>10, <1>11, <1>12
     DEF WorkerStep

----------------------------------------------------------------------------
(* The tasks processor's steps.                                            *)

TaskEnters == lock = "free" /\ lock' = "task" /\ taskWorker'.pc \in T!InLock
TaskLeaves == /\ taskWorker.pc \in T!InLock /\ taskWorker'.pc \notin T!InLock
              /\ lock' = IF lock = "task" THEN "free" ELSE lock
TaskStays == lock' = lock /\ (taskWorker'.pc \in T!InLock <=> taskWorker.pc \in T!InLock)

LEMMA TaskWorkerMoves ==
  ASSUME LocalsShaped, TaskWorker \/ TaskCommandEnds
  PROVE  /\ taskWorker' = [f \in {"pc", "r", "outcome"} |-> taskWorker'[f]]
         /\ UNCHANGED worker
         /\ TaskEnters \/ TaskLeaves \/ TaskStays
<1> USE DEF LocalsShaped, TaskEnters, TaskLeaves, TaskStays, T!Idle, T!InLock, T!Goto
<1>1. UNCHANGED worker
  BY DEF TaskWorker, TaskCommandEnds, TaskSide, deployVars
<1>2. T!WorkerStep \/ T!Closes
  BY DEF TaskWorker, TaskCommandEnds, TaskSide
<1>3. CASE T!Take
  BY <1>1, <1>3 DEF T!Take
<1>4. CASE T!AcquireLock
  BY <1>1, <1>4 DEF T!AcquireLock
<1>5. CASE T!LockTimeout
  BY <1>1, <1>5 DEF T!LockTimeout
<1>6. CASE T!Load
  BY <1>1, <1>6 DEF T!Load
<1>7. CASE T!MarkRunning
  BY <1>1, <1>7 DEF T!MarkRunning
<1>8. CASE T!Spawn
  BY <1>1, <1>8 DEF T!Spawn
<1>9. CASE T!Save
  BY <1>1, <1>9 DEF T!Save
<1>10. CASE T!Unlock
  BY <1>1, <1>10 DEF T!Unlock
<1>11. CASE T!Closes
  BY <1>1, <1>11 DEF T!Closes, T!ChildCloses
<1> QED
  BY <1>1, <1>2, <1>3, <1>4, <1>5, <1>6, <1>7, <1>8, <1>9, <1>10, <1>11 DEF T!WorkerStep

----------------------------------------------------------------------------
(* Everybody else.                                                         *)

\* The steps that move no processor, leave the key to its owner, and start or
\* end no process.
Elsewhere ==
  \/ Request \/ Sweep \/ DeleteAll \/ Stalls
  \/ \E d \in Id : DeployRedelivery(d)
  \/ \E r \in T!Run : TaskRedelivery(r)

LEMMA ElsewhereMovesNobody ==
  Elsewhere => UNCHANGED <<worker, taskWorker, lock, procs, alive>>
<1> SUFFICES ASSUME Elsewhere
             PROVE  UNCHANGED <<worker, taskWorker, lock, procs, alive>>
  OBVIOUS
<1> USE DEF T!procs
<1>1. CASE Request
  <2>1. CASE DeploySide(HandlerStep)
    BY <2>1 DEF DeploySide, taskVars, HandlerStep, Trigger, Rollback, ReadProject, CreateRow,
                Enqueue, WriteCancelled, Retry, Cancel
  <2>2. CASE TaskSide(T!HandlerStep)
    BY <2>2 DEF TaskSide, deployVars, T!HandlerStep, T!Trigger, T!CreateRun, T!Enqueue,
                T!RemoveJob, T!WriteCancelled, T!SignalCancel, T!RemoveTask, T!DeleteTask,
                T!Cancel
  <2> QED
    BY <1>1, <2>1, <2>2 DEF Request
<1>2. CASE Sweep
  BY <1>2 DEF Sweep, TaskSide, deployVars, T!Scan, T!Recover
<1>3. CASE DeleteAll
  BY <1>3 DEF DeleteAll, DeleteProject, T!DeleteProject
<1>4. CASE Stalls
  BY <1>4 DEF Stalls, DeploySide, TaskSide, deployVars, taskVars, Stall, T!Stall
<1>5. ASSUME NEW d \in Id, DeployRedelivery(d)
      PROVE  UNCHANGED <<worker, taskWorker, lock, procs, alive>>
  BY <1>5 DEF DeployRedelivery, DeploySide, taskVars, Redeliver
<1>6. ASSUME NEW r \in T!Run, TaskRedelivery(r)
      PROVE  UNCHANGED <<worker, taskWorker, lock, procs, alive>>
  BY <1>6 DEF TaskRedelivery, TaskSide, deployVars, T!Redeliver
<1> QED
  BY <1>1, <1>2, <1>3, <1>4, <1>5, <1>6 DEF Elsewhere

\* A crash moves both out; their key, if they had it, is a dead owner's.
LEMMA CrashMovesBoth ==
  ASSUME CrashAll
  PROVE  /\ worker' = Idle /\ taskWorker' = T!Idle
         /\ lock' = IF \/ worker.pc \in InLock /\ lock = "deploy"
                       \/ taskWorker.pc \in T!InLock /\ lock = "task"
                    THEN "dead" ELSE lock
BY DEF CrashAll, Dies, T!Dies

\* Without overruns the key that expires is a dead owner's.
LEMMA OnlyTheDeadExpire ==
  ASSUME "overrun" \notin Faults, ExpireKey
  PROVE  lock = "dead" /\ lock' = "free" /\ UNCHANGED <<worker, taskWorker>>
BY DEF ExpireKey, Expire, taskVars

LEMMA NextCases ==
  ASSUME AllNext
  PROVE  \/ DeployWorker \/ TaskWorker \/ TaskCommandEnds \/ CrashAll \/ ExpireKey
         \/ Elsewhere
BY DEF AllNext, Elsewhere

\* The key and who is inside keep agreeing.
LEMMA LockStep ==
  ASSUME "overrun" \notin Faults, LockInv, [AllNext]_allVars
  PROVE  LockInv'
<1> USE DEF LockInv, LocalsShaped, OwnerInside
<1>1. CASE DeployWorker
  BY <1>1, DeployWorkerMoves DEF DeployEnters, DeployLeaves, DeployStays
<1>2. CASE TaskWorker \/ TaskCommandEnds
  BY <1>2, TaskWorkerMoves DEF TaskEnters, TaskLeaves, TaskStays
<1>3. CASE CrashAll
  BY <1>3, CrashMovesBoth DEF Idle, T!Idle, InLock, T!InLock
<1>4. CASE ExpireKey
  BY <1>4, OnlyTheDeadExpire
<1>5. CASE Elsewhere
  BY <1>5, ElsewhereMovesNobody
<1>6. CASE UNCHANGED allVars
  BY <1>6 DEF allVars, deployVars, taskVars
<1> QED
  BY <1>1, <1>2, <1>3, <1>4, <1>5, <1>6, NextCases

(***************************************************************************)
(* The key freed by a crash or by a deleted project never lets both        *)
(* processors in, whatever stalls, times out, is cancelled or deleted:     *)
(* together they implement the abstract mutex.                             *)
(***************************************************************************)
THEOREM ProcessorsExclude == "overrun" \notin Faults => (AllSpec => ImplementsMutex)
<1> SUFFICES ASSUME "overrun" \notin Faults  PROVE AllSpec => ImplementsMutex
  OBVIOUS
<1>1. AllInit => LockMutex!Init
  BY DEF AllInit, Init, T!Init, LockMutex!Init, Inside, Idle, T!Idle, InLock, T!InLock
<1>2. LockInv /\ [AllNext]_allVars => [LockMutex!Next]_Inside
  <2> SUFFICES ASSUME LockInv, [AllNext]_allVars  PROVE [LockMutex!Next]_Inside
    OBVIOUS
  <2> USE DEF LockInv, OwnerInside
  <2>1. CASE DeployWorker
    <3>1. CASE DeployEnters
      <4>1. Inside = {} /\ Inside' = {"deploy"}
        BY <2>1, <3>1, DeployWorkerMoves DEF DeployEnters, Inside
      <4> QED
        BY <4>1 DEF LockMutex!Next, LockMutex!Enter
    <3>2. CASE DeployLeaves
      <4>1. Inside = {"deploy"} /\ Inside' = {}
        BY <2>1, <3>2, DeployWorkerMoves DEF DeployLeaves, Inside
      <4> QED
        BY <4>1 DEF LockMutex!Next, LockMutex!Leave
    <3>3. CASE DeployStays
      BY <2>1, <3>3, DeployWorkerMoves DEF DeployStays, Inside
    <3> QED
      BY <2>1, <3>1, <3>2, <3>3, DeployWorkerMoves
  <2>2. CASE TaskWorker \/ TaskCommandEnds
    <3>1. CASE TaskEnters
      <4>1. Inside = {} /\ Inside' = {"task"}
        BY <2>2, <3>1, TaskWorkerMoves DEF TaskEnters, Inside
      <4> QED
        BY <4>1 DEF LockMutex!Next, LockMutex!Enter
    <3>2. CASE TaskLeaves
      <4>1. Inside = {"task"} /\ Inside' = {}
        BY <2>2, <3>2, TaskWorkerMoves DEF TaskLeaves, Inside
      <4> QED
        BY <4>1 DEF LockMutex!Next, LockMutex!Leave
    <3>3. CASE TaskStays
      BY <2>2, <3>3, TaskWorkerMoves DEF TaskStays, Inside
    <3> QED
      BY <2>2, <3>1, <3>2, <3>3, TaskWorkerMoves
  <2>3. CASE CrashAll
    <3>1. Inside' = {}
      BY <2>3, CrashMovesBoth DEF Inside, Idle, T!Idle, InLock, T!InLock
    <3> QED
      BY <3>1 DEF LockMutex!Next, LockMutex!Crash
  <2>4. CASE ExpireKey
    BY <2>4, OnlyTheDeadExpire DEF Inside
  <2>5. CASE Elsewhere
    BY <2>5, ElsewhereMovesNobody DEF Inside
  <2>6. CASE UNCHANGED allVars
    BY <2>6 DEF allVars, deployVars, taskVars, Inside
  <2> QED
    BY <2>1, <2>2, <2>3, <2>4, <2>5, <2>6, NextCases
<1>3. AllInit => LockInv
  BY LockInit
<1>4. LockInv /\ [AllNext]_allVars => LockInv'
  BY LockStep
<1> QED
  BY <1>1, <1>2, <1>3, <1>4, PTL DEF AllSpec, ImplementsMutex, LockMutex!Spec

----------------------------------------------------------------------------
(* Processes.                                                              *)

(***************************************************************************)
(* A process lives only while its processor waits for it, if stages do not *)
(* time out and a crash leaves no orphans.                                 *)
(***************************************************************************)
AwaitedProcesses ==
  /\ procs \subseteq {<<D, worker.i>>} /\ (procs # {} => worker.pc = "running")
  /\ alive \subseteq {T!R} /\ (alive # {} => taskWorker.pc = "running")

ProcessInv == LockInv /\ AwaitedProcesses

Punctual == Faults \cap {"overrun", "timeout", "orphan"} = {}

LEMMA ProcessStep ==
  ASSUME Punctual, LocalsShaped, AwaitedProcesses, [AllNext]_allVars
  PROVE  AwaitedProcesses'
<1> USE DEF Punctual, LocalsShaped, AwaitedProcesses, D, T!R
<1>1. CASE DeployWorker
  <2>1. UNCHANGED <<taskWorker, alive>>
    BY <1>1 DEF DeployWorker, DeploySide, taskVars
  <2>2. WorkerStep
    BY <1>1 DEF DeployWorker, DeploySide
  <2>3. CASE StartStage
    BY <2>1, <2>3 DEF StartStage, Goto, Leave
  <2>4. ASSUME NEW ok \in BOOLEAN, NEW survives \in BOOLEAN, EndStage(ok, survives)
        PROVE  AwaitedProcesses'
    <3>1. ~survives
      BY <2>4 DEF EndStage
    <3>2. procs' = {}
      BY <2>4, <3>1 DEF EndStage
    <3> QED
      BY <2>1, <3>2
  <2>5. CASE Take \/ AcquireLock \/ LockTimeout \/ Load \/ MarkRunning
    <3>1. procs = {} /\ UNCHANGED procs
      BY <2>5 DEF Take, AcquireLock, LockTimeout, Load, MarkRunning
    <3> QED
      BY <2>1, <3>1
  <2>6. CASE Finish \/ Activate \/ Unlock
    <3>1. procs = {} /\ UNCHANGED procs
      BY <2>6 DEF Finish, Activate, Unlock
    <3> QED
      BY <2>1, <3>1
  <2> QED
    BY <2>2, <2>3, <2>4, <2>5, <2>6 DEF WorkerStep
<1>2. CASE TaskWorker \/ TaskCommandEnds
  <2>1. UNCHANGED <<worker, procs>>
    BY <1>2 DEF TaskWorker, TaskCommandEnds, TaskSide, deployVars
  <2>2. T!WorkerStep \/ T!Closes
    BY <1>2 DEF TaskWorker, TaskCommandEnds, TaskSide
  <2>3. CASE T!Spawn
    BY <2>1, <2>3 DEF T!Spawn, T!Goto
  <2>4. CASE T!Closes
    <3>1. alive' = {}
      BY <2>4 DEF T!Closes, T!ChildCloses
    <3> QED
      BY <2>1, <3>1
  <2>5. CASE T!Take \/ T!AcquireLock \/ T!LockTimeout \/ T!Load \/ T!MarkRunning
    <3>1. alive' = alive /\ (taskWorker.pc = "running" => UNCHANGED taskWorker)
      BY <2>5 DEF T!Take, T!AcquireLock, T!LockTimeout, T!Load, T!MarkRunning, T!procs
    <3> QED
      BY <2>1, <3>1
  <2>6. CASE T!Save \/ T!Unlock
    <3>1. alive' = alive /\ taskWorker.pc # "running"
      BY <2>6 DEF T!Save, T!Unlock
    <3> QED
      BY <2>1, <3>1
  <2> QED
    BY <2>2, <2>3, <2>4, <2>5, <2>6 DEF T!WorkerStep
<1>3. CASE CrashAll
  <2>1. procs' = {} /\ alive' = {}
    BY <1>3 DEF CrashAll, Dies, T!Dies
  <2> QED
    BY <2>1
<1>4. CASE ExpireKey
  BY <1>4 DEF ExpireKey, Expire, taskVars
<1>5. CASE Elsewhere
  BY <1>5, ElsewhereMovesNobody
<1>6. CASE UNCHANGED allVars
  BY <1>6 DEF allVars, deployVars, taskVars
<1> QED
  BY <1>1, <1>2, <1>3, <1>4, <1>5, <1>6, NextCases

(***************************************************************************)
(* "At most one execution (deploy or task) per project at any moment": as  *)
(* long as stages keep their timeouts, callbacks the TTL, and no command   *)
(* survives the backend, at most one process of the project is alive, for  *)
(* all other faults, requests and deletions.                               *)
(***************************************************************************)
THEOREM OneAtATime == Punctual => (AllSpec => []OneExecution)
<1> SUFFICES ASSUME Punctual  PROVE AllSpec => []OneExecution
  OBVIOUS
<1>0. "overrun" \notin Faults
  BY DEF Punctual
<1>1. AllInit => ProcessInv
  BY LockInit DEF AllInit, Init, T!Init, ProcessInv, AwaitedProcesses
<1>2. ProcessInv /\ [AllNext]_allVars => ProcessInv'
  BY <1>0, LockStep, ProcessStep DEF ProcessInv, LockInv
<1>3. ProcessInv => OneExecution
  <2> SUFFICES ASSUME ProcessInv  PROVE OneExecution
    OBVIOUS
  <2> USE DEF ProcessInv, LockInv, OwnerInside, AwaitedProcesses
  <2>1. procs = {} \/ alive = {}
    BY DEF InLock, T!InLock
  <2>2. Cardinality({}) = 0
    BY FS_EmptySet
  <2>3. \A S, x : S \subseteq {x} => Cardinality(S) \in 0..1
    <3> SUFFICES ASSUME NEW S, NEW x, S \subseteq {x}  PROVE Cardinality(S) \in 0..1
      OBVIOUS
    <3>1. S = {} \/ S = {x}
      OBVIOUS
    <3>2. Cardinality({x}) = 1
      BY FS_Singleton
    <3> QED
      BY <2>2, <3>1, <3>2
  <2> QED
    BY <2>1, <2>2, <2>3 DEF OneExecution
<1> QED
  BY <1>1, <1>2, <1>3, PTL DEF AllSpec
=============================================================================
