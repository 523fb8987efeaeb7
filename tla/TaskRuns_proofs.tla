-------------------------- MODULE TaskRuns_proofs --------------------------
(***************************************************************************)
(* Proofs about TaskRuns, for every number of runs, every set of handlers  *)
(* and every set of faults.                                                *)
(***************************************************************************)
EXTENDS TaskRuns, SequenceTheorems, TLAPS

\* A queue without one of its jobs is a queue.
LEMMA WithoutType ==
  ASSUME NEW q \in Seq(Run), NEW r \in Run
  PROVE  Without(q, r) \in Seq(Run)
<1>1. CASE \E i \in 1..Len(q) : q[i] = r
  <2> DEFINE i == CHOOSE i \in 1..Len(q) : q[i] = r
  <2>1. i \in 1..Len(q)
    BY <1>1
  <2>2. SubSeq(q, 1, i - 1) \in Seq(Run) /\ SubSeq(q, i + 1, Len(q)) \in Seq(Run)
    <3> HIDE DEF i
    <3>1. /\ \A j \in 1..(i - 1) : q[j] \in Run
          /\ \A j \in (i + 1)..Len(q) : q[j] \in Run
      BY <2>1, ElementOfSeq
    <3>2. i - 1 \in Int /\ i + 1 \in Int /\ Len(q) \in Int
      BY <2>1
    <3> QED
      BY <3>1, <3>2, SubSeqProperties
  <2>3. Without(q, r) = SubSeq(q, 1, i - 1) \o SubSeq(q, i + 1, Len(q))
    BY <1>1 DEF Without
  <2> HIDE DEF i
  <2> QED
    BY <2>2, <2>3, ConcatProperties
<1> QED
  BY <1>1 DEF Without

\* Runs are numbered from one: NoRun is none of them.
LEMMA NoRunIsNoRun == NoRun \notin Run
BY TaskAssumption DEF NoRun, Run

----------------------------------------------------------------------------
(* Types.                                                                  *)

\* The initial state is well typed.
LEMMA TypeInit == Init => TypeOK
BY TaskAssumption
   DEF Init, TypeOK, Idle, NoReq, NoRun, BootOff, InLock, Terminal, Owner, RequestOfRun

\* Every step of a request keeps the types.
LEMMA HandlerType == TypeOK /\ HandlerStep => TypeOK'
<1> SUFFICES ASSUME TypeOK, NEW h \in Handlers,
                    \/ Trigger(h) \/ CreateRun(h) \/ Enqueue(h)
                    \/ RemoveJob(h) \/ WriteCancelled(h) \/ SignalCancel(h)
                    \/ RemoveTask(h) \/ DeleteTask(h)
                    \/ \E r \in Run : Cancel(h, r)
             PROVE  TypeOK'
  BY DEF HandlerStep
<1> USE NoRunIsNoRun DEF TypeOK, rows, jobs, procs, RequestOfRun
<1>1. CASE Trigger(h)
  BY <1>1 DEF Trigger, Ready
<1>2. CASE CreateRun(h)
  <2>1. CASE task = "deleted"
    BY <1>2, <2>1 DEF CreateRun, NoReq
  <2>2. CASE task = "present"
    <3>1. PICK r \in Run : /\ run' = [run EXCEPT ![r] = "QUEUED"]
                          /\ req' = [req EXCEPT ![h] = [pc |-> "enqueueing", r |-> r]]
      BY <1>2, <2>2 DEF CreateRun
    <3> QED
      BY <1>2, <3>1 DEF CreateRun
  <2> QED
    BY <2>1, <2>2
<1>3. CASE Enqueue(h)
  BY <1>3 DEF Enqueue, NoReq
<1>4. CASE RemoveJob(h)
  <2>1. req[h].r \in Run
    BY <1>4 DEF RemoveJob
  <2>2. job' = job \/ job' = [job EXCEPT ![req[h].r] = "none"]
    BY <1>4 DEF RemoveJob
  <2>3. queue' \in Seq(Run)
    BY <1>4, <2>1, WithoutType DEF RemoveJob
  <2>4. /\ req' = [req EXCEPT ![h].pc = "writing"]
        /\ UNCHANGED <<rows, stalls, worker, procs, boot, lock>>
    BY <1>4 DEF RemoveJob
  <2> QED
    BY <2>1, <2>2, <2>3, <2>4
<1>5. CASE WriteCancelled(h)
  BY <1>5 DEF WriteCancelled, NoReq, Terminal
<1>6. CASE SignalCancel(h)
  BY <1>6 DEF SignalCancel, NoReq
<1>7. CASE RemoveTask(h)
  BY <1>7 DEF RemoveTask, Ready
<1>8. CASE DeleteTask(h)
  BY <1>8 DEF DeleteTask, NoReq
<1>9. ASSUME NEW r \in Run, Cancel(h, r)  PROVE TypeOK'
  BY <1>9 DEF Cancel, Ready
<1> QED
  BY <1>1, <1>2, <1>3, <1>4, <1>5, <1>6, <1>7, <1>8, <1>9

\* Every step of the worker keeps the types.
LEMMA WorkerType == TypeOK /\ (WorkerStep \/ Closes) => TypeOK'
<1> SUFFICES ASSUME TypeOK, WorkerStep \/ Closes  PROVE TypeOK'
  OBVIOUS
<1> USE NoRunIsNoRun DEF TypeOK, rows, jobs, procs, R, HasRow, Goto, Settle, InLock, Idle
<1>1. CASE Take
  <2>1. Head(queue) \in Run /\ Tail(queue) \in Seq(Run)
    BY <1>1 DEF Take
  <2> QED
    BY <1>1, <2>1 DEF Take
<1>2. CASE AcquireLock
  BY <1>2 DEF AcquireLock, Owner
<1>3. CASE LockTimeout
  BY <1>3 DEF LockTimeout
<1>4. CASE Load
  BY <1>4 DEF Load, Terminal
<1>5. CASE MarkRunning
  BY <1>5 DEF MarkRunning
<1>6. CASE Spawn
  <2>1. CASE R \in cancelReq
    BY <1>6, <2>1 DEF Spawn, Terminal
  <2>2. CASE R \notin cancelReq
    BY <1>6, <2>2 DEF Spawn
  <2> QED
    BY <2>1, <2>2
<1>7. CASE Save
  BY <1>7 DEF Save
<1>8. CASE Unlock
  BY <1>8 DEF Unlock, Owner
<1>9. ASSUME NEW code \in {"SUCCESS", "FAILED"}, ChildCloses(code)  PROVE TypeOK'
  BY <1>9 DEF ChildCloses, Terminal
<1> QED
  BY <1>1, <1>2, <1>3, <1>4, <1>5, <1>6, <1>7, <1>8, <1>9 DEF WorkerStep, Closes

\* The start-up sweep and the environment keep the types.
LEMMA EnvironmentType == TypeOK /\ (Scan \/ Recover \/ Environment) => TypeOK'
<1> SUFFICES ASSUME TypeOK, Scan \/ Recover \/ Environment  PROVE TypeOK'
  OBVIOUS
<1> USE NoRunIsNoRun DEF TypeOK, rows, jobs, procs, R
<1>1. CASE Scan
  BY <1>1 DEF Scan
<1>2. CASE Recover
  BY <1>2 DEF Recover, BootOff, Terminal
<1>3. CASE Stall
  BY <1>3 DEF Stall, InLock
<1>4. CASE Crash
  BY <1>4 DEF Crash, Dies, Idle, NoReq, Owner, RequestOfRun
<1>5. CASE Expire
  BY <1>5 DEF Expire, Owner
<1>6. CASE DeleteProject
  BY <1>6 DEF DeleteProject
<1>7. ASSUME NEW r \in Run, Redeliver(r)  PROVE TypeOK'
  <2>1. <<r>> \o queue \in Seq(Run)
    BY ConcatProperties
  <2>2. CASE stalls[r] = 0
    <3>1. queue' \in Seq(Run)
      BY <1>7, <2>1, <2>2 DEF Redeliver
    <3>2. /\ stalls' = [stalls EXCEPT ![r] = 1]
          /\ job' = [job EXCEPT ![r] = "waiting"]
      BY <1>7, <2>2 DEF Redeliver
    <3> QED
      BY <1>7, <3>1, <3>2 DEF Redeliver
  <2>3. CASE stalls[r] # 0
    BY <1>7, <2>3 DEF Redeliver
  <2> QED
    BY <2>2, <2>3
<1>8. ASSUME NEW r \in Run, OrphanEnds(r)  PROVE TypeOK'
  BY <1>8 DEF OrphanEnds
<1> QED
  BY <1>1, <1>2, <1>3, <1>4, <1>5, <1>6, <1>7, <1>8 DEF Environment

\* Every step keeps the types.
LEMMA TypeStep == TypeOK /\ [Next]_vars => TypeOK'
<1>1. TypeOK /\ UNCHANGED vars => TypeOK'
  BY DEF vars, rows, jobs, procs, TypeOK
<1> QED
  BY <1>1, HandlerType, WorkerType, EnvironmentType DEF Next

(***************************************************************************)
(* Rows, jobs, the worker's locals, the sweep and the handlers are well    *)
(* typed in every reachable state; a handler or a worker that needs a run  *)
(* has one.                                                                *)
(***************************************************************************)
THEOREM TypeCorrect == Spec => []TypeOK
BY TypeInit, TypeStep, PTL DEF Spec

----------------------------------------------------------------------------
(* No run is abandoned.                                                    *)

\* A run that is RUNNING stays in somebody's hands in every step.
LEMMA AttendedStep == TypeOK /\ RunningIsAttended /\ [Next]_vars => RunningIsAttended'
<1> SUFFICES ASSUME TypeOK, RunningIsAttended, [Next]_vars,
                    NEW r \in Run, run'[r] = "RUNNING"
             PROVE  \/ worker'.r = r /\ worker'.pc \in {"spawning", "running", "saving"}
                    \/ boot'.pc = "scan"
                    \/ r \in boot'.left
  BY DEF RunningIsAttended, R
<1> DEFINE Attended == \/ worker.r = r /\ worker.pc \in {"spawning", "running", "saving"}
                       \/ boot.pc = "scan"
                       \/ r \in boot.left
           Attended1 == \/ worker'.r = r /\ worker'.pc \in {"spawning", "running", "saving"}
                        \/ boot'.pc = "scan"
                        \/ r \in boot'.left
<1>0. run[r] = "RUNNING" => Attended
  BY DEF RunningIsAttended, R
<1>1. ASSUME run' = run, worker' = worker, boot' = boot  PROVE Attended1
  BY <1>0, <1>1
<1>2. CASE UNCHANGED vars
  BY <1>1, <1>2 DEF vars, rows
<1>3. CASE HandlerStep
  <2>1. PICK h \in Handlers :
          \/ Trigger(h) \/ CreateRun(h) \/ Enqueue(h)
          \/ RemoveJob(h) \/ WriteCancelled(h) \/ SignalCancel(h)
          \/ RemoveTask(h) \/ DeleteTask(h)
          \/ \E s \in Run : Cancel(h, s)
    BY <1>3 DEF HandlerStep
  <2>2. worker' = worker /\ boot' = boot
    BY <2>1 DEF Trigger, CreateRun, Enqueue, RemoveJob, WriteCancelled, SignalCancel,
                RemoveTask, DeleteTask, Cancel
  <2>3. CASE CreateRun(h)
    <3>1. run[r] = "RUNNING"
      BY <2>3 DEF CreateRun, TypeOK
    <3> QED
      BY <3>1, <2>2, <1>0
  <2>4. CASE WriteCancelled(h)
    <3>1. run[r] = "RUNNING"
      BY <2>4 DEF WriteCancelled, TypeOK
    <3> QED
      BY <3>1, <2>2, <1>0
  <2>5. CASE DeleteTask(h)
    BY <2>5 DEF DeleteTask
  <2>6. CASE ~(CreateRun(h) \/ WriteCancelled(h) \/ DeleteTask(h))
    <3>1. run' = run
      BY <2>1, <2>6 DEF Trigger, Enqueue, RemoveJob, SignalCancel, RemoveTask, Cancel, rows
    <3> QED
      BY <3>1, <2>2, <1>1
  <2> QED
    BY <2>3, <2>4, <2>5, <2>6
<1>4. CASE WorkerStep \/ Closes
  <2> USE <1>0 DEF R, HasRow, Goto, rows, TypeOK
  <2>1. CASE Take
    BY <2>1 DEF Take, Idle
  <2>2. CASE AcquireLock
    BY <2>2 DEF AcquireLock
  <2>3. CASE LockTimeout
    BY <2>3 DEF LockTimeout
  <2>4. CASE Load
    BY <2>4 DEF Load
  <2>5. CASE MarkRunning
    BY <2>5 DEF MarkRunning
  <2>6. CASE Spawn
    BY <2>6 DEF Spawn
  <2>7. CASE Save
    BY <2>7 DEF Save, Terminal
  <2>8. CASE Unlock
    BY <2>8 DEF Unlock
  <2>9. ASSUME NEW code \in {"SUCCESS", "FAILED"}, ChildCloses(code)  PROVE Attended1
    BY <2>9 DEF ChildCloses
  <2> QED
    BY <1>4, <2>1, <2>2, <2>3, <2>4, <2>5, <2>6, <2>7, <2>8, <2>9 DEF WorkerStep, Closes
<1>5. CASE Scan
  BY <1>5, <1>0 DEF Scan, rows
<1>6. CASE Recover
  BY <1>6, <1>0 DEF Recover, BootOff, TypeOK
<1>7. CASE Environment
  <2>1. CASE Crash
    BY <2>1 DEF Crash, Dies
  <2>2. CASE DeleteProject
    BY <2>2 DEF DeleteProject
  <2>3. CASE Stall \/ Expire \/ \E s \in Run : Redeliver(s) \/ OrphanEnds(s)
    BY <2>3, <1>1 DEF Stall, Expire, Redeliver, OrphanEnds, rows
  <2> QED
    BY <1>7, <2>1, <2>2, <2>3 DEF Environment
<1> QED
  BY <1>2, <1>3, <1>4, <1>5, <1>6, <1>7 DEF Next

(***************************************************************************)
(* No run is ever left RUNNING with neither the worker executing it nor    *)
(* the start-up sweep about to mark it FAILED.                             *)
(***************************************************************************)
THEOREM NoRunAbandoned == Spec => []RunningIsAttended
<1>1. Init => RunningIsAttended
  BY DEF Init, RunningIsAttended
<1> QED
  BY <1>1, TypeInit, TypeStep, AttendedStep, PTL DEF Spec

----------------------------------------------------------------------------
(* A killed run ends as CANCELLED.                                         *)

(***************************************************************************)
(* KilledRunIsCancelled speaks of the moment after the final update.  The  *)
(* strengthening follows a killed run there from the kill: its request to  *)
(* cancel stands as long as the command runs, the outcome is CANCELLED     *)
(* while it is saved, and afterwards the row can only go with its task.    *)
(* The sweep, which would overwrite it with FAILED, runs with no kill      *)
(* outstanding and no request under way (BootQuiet).                       *)
(***************************************************************************)
BootQuiet == boot.pc # "off" => killed = {} /\ \A h \in Handlers : req[h].pc = "idle"

KilledInHand ==
  \A r \in killed :
    /\ worker.r = r
    /\ \/ worker.pc = "running" /\ r \in cancelReq
       \/ worker.pc = "saving" /\ worker.outcome = "CANCELLED"
       \/ worker.pc = "unlock" /\ run[r] = "CANCELLED"
       \/ worker.pc = "unlock" /\ run[r] = "none" /\ task = "deleted"
       \/ worker.pc = "abort"

KillInv == TypeOK /\ BootQuiet /\ KilledInHand

\* The initial state satisfies it: nothing is killed.
LEMMA KillInit == Init => KillInv
BY TypeInit DEF Init, KillInv, BootQuiet, KilledInHand, BootOff

\* A step that leaves the worker and the kills alone, and changes the row of a
\* killed run after its final update by deletion only, keeps KilledInHand.
LEMMA KilledUndisturbed ==
  ASSUME KilledInHand,
         UNCHANGED <<worker, killed>>, cancelReq \subseteq cancelReq',
         task = "deleted" => task' = "deleted",
         \A r \in killed :
           \/ worker.pc # "unlock"
           \/ run'[r] = run[r]
           \/ run'[r] = "none" /\ task' = "deleted"
  PROVE  KilledInHand'
BY DEF KilledInHand

\* A request disturbs no killed run, and makes none it does not also cancel.
LEMMA KillHandler == KillInv /\ HandlerStep => BootQuiet' /\ KilledInHand'
<1> SUFFICES ASSUME KillInv, NEW h \in Handlers,
                    \/ Trigger(h) \/ CreateRun(h) \/ Enqueue(h)
                    \/ RemoveJob(h) \/ WriteCancelled(h) \/ SignalCancel(h)
                    \/ RemoveTask(h) \/ DeleteTask(h)
                    \/ \E r \in Run : Cancel(h, r)
             PROVE  BootQuiet' /\ KilledInHand'
  BY DEF HandlerStep
<1>1. boot.pc = "off" /\ boot' = boot
  BY DEF KillInv, BootQuiet, Trigger, CreateRun, Enqueue, RemoveJob, WriteCancelled,
         SignalCancel, RemoveTask, DeleteTask, Cancel, Ready
<1>2. BootQuiet'
  BY <1>1 DEF BootQuiet
<1> USE DEF KillInv, TypeOK, rows, jobs, procs
<1>3. CASE CreateRun(h)
  <2>1. ASSUME NEW r \in killed, run'[r] # run[r]  PROVE worker.pc # "unlock"
    <3>1. task = "present" /\ run[r] = "none" /\ job[r] = "none"
      BY <1>3, <2>1 DEF CreateRun, Used
    <3> QED
      BY <3>1, <2>1 DEF KilledInHand
  <2> QED
    BY <1>2, <1>3, <2>1, KilledUndisturbed DEF CreateRun
<1>4. CASE WriteCancelled(h)
  BY <1>2, <1>4 DEF WriteCancelled, KilledInHand
<1>5. CASE DeleteTask(h)
  BY <1>2, <1>5, KilledUndisturbed DEF DeleteTask
<1>6. CASE SignalCancel(h)
  BY <1>2, <1>6 DEF SignalCancel, KilledInHand
<1>7. CASE \/ Trigger(h) \/ Enqueue(h) \/ RemoveJob(h) \/ RemoveTask(h)
           \/ \E r \in Run : Cancel(h, r)
  <2>1. UNCHANGED <<rows, worker, procs>>
    BY <1>7 DEF Trigger, Enqueue, RemoveJob, RemoveTask, Cancel
  <2> QED
    BY <1>2, <2>1, KilledUndisturbed
<1> QED
  BY <1>3, <1>4, <1>5, <1>6, <1>7

\* The worker carries a killed run from its command to the end of its job.
LEMMA KillWorker == KillInv /\ (WorkerStep \/ Closes) => BootQuiet' /\ KilledInHand'
<1> SUFFICES ASSUME KillInv, WorkerStep \/ Closes  PROVE BootQuiet' /\ KilledInHand'
  OBVIOUS
<1> USE DEF KillInv, TypeOK, rows, jobs, procs, R, HasRow, Goto
<1>1. BootQuiet'
  BY DEF WorkerStep, Closes, Take, AcquireLock, LockTimeout, Load, MarkRunning, Spawn, Save,
         Unlock, ChildCloses, BootQuiet
<1>2. CASE Take
  BY <1>1, <1>2 DEF Take, KilledInHand
<1>3. CASE AcquireLock
  BY <1>1, <1>3 DEF AcquireLock, KilledInHand
<1>4. CASE LockTimeout
  BY <1>1, <1>4 DEF LockTimeout, KilledInHand
<1>5. CASE Load
  BY <1>1, <1>5 DEF Load, KilledInHand
<1>6. CASE MarkRunning
  BY <1>1, <1>6 DEF MarkRunning, KilledInHand
<1>7. CASE Spawn
  BY <1>1, <1>7 DEF Spawn, KilledInHand
<1>8. CASE Save
  BY <1>1, <1>8 DEF Save, KilledInHand
<1>9. CASE Unlock
  BY <1>1, <1>9 DEF Unlock, KilledInHand
<1>10. ASSUME NEW code \in {"SUCCESS", "FAILED"}, ChildCloses(code)
       PROVE  BootQuiet' /\ KilledInHand'
  BY <1>1, <1>10 DEF ChildCloses, KilledInHand
<1> QED
  BY <1>2, <1>3, <1>4, <1>5, <1>6, <1>7, <1>8, <1>9, <1>10 DEF WorkerStep, Closes

\* Neither the sweep nor the environment takes a killed run out of hand.
LEMMA KillEnvironment == KillInv /\ (Scan \/ Recover \/ Environment) => BootQuiet' /\ KilledInHand'
<1> SUFFICES ASSUME KillInv, Scan \/ Recover \/ Environment  PROVE BootQuiet' /\ KilledInHand'
  OBVIOUS
<1> USE DEF KillInv, TypeOK, rows, jobs, procs, R
<1>1. CASE Scan
  BY <1>1 DEF Scan, BootQuiet, KilledInHand
<1>2. CASE Recover
  <2>1. killed = {} /\ killed' = {}
    BY <1>2 DEF Recover, BootQuiet
  <2> QED
    BY <1>2, <2>1 DEF Recover, BootQuiet, KilledInHand
<1>3. CASE Crash
  BY <1>3 DEF Crash, Dies, BootQuiet, KilledInHand, NoReq
<1>4. CASE DeleteProject
  <2>1. BootQuiet'
    BY <1>4 DEF DeleteProject, BootQuiet
  <2> QED
    BY <1>4, <2>1, KilledUndisturbed DEF DeleteProject
<1>5. CASE Stall \/ Expire \/ \E r \in Run : Redeliver(r) \/ OrphanEnds(r)
  <2>1. UNCHANGED <<rows, worker, cancelReq, killed, boot, req>>
    BY <1>5 DEF Stall, Expire, Redeliver, OrphanEnds
  <2> QED
    BY <2>1, KilledUndisturbed DEF BootQuiet
<1> QED
  BY <1>1, <1>2, <1>3, <1>4, <1>5 DEF Environment

\* Every step keeps it.
LEMMA KillStep == KillInv /\ [Next]_vars => KillInv'
<1>1. KillInv /\ UNCHANGED vars => BootQuiet' /\ KilledInHand'
  BY DEF vars, rows, procs, KillInv, BootQuiet, KilledInHand
<1> QED
  BY <1>1, TypeStep, KillHandler, KillWorker, KillEnvironment DEF Next, KillInv

(***************************************************************************)
(* A run whose process group was killed is recorded as CANCELLED whatever  *)
(* its exit code, and nothing overwrites that before its job ends.         *)
(***************************************************************************)
THEOREM KilledEndsCancelled == Spec => []KilledRunIsCancelled
<1>1. KillInv => KilledRunIsCancelled
  BY DEF KillInv, KilledInHand, KilledRunIsCancelled, R, HasRow
<1> QED
  BY <1>1, KillInit, KillStep, PTL DEF Spec

----------------------------------------------------------------------------
(* A completed job has settled its run.                                    *)

(***************************************************************************)
(* The job the worker has in hand is not completed, and its row can only   *)
(* be missing with its task: otherwise an insert could take the run's id   *)
(* (InHand).  What the worker leaves behind at the unlock is settled.      *)
(***************************************************************************)
InHand == worker.pc # "idle" => job[R] # "done" /\ (task = "present" => run[R] # "none")

UnlockSettled == worker.pc = "unlock" => run[R] \notin {"QUEUED", "RUNNING"}

SettleInv == TypeOK /\ InHand /\ UnlockSettled /\ CompletedJobSettlesRun

\* Every step keeps it.
LEMMA SettleStep == SettleInv /\ [Next]_vars => SettleInv'
<1> SUFFICES ASSUME SettleInv, [Next]_vars
             PROVE  InHand' /\ UnlockSettled' /\ CompletedJobSettlesRun'
  BY TypeStep DEF SettleInv
<1> USE NoRunIsNoRun
    DEF SettleInv, TypeOK, InHand, UnlockSettled, CompletedJobSettlesRun,
        rows, jobs, procs, R, HasRow, Goto, Settle
<1>1. CASE UNCHANGED vars
  BY <1>1 DEF vars
<1>2. CASE HandlerStep
  <2>1. PICK h \in Handlers :
          \/ Trigger(h) \/ CreateRun(h) \/ Enqueue(h)
          \/ RemoveJob(h) \/ WriteCancelled(h) \/ SignalCancel(h)
          \/ RemoveTask(h) \/ DeleteTask(h)
          \/ \E r \in Run : Cancel(h, r)
    BY <1>2 DEF HandlerStep
  <2>2. CASE CreateRun(h)
    <3>1. CASE task = "deleted"
      BY <2>2, <3>1 DEF CreateRun
    <3>2. CASE task = "present"
      <4>1. PICK r \in Run \ Used : run' = [run EXCEPT ![r] = "QUEUED"]
        BY <2>2, <3>2 DEF CreateRun
      <4>2. run[r] = "none" /\ job[r] = "none"
        BY DEF Used
      <4>3. UNCHANGED <<task, job, worker>>
        BY <2>2 DEF CreateRun
      <4> QED
        BY <3>2, <4>1, <4>2, <4>3
    <3> QED
      BY <3>1, <3>2
  <2>3. CASE Enqueue(h)
    BY <2>3 DEF Enqueue
  <2>4. CASE RemoveJob(h)
    <3>1. /\ job' = job \/ job' = [job EXCEPT ![req[h].r] = "none"]
          /\ UNCHANGED <<rows, worker>>
      BY <2>4 DEF RemoveJob
    <3> QED
      BY <3>1
  <2>5. CASE WriteCancelled(h)
    BY <2>5 DEF WriteCancelled
  <2>6. CASE DeleteTask(h)
    BY <2>6 DEF DeleteTask
  <2>7. CASE \/ Trigger(h) \/ SignalCancel(h) \/ RemoveTask(h) \/ \E r \in Run : Cancel(h, r)
    <3>1. UNCHANGED <<rows, jobs, worker>>
      BY <2>7 DEF Trigger, SignalCancel, RemoveTask, Cancel
    <3> QED
      BY <3>1
  <2> QED
    BY <2>1, <2>2, <2>3, <2>4, <2>5, <2>6, <2>7
<1>3. CASE WorkerStep \/ Closes
  <2>1. CASE Take
    <3>1. Head(queue) \in Run /\ UNCHANGED rows
      BY <2>1 DEF Take
    <3>2. CASE run[Head(queue)] = "none"
      BY <2>1, <3>1, <3>2 DEF Take
    <3>3. CASE run[Head(queue)] # "none"
      BY <2>1, <3>1, <3>3 DEF Take, Idle
    <3> QED
      BY <3>2, <3>3
  <2>2. CASE AcquireLock
    BY <2>2 DEF AcquireLock
  <2>3. CASE LockTimeout
    BY <2>3 DEF LockTimeout, Idle
  <2>4. CASE Load
    BY <2>4 DEF Load
  <2>5. CASE MarkRunning
    BY <2>5 DEF MarkRunning
  <2>6. CASE Spawn
    BY <2>6 DEF Spawn
  <2>7. CASE Save
    BY <2>7 DEF Save, Terminal
  <2>8. CASE Unlock
    BY <2>8 DEF Unlock, Idle
  <2>9. ASSUME NEW code \in {"SUCCESS", "FAILED"}, ChildCloses(code)
        PROVE  InHand' /\ UnlockSettled' /\ CompletedJobSettlesRun'
    BY <2>9 DEF ChildCloses
  <2> QED
    BY <1>3, <2>1, <2>2, <2>3, <2>4, <2>5, <2>6, <2>7, <2>8, <2>9 DEF WorkerStep, Closes
<1>4. CASE Scan
  BY <1>4 DEF Scan
<1>5. CASE Recover
  BY <1>5 DEF Recover
<1>6. CASE Environment
  <2>1. CASE Crash
    BY <2>1 DEF Crash, Dies, Idle
  <2>2. CASE DeleteProject
    BY <2>2 DEF DeleteProject
  <2>3. CASE Stall
    BY <2>3 DEF Stall, InLock
  <2>4. CASE Expire
    BY <2>4 DEF Expire
  <2>5. ASSUME NEW r \in Run, Redeliver(r)
        PROVE  InHand' /\ UnlockSettled' /\ CompletedJobSettlesRun'
    <3>1. /\ job' \in {[job EXCEPT ![r] = "waiting"], [job EXCEPT ![r] = "failed"]}
          /\ UNCHANGED <<rows, worker>>
      BY <2>5 DEF Redeliver
    <3> QED
      BY <3>1
  <2>6. ASSUME NEW r \in Run, OrphanEnds(r)
        PROVE  InHand' /\ UnlockSettled' /\ CompletedJobSettlesRun'
    BY <2>6 DEF OrphanEnds
  <2> QED
    BY <1>6, <2>1, <2>2, <2>3, <2>4, <2>5, <2>6 DEF Environment
<1> QED
  BY <1>1, <1>2, <1>3, <1>4, <1>5, <1>6 DEF Next

(***************************************************************************)
(* When BullMQ reports a job completed, its run is neither QUEUED nor      *)
(* RUNNING: only jobs that failed, were removed or never added strand one. *)
(***************************************************************************)
THEOREM CompletedJobSettles == Spec => []CompletedJobSettlesRun
<1>1. Init => SettleInv
  BY TypeInit DEF Init, SettleInv, InHand, UnlockSettled, CompletedJobSettlesRun, Idle
<1>2. SettleInv => CompletedJobSettlesRun
  BY DEF SettleInv
<1> QED
  BY <1>1, <1>2, SettleStep, PTL DEF Spec
=============================================================================
