----------------------- MODULE DeployPipeline_proofs -----------------------
(***************************************************************************)
(* Proofs about DeployPipeline, for every number of deployments, every set *)
(* of pipelines and of handlers, and every set of faults.                  *)
(***************************************************************************)
EXTENDS DeployPipeline, SequenceTheorems, FiniteSetTheorems, WellFoundedInduction, TLAPS

Status == {"none", "QUEUED", "RUNNING"} \cup Terminal
Deployment == [status : Status, stages : Seq(StageStatus), version : 0..MaxDeployments]
Worker == [pc : {"idle", "locking"} \cup InLock, d : Id \cup {0},
           plan : Pipelines \cup {<<>>}, i : Nat]
Request == [pc : {"idle", "reading", "creating", "enqueueing", "cancelling"},
            d : Id \cup {0}, skip : Nat, len : Nat, version : 0..MaxDeployments]

----------------------------------------------------------------------------
(* Numbers and sequences.                                                  *)

\* The bound on deployments is a positive number.
LEMMA Bounds ==
  /\ MaxDeployments \in Nat
  /\ 1 <= MaxDeployments
  /\ 0 \in 0..MaxDeployments
  /\ Id \subseteq Nat
  /\ 0 \notin Id
BY DeployAssumption DEF Id

\* A nonempty set of numbers has a least one.
LEMMA LeastOf ==
  ASSUME NEW S \in SUBSET Nat, S # {}
  PROVE  Least(S) \in S /\ \A y \in S : Least(S) <= y
<1>1. PICK x \in S : \A y \in S : ~ (<<y, x>> \in OpToRel(<, Nat))
  BY NatLessThanWellFounded, WFMin
<1>2. \A y \in S : x <= y
  <2> SUFFICES ASSUME NEW y \in S, ~ (x <= y)  PROVE FALSE
    OBVIOUS
  <2>1. x \in Nat /\ y \in Nat /\ y < x
    OBVIOUS
  <2> QED
    BY <1>1, <2>1 DEF OpToRel
<1> QED
  BY <1>2 DEF Least

\* Overwriting an element, or none, leaves a sequence of the same length.
LEMMA Overwrite ==
  ASSUME NEW S, NEW seq \in Seq(S), NEW i, NEW e \in S
  PROVE  /\ [seq EXCEPT ![i] = e] \in Seq(S)
         /\ DOMAIN [seq EXCEPT ![i] = e] = DOMAIN seq
         /\ \A j \in DOMAIN seq :
              [seq EXCEPT ![i] = e][j] = IF j = i THEN e ELSE seq[j]
<1>1. DOMAIN seq = 1..Len(seq) /\ Len(seq) \in Nat
  BY LenProperties
<1>2. CASE i \in 1..Len(seq)
  BY <1>1, <1>2, ExceptSeq
<1>3. CASE i \notin 1..Len(seq)
  <2>1. [seq EXCEPT ![i] = e] = seq
    <3>1. seq = [j \in DOMAIN seq |-> seq[j]]
      BY LenProperties
    <3> QED
      BY <1>1, <1>3, <3>1
  <2> QED
    BY <1>1, <1>3, <2>1
<1> QED
  BY <1>2, <1>3

\* What a queue holds without its head.
LEMMA TailOf ==
  ASSUME NEW S, NEW q \in Seq(S), q # <<>>
  PROVE  /\ Len(q) \in Nat
         /\ 1 \in 1..Len(q) /\ Head(q) = q[1]
         /\ \A k \in 1..Len(Tail(q)) : k + 1 \in 1..Len(q) /\ Tail(q)[k] = q[k + 1]
<1>1. Len(q) \in Nat \ {0} /\ Head(q) = q[1]
  BY EmptySeq, LenProperties
<1>2. Len(Tail(q)) = Len(q) - 1 /\ \A k \in 1..Len(Tail(q)) : Tail(q)[k] = q[k + 1]
  BY HeadTailProperties
<1> QED
  BY <1>1, <1>2

\* What a queue holds after one more at its head.
LEMMA Prepended ==
  ASSUME NEW S, NEW q \in Seq(S), NEW d \in S
  PROVE  /\ <<d>> \o q \in Seq(S)
         /\ Len(<<d>> \o q) = Len(q) + 1
         /\ Len(q) \in Nat
         /\ \A k \in 1..Len(q) + 1 :
              (<<d>> \o q)[k] = IF k = 1 THEN d ELSE q[k - 1]
<1>1. <<d>> \in Seq(S) /\ Len(<<d>>) = 1 /\ <<d>>[1] = d /\ Len(q) \in Nat
  BY LenProperties
<1> QED
  BY <1>1, ConcatProperties

\* A pipeline has a length, and so has what an idle worker holds instead.
LEMMA PlanLength ==
  ASSUME NEW p \in Pipelines \cup {<<>>}
  PROVE  Len(p) \in Nat
<1>1. p \in Seq({"required", "optional"})
  BY DeployAssumption, EmptySeq
<1> QED
  BY <1>1, LenProperties

----------------------------------------------------------------------------
(* The bound on rows holds as it is meant: each request on its way to      *)
(* create a row has its place reserved.                                    *)

InFlight == {h \in Handlers : req[h].pc \in {"reading", "creating"}}

RoomInv == Cardinality(Created) + Cardinality(InFlight) <= MaxDeployments

\* Both sets are finite.
LEMMA Finite ==
  /\ IsFiniteSet(Id) /\ Cardinality(Id) = MaxDeployments
  /\ IsFiniteSet(Created) /\ Cardinality(Created) \in Nat
  /\ IsFiniteSet(InFlight) /\ Cardinality(InFlight) \in Nat
<1>1. IsFiniteSet(Id) /\ Cardinality(Id) = MaxDeployments
  <2>1. 1 \in Int /\ MaxDeployments \in Int /\ ~(1 > MaxDeployments)
    BY Bounds
  <2>2. MaxDeployments - 1 + 1 = MaxDeployments
    BY Bounds
  <2> QED
    BY <2>1, <2>2, FS_Interval DEF Id
<1>2. Created \in SUBSET Id /\ InFlight \in SUBSET Handlers
  BY DEF Created, InFlight
<1>3. IsFiniteSet(Created) /\ IsFiniteSet(InFlight)
  BY <1>1, <1>2, DeployAssumption, FS_Subset
<1> QED
  BY <1>1, <1>3, FS_CardinalityType

\* A request that counts the rows finds room for one more.
LEMMA FreeRow ==
  ASSUME RoomInv, NEW h \in InFlight
  PROVE  /\ Cardinality(Created) + 1 \in 0..MaxDeployments
         /\ Created # Id
<1>1. Cardinality(InFlight) # 0
  BY Finite, FS_EmptySet
<1>2. Cardinality(Created) + 1 <= MaxDeployments
  BY <1>1, Finite, Bounds DEF RoomInv
<1> QED
  BY <1>2, Finite, Bounds

\* The row created is a free one.
LEMMA NextRow ==
  ASSUME Created # Id
  PROVE  Least(Id \ Created) \in Id \ Created
<1>1. Id \ Created # {} /\ Id \ Created \in SUBSET Nat
  BY Bounds DEF Created
<1> QED
  BY <1>1, LeastOf

----------------------------------------------------------------------------
(* Types.                                                                  *)

\* The initial state is well typed.
LEMMA TypeInit == Init => TypeOK
<1> SUFFICES ASSUME Init  PROVE TypeOK
  OBVIOUS
<1>1. <<>> \in Seq(StageStatus) /\ <<>> \in Seq(Id)
  BY EmptySeq
<1> QED
  BY <1>1, Bounds DEF Init, TypeOK, Idle, NoReq, NoRow, InLock, Terminal, Owner

\* A step of handler h replaces its locals by well typed ones.
LEMMA RequestStep ==
  ASSUME TypeOK, NEW h \in Handlers, NEW q \in Request,
         q.pc \in {"enqueueing", "cancelling"} => q.d \in Id,
         req' = [req EXCEPT ![h] = q]
  PROVE  /\ req' \in [Handlers -> Request]
         /\ \A g \in Handlers :
              req'[g].pc \in {"enqueueing", "cancelling"} => req'[g].d \in Id
BY DEF TypeOK, Request

\* Retry resumes from a number.
LEMMA ResumeFrom ==
  ASSUME TypeOK, NEW d \in Id
  PROVE  (IF Failures(d) = {} THEN 0 ELSE Least(Failures(d)) - 1) \in Nat
<1>1. DOMAIN row[d].stages = 1..Len(row[d].stages) /\ Len(row[d].stages) \in Nat
  BY LenProperties DEF TypeOK
<1>2. Failures(d) \in SUBSET Nat /\ 0 \notin Failures(d)
  BY <1>1 DEF Failures
<1> QED
  BY <1>2, LeastOf

\* A status is written: nothing else of the rows changes.
LEMMA StatusWritten ==
  ASSUME TypeOK, NEW d \in Id, NEW s \in Status, row' = [row EXCEPT ![d].status = s]
  PROVE  /\ row' \in [Id -> Deployment]
         /\ row'[d].status = s
         /\ row'[d].stages = row[d].stages
         /\ \A e \in Id \ {d} : row'[e] = row[e]
<1>1. row \in [Id -> Deployment]
  BY DEF TypeOK, Deployment, Status
<1>2. [row[d] EXCEPT !.status = s] \in Deployment
  BY <1>1 DEF Deployment
<1>3. row' = [row EXCEPT ![d] = [row[d] EXCEPT !.status = s]]
  OBVIOUS
<1> QED
  BY <1>1, <1>2, <1>3 DEF Deployment

\* The status of the worker's stage is written: nothing else changes.
LEMMA StageWritten ==
  ASSUME TypeOK, D \in Id, NEW s \in StageStatus, SetStage(s)
  PROVE  /\ row' \in [Id -> Deployment]
         /\ row'[D].status = row[D].status
         /\ DOMAIN row'[D].stages = DOMAIN row[D].stages
         /\ \A j \in DOMAIN row[D].stages :
              row'[D].stages[j] = IF j = worker.i THEN s ELSE row[D].stages[j]
         /\ \A e \in Id \ {D} : row'[e] = row[e]
<1> DEFINE t == [row[D].stages EXCEPT ![worker.i] = s]
           r == [row[D] EXCEPT !.stages = t]
<1>1. row \in [Id -> Deployment]
  BY DEF TypeOK, Deployment, Status
<1>2. row[D].stages \in Seq(StageStatus)
  BY <1>1 DEF Deployment
<1>3. /\ t \in Seq(StageStatus)
      /\ DOMAIN t = DOMAIN row[D].stages
      /\ \A j \in DOMAIN row[D].stages : t[j] = IF j = worker.i THEN s ELSE row[D].stages[j]
  BY <1>2, Overwrite
<1>4. row' = [row EXCEPT ![D] = r]
  BY DEF SetStage
<1> HIDE DEF t
<1>5. r \in Deployment /\ r.stages = t /\ r.status = row[D].status
  BY <1>1, <1>3 DEF Deployment
<1> HIDE DEF r
<1> QED
  BY <1>1, <1>3, <1>4, <1>5

\* Every step of a request keeps the types.
LEMMA HandlerType == TypeOK /\ RoomInv /\ HandlerStep => TypeOK'
<1> SUFFICES ASSUME TypeOK, RoomInv, NEW h \in Handlers,
                    \/ Trigger(h) \/ Rollback(h) \/ ReadProject(h) \/ CreateRow(h)
                    \/ Enqueue(h) \/ WriteCancelled(h)
                    \/ \E d \in Id : Retry(h, d) \/ Cancel(h, d)
             PROVE  TypeOK'
  BY DEF HandlerStep
<1>0. NoReq \in Request /\ NoReq.pc = "idle"
  BY Bounds DEF NoReq, Request
<1>1. ASSUME NEW k \in Nat, Begin(h, k), UNCHANGED <<rows, jobs, worker, lock, procs>>
      PROVE  TypeOK'
  <2>1. [NoReq EXCEPT !.pc = "reading", !.skip = k] \in Request
    BY Bounds DEF NoReq, Request
  <2>2. req' = [req EXCEPT ![h] = [NoReq EXCEPT !.pc = "reading", !.skip = k]]
    BY <1>1 DEF Begin
  <2>3. [NoReq EXCEPT !.pc = "reading", !.skip = k].pc = "reading"
    BY DEF NoReq
  <2> QED
    BY <1>1, <2>1, <2>2, <2>3, RequestStep DEF TypeOK, rows, jobs, Request
<1>2. CASE Trigger(h) \/ Rollback(h)
  BY <1>1, <1>2 DEF Trigger, Rollback
<1>3. ASSUME NEW d \in Id, Retry(h, d)  PROVE TypeOK'
  BY <1>1, <1>3, ResumeFrom DEF Retry
<1>4. CASE ReadProject(h)
  <2>1. CASE project = "deleted"
    BY <1>0, <1>4, <2>1, RequestStep DEF ReadProject, TypeOK, rows, jobs, Request
  <2>2. CASE project # "deleted"
    <3> DEFINE n == Cardinality(Created) + 1
    <3>1. n \in 0..MaxDeployments
      BY <1>4, FreeRow DEF ReadProject, InFlight
    <3>2. Len(pipeline) \in Nat
      BY PlanLength DEF TypeOK
    <3>3. req' = [req EXCEPT ![h] = [pc |-> "creating", d |-> req[h].d, skip |-> req[h].skip,
                                     len |-> Len(pipeline), version |-> n]]
      BY <1>4, <2>2 DEF ReadProject, TypeOK
    <3> HIDE DEF n
    <3> DEFINE q == [pc |-> "creating", d |-> req[h].d, skip |-> req[h].skip,
                     len |-> Len(pipeline), version |-> n]
    <3>4. q \in Request /\ q.pc = "creating"
      BY <3>1, <3>2 DEF TypeOK, Request
    <3>5. UNCHANGED <<rows, jobs, worker, lock, procs>>
      BY <1>4 DEF ReadProject
    <3> HIDE DEF q
    <3>6. req' = [req EXCEPT ![h] = q]
      BY <3>3 DEF q
    <3> QED
      BY <3>4, <3>5, <3>6, RequestStep DEF TypeOK, rows, jobs, Request
  <2> QED
    BY <2>1, <2>2
<1>5. CASE CreateRow(h)
  <2>1. CASE project = "deleted"
    BY <1>0, <1>5, <2>1, RequestStep DEF CreateRow, TypeOK, rows, jobs, Request
  <2>2. CASE project # "deleted"
    <3> DEFINE d == Least(Id \ Created)
               r == [status |-> "QUEUED", stages |-> [i \in 1..req[h].len |-> "PENDING"],
                     version |-> req[h].version]
    <3>1. d \in Id
      BY <1>5, FreeRow, NextRow DEF CreateRow, InFlight
    <3>2. r \in Deployment
      <4>1. [i \in 1..req[h].len |-> "PENDING"] \in Seq(StageStatus)
        <5>1. req[h].len \in Nat /\ "PENDING" \in StageStatus
          BY DEF TypeOK, StageStatus
        <5> QED
          BY <5>1, IsASeq
      <4> QED
        BY <4>1 DEF Deployment, TypeOK, Status
    <3>3. /\ row' = [row EXCEPT ![d] = r]
          /\ skip' = [skip EXCEPT ![d] = req[h].skip]
          /\ req' = [req EXCEPT ![h].pc = "enqueueing", ![h].d = d]
          /\ UNCHANGED <<project, pipeline, job, stalls, queue, worker, lock, procs>>
      BY <1>5, <2>2 DEF CreateRow
    <3> HIDE DEF d, r
    <3>4. row' \in [Id -> Deployment] /\ skip' \in [Id -> Nat]
      BY <3>1, <3>2, <3>3 DEF TypeOK, Deployment, Status
    <3>5. /\ req' \in [Handlers -> Request]
          /\ \A g \in Handlers :
               req'[g].pc \in {"enqueueing", "cancelling"} => req'[g].d \in Id
      <4> DEFINE q == [req[h] EXCEPT !.pc = "enqueueing", !.d = d]
      <4>1. req[h] \in Request
        BY DEF TypeOK, Request
      <4>2. q \in Request /\ q.d \in Id
        BY <3>1, <4>1 DEF Request
      <4>3. req' = [req EXCEPT ![h] = q]
        BY <3>3
      <4> HIDE DEF q
      <4> QED
        BY <4>2, <4>3, RequestStep
    <3> QED
      BY <3>3, <3>4, <3>5 DEF TypeOK, Deployment, Request, Status
  <2> QED
    BY <2>1, <2>2
<1>6. CASE Enqueue(h)
  <2>1. req[h].d \in Id
    BY <1>6 DEF Enqueue, TypeOK
  <2>2. Append(queue, req[h].d) \in Seq(Id)
    BY <2>1, AppendProperties DEF TypeOK
  <2> QED
    BY <1>0, <1>6, <2>1, <2>2, RequestStep DEF Enqueue, TypeOK, rows, Request
<1>7. CASE WriteCancelled(h)
  <2>1. req[h].d \in Id
    BY <1>7 DEF WriteCancelled, TypeOK
  <2>2. row' \in [Id -> Deployment]
    BY <1>7, <2>1, StatusWritten
    DEF WriteCancelled, TypeOK, Deployment, Status, Terminal
  <2> QED
    BY <1>0, <1>7, <2>2, RequestStep
    DEF WriteCancelled, TypeOK, Request, Deployment, Status, jobs
<1>8. ASSUME NEW d \in Id, Cancel(h, d)  PROVE TypeOK'
  <2>1. [NoReq EXCEPT !.pc = "cancelling", !.d = d] \in Request
    BY Bounds DEF NoReq, Request
  <2>2. [NoReq EXCEPT !.pc = "cancelling", !.d = d].d \in Id
    BY DEF NoReq
  <2> QED
    BY <1>8, <2>1, <2>2, RequestStep DEF Cancel, TypeOK, rows, jobs, Request
<1> QED
  BY <1>2, <1>3, <1>4, <1>5, <1>6, <1>7, <1>8

\* Every step of the worker keeps the types.
LEMMA WorkerType == TypeOK /\ WorkerStep => TypeOK'
<1> SUFFICES ASSUME TypeOK, WorkerStep  PROVE TypeOK'
  OBVIOUS
<1>0. /\ worker \in Worker
      /\ row \in [Id -> Deployment]
  BY DEF TypeOK, Worker, Deployment, Status
<1>a. ASSUME NEW p, Leave(p), worker.pc # "idle", p \in InLock
      PROVE  worker' \in Worker /\ worker'.d \in Id
  BY <1>a DEF Leave, Idle, Worker, TypeOK, D
<1>b. ASSUME NEW p, Goto(p), worker.pc # "idle", p \in InLock
      PROVE  worker' \in Worker /\ worker'.d \in Id
  BY <1>0, <1>b DEF Goto, Worker, TypeOK
<1>c. ASSUME worker' = [worker EXCEPT !.pc = "stage", !.i = @ + 1], worker.pc # "idle"
      PROVE  worker' \in Worker /\ worker'.d \in Id
  <2>1. worker.i + 1 \in Nat /\ worker.d \in Id
    BY <1>0, <1>c DEF Worker, TypeOK
  <2>2. worker' = [worker EXCEPT !.pc = "stage", !.i = worker.i + 1]
    BY <1>c
  <2> QED
    BY <1>0, <2>1, <2>2 DEF Worker, InLock
<1>d. Idle \in Worker /\ Idle.pc = "idle"
  BY Bounds DEF Idle, Worker
<1>1. CASE Take
  <2>1. Head(queue) \in Id /\ Tail(queue) \in Seq(Id)
    BY <1>1, HeadTailProperties DEF Take, TypeOK
  <2>2. worker' \in Worker /\ worker'.d \in Id
    BY <1>1, <2>1 DEF Take, Idle, Worker
  <2> QED
    BY <1>1, <2>1, <2>2 DEF Take, TypeOK, rows, Worker
<1>2. CASE AcquireLock
  BY <1>2, <1>b DEF AcquireLock, TypeOK, rows, jobs, Worker, InLock, Owner
<1>3. CASE LockTimeout
  BY <1>3, <1>d DEF LockTimeout, TypeOK, rows, Settle, Worker
<1>4. CASE Load
  <2>1. worker' \in Worker /\ worker'.d \in Id
    <3>1. CASE project = "deleted"
      BY <1>4, <1>a, <3>1 DEF Load, InLock
    <3>2. CASE project # "deleted"
      BY <1>0, <1>4, <3>2 DEF Load, InLock, Worker, TypeOK
    <3> QED
      BY <3>1, <3>2
  <2> QED
    BY <1>4, <2>1 DEF Load, TypeOK, rows, jobs, Worker
<1>5. CASE MarkRunning
  <2>1. D \in Id /\ "RUNNING" \in Status
    BY <1>5 DEF MarkRunning, TypeOK, D, Status
  <2>2. worker' \in Worker /\ worker'.d \in Id
    <3>1. CASE ~Exists(D)
      BY <1>5, <1>a, <3>1 DEF MarkRunning, InLock
    <3>2. CASE Exists(D)
      <4>1. worker' = [worker EXCEPT !.pc = "stage", !.i = skip[D] + 1]
        BY <1>5, <3>2 DEF MarkRunning
      <4>2. skip[D] + 1 \in Nat
        BY <2>1 DEF TypeOK
      <4> QED
        BY <1>0, <2>1, <4>1, <4>2 DEF InLock, Worker, D
    <3> QED
      BY <3>1, <3>2
  <2>3. row' \in [Id -> Deployment]
    BY <1>0, <1>5, <2>1, StatusWritten DEF MarkRunning
  <2> QED
    BY <1>5, <2>2, <2>3 DEF MarkRunning, TypeOK, jobs, Worker, Deployment, Status
<1>6. CASE StartStage
  <2>1. D \in Id /\ "RUNNING" \in StageStatus /\ worker.i \in Nat
    BY <1>6 DEF StartStage, TypeOK, D, StageStatus
  <2>2. worker' \in Worker /\ worker'.d \in Id
    BY <1>6, <1>a, <1>b DEF StartStage, InLock
  <2>3. row' \in [Id -> Deployment]
    BY <1>0, <1>6, <2>1, StageWritten DEF StartStage
  <2>4. procs' \subseteq Id \X Nat
    BY <1>6, <2>1 DEF StartStage, TypeOK
  <2> QED
    BY <1>6, <2>2, <2>3, <2>4 DEF StartStage, TypeOK, jobs, Worker, Deployment, Status
<1>7. ASSUME NEW ok \in BOOLEAN, NEW alive \in BOOLEAN, EndStage(ok, alive)  PROVE TypeOK'
  <2>1. D \in Id /\ {"SUCCESS", "SKIPPED", "FAILED"} \subseteq StageStatus
    BY <1>7 DEF EndStage, TypeOK, D, StageStatus
  <2>2. worker.pc # "idle" /\ {"abort", "failed"} \subseteq InLock
    BY <1>7 DEF EndStage, InLock
  <2>3. \/ Leave("abort") /\ UNCHANGED row
        \/ SetStage("SUCCESS") /\ worker' = [worker EXCEPT !.pc = "stage", !.i = @ + 1]
        \/ SetStage("SKIPPED") /\ worker' = [worker EXCEPT !.pc = "stage", !.i = @ + 1]
        \/ SetStage("FAILED") /\ Goto("failed")
    BY <1>7 DEF EndStage
  <2>4. worker' \in Worker /\ worker'.d \in Id
    BY <2>2, <2>3, <1>a, <1>b, <1>c
  <2>5. row' \in [Id -> Deployment]
    BY <1>0, <2>1, <2>3, StageWritten
  <2>6. procs' \subseteq Id \X Nat
    BY <1>7 DEF EndStage, TypeOK
  <2>7. UNCHANGED <<project, pipeline, jobs, req, lock>>
    BY <1>7 DEF EndStage
  <2> QED
    BY <2>4, <2>5, <2>6, <2>7 DEF TypeOK, jobs, Worker, Deployment, Status
<1>8. CASE Finish
  <2>1. D \in Id /\ {"SUCCESS", "FAILED"} \subseteq Status
    BY <1>8 DEF Finish, TypeOK, D, Status, Terminal
  <2>2. worker' \in Worker /\ worker'.d \in Id
    BY <1>8, <1>a DEF Finish, InLock
  <2>3. row' \in [Id -> Deployment]
    BY <1>0, <1>8, <2>1, StatusWritten DEF Finish
  <2> QED
    BY <1>8, <2>2, <2>3 DEF Finish, TypeOK, jobs, Worker, Deployment, Status
<1>9. CASE Activate
  BY <1>9, <1>a DEF Activate, InLock, TypeOK, jobs, Worker
<1>10. CASE Unlock
  BY <1>10, <1>d DEF Unlock, TypeOK, rows, Settle, Worker, Owner
<1> QED
  BY <1>1, <1>2, <1>3, <1>4, <1>5, <1>6, <1>7, <1>8, <1>9, <1>10 DEF WorkerStep

\* The environment keeps the types.
LEMMA EnvironmentType == TypeOK /\ (Environment \/ EditPipeline) => TypeOK'
<1> SUFFICES ASSUME TypeOK, Environment \/ EditPipeline  PROVE TypeOK'
  OBVIOUS
<1>1. CASE Stall
  BY <1>1 DEF Stall, TypeOK, rows, InLock, D
<1>2. CASE Crash
  BY <1>2, Bounds DEF Crash, Dies, TypeOK, rows, Idle, NoReq, D, Owner
<1>3. CASE Expire
  BY <1>3 DEF Expire, TypeOK, rows, jobs, Owner
<1>4. CASE DeleteProject
  <2>1. NoRow \in Deployment
    BY Bounds, EmptySeq DEF NoRow, Deployment, Status
  <2>2. row' \in [Id -> Deployment]
    BY <1>4, <2>1 DEF DeleteProject
  <2> QED
    BY <1>4, <2>2 DEF DeleteProject, TypeOK, jobs, Deployment, Status
<1>5. ASSUME NEW d \in Id, Redeliver(d)  PROVE TypeOK'
  <2>1. <<d>> \o queue \in Seq(Id)
    BY ConcatProperties DEF TypeOK
  <2>2. CASE stalls[d] = 0
    <3>1. queue' \in Seq(Id)
      BY <1>5, <2>1, <2>2 DEF Redeliver
    <3>2. stalls' = [stalls EXCEPT ![d] = 1] /\ job' = [job EXCEPT ![d] = "waiting"]
      BY <1>5, <2>2 DEF Redeliver
    <3>3. UNCHANGED <<project, pipeline, row, skip, worker, req, lock, procs>>
      BY <1>5 DEF Redeliver, rows
    <3> QED
      BY <3>1, <3>2, <3>3 DEF TypeOK
  <2>3. CASE stalls[d] # 0
    BY <1>5, <2>3 DEF Redeliver, TypeOK, rows
  <2> QED
    BY <2>2, <2>3
<1>6. ASSUME NEW p \in procs, Reap(p)  PROVE TypeOK'
  BY <1>6 DEF Reap, TypeOK, rows, jobs
<1>7. CASE EditPipeline
  BY <1>7 DEF EditPipeline, TypeOK, jobs
<1> QED
  BY <1>1, <1>2, <1>3, <1>4, <1>5, <1>6, <1>7 DEF Environment

\* The bound holds initially.
LEMMA RoomInit == Init => RoomInv
<1> SUFFICES ASSUME Init  PROVE RoomInv
  OBVIOUS
<1>1. Created = {} /\ InFlight = {}
  BY DEF Init, Created, Exists, NoRow, InFlight, NoReq
<1> QED
  BY <1>1, FS_EmptySet, Bounds DEF RoomInv

\* Less of both leaves room.
LEMMA RoomMonotone ==
  ASSUME RoomInv, Created' \subseteq Created, InFlight' \subseteq InFlight
  PROVE  RoomInv'
<1>1. Cardinality(Created') <= Cardinality(Created) /\ Cardinality(Created') \in Nat
  BY Finite, FS_Subset, FS_CardinalityType
<1>2. Cardinality(InFlight') <= Cardinality(InFlight) /\ Cardinality(InFlight') \in Nat
  BY Finite, FS_Subset, FS_CardinalityType
<1> QED
  BY <1>1, <1>2, Finite, Bounds DEF RoomInv

\* Every step keeps the bound.
LEMMA RoomStep == TypeOK /\ RoomInv /\ [Next]_vars => RoomInv'
<1> SUFFICES ASSUME TypeOK, RoomInv, [Next]_vars  PROVE RoomInv'
  OBVIOUS
<1>0. row \in [Id -> Deployment] /\ req \in [Handlers -> Request]
  BY DEF TypeOK, Deployment, Status, Request
<1>1. ASSUME NEW h \in Handlers, NEW k, Begin(h, k), UNCHANGED rows  PROVE RoomInv'
  <2>1. InFlight' = InFlight \cup {h} /\ Created' = Created
    BY <1>0, <1>1 DEF InFlight, Begin, Created, Exists, rows, NoReq
  <2>2. Cardinality(Created) + Cardinality(InFlight) < MaxDeployments
    BY <1>1 DEF Begin, Room, InFlight
  <2>3. Cardinality(InFlight') <= Cardinality(InFlight) + 1 /\ Cardinality(InFlight') \in Nat
    <3>1. Cardinality(InFlight \cup {h}) =
            IF h \in InFlight THEN Cardinality(InFlight) ELSE Cardinality(InFlight) + 1
      BY Finite, FS_AddElement
    <3> QED
      BY <2>1, <3>1, Finite
  <2> QED
    BY <2>1, <2>2, <2>3, Finite, Bounds DEF RoomInv
<1>2. ASSUME NEW h \in Handlers, CreateRow(h), project # "deleted"  PROVE RoomInv'
  <2> DEFINE d == Least(Id \ Created)
  <2>1. h \in InFlight
    BY <1>2 DEF CreateRow, InFlight
  <2>2. d \in Id \ Created
    BY <2>1, FreeRow, NextRow
  <2>3. /\ row' = [row EXCEPT ![d] = [status |-> "QUEUED",
                                     stages |-> [i \in 1..req[h].len |-> "PENDING"],
                                     version |-> req[h].version]]
        /\ req' = [req EXCEPT ![h].pc = "enqueueing", ![h].d = d]
    BY <1>2 DEF CreateRow
  <2> HIDE DEF d
  <2>4. Created' = Created \cup {d}
    BY <1>0, <2>2, <2>3 DEF Created, Exists
  <2>5. InFlight' = InFlight \ {h}
    BY <1>0, <2>3 DEF InFlight, Request
  <2>6. Cardinality(Created') = Cardinality(Created) + 1
    BY <2>2, <2>4, Finite, FS_AddElement
  <2>7. Cardinality(InFlight') = Cardinality(InFlight) - 1
    BY <2>1, <2>5, Finite, FS_RemoveElement
  <2> QED
    BY <2>6, <2>7, Finite, Bounds DEF RoomInv
<1>3. ASSUME NEW h \in Handlers,
             \/ ReadProject(h)
             \/ CreateRow(h) /\ project = "deleted"
             \/ Enqueue(h)
      PROVE  RoomInv'
  <2>1. Created' = Created
    BY <1>3 DEF ReadProject, CreateRow, Enqueue, rows, Created, Exists
  <2>2. InFlight' \subseteq InFlight
    <3>1. \/ req' = [req EXCEPT ![h] = NoReq]
          \/ /\ req[h].pc = "reading"
             /\ req' = [req EXCEPT ![h].pc = "creating",
                                  ![h].len = Len(pipeline),
                                  ![h].version = Cardinality(Created) + 1]
      BY <1>3 DEF ReadProject, CreateRow, Enqueue
    <3>2. \A g \in Handlers \ {h} : req'[g] = req[g]
      BY <1>0, <3>1
    <3>3. req[h].pc = "reading" \/ req'[h].pc = "idle"
      BY <1>0, <3>1 DEF NoReq
    <3> QED
      BY <3>2, <3>3 DEF InFlight
  <2> QED
    BY <2>1, <2>2, RoomMonotone
<1>4. ASSUME NEW h \in Handlers, NEW d \in Id, Cancel(h, d)  PROVE RoomInv'
  <2>1. Created' = Created
    BY <1>4 DEF Cancel, rows, Created, Exists
  <2>2. InFlight' \subseteq InFlight
    BY <1>0, <1>4 DEF Cancel, InFlight, NoReq, Request
  <2> QED
    BY <2>1, <2>2, RoomMonotone
<1>5. ASSUME NEW h \in Handlers, WriteCancelled(h)  PROVE RoomInv'
  <2>1. Created' \subseteq Created
    BY <1>0, <1>5 DEF WriteCancelled, Created, Exists
  <2>2. InFlight' \subseteq InFlight
    BY <1>0, <1>5 DEF WriteCancelled, InFlight, NoReq, Request
  <2> QED
    BY <2>1, <2>2, RoomMonotone
<1>6. CASE HandlerStep
  <2> SUFFICES ASSUME NEW h \in Handlers,
                      \/ Trigger(h) \/ Rollback(h) \/ ReadProject(h) \/ CreateRow(h)
                      \/ Enqueue(h) \/ WriteCancelled(h)
                      \/ \E d \in Id : Retry(h, d) \/ Cancel(h, d)
               PROVE  RoomInv'
    BY <1>6 DEF HandlerStep
  <2>1. CASE Trigger(h) \/ Rollback(h)
    BY <1>1, <2>1 DEF Trigger, Rollback
  <2>2. ASSUME NEW d \in Id, Retry(h, d)  PROVE RoomInv'
    BY <1>1, <2>2 DEF Retry
  <2>3. CASE CreateRow(h)
    BY <1>2, <1>3, <2>3
  <2>4. CASE ReadProject(h) \/ Enqueue(h)
    BY <1>3, <2>4
  <2>5. ASSUME NEW d \in Id, Cancel(h, d)  PROVE RoomInv'
    BY <1>4, <2>5
  <2>6. CASE WriteCancelled(h)
    BY <1>5, <2>6
  <2> QED
    BY <2>1, <2>2, <2>3, <2>4, <2>5, <2>6
<1>7. ASSUME UNCHANGED req, Created' \subseteq Created  PROVE RoomInv'
  BY <1>7, RoomMonotone DEF InFlight
<1>8. CASE WorkerStep
  <2>1. UNCHANGED req
    BY <1>8 DEF WorkerStep, Take, AcquireLock, LockTimeout, Load, MarkRunning, StartStage,
                EndStage, Finish, Activate, Unlock
  <2>2. worker.pc # "idle" => D \in Id
    BY DEF TypeOK, D
  <2>3. ASSUME NEW s \in StageStatus, SetStage(s), worker.pc # "idle"
        PROVE  Created' \subseteq Created
    BY <2>2, <2>3, StageWritten DEF Created, Exists
  <2>4. Created' \subseteq Created
    <3>1. CASE Take \/ AcquireLock \/ LockTimeout \/ Load \/ Activate \/ Unlock
      BY <3>1 DEF Take, AcquireLock, LockTimeout, Load, Activate, Unlock, rows, Created, Exists
    <3>2. CASE MarkRunning
      BY <1>0, <3>2 DEF MarkRunning, Created, Exists
    <3>3. CASE StartStage
      <4>1. row' = row \/ SetStage("RUNNING")
        BY <3>3 DEF StartStage
      <4> QED
        BY <2>3, <3>3, <4>1 DEF StartStage, StageStatus, Created, Exists
    <3>4. ASSUME NEW ok \in BOOLEAN, NEW alive \in BOOLEAN, EndStage(ok, alive)
          PROVE  Created' \subseteq Created
      <4>1. row' = row \/ SetStage("SUCCESS") \/ SetStage("SKIPPED") \/ SetStage("FAILED")
        BY <3>4 DEF EndStage
      <4> QED
        BY <2>3, <3>4, <4>1 DEF EndStage, StageStatus, Created, Exists
    <3>5. CASE Finish
      BY <1>0, <3>5 DEF Finish, Created, Exists
    <3> QED
      BY <1>8, <3>1, <3>2, <3>3, <3>4, <3>5 DEF WorkerStep
  <2> QED
    BY <1>7, <2>1, <2>4
<1>9. CASE Environment \/ EditPipeline
  <2>1. CASE Crash
    BY <2>1, RoomMonotone DEF Crash, Dies, NoReq, InFlight, Created, Exists, rows
  <2>2. CASE DeleteProject
    BY <1>7, <2>2 DEF DeleteProject, Created, Exists, NoRow
  <2>3. CASE ~Crash /\ ~DeleteProject
    BY <1>7, <1>9, <2>3
    DEF Environment, Stall, Expire, Redeliver, Reap, EditPipeline, Created, Exists, rows
  <2> QED
    BY <2>1, <2>2, <2>3
<1>10. CASE UNCHANGED vars
  BY <1>7, <1>10 DEF vars, rows, Created, Exists
<1> QED
  BY <1>6, <1>8, <1>9, <1>10 DEF Next

(***************************************************************************)
(* Rows, jobs and the locals of handlers and worker are well typed, no     *)
(* deployment has a version beyond the number of rows, and whoever needs a *)
(* deployment has one.                                                     *)
(***************************************************************************)
THEOREM TypeCorrect == Spec => []TypeOK
<1>1. Init => TypeOK /\ RoomInv
  BY TypeInit, RoomInit
<1>2. TypeOK /\ RoomInv /\ [Next]_vars => (TypeOK /\ RoomInv)'
  <2>1. TypeOK /\ UNCHANGED vars => TypeOK'
    BY DEF vars, rows, jobs, TypeOK
  <2> QED
    BY <2>1, HandlerType, WorkerType, EnvironmentType, RoomStep DEF Next
<1> QED
  BY <1>1, <1>2, PTL DEF Spec

----------------------------------------------------------------------------
(* The order of stages.                                                    *)

\* As long as the project is there, the deployments that jobs, the worker
\* and requests speak of have their rows: none is numbered anew.
Attended ==
  project # "deleted" =>
    /\ worker.pc # "idle" => Exists(D)
    /\ \A k \in 1..Len(queue) : Exists(queue[k])
    /\ \A d \in Id : job[d] # "none" => Exists(d)
    /\ \A h \in Handlers : req[h].pc = "enqueueing" => Exists(req[h].d)

\* Where the worker is in a deployment's stages, as the row has it.
Progress ==
  worker.pc \in {"stage", "running", "failed"} /\ Exists(D) =>
    /\ row[D].status # "FAILED"
    /\ \A i \in skip[D] + 1 .. worker.i - 1 : i \in DOMAIN row[D].stages /\ Passed(D, i)
    /\ worker.pc = "running" => /\ worker.i \in DOMAIN row[D].stages
                               /\ row[D].stages[worker.i] = "RUNNING"
    /\ worker.pc = "failed" => /\ worker.i \in DOMAIN row[D].stages
                              /\ row[D].stages[worker.i] = "FAILED"

StageInv == TypeOK /\ RoomInv /\ Attended /\ Progress /\ RetryTargetsFailure

\* A step creates a row, deletes all, or writes to one.
LEMMA RowStep ==
  ASSUME TypeOK, RoomInv, [Next]_vars
  PROVE  \/ UNCHANGED <<row, skip>>
         \/ \E h \in Handlers : CreateRow(h) /\ project # "deleted"
         \/ \E h \in Handlers : WriteCancelled(h)
         \/ DeleteProject
         \/ MarkRunning /\ Exists(D)
         \/ StartStage /\ worker.i \in DOMAIN row[D].stages
         \/ Exists(D) /\ \E ok, alive \in BOOLEAN : EndStage(ok, alive)
         \/ Finish /\ Exists(D)
<1>1. CASE HandlerStep
  BY <1>1 DEF HandlerStep, Trigger, Rollback, ReadProject, CreateRow, Enqueue, Retry, Cancel,
              rows, jobs
<1>2. CASE WorkerStep
  <2>1. CASE Take \/ AcquireLock \/ LockTimeout \/ Load \/ Activate \/ Unlock
    BY <2>1 DEF Take, AcquireLock, LockTimeout, Load, Activate, Unlock, rows, jobs
  <2>2. CASE MarkRunning
    BY <2>2 DEF MarkRunning, jobs
  <2>3. CASE StartStage
    BY <2>3 DEF StartStage, jobs
  <2>4. ASSUME NEW ok \in BOOLEAN, NEW alive \in BOOLEAN, EndStage(ok, alive)
        PROVE  Exists(D) \/ UNCHANGED <<row, skip>>
    BY <2>4 DEF EndStage, jobs
  <2>5. CASE Finish
    BY <2>5 DEF Finish, jobs
  <2> QED
    BY <1>2, <2>1, <2>2, <2>3, <2>4, <2>5 DEF WorkerStep
<1>3. CASE Environment \/ EditPipeline
  BY <1>3 DEF Environment, EditPipeline, Stall, Crash, Dies, Expire, Redeliver, Reap, rows, jobs
<1>4. CASE UNCHANGED vars
  BY <1>4 DEF vars, rows, jobs
<1> QED
  BY <1>1, <1>2, <1>3, <1>4 DEF Next

\* What the creation of a row changes.
LEMMA RowCreated ==
  ASSUME TypeOK, RoomInv, NEW h \in Handlers, CreateRow(h), project # "deleted"
  PROVE  \E d \in Id \ Created :
           /\ row'[d].status = "QUEUED"
           /\ \A e \in Id \ {d} : row'[e] = row[e] /\ skip'[e] = skip[e]
           /\ req'[h].pc = "enqueueing" /\ req'[h].d = d
           /\ \A g \in Handlers \ {h} : req'[g] = req[g]
<1> DEFINE d == Least(Id \ Created)
<1>1. d \in Id \ Created
  BY FreeRow, NextRow DEF CreateRow, InFlight
<1>2. /\ row' = [row EXCEPT ![d] = [status |-> "QUEUED",
                                   stages |-> [i \in 1..req[h].len |-> "PENDING"],
                                   version |-> req[h].version]]
      /\ skip' = [skip EXCEPT ![d] = req[h].skip]
      /\ req' = [req EXCEPT ![h].pc = "enqueueing", ![h].d = d]
  BY DEF CreateRow
<1> HIDE DEF d
<1>3. /\ row \in [Id -> Deployment] /\ skip \in [Id -> Nat]
      /\ req \in [Handlers -> Request]
  BY DEF TypeOK, Deployment, Status, Request
<1> QED
  BY <1>1, <1>2, <1>3 DEF Request

\* What a cancellation changes.
LEMMA RowCancelled ==
  ASSUME TypeOK, NEW h \in Handlers, WriteCancelled(h)
  PROVE  /\ UNCHANGED <<worker, skip>>
         /\ \/ row' = row
            \/ \E d \in Id : /\ Exists(d)
                             /\ row'[d].status = "CANCELLED"
                             /\ row'[d].stages = row[d].stages
                             /\ \A e \in Id \ {d} : row'[e] = row[e]
<1>1. req[h].d \in Id /\ "CANCELLED" \in Status
  BY DEF WriteCancelled, TypeOK, Status, Terminal
<1> QED
  BY <1>1, StatusWritten DEF WriteCancelled, jobs

\* What the end of a stage changes.
LEMMA StageEnded ==
  ASSUME TypeOK, NEW ok \in BOOLEAN, NEW alive \in BOOLEAN, EndStage(ok, alive), Exists(D)
  PROVE  /\ worker.pc = "running" /\ D \in Id /\ UNCHANGED jobs
         /\ \E s \in {"SUCCESS", "SKIPPED", "FAILED"} :
              /\ SetStage(s)
              /\ worker' = IF s = "FAILED" THEN [worker EXCEPT !.pc = "failed"]
                           ELSE [worker EXCEPT !.pc = "stage", !.i = worker.i + 1]
<1>1. worker.pc = "running" /\ D \in Id /\ UNCHANGED jobs
  BY DEF EndStage, TypeOK, D
<1>2. \/ SetStage("SUCCESS") /\ worker' = [worker EXCEPT !.pc = "stage", !.i = worker.i + 1]
      \/ SetStage("SKIPPED") /\ worker' = [worker EXCEPT !.pc = "stage", !.i = worker.i + 1]
      \/ SetStage("FAILED") /\ worker' = [worker EXCEPT !.pc = "failed"]
  BY DEF EndStage, Goto
<1> QED
  BY <1>1, <1>2

\* What the start of a job changes.
LEMMA RowMarked ==
  ASSUME TypeOK, MarkRunning, Exists(D)
  PROVE  /\ D \in Id /\ UNCHANGED jobs
         /\ row'[D].status = "RUNNING"
         /\ row'[D].stages = row[D].stages
         /\ \A e \in Id \ {D} : row'[e] = row[e]
         /\ worker' = [worker EXCEPT !.pc = "stage", !.i = skip[D] + 1]
<1>1. D \in Id /\ "RUNNING" \in Status
  BY DEF MarkRunning, TypeOK, D, Status
<1> QED
  BY <1>1, StatusWritten DEF MarkRunning

\* What the end of a job's stages changes.
LEMMA RowFinished ==
  ASSUME TypeOK, Finish, Exists(D)
  PROVE  /\ D \in Id /\ UNCHANGED jobs
         /\ \/ /\ worker.pc = "failed" /\ row'[D].status = "FAILED"
               /\ worker'.pc = "unlock"
            \/ /\ worker.pc = "stage" /\ worker.i > Len(worker.plan)
               /\ row'[D].status = "SUCCESS" /\ worker'.pc = "activate"
         /\ worker'.d = D
         /\ row'[D].stages = row[D].stages
         /\ \A e \in Id \ {D} : row'[e] = row[e]
<1>1. D \in Id /\ {"FAILED", "SUCCESS"} \subseteq Status
  BY DEF Finish, TypeOK, D, Status, Terminal
<1>2. CASE worker.pc = "failed"
  BY <1>1, <1>2, StatusWritten DEF Finish, Leave, Idle
<1>3. CASE worker.pc = "stage" /\ worker.i > Len(worker.plan)
  BY <1>1, <1>3, StatusWritten DEF Finish, Leave, Idle
<1> QED
  BY <1>2, <1>3 DEF Finish

\* No row disappears from a project that stays.
LEMMA RowsStay ==
  ASSUME TypeOK, RoomInv, [Next]_vars, project' # "deleted"
  PROVE  project # "deleted" /\ \A d \in Id : Exists(d) => Exists(d)'
<1>1. project # "deleted"
  BY DEF Next, vars, rows, HandlerStep, Trigger, Rollback, ReadProject, CreateRow, Enqueue,
     WriteCancelled, Retry, Cancel, WorkerStep, Take, AcquireLock, LockTimeout, Load,
     MarkRunning, StartStage, EndStage, Finish, Activate, Unlock, Environment, Stall, Crash,
     Dies, Expire, Redeliver, Reap, EditPipeline, DeleteProject
<1>2. ASSUME NEW d \in Id, Exists(d)  PROVE Exists(d)'
  <2>1. CASE UNCHANGED <<row, skip>>
    BY <1>2, <2>1 DEF Exists
  <2>2. ASSUME NEW h \in Handlers, CreateRow(h), project # "deleted"  PROVE Exists(d)'
    BY <1>2, <2>2, RowCreated DEF Created, Exists
  <2>3. ASSUME NEW h \in Handlers, WriteCancelled(h)  PROVE Exists(d)'
    BY <1>2, <2>3, RowCancelled DEF Exists
  <2>4. CASE DeleteProject
    BY <2>4 DEF DeleteProject
  <2>5. CASE MarkRunning /\ Exists(D)
    BY <1>2, <2>5, RowMarked DEF Exists
  <2>6. CASE StartStage /\ worker.i \in DOMAIN row[D].stages
    <3>1. D \in Id /\ SetStage("RUNNING") /\ "RUNNING" \in StageStatus
      BY <2>6 DEF StartStage, TypeOK, D, StageStatus
    <3> QED
      BY <1>2, <3>1, StageWritten DEF Exists
  <2>7. ASSUME NEW ok \in BOOLEAN, NEW alive \in BOOLEAN, EndStage(ok, alive), Exists(D)
        PROVE  Exists(d)'
    <3>1. PICK s \in {"SUCCESS", "SKIPPED", "FAILED"} : SetStage(s)
      BY <2>7, StageEnded
    <3>2. s \in StageStatus /\ D \in Id
      BY <2>7, StageEnded DEF StageStatus
    <3> QED
      BY <1>2, <3>1, <3>2, StageWritten DEF Exists
  <2>8. CASE Finish /\ Exists(D)
    BY <1>2, <2>8, RowFinished DEF Exists
  <2> QED
    BY RowStep, <2>1, <2>2, <2>3, <2>4, <2>5, <2>6, <2>7, <2>8
<1> QED
  BY <1>1, <1>2

\* The worker keeps its deployment until it is idle, and takes the next one
\* from the queue.
LEMMA WorkerMoves ==
  ASSUME TypeOK, [Next]_vars
  PROVE  \/ UNCHANGED worker
         \/ worker'.pc = "idle"
         \/ worker.pc # "idle" /\ worker'.d = D
         \/ Take /\ worker'.d = Head(queue)
<1>0. worker \in Worker
  BY DEF TypeOK, Worker
<1>1. CASE HandlerStep
  BY <1>1 DEF HandlerStep, Trigger, Rollback, ReadProject, CreateRow, Enqueue, WriteCancelled,
              Retry, Cancel
<1>2. CASE WorkerStep
  <2>1. CASE Take
    BY <2>1 DEF Take, Idle
  <2>a. ASSUME NEW p, Leave(p)  PROVE worker'.d = D
    BY <2>a DEF Leave, Idle
  <2>b. ASSUME NEW p, Goto(p)  PROVE worker'.d = D
    BY <1>0, <2>b DEF Goto, Worker, D
  <2>2. CASE AcquireLock \/ LockTimeout
    BY <2>2, <2>b DEF AcquireLock, LockTimeout, Idle
  <2>5. CASE Load
    <3>1. Leave("abort") \/ worker' = [worker EXCEPT !.pc = "marking", !.plan = pipeline]
      BY <2>5 DEF Load
    <3>2. worker.pc # "idle"
      BY <2>5 DEF Load
    <3> QED
      BY <1>0, <2>a, <3>1, <3>2 DEF Worker, D
  <2>6. CASE MarkRunning
    <3>1. Leave("abort") \/ worker' = [worker EXCEPT !.pc = "stage", !.i = skip[D] + 1]
      BY <2>6 DEF MarkRunning
    <3>2. worker.pc # "idle"
      BY <2>6 DEF MarkRunning
    <3> QED
      BY <1>0, <2>a, <3>1, <3>2 DEF Worker, D
  <2>7. CASE StartStage
    BY <2>7, <2>a, <2>b DEF StartStage
  <2>3. ASSUME NEW ok \in BOOLEAN, NEW alive \in BOOLEAN, EndStage(ok, alive)
        PROVE  worker.pc # "idle" /\ worker'.d = D
    <3>1. \/ Leave("abort")
          \/ worker' = [worker EXCEPT !.pc = "stage", !.i = worker.i + 1]
          \/ Goto("failed")
      BY <2>3 DEF EndStage
    <3>2. worker.pc # "idle"
      BY <2>3 DEF EndStage
    <3> QED
      BY <1>0, <2>a, <2>b, <3>1, <3>2 DEF Worker, D
  <2>4. CASE Finish \/ Activate
    BY <2>4, <2>a DEF Finish, Activate
  <2>8. CASE Unlock
    BY <2>8 DEF Unlock, Idle
  <2> QED
    BY <1>2, <2>1, <2>2, <2>3, <2>4, <2>5, <2>6, <2>7, <2>8 DEF WorkerStep
<1>3. CASE Environment \/ EditPipeline
  <2>1. CASE Crash
    BY <2>1 DEF Crash, Dies, Idle
  <2>2. CASE ~Crash
    BY <1>3, <2>2 DEF Environment, EditPipeline, Stall, Expire, Redeliver, Reap, DeleteProject
  <2> QED
    BY <2>1, <2>2
<1>4. CASE UNCHANGED vars
  BY <1>4 DEF vars
<1> QED
  BY <1>1, <1>2, <1>3, <1>4 DEF Next

\* The queue loses its head to the worker, and gains what a request or the
\* stalled check adds to it; else a job changes in the worker's hands only.
LEMMA JobMoves ==
  ASSUME TypeOK, [Next]_vars
  PROVE  \/ UNCHANGED <<job, queue>>
         \/ Take
         \/ \E h \in Handlers : Enqueue(h)
         \/ \E d \in Id : Redeliver(d)
         \/ /\ UNCHANGED queue /\ worker.pc # "idle" /\ job[D] = "active"
            /\ \/ Unlock /\ worker.pc = "abort" /\ job' = [job EXCEPT ![D] = "failed"]
               \/ Unlock /\ worker.pc = "unlock" /\ job' = [job EXCEPT ![D] = "done"]
               \/ LockTimeout /\ job' = [job EXCEPT ![D] = "failed"]
               \/ (Stall \/ Crash) /\ job' = [job EXCEPT ![D] = "stalled"]
<1>1. CASE HandlerStep
  BY <1>1 DEF HandlerStep, Trigger, Rollback, ReadProject, CreateRow, Enqueue, WriteCancelled,
              Retry, Cancel, jobs
<1>2. CASE WorkerStep
  BY <1>2 DEF WorkerStep, Take, AcquireLock, LockTimeout, Load, MarkRunning, StartStage,
              EndStage, Finish, Activate, Unlock, Settle, jobs
<1>3. CASE Environment \/ EditPipeline
  <2>1. CASE Stall
    BY <2>1 DEF Stall, InLock
  <2>2. CASE ~Stall
    BY <1>3, <2>2 DEF Environment, EditPipeline, Crash, Dies, Expire, Redeliver, Reap,
                      DeleteProject, jobs
  <2> QED
    BY <2>1, <2>2
<1>4. CASE UNCHANGED vars
  BY <1>4 DEF vars, jobs
<1> QED
  BY <1>1, <1>2, <1>3, <1>4 DEF Next

\* A request that adds a job has just made its row, or is still as it was.
LEMMA EnqueueingMoves ==
  ASSUME TypeOK, RoomInv, [Next]_vars, NEW h \in Handlers, req'[h].pc = "enqueueing"
  PROVE  \/ req'[h] = req[h]
         \/ /\ CreateRow(h) /\ project # "deleted"
            /\ req'[h].d \in Id \ Created
            /\ \A g \in Handlers \ {h} : req'[g] = req[g]
<1>0. req \in [Handlers -> Request] /\ NoReq.pc = "idle"
  BY DEF TypeOK, Request, NoReq
<1>1. CASE UNCHANGED req
  BY <1>1
<1>2. CASE Crash
  BY <1>0, <1>2 DEF Crash, Dies
<1>3. ASSUME NEW g \in Handlers, NEW q, q.pc # "enqueueing", req' = [req EXCEPT ![g] = q]
      PROVE  req'[h] = req[h]
  BY <1>0, <1>3
<1>4. ASSUME NEW g \in Handlers, CreateRow(g), project # "deleted", g # h
      PROVE  req'[h] = req[h]
  BY <1>4, RowCreated
<1>5. ASSUME CreateRow(h), project # "deleted"
      PROVE  req'[h].d \in Id \ Created /\ \A g \in Handlers \ {h} : req'[g] = req[g]
  BY <1>5, RowCreated
<1>6. CASE HandlerStep
  <2> SUFFICES ASSUME NEW g \in Handlers, ~(CreateRow(g) /\ project # "deleted"),
                      \/ Trigger(g) \/ Rollback(g) \/ ReadProject(g) \/ CreateRow(g)
                      \/ Enqueue(g) \/ WriteCancelled(g)
                      \/ \E d \in Id : Retry(g, d) \/ Cancel(g, d)
               PROVE  \E q : q.pc # "enqueueing" /\ req' = [req EXCEPT ![g] = q]
    BY <1>3, <1>4, <1>5, <1>6 DEF HandlerStep
  <2>1. CASE ReadProject(g) /\ project # "deleted"
    <3> DEFINE q == [req[g] EXCEPT !.pc = "creating", !.len = Len(pipeline),
                                   !.version = Cardinality(Created) + 1]
    <3>1. req' = [req EXCEPT ![g] = q]
      BY <2>1 DEF ReadProject
    <3>2. req[g] \in Request
      BY <1>0
    <3>3. q.pc = "creating"
      BY <3>2 DEF Request
    <3> QED
      BY <3>1, <3>3
  <2>2. CASE ~(ReadProject(g) /\ project # "deleted")
    <3>1. \A k : [NoReq EXCEPT !.pc = "reading", !.skip = k].pc = "reading"
      BY DEF NoReq
    <3>2. \A d : [NoReq EXCEPT !.pc = "cancelling", !.d = d].pc = "cancelling"
      BY DEF NoReq
    <3> QED
      BY <1>0, <2>2, <3>1, <3>2
      DEF Trigger, Rollback, ReadProject, CreateRow, Enqueue, WriteCancelled, Retry, Cancel, Begin
  <2> QED
    BY <2>1, <2>2
<1>7. CASE ~HandlerStep /\ ~Crash
  BY <1>1, <1>7
  DEF Next, vars, WorkerStep, Take, AcquireLock, LockTimeout, Load, MarkRunning, StartStage,
      EndStage, Finish, Activate, Unlock, Environment, Stall, Expire, Redeliver, Reap,
      EditPipeline, DeleteProject
<1> QED
  BY <1>2, <1>6, <1>7

\* Every step keeps rows beneath whoever speaks of them.
LEMMA AttendedStep == TypeOK /\ RoomInv /\ Attended /\ [Next]_vars => Attended'
<1> SUFFICES ASSUME TypeOK, RoomInv, Attended, [Next]_vars, project' # "deleted"
             PROVE  /\ worker'.pc # "idle" => row'[worker'.d].status # "none"
                    /\ \A k \in 1..Len(queue') : row'[queue'[k]].status # "none"
                    /\ \A d \in Id : job'[d] # "none" => row'[d].status # "none"
                    /\ \A h \in Handlers :
                         req'[h].pc = "enqueueing" => row'[req'[h].d].status # "none"
  BY DEF Attended, D, Exists
<1> DEFINE There(d) == d \in Id /\ Exists(d)
<1>0. /\ worker.pc # "idle" => There(worker.d)
      /\ \A k \in 1..Len(queue) : There(queue[k])
      /\ \A d \in Id : job[d] # "none" => There(d)
      /\ \A h \in Handlers : req[h].pc = "enqueueing" => There(req[h].d)
  BY RowsStay, ElementOfSeq DEF Attended, TypeOK, D
<1>1. \A d : There(d) => row'[d].status # "none"
  BY RowsStay DEF Exists
<1>2. queue # <<>> => There(Head(queue))
  <2> SUFFICES ASSUME queue # <<>>  PROVE There(Head(queue))
    OBVIOUS
  <2>1. Head(queue) = queue[1] /\ 1 \in 1..Len(queue)
    BY TailOf DEF TypeOK
  <2> QED
    BY <1>0, <2>1
<1>3. \A h \in Handlers : Enqueue(h) => There(req[h].d)
  BY <1>0 DEF Enqueue
<1>4. ASSUME NEW h \in Handlers, req'[h].pc = "enqueueing"
      PROVE  row'[req'[h].d].status # "none"
  <2>1. CASE req'[h] = req[h]
    BY <1>0, <1>1, <1>4, <2>1
  <2>2. CASE CreateRow(h) /\ project # "deleted"
    BY <2>2, RowCreated
  <2> QED
    BY <1>4, <2>1, <2>2, EnqueueingMoves
<1>5. worker'.pc # "idle" => There(worker'.d)
  BY <1>0, <1>2, WorkerMoves DEF Take, D
<1>6. \A k \in 1..Len(queue') : There(queue'[k])
  <2>1. CASE UNCHANGED queue
    BY <1>0, <2>1
  <2>2. CASE Take
    <3>1. queue' = Tail(queue) /\ queue # <<>> /\ queue \in Seq(Id)
      BY <2>2 DEF Take, TypeOK
    <3>2. \A k \in 1..Len(queue') : k + 1 \in 1..Len(queue) /\ queue'[k] = queue[k + 1]
      BY <3>1, TailOf
    <3> HIDE DEF There
    <3> QED
      BY <1>0, <3>2
  <2>3. ASSUME NEW h \in Handlers, Enqueue(h)
        PROVE  \A k \in 1..Len(queue') : There(queue'[k])
    <3>1. There(req[h].d) /\ req[h].d \in Id /\ queue' = Append(queue, req[h].d)
      BY <1>3, <2>3 DEF Enqueue
    <3> HIDE DEF There
    <3> QED
      BY <1>0, <3>1, AppendProperties DEF TypeOK
  <2>4. ASSUME NEW d \in Id, Redeliver(d)
        PROVE  \A k \in 1..Len(queue') : There(queue'[k])
    <3>1. There(d) /\ (UNCHANGED queue \/ queue' = <<d>> \o queue)
      BY <1>0, <2>4 DEF Redeliver
    <3> HIDE DEF There
    <3>2. CASE UNCHANGED queue
      BY <1>0, <3>2
    <3>3. CASE queue' = <<d>> \o queue
      <4>1. /\ Len(queue') = Len(queue) + 1 /\ Len(queue) \in Nat
            /\ \A k \in 1..Len(queue') : queue'[k] = IF k = 1 THEN d ELSE queue[k - 1]
        BY <3>3, Prepended DEF TypeOK
      <4>2. \A k \in 1..Len(queue') : k = 1 \/ k - 1 \in 1..Len(queue)
        BY <4>1
      <4> QED
        BY <1>0, <3>1, <4>1, <4>2
    <3> QED
      BY <3>1, <3>2, <3>3
  <2> QED
    BY JobMoves, <2>1, <2>2, <2>3, <2>4
<1>7. \A d \in Id : job'[d] # "none" => There(d)
  <2> SUFFICES ASSUME NEW d \in Id, job'[d] # job[d]  PROVE job[d] # "none" \/ There(d)
    BY <1>0
  <2>1. job \in [Id -> {"none", "waiting", "active", "stalled", "done", "failed"}]
    BY DEF TypeOK
  <2>2. CASE Take
    BY <1>2, <2>1, <2>2 DEF Take
  <2>3. ASSUME NEW h \in Handlers, Enqueue(h)  PROVE There(d)
    BY <1>3, <2>1, <2>3 DEF Enqueue
  <2>4. ASSUME NEW e \in Id, Redeliver(e)  PROVE job[d] # "none"
    <3>1. /\ job[e] = "stalled"
          /\ job' \in {[job EXCEPT ![e] = "waiting"], [job EXCEPT ![e] = "failed"]}
      BY <2>4 DEF Redeliver
    <3> QED
      BY <2>1, <3>1
  <2>5. ASSUME job[D] = "active", NEW o, job' = [job EXCEPT ![D] = o]
        PROVE  job[d] # "none"
    BY <2>1, <2>5
  <2> HIDE DEF There
  <2> QED
    BY JobMoves, <2>2, <2>3, <2>4, <2>5
<1> HIDE DEF There
<1> QED
  BY <1>1, <1>4, <1>5, <1>6, <1>7

\* The worker's place in the stages changes with its steps only.
LEMMA ProgressFrame ==
  ASSUME Progress, UNCHANGED worker, row'[D] = row[D], skip'[D] = skip[D]
  PROVE  Progress'
BY DEF Progress, Exists, Passed, D

\* Every step keeps the worker's place and the row in agreement.
LEMMA ProgressStep == TypeOK /\ RoomInv /\ Attended /\ Progress /\ [Next]_vars => Progress'
<1> SUFFICES ASSUME TypeOK, RoomInv, Attended, Progress, [Next]_vars  PROVE Progress'
  OBVIOUS
<1> DEFINE Staged == {"stage", "running", "failed"}
<1>0. worker \in Worker
  BY DEF TypeOK, Worker
<1>a. ASSUME worker'.pc \notin Staged  PROVE Progress'
  BY <1>a DEF Progress
<1>1. ASSUME NEW h \in Handlers, CreateRow(h), project # "deleted"  PROVE Progress'
  <2>1. UNCHANGED worker
    BY <1>1 DEF CreateRow
  <2>2. CASE worker.pc = "idle"
    BY <1>a, <2>1, <2>2
  <2>3. CASE worker.pc # "idle"
    <3>1. D \in Created
      BY <1>1, <2>3 DEF Attended, Created, TypeOK, D
    <3>2. D \in Id /\ row'[D] = row[D] /\ skip'[D] = skip[D]
      BY <1>1, <3>1, RowCreated DEF Created
    <3> QED
      BY <2>1, <3>2, ProgressFrame
  <2> QED
    BY <2>2, <2>3
<1>2. ASSUME NEW h \in Handlers, WriteCancelled(h)  PROVE Progress'
  <2>1. CASE row' = row
    BY <1>2, <2>1, RowCancelled, ProgressFrame
  <2>2. ASSUME NEW d \in Id, Exists(d), row'[d].status = "CANCELLED",
               row'[d].stages = row[d].stages, \A e \in Id \ {d} : row'[e] = row[e]
        PROVE  Progress'
    <3>1. CASE worker.pc # "idle" /\ d # D
      <4>1. D \in Id
        BY <3>1 DEF TypeOK, D
      <4> QED
        BY <1>2, <2>2, <3>1, <4>1, RowCancelled, ProgressFrame
    <3>2. CASE d = D
      BY <1>2, <2>2, <3>2, RowCancelled DEF Progress, Exists, Passed, D
    <3>3. CASE worker.pc = "idle"
      BY <1>2, <1>a, <3>3, RowCancelled
    <3> QED
      BY <3>1, <3>2, <3>3
  <2> QED
    BY <1>2, <2>1, <2>2, RowCancelled
<1>3. CASE DeleteProject
  BY <1>3 DEF DeleteProject, Progress, Exists, NoRow, TypeOK, D
<1>4. CASE MarkRunning /\ Exists(D)
  <2>1. /\ worker'.pc = "stage" /\ worker'.d = D /\ worker'.i = skip[D] + 1
        /\ skip[D] \in Nat
    BY <1>0, <1>4, RowMarked DEF Worker, TypeOK, D
  <2>2. row'[worker'.d].status # "FAILED" /\ skip' = skip
    BY <1>4, <2>1, RowMarked DEF jobs
  <2> QED
    BY <2>1, <2>2 DEF Progress, D
<1>5. CASE StartStage /\ worker.i \in DOMAIN row[D].stages
  <2>1. /\ D \in Id /\ SetStage("RUNNING") /\ "RUNNING" \in StageStatus
        /\ worker.pc = "stage" /\ worker' = [worker EXCEPT !.pc = "running"] /\ skip' = skip
    BY <1>5 DEF StartStage, TypeOK, D, StageStatus, Goto, jobs
  <2>2. worker'.pc = "running" /\ worker'.d = D /\ worker'.i = worker.i /\ worker.i \in Nat
    BY <1>0, <2>1 DEF Worker, D
  <2>3. skip[D] \in Nat
    BY <2>1 DEF TypeOK
  <2> QED
    BY <1>5, <2>1, <2>2, <2>3, StageWritten DEF Progress, Exists, Passed, D
<1>6. ASSUME Exists(D), NEW ok \in BOOLEAN, NEW alive \in BOOLEAN, EndStage(ok, alive)
      PROVE  Progress'
  <2>1. PICK s \in {"SUCCESS", "SKIPPED", "FAILED"} :
          /\ SetStage(s)
          /\ worker' = IF s = "FAILED" THEN [worker EXCEPT !.pc = "failed"]
                       ELSE [worker EXCEPT !.pc = "stage", !.i = worker.i + 1]
    BY <1>6, StageEnded
  <2>2. /\ worker.pc = "running" /\ D \in Id /\ skip' = skip /\ s \in StageStatus
        /\ skip[D] \in Nat /\ worker.i \in Nat
    BY <1>0, <1>6, StageEnded DEF jobs, StageStatus, TypeOK, Worker
  <2>3. /\ row'[D].status = row[D].status
        /\ DOMAIN row'[D].stages = DOMAIN row[D].stages
        /\ \A j \in DOMAIN row[D].stages :
             row'[D].stages[j] = IF j = worker.i THEN s ELSE row[D].stages[j]
    BY <2>1, <2>2, StageWritten
  <2>4. /\ row[D].status # "FAILED" /\ worker.i \in DOMAIN row[D].stages
        /\ \A i \in skip[D] + 1 .. worker.i - 1 :
             i \in DOMAIN row[D].stages /\ row[D].stages[i] \in {"SUCCESS", "SKIPPED"}
    BY <1>6, <2>2 DEF Progress, Passed
  <2>5. CASE s = "FAILED"
    <3>1. worker'.pc = "failed" /\ worker'.d = D /\ worker'.i = worker.i
      BY <1>0, <2>1, <2>5 DEF Worker, D
    <3> QED
      BY <2>2, <2>3, <2>4, <2>5, <3>1 DEF Progress, Exists, Passed, D
  <2>6. CASE s # "FAILED"
    <3>1. worker'.pc = "stage" /\ worker'.d = D /\ worker'.i = worker.i + 1
      <4>1. worker' = [worker EXCEPT !.pc = "stage", !.i = worker.i + 1]
        BY <2>1, <2>6
      <4> QED
        BY <1>0, <4>1 DEF Worker, D
    <3>2. \A i \in skip[D] + 1 .. worker.i :
            i \in DOMAIN row'[D].stages /\ row'[D].stages[i] \in {"SUCCESS", "SKIPPED"}
      BY <2>2, <2>3, <2>4, <2>6
    <3>3. worker'.i - 1 = worker.i
      BY <2>2, <3>1
    <3> QED
      BY <2>2, <2>3, <2>4, <3>1, <3>2, <3>3 DEF Progress, Passed, D
  <2> QED
    BY <2>5, <2>6
<1>7. CASE Finish /\ Exists(D)
  BY <1>7, <1>a, RowFinished
<1>8. CASE UNCHANGED <<row, skip>>
  <2>1. CASE UNCHANGED worker
    BY <1>8, <2>1, ProgressFrame
  <2>2. CASE worker'.pc \notin Staged
    BY <1>a, <2>2
  <2>3. \/ worker' = worker
        \/ worker'.pc \notin Staged
        \/ MarkRunning /\ Exists(D)
        \/ StartStage /\ worker.i \in DOMAIN row[D].stages
        \/ Exists(D) /\ \E ok, alive \in BOOLEAN : EndStage(ok, alive)
    <3>a. ASSUME Leave("abort") \/ Leave("unlock") \/ Leave("activate")
          PROVE  worker'.pc \notin Staged
      BY <3>a DEF Leave, Idle
    <3>1. CASE Take \/ LockTimeout \/ Unlock \/ Crash
      <4>1. CASE Take
        BY <4>1 DEF Take, Idle
      <4>2. worker' = Idle => worker'.pc \notin Staged
        BY DEF Idle
      <4> QED
        BY <3>1, <4>1, <4>2 DEF LockTimeout, Unlock, Crash, Dies
    <3>2. CASE AcquireLock
      BY <1>0, <3>2 DEF AcquireLock, Goto, Worker
    <3>3. CASE Load
      <4>1. Leave("abort") \/ worker' = [worker EXCEPT !.pc = "marking", !.plan = pipeline]
        BY <3>3 DEF Load
      <4> QED
        BY <1>0, <3>a, <4>1 DEF Worker
    <3>4. CASE MarkRunning \/ StartStage \/ Finish \/ Activate
      BY <3>4, <3>a DEF MarkRunning, StartStage, Finish, Activate
    <3>5. ASSUME NEW ok \in BOOLEAN, NEW alive \in BOOLEAN, EndStage(ok, alive)
          PROVE  Exists(D) \/ worker'.pc \notin Staged
      BY <3>5, <3>a DEF EndStage
    <3>6. CASE HandlerStep
      BY <3>6 DEF HandlerStep, Trigger, Rollback, ReadProject, CreateRow, Enqueue,
                  WriteCancelled, Retry, Cancel
    <3>7. CASE ~Crash /\ (Environment \/ EditPipeline \/ UNCHANGED vars)
      BY <3>7 DEF Environment, EditPipeline, Stall, Expire, Redeliver, Reap, DeleteProject, vars
    <3> HIDE DEF Staged
    <3> QED
      BY <3>1, <3>2, <3>3, <3>4, <3>5, <3>6, <3>7 DEF Next, WorkerStep
  <2> QED
    BY <1>4, <1>5, <1>6, <2>1, <2>2, <2>3
<1> QED
  BY RowStep, <1>1, <1>2, <1>3, <1>4, <1>5, <1>6, <1>7, <1>8

\* A deployment that is not FAILED afterwards, or as it was, is no worry.
LEMMA RetryFrame ==
  ASSUME RetryTargetsFailure,
         \A d \in Id : \/ row'[d].status # "FAILED"
                       \/ row'[d] = row[d] /\ skip'[d] = skip[d]
  PROVE  RetryTargetsFailure'
BY DEF RetryTargetsFailure, Failures, Passed

\* Every step leaves FAILED deployments with the stage to resume from.
LEMMA RetryStep ==
  TypeOK /\ RoomInv /\ Progress /\ RetryTargetsFailure /\ [Next]_vars
    => RetryTargetsFailure'
<1> SUFFICES ASSUME TypeOK, RoomInv, Progress, RetryTargetsFailure, [Next]_vars
             PROVE  RetryTargetsFailure'
  OBVIOUS
<1>1. CASE UNCHANGED <<row, skip>>
  BY <1>1, RetryFrame
<1>2. ASSUME NEW h \in Handlers, CreateRow(h), project # "deleted"
      PROVE  RetryTargetsFailure'
  <2>1. PICK d \in Id : /\ row'[d].status = "QUEUED"
                       /\ \A e \in Id \ {d} : row'[e] = row[e] /\ skip'[e] = skip[e]
    BY <1>2, RowCreated
  <2> QED
    BY <2>1, RetryFrame
<1>3. ASSUME NEW h \in Handlers, WriteCancelled(h)  PROVE RetryTargetsFailure'
  <2>1. UNCHANGED skip
    BY <1>3, RowCancelled
  <2>2. \/ row' = row
        \/ \E d \in Id : row'[d].status = "CANCELLED" /\ \A e \in Id \ {d} : row'[e] = row[e]
    BY <1>3, RowCancelled
  <2> QED
    BY <2>1, <2>2, RetryFrame
<1>4. CASE DeleteProject
  BY <1>4, RetryFrame DEF DeleteProject, NoRow
<1>5. CASE MarkRunning /\ Exists(D)
  <2>1. UNCHANGED skip /\ row'[D].status = "RUNNING" /\ \A e \in Id \ {D} : row'[e] = row[e]
    BY <1>5, RowMarked DEF jobs
  <2> QED
    BY <2>1, RetryFrame
<1>6. ASSUME worker.pc \in {"stage", "running"}, D \in Id, UNCHANGED skip,
             NEW s \in StageStatus, SetStage(s)
      PROVE  RetryTargetsFailure'
  <2>1. row'[D].status = row[D].status /\ \A e \in Id \ {D} : row'[e] = row[e]
    BY <1>6, StageWritten
  <2>2. row[D].status # "FAILED"
    BY <1>6 DEF Progress, Exists
  <2> QED
    BY <1>6, <2>1, <2>2, RetryFrame
<1>7. CASE StartStage /\ worker.i \in DOMAIN row[D].stages
  BY <1>6, <1>7 DEF StartStage, TypeOK, D, StageStatus, jobs
<1>8. ASSUME Exists(D), NEW ok \in BOOLEAN, NEW alive \in BOOLEAN, EndStage(ok, alive)
      PROVE  RetryTargetsFailure'
  <2>1. PICK s \in {"SUCCESS", "SKIPPED", "FAILED"} : SetStage(s)
    BY <1>8, StageEnded
  <2> QED
    BY <1>6, <1>8, <2>1, StageEnded DEF StageStatus, jobs
<1>9. CASE Finish /\ Exists(D)
  <2>0. /\ D \in Id /\ UNCHANGED skip /\ row'[D].stages = row[D].stages
        /\ \A e \in Id \ {D} : row'[e] = row[e]
    BY <1>9, RowFinished DEF jobs
  <2>1. CASE row'[D].status # "FAILED"
    BY <2>0, <2>1, RetryFrame
  <2>2. CASE row'[D].status = "FAILED"
    <3>1. worker.pc = "failed"
      BY <1>9, <2>2, RowFinished
    <3>2. /\ worker.i \in Failures(D)
          /\ \A i \in skip[D] + 1 .. worker.i - 1 : Passed(D, i)
      BY <1>9, <3>1 DEF Progress, Failures
    <3>3. Failures(D) \in SUBSET Nat /\ skip[D] \in Nat
      BY <2>0, LenProperties DEF Failures, TypeOK
    <3>4. Least(Failures(D)) \in Nat /\ Least(Failures(D)) <= worker.i /\ worker.i \in Nat
      BY <3>2, <3>3, LeastOf
    <3>5. \A i \in skip[D] + 1 .. Least(Failures(D)) - 1 : Passed(D, i)
      BY <3>2, <3>3, <3>4
    <3>6. \A d \in Id : row'[d].stages = row[d].stages
      BY <2>0
    <3>7. ASSUME NEW d \in Id, row'[d].status = "FAILED"
          PROVE  /\ Failures(d) # {}
                 /\ \A i \in skip[d] + 1 .. Least(Failures(d)) - 1 : Passed(d, i)
      <4>1. CASE d = D
        BY <3>2, <3>5, <4>1
      <4>2. CASE d # D
        BY <2>0, <3>7, <4>2 DEF RetryTargetsFailure
      <4> QED
        BY <4>1, <4>2
    <3> QED
      BY <2>0, <3>6, <3>7 DEF RetryTargetsFailure, Failures, Passed
  <2> QED
    BY <2>1, <2>2
<1> QED
  BY RowStep, <1>1, <1>2, <1>3, <1>4, <1>5, <1>7, <1>8, <1>9

\* The stages' invariant is inductive.
LEMMA StagesInductive == Spec => []StageInv
<1>1. Init => StageInv
  <2> SUFFICES ASSUME Init  PROVE StageInv
    OBVIOUS
  <2>1. worker.pc = "idle" /\ Len(queue) = 0 /\ \A d \in Id : row[d].status = "none"
    BY DEF Init, Idle, NoRow
  <2>2. Attended
    BY <2>1 DEF Init, Attended, NoReq
  <2>3. Progress /\ RetryTargetsFailure
    BY <2>1 DEF Progress, RetryTargetsFailure
  <2> QED
    BY <2>2, <2>3, TypeInit, RoomInit DEF StageInv
<1>2. StageInv /\ [Next]_vars => StageInv'
  <2>1. TypeOK /\ RoomInv /\ [Next]_vars => TypeOK'
    <3>1. TypeOK /\ UNCHANGED vars => TypeOK'
      BY DEF vars, rows, jobs, TypeOK
    <3> QED
      BY <3>1, HandlerType, WorkerType, EnvironmentType DEF Next
  <2> QED
    BY <2>1, RoomStep, AttendedStep, ProgressStep, RetryStep DEF StageInv
<1> QED
  BY <1>1, <1>2, PTL DEF Spec

(***************************************************************************)
(* SUCCESS is written only when all stages the job had to run have passed. *)
(***************************************************************************)
THEOREM SuccessIsEarned == Spec => SuccessEarned
<1>1. StageInv /\ [Next]_vars => SuccessEarnedStep
  <2> SUFFICES ASSUME StageInv, [Next]_vars, NEW d \in Id,
                      row'[d].status = "SUCCESS", row[d].status # "SUCCESS"
               PROVE  \A i \in skip[d] + 1 .. Len(worker.plan) : Passed(d, i)
    BY DEF SuccessEarnedStep
  <2> USE DEF StageInv
  <2>1. CASE UNCHANGED <<row, skip>>
    BY <2>1
  <2>2. ASSUME NEW h \in Handlers, CreateRow(h), project # "deleted"  PROVE FALSE
    BY <2>2, RowCreated
  <2>3. ASSUME NEW h \in Handlers, WriteCancelled(h)  PROVE FALSE
    BY <2>3, RowCancelled
  <2>4. CASE DeleteProject
    BY <2>4 DEF DeleteProject, NoRow
  <2>5. CASE MarkRunning /\ Exists(D)
    BY <2>5, RowMarked
  <2>6. CASE StartStage /\ worker.i \in DOMAIN row[D].stages
    <3>1. D \in Id /\ SetStage("RUNNING") /\ "RUNNING" \in StageStatus
      BY <2>6 DEF StartStage, TypeOK, D, StageStatus
    <3> QED
      BY <3>1, StageWritten
  <2>7. ASSUME Exists(D), NEW ok \in BOOLEAN, NEW alive \in BOOLEAN, EndStage(ok, alive)
        PROVE  FALSE
    <3>1. PICK s \in {"SUCCESS", "SKIPPED", "FAILED"} : SetStage(s)
      BY <2>7, StageEnded
    <3> QED
      BY <2>7, <3>1, StageEnded, StageWritten DEF StageStatus
  <2>8. CASE Finish /\ Exists(D)
    <3>1. d = D /\ worker.pc = "stage" /\ worker.i > Len(worker.plan)
      BY <2>8, RowFinished
    <3>2. \A i \in skip[d] + 1 .. worker.i - 1 : Passed(d, i)
      BY <2>8, <3>1 DEF Progress
    <3>3. Len(worker.plan) \in Nat /\ worker.i \in Nat /\ skip[d] \in Nat
      BY PlanLength DEF TypeOK
    <3> QED
      BY <3>1, <3>2, <3>3
  <2> QED
    BY RowStep, <2>1, <2>2, <2>3, <2>4, <2>5, <2>6, <2>7, <2>8
<1> QED
  BY <1>1, StagesInductive, PTL DEF Spec, SuccessEarned

----------------------------------------------------------------------------
(* Completed jobs.                                                         *)

\* A job is in the queue once at most, and only while it waits; what the
\* worker has in hand is not completed, and no two requests add one job.
QueueInv ==
  /\ \A k \in 1..Len(queue) : job[queue[k]] = "waiting"
  /\ \A k, l \in 1..Len(queue) : queue[k] = queue[l] => k = l
  /\ worker.pc # "idle" => job[D] \notin {"done", "none"}
  /\ \A h \in Handlers : req[h].pc = "enqueueing" => job[req[h].d] = "none"
  /\ \A h, g \in Handlers :
       req[h].pc = "enqueueing" /\ req[g].pc = "enqueueing" /\ req[h].d = req[g].d => h = g

\* What the worker leaves behind without an exception is settled.
LeftSettled ==
  worker.pc \in {"activate", "unlock"} /\ Exists(D) => row[D].status \in Terminal

JobInv == StageInv /\ QueueInv /\ LeftSettled /\ CompletedJobSettlesRow

\* Every step keeps jobs in the queue once, and only while they wait.
LEMMA QueueStep == StageInv /\ QueueInv /\ [Next]_vars => QueueInv'
<1> SUFFICES ASSUME StageInv, QueueInv, [Next]_vars  PROVE QueueInv'
  OBVIOUS
<1> USE DEF StageInv
<1>0. /\ job \in [Id -> {"none", "waiting", "active", "stalled", "done", "failed"}]
      /\ queue \in Seq(Id) /\ Len(queue) \in Nat
      /\ \A k \in 1..Len(queue) : queue[k] \in Id
      /\ worker.pc # "idle" => D \in Id
      /\ \A h \in Handlers : req[h].pc = "enqueueing" => req[h].d \in Id
  BY LenProperties, ElementOfSeq DEF TypeOK, D
<1>1. /\ \A k \in 1..Len(queue') : job'[queue'[k]] = "waiting"
      /\ \A k, l \in 1..Len(queue') : queue'[k] = queue'[l] => k = l
  <2>1. CASE UNCHANGED <<job, queue>>
    BY <2>1 DEF QueueInv
  <2>2. CASE Take
    <3>1. /\ queue' = Tail(queue) /\ job' = [job EXCEPT ![queue[1]] = "active"]
          /\ 1 \in 1..Len(queue)
          /\ \A k \in 1..Len(queue') : k + 1 \in 1..Len(queue) /\ queue'[k] = queue[k + 1]
      BY <1>0, <2>2, TailOf DEF Take
    <3>2. \A k \in 1..Len(queue') : queue[k + 1] # queue[1]
      BY <3>1 DEF QueueInv
    <3>3. \A k, l \in 1..Len(queue') : queue'[k] = queue'[l] => k = l
      <4> SUFFICES ASSUME NEW k \in 1..Len(queue'), NEW l \in 1..Len(queue'),
                          queue'[k] = queue'[l]
                   PROVE  k = l
        OBVIOUS
      <4>1. k + 1 = l + 1
        BY <3>1 DEF QueueInv
      <4> QED
        BY <4>1
    <3> QED
      BY <1>0, <3>1, <3>2, <3>3 DEF QueueInv
  <2>3. ASSUME NEW h \in Handlers, Enqueue(h)
        PROVE  /\ \A k \in 1..Len(queue') : job'[queue'[k]] = "waiting"
               /\ \A k, l \in 1..Len(queue') : queue'[k] = queue'[l] => k = l
    <3>1. /\ queue' = Append(queue, req[h].d) /\ job' = [job EXCEPT ![req[h].d] = "waiting"]
          /\ req[h].d \in Id /\ job[req[h].d] = "none"
      BY <1>0, <2>3 DEF Enqueue, QueueInv
    <3>2. /\ Len(queue') = Len(queue) + 1
          /\ \A k \in 1..Len(queue) : queue'[k] = queue[k]
          /\ queue'[Len(queue) + 1] = req[h].d
      BY <1>0, <3>1, AppendProperties
    <3>3. \A k \in 1..Len(queue) : queue[k] # req[h].d
      BY <3>1 DEF QueueInv
    <3>4. \A k \in 1..Len(queue') : k \in 1..Len(queue) \/ k = Len(queue) + 1
      BY <1>0, <3>2
    <3>5. \A k, l \in 1..Len(queue') : queue'[k] = queue'[l] => k = l
      BY <3>2, <3>3, <3>4 DEF QueueInv
    <3>6. \A k \in 1..Len(queue') : job'[queue'[k]] = "waiting"
      BY <1>0, <3>1, <3>2, <3>4 DEF QueueInv
    <3> QED
      BY <3>5, <3>6
  <2>4. ASSUME NEW d \in Id, Redeliver(d)
        PROVE  /\ \A k \in 1..Len(queue') : job'[queue'[k]] = "waiting"
               /\ \A k, l \in 1..Len(queue') : queue'[k] = queue'[l] => k = l
    <3>1. /\ job[d] = "stalled"
          /\ \/ queue' = queue /\ job' = [job EXCEPT ![d] = "failed"]
             \/ queue' = <<d>> \o queue /\ job' = [job EXCEPT ![d] = "waiting"]
      BY <2>4 DEF Redeliver
    <3>2. \A k \in 1..Len(queue) : queue[k] # d
      BY <3>1 DEF QueueInv
    <3>3. CASE queue' = queue /\ job' = [job EXCEPT ![d] = "failed"]
      BY <1>0, <3>2, <3>3 DEF QueueInv
    <3>4. CASE queue' = <<d>> \o queue /\ job' = [job EXCEPT ![d] = "waiting"]
      <4>1. /\ Len(queue') = Len(queue) + 1
            /\ \A k \in 1..Len(queue') : queue'[k] = IF k = 1 THEN d ELSE queue[k - 1]
        BY <1>0, <3>4, Prepended
      <4>2. \A k \in 1..Len(queue') : k = 1 \/ k - 1 \in 1..Len(queue)
        BY <1>0, <4>1
      <4>3. \A k \in 1..Len(queue') : job'[queue'[k]] = "waiting"
        BY <1>0, <3>4, <4>1, <4>2 DEF QueueInv
      <4>4. \A k, l \in 1..Len(queue') : queue'[k] = queue'[l] => k = l
        <5> SUFFICES ASSUME NEW k \in 1..Len(queue'), NEW l \in 1..Len(queue'),
                            queue'[k] = queue'[l]
                     PROVE  k = l
          OBVIOUS
        <5>1. CASE k = 1 \/ l = 1
          BY <3>2, <4>1, <4>2, <5>1
        <5>2. CASE k # 1 /\ l # 1
          <6>1. k - 1 \in 1..Len(queue) /\ l - 1 \in 1..Len(queue)
            BY <4>2, <5>2
          <6>2. queue[k - 1] = queue[l - 1]
            BY <4>1, <5>2
          <6>3. k - 1 = l - 1
            BY <6>1, <6>2 DEF QueueInv
          <6> QED
            BY <6>3
        <5> QED
          BY <5>1, <5>2
      <4> QED
        BY <4>3, <4>4
    <3> QED
      BY <3>1, <3>3, <3>4
  <2>5. ASSUME queue' = queue, job[D] = "active", NEW o, job' = [job EXCEPT ![D] = o]
        PROVE  /\ \A k \in 1..Len(queue') : job'[queue'[k]] = "waiting"
               /\ \A k, l \in 1..Len(queue') : queue'[k] = queue'[l] => k = l
    BY <1>0, <2>5 DEF QueueInv
  <2> QED
    BY JobMoves, <2>1, <2>2, <2>3, <2>4, <2>5
<1>2. \A d \in Id : job[d] \notin {"done", "none"} =>
        job'[d] \notin {"done", "none"} \/ (Unlock /\ d = D)
  <2> SUFFICES ASSUME NEW d \in Id, job'[d] # job[d], job[d] # "none", ~(Unlock /\ d = D)
               PROVE  job'[d] \notin {"done", "none"}
    OBVIOUS
  <2>1. CASE Take
    BY <1>0, <2>1, TailOf DEF Take
  <2>2. ASSUME NEW h \in Handlers, Enqueue(h)  PROVE job'[d] \notin {"done", "none"}
    BY <1>0, <2>2 DEF Enqueue
  <2>3. ASSUME NEW e \in Id, Redeliver(e)  PROVE job'[d] \notin {"done", "none"}
    BY <1>0, <2>3 DEF Redeliver
  <2>4. ASSUME worker.pc # "idle", NEW o, job' = [job EXCEPT ![D] = o]
        PROVE  d = D /\ job'[d] = o
    BY <1>0, <2>4
  <2> QED
    BY JobMoves, <2>1, <2>2, <2>3, <2>4
<1>3. worker'.pc # "idle" => job'[worker'.d] \notin {"done", "none"}
  <2>1. Unlock => worker'.pc = "idle"
    BY DEF Unlock, Idle
  <2>2. CASE worker.pc # "idle" /\ worker'.d = D
    BY <1>0, <1>2, <2>1, <2>2 DEF QueueInv
  <2>3. CASE Take /\ worker'.d = Head(queue)
    BY <1>0, <2>3, TailOf DEF Take
  <2> QED
    BY WorkerMoves, <2>2, <2>3 DEF D
<1>4. ASSUME NEW h \in Handlers, req'[h].pc = "enqueueing"
      PROVE  job'[req'[h].d] = "none"
  <2>1. CASE req'[h] = req[h]
    <3> DEFINE d == req[h].d
    <3>1. job[d] = "none" /\ d \in Id
      BY <1>0, <1>4, <2>1 DEF QueueInv
    <3>2. ~Enqueue(h)
      BY <1>4, <2>1 DEF Enqueue, NoReq, TypeOK
    <3>3. \A g \in Handlers : Enqueue(g) => job'[d] = job[d]
      <4> SUFFICES ASSUME NEW g \in Handlers, Enqueue(g)  PROVE job'[d] = job[d]
        OBVIOUS
      <4>1. req[g].pc = "enqueueing" /\ job' = [job EXCEPT ![req[g].d] = "waiting"] /\ g # h
        BY <3>2 DEF Enqueue
      <4>2. req[g].d # d
        BY <1>4, <2>1, <4>1 DEF QueueInv
      <4> QED
        BY <1>0, <3>1, <4>1, <4>2
    <3>4. Take => job'[d] = job[d]
      BY <1>0, <3>1, TailOf DEF Take, QueueInv
    <3>5. \A e \in Id : Redeliver(e) => job'[d] = job[d]
      BY <1>0, <3>1 DEF Redeliver
    <3> HIDE DEF d
    <3>6. ASSUME job[D] = "active", NEW o, job' = [job EXCEPT ![D] = o]
          PROVE  job'[d] = job[d]
      BY <1>0, <3>1, <3>6
    <3>7. job'[d] = job[d]
      BY JobMoves, <3>3, <3>4, <3>5, <3>6
    <3> QED
      BY <2>1, <3>1, <3>7 DEF d
  <2>2. CASE CreateRow(h) /\ project # "deleted" /\ req'[h].d \in Id \ Created
    <3>1. job' = job
      BY <2>2 DEF CreateRow
    <3> QED
      BY <2>2, <3>1 DEF Attended, Created
  <2> QED
    BY <1>4, <2>1, <2>2, EnqueueingMoves
<1>5. ASSUME NEW h \in Handlers, NEW g \in Handlers, req'[h].pc = "enqueueing",
             req'[g].pc = "enqueueing", req'[h].d = req'[g].d
      PROVE  h = g
  <2>1. CASE req'[h] = req[h] /\ req'[g] = req[g]
    BY <1>5, <2>1 DEF QueueInv
  <2>2. ASSUME NEW i \in Handlers, NEW j \in Handlers, i # j, project # "deleted",
               req'[i].d \in Id \ Created, req'[j] = req[j], req'[j].pc = "enqueueing",
               req'[i].d = req'[j].d
        PROVE  FALSE
    BY <2>2 DEF Attended, Created
  <2> QED
    BY <1>5, <2>1, <2>2, EnqueueingMoves
<1> QED
  BY <1>1, <1>3, <1>4, <1>5 DEF QueueInv, D

\* A project that is deleted gets no more rows.
LEMMA NothingReturns ==
  ASSUME TypeOK, RoomInv, [Next]_vars, project = "deleted", NEW d \in Id, ~Exists(d)
  PROVE  ~Exists(d)'
<1>1. CASE UNCHANGED <<row, skip>>
  BY <1>1 DEF Exists
<1>2. ASSUME NEW h \in Handlers, WriteCancelled(h)  PROVE ~Exists(d)'
  BY <1>2, RowCancelled DEF Exists
<1>3. CASE DeleteProject
  BY <1>3 DEF DeleteProject
<1>4. CASE MarkRunning /\ Exists(D)
  BY <1>4, RowMarked DEF Exists
<1>5. CASE StartStage /\ worker.i \in DOMAIN row[D].stages
  <2>1. D \in Id /\ SetStage("RUNNING") /\ "RUNNING" \in StageStatus
    BY <1>5 DEF StartStage, TypeOK, D, StageStatus
  <2> QED
    BY <2>1, StageWritten DEF Exists
<1>6. ASSUME Exists(D), NEW ok \in BOOLEAN, NEW alive \in BOOLEAN, EndStage(ok, alive)
      PROVE  ~Exists(d)'
  <2>1. PICK s \in {"SUCCESS", "SKIPPED", "FAILED"} : SetStage(s)
    BY <1>6, StageEnded
  <2>2. s \in StageStatus /\ D \in Id
    BY <1>6, StageEnded DEF StageStatus
  <2> QED
    BY <2>1, <2>2, StageWritten DEF Exists
<1>7. CASE Finish /\ Exists(D)
  BY <1>7, RowFinished DEF Exists
<1> QED
  BY RowStep, <1>1, <1>2, <1>3, <1>4, <1>5, <1>6, <1>7

\* A row a job has settled stays settled, unless the job runs again.
LEMMA SettledKept ==
  ASSUME TypeOK, RoomInv, [Next]_vars, NEW d \in Id, Exists(d), row[d].status \in Terminal,
         ~ (MarkRunning /\ d = D)
  PROVE  ~Exists(d)' \/ row'[d].status \in Terminal
<1>1. CASE UNCHANGED <<row, skip>>
  BY <1>1
<1>2. ASSUME NEW h \in Handlers, CreateRow(h), project # "deleted"
      PROVE  row'[d].status \in Terminal
  BY <1>2, RowCreated DEF Created
<1>3. ASSUME NEW h \in Handlers, WriteCancelled(h)  PROVE row'[d].status \in Terminal
  BY <1>3, RowCancelled DEF Terminal
<1>4. CASE DeleteProject
  BY <1>4 DEF DeleteProject, NoRow, Exists
<1>5. CASE MarkRunning /\ Exists(D)
  BY <1>5, RowMarked
<1>6. CASE StartStage /\ worker.i \in DOMAIN row[D].stages
  <2>1. D \in Id /\ SetStage("RUNNING") /\ "RUNNING" \in StageStatus
    BY <1>6 DEF StartStage, TypeOK, D, StageStatus
  <2> QED
    BY <2>1, StageWritten
<1>7. ASSUME Exists(D), NEW ok \in BOOLEAN, NEW alive \in BOOLEAN, EndStage(ok, alive)
      PROVE  row'[d].status \in Terminal
  <2>1. PICK s \in {"SUCCESS", "SKIPPED", "FAILED"} : SetStage(s)
    BY <1>7, StageEnded
  <2>2. s \in StageStatus /\ D \in Id
    BY <1>7, StageEnded DEF StageStatus
  <2> QED
    BY <2>1, <2>2, StageWritten
<1>8. CASE Finish /\ Exists(D)
  BY <1>8, RowFinished DEF Terminal
<1> QED
  BY RowStep, <1>1, <1>2, <1>3, <1>4, <1>5, <1>6, <1>7, <1>8

\* The worker comes to the end of its job with a settled row.
LEMMA LeftStep == StageInv /\ LeftSettled /\ [Next]_vars => LeftSettled'
<1> SUFFICES ASSUME StageInv, LeftSettled, [Next]_vars,
                    worker'.pc \in {"activate", "unlock"}, row'[worker'.d].status # "none"
             PROVE  row'[worker'.d].status \in Terminal
  BY DEF LeftSettled, Exists, D
<1> USE DEF StageInv
<1>0. /\ worker \in Worker /\ row \in [Id -> Deployment]
      /\ worker.pc # "idle" => D \in Id
  BY DEF TypeOK, Worker, Deployment, Status, D
<1>1. CASE Finish /\ Exists(D)
  BY <1>1, RowFinished DEF Terminal
<1>2. CASE worker.pc \in {"activate", "unlock"} /\ worker'.d = D
  <2>1. CASE Exists(D)
    BY <1>0, <1>2, <2>1, SettledKept DEF LeftSettled, MarkRunning, Exists
  <2>2. CASE ~Exists(D)
    <3>1. D \in Id /\ project = "deleted"
      BY <1>0, <1>2, <2>2 DEF Attended
    <3>2. row'[D].status = "none"
      BY <2>2, <3>1, NothingReturns DEF Exists
    <3> QED
      BY <1>2, <3>2
  <2> QED
    BY <2>1, <2>2
<1>3. (worker.pc \in {"activate", "unlock"} /\ worker'.d = D) \/ (Finish /\ Exists(D))
  <2>a. ~Leave("abort") /\ ~(\E p \in {"loading", "running", "failed"} : Goto(p))
    BY <1>0 DEF Leave, Idle, Goto, Worker
  <2>b. worker' # Idle
    BY DEF Idle
  <2>c. \A n : /\ worker' # [worker EXCEPT !.pc = "stage", !.i = n]
              /\ worker' # [worker EXCEPT !.pc = "marking", !.plan = n]
    <3> SUFFICES ASSUME NEW n
                 PROVE  /\ [worker EXCEPT !.pc = "stage", !.i = n].pc = "stage"
                        /\ [worker EXCEPT !.pc = "marking", !.plan = n].pc = "marking"
      OBVIOUS
    <3> QED
      BY <1>0 DEF Worker
  <2>1. ~Take /\ ~AcquireLock /\ ~LockTimeout /\ ~Load /\ ~MarkRunning /\ ~StartStage
        /\ ~Unlock /\ ~Crash
    <3>1. ~Take
      BY DEF Take, Idle
    <3> QED
      BY <2>a, <2>b, <2>c, <3>1 DEF AcquireLock, LockTimeout, Load, MarkRunning, StartStage,
         Unlock, Crash, Dies
  <2>2. \A ok, alive \in BOOLEAN : ~EndStage(ok, alive)
    BY <2>a, <2>c DEF EndStage
  <2>3. Finish => Exists(D)
    BY <2>a DEF Finish
  <2>4. Activate => worker.pc = "activate" /\ worker'.d = D
    BY <2>a DEF Activate, Leave, Idle
  <2>5. ~WorkerStep => UNCHANGED worker
    BY <2>1 DEF Next, vars, HandlerStep, Trigger, Rollback, ReadProject, CreateRow, Enqueue,
       WriteCancelled, Retry, Cancel, Environment, Stall, Expire, Redeliver, Reap, EditPipeline,
       DeleteProject
  <2> QED
    BY <2>1, <2>2, <2>3, <2>4, <2>5 DEF WorkerStep, D
<1> QED
  BY <1>1, <1>2, <1>3

\* Every step keeps completed jobs' rows settled.
LEMMA DoneStep ==
  JobInv /\ [Next]_vars => CompletedJobSettlesRow'
<1> SUFFICES ASSUME JobInv, [Next]_vars, NEW d \in Id, Exists(d)', job'[d] = "done"
             PROVE  row'[d].status \in Terminal
  BY DEF CompletedJobSettlesRow, Created, Exists
<1> USE DEF JobInv, StageInv
<1>0. /\ job \in [Id -> {"none", "waiting", "active", "stalled", "done", "failed"}]
      /\ worker.pc # "idle" => D \in Id
  BY DEF TypeOK, D
<1>1. CASE job[d] = "done"
  <2>1. project # "deleted" => Exists(d)
    BY <1>1 DEF Attended
  <2>2. CASE Exists(d)
    <3>1. ~ (MarkRunning /\ d = D)
      BY <1>1 DEF MarkRunning, QueueInv
    <3>2. row[d].status \in Terminal
      BY <1>1, <2>2 DEF CompletedJobSettlesRow, Created
    <3> QED
      BY <2>2, <3>1, <3>2, SettledKept
  <2>3. CASE ~Exists(d)
    <3>1. project = "deleted"
      BY <2>1, <2>3
    <3> QED
      BY <2>3, <3>1, NothingReturns
  <2> QED
    BY <2>2, <2>3
<1>2. CASE job[d] # "done"
  <2>1. Unlock /\ worker.pc = "unlock" /\ d = D
    <3>1. ~Take
      BY <1>0, <1>2, TailOf DEF Take, TypeOK
    <3>2. \A h \in Handlers : ~Enqueue(h)
      BY <1>0, <1>2 DEF Enqueue, TypeOK
    <3>3. \A e \in Id : ~Redeliver(e)
      BY <1>0, <1>2 DEF Redeliver
    <3>4. ASSUME worker.pc # "idle", NEW o, job' = [job EXCEPT ![D] = o]
          PROVE  d = D /\ o = "done"
      BY <1>0, <1>2, <3>4
    <3> QED
      BY <1>2, JobMoves, <3>1, <3>2, <3>3, <3>4
  <2>2. row' = row
    BY <2>1 DEF Unlock, rows
  <2> QED
    BY <2>1, <2>2 DEF LeftSettled, Exists
<1> QED
  BY <1>1, <1>2

\* The jobs' invariant is inductive.
LEMMA JobsInductive == Spec => []JobInv
<1>1. Init => QueueInv /\ LeftSettled /\ CompletedJobSettlesRow
  <2> SUFFICES ASSUME Init  PROVE QueueInv /\ LeftSettled /\ CompletedJobSettlesRow
    OBVIOUS
  <2>1. /\ worker.pc = "idle" /\ queue = <<>> /\ \A d \in Id : job[d] = "none"
        /\ \A h \in Handlers : req[h].pc = "idle"
    BY DEF Init, Idle, NoReq
  <2> QED
    BY <2>1 DEF QueueInv, LeftSettled, CompletedJobSettlesRow, Created
<1>2. StageInv /\ QueueInv /\ LeftSettled /\ CompletedJobSettlesRow /\ [Next]_vars
        => (QueueInv /\ LeftSettled /\ CompletedJobSettlesRow)'
  BY QueueStep, LeftStep, DoneStep DEF JobInv
<1> QED
  BY <1>1, <1>2, StagesInductive, PTL DEF Spec, JobInv

(***************************************************************************)
(* A deployment whose job BullMQ counts as completed has a terminal        *)
(* status, whatever was delivered twice, cancelled or taken away meanwhile.*)
(***************************************************************************)
THEOREM CompletedJobSettles == Spec => []CompletedJobSettlesRow
<1>1. JobInv => CompletedJobSettlesRow
  BY DEF JobInv
<1> QED
  BY <1>1, JobsInductive, PTL

----------------------------------------------------------------------------
(* Skipped stages.                                                         *)

\* The first delivery of a deployment's job is over.
Over(d) ==
  /\ job[d] \notin {"none", "waiting"}
  /\ ~ (D = d /\ worker.pc \notin {"idle", "activate", "unlock", "abort"})

\* A later job may skip the stage, and nothing but a second delivery of this
\* one runs it again.
Past(d, i) ==
  /\ i \in DOMAIN row[d].stages
  /\ stalls[d] > 0 \/ (Passed(d, i) /\ Over(d))

\* Rows are numbered without a gap, and go with the project; a FAILED deployment is over; and who
\* skips stages, or is about to, can name an earlier row for each.
SkipInv ==
  /\ project = "deleted" => Created = {}
  /\ \A d \in Created, e \in Id : e < d => e \in Created
  /\ \A d \in Created : row[d].status = "FAILED" => stalls[d] > 0 \/ Over(d)
  /\ worker.pc # "idle" /\ job[D] = "waiting" => stalls[D] > 0
  /\ \A d \in Created : \A i \in 1..skip[d] : \E e \in Created : e < d /\ Past(e, i)
  /\ \A h \in InFlight : project # "deleted" =>
       \A i \in 1..req[h].skip : \E e \in Created : Past(e, i)

\* A stalled counter is never reset.
LEMMA StallsKept ==
  ASSUME TypeOK, [Next]_vars, NEW d \in Id, stalls[d] > 0
  PROVE  stalls'[d] > 0
<1>1. CASE UNCHANGED stalls
  BY <1>1
<1>2. ASSUME NEW e \in Id, Redeliver(e)  PROVE stalls'[d] > 0
  <2>1. UNCHANGED stalls \/ stalls' = [stalls EXCEPT ![e] = 1]
    BY <1>2 DEF Redeliver
  <2>2. stalls \in [Id -> 0..1]
    BY DEF TypeOK
  <2> QED
    BY <2>1, <2>2
<1>3. UNCHANGED stalls \/ \E e \in Id : Redeliver(e)
  BY DEF Next, vars, jobs, HandlerStep, Trigger, Rollback, ReadProject, CreateRow, Enqueue,
     WriteCancelled, Retry, Cancel, WorkerStep, Take, AcquireLock, LockTimeout, Load,
     MarkRunning, StartStage, EndStage, Finish, Activate, Unlock, Environment, Stall, Crash,
     Dies, Expire, Reap, EditPipeline, DeleteProject
<1> QED
  BY <1>1, <1>2, <1>3

\* From the end of the stages the worker goes on to the end of the job.
LEMMA WorkerEnds ==
  ASSUME TypeOK, [Next]_vars, worker.pc \in {"activate", "unlock", "abort"}
  PROVE  worker'.pc \in {"idle", "activate", "unlock", "abort"}
<1>1. CASE HandlerStep
  BY <1>1 DEF HandlerStep, Trigger, Rollback, ReadProject, CreateRow, Enqueue, WriteCancelled,
              Retry, Cancel
<1>2. CASE WorkerStep
  <2>1. Activate \/ Unlock
    BY <1>2 DEF WorkerStep, Take, AcquireLock, LockTimeout, Load, MarkRunning, StartStage,
                EndStage, Finish
  <2>2. CASE Activate
    BY <2>2 DEF Activate, Leave, Idle
  <2>3. CASE Unlock
    BY <2>3 DEF Unlock, Idle
  <2> QED
    BY <2>1, <2>2, <2>3
<1>3. CASE Environment \/ EditPipeline
  <2>1. CASE Crash
    BY <2>1 DEF Crash, Dies, Idle
  <2>2. CASE ~Crash
    BY <1>3, <2>2 DEF Environment, EditPipeline, Stall, Expire, Redeliver, Reap, DeleteProject
  <2> QED
    BY <2>1, <2>2
<1>4. CASE UNCHANGED vars
  BY <1>4 DEF vars
<1> QED
  BY <1>1, <1>2, <1>3, <1>4 DEF Next

\* What is over stays over, unless it is delivered again.
LEMMA OverKept ==
  ASSUME JobInv, [Next]_vars, NEW d \in Id, Over(d)
  PROVE  stalls'[d] > 0 \/ Over(d)'
<1> USE DEF JobInv, StageInv
<1>0. /\ job \in [Id -> {"none", "waiting", "active", "stalled", "done", "failed"}]
      /\ worker.pc # "idle" => D \in Id
      /\ stalls \in [Id -> 0..1]
  BY DEF TypeOK, D
<1>1. stalls'[d] > 0 \/ job'[d] \notin {"none", "waiting"}
  <2>1. CASE Take
    BY <1>0, <2>1, TailOf DEF Take, TypeOK, Over
  <2>2. ASSUME NEW h \in Handlers, Enqueue(h)  PROVE job'[d] \notin {"none", "waiting"}
    BY <1>0, <2>2 DEF Enqueue, QueueInv, Over
  <2>3. ASSUME NEW e \in Id, Redeliver(e)
        PROVE  stalls'[d] > 0 \/ job'[d] \notin {"none", "waiting"}
    BY <1>0, <2>3 DEF Redeliver, Over
  <2>4. ASSUME worker.pc # "idle", NEW o \in {"failed", "done", "stalled"},
               job' = [job EXCEPT ![D] = o]
        PROVE  job'[d] \notin {"none", "waiting"}
    BY <1>0, <2>4 DEF Over
  <2>5. CASE UNCHANGED <<job, queue>>
    BY <2>5 DEF Over
  <2> QED
    BY JobMoves, <2>1, <2>2, <2>3, <2>4, <2>5
<1>2. ~ (worker'.d = d /\ worker'.pc \notin {"idle", "activate", "unlock", "abort"})
  <2>1. CASE UNCHANGED worker
    BY <2>1 DEF Over, D
  <2>2. CASE worker.pc # "idle" /\ worker'.d = D
    BY <2>2, WorkerEnds DEF Over
  <2>3. CASE Take /\ worker'.d = Head(queue)
    <3>1. job[Head(queue)] = "waiting"
      <4>1. queue \in Seq(Id) /\ queue # <<>>
        BY <2>3 DEF Take, TypeOK
      <4>2. 1 \in 1..Len(queue) /\ Head(queue) = queue[1]
        BY <4>1, TailOf
      <4> QED
        BY <4>2 DEF QueueInv
    <3> QED
      BY <2>3, <3>1 DEF Over
  <2> QED
    BY WorkerMoves, <2>1, <2>2, <2>3
<1> QED
  BY <1>1, <1>2 DEF Over, D

\* What a later job may skip it still may, as long as the project is there.
LEMMA PastKept ==
  ASSUME JobInv, [Next]_vars, project' # "deleted", NEW d \in Created, NEW i, Past(d, i)
  PROVE  d \in Created' /\ Past(d, i)'
<1> USE DEF JobInv, StageInv
<1>0. d \in Id /\ Exists(d)
  BY DEF Created
<1>1. d \in Created'
  BY <1>0, RowsStay DEF Created
<1>2. /\ DOMAIN row'[d].stages = DOMAIN row[d].stages
      /\ stalls[d] > 0 \/ row'[d].stages[i] = row[d].stages[i]
  <2>1. CASE UNCHANGED <<row, skip>>
    BY <2>1
  <2>2. ASSUME NEW h \in Handlers, CreateRow(h), project # "deleted"
        PROVE  row'[d] = row[d]
    BY <1>0, <2>2, RowCreated
  <2>3. ASSUME NEW h \in Handlers, WriteCancelled(h)  PROVE row'[d].stages = row[d].stages
    BY <1>0, <2>3, RowCancelled
  <2>4. CASE DeleteProject
    BY <2>4 DEF DeleteProject
  <2>5. CASE MarkRunning /\ Exists(D)
    BY <1>0, <2>5, RowMarked
  <2>6. ASSUME worker.pc \in {"stage", "running"}, D \in Id, NEW s \in StageStatus, SetStage(s)
        PROVE  /\ DOMAIN row'[d].stages = DOMAIN row[d].stages
               /\ stalls[d] > 0 \/ row'[d].stages[i] = row[d].stages[i]
    BY <1>0, <2>6, StageWritten DEF Past, Over
  <2>7. CASE StartStage /\ worker.i \in DOMAIN row[D].stages
    BY <2>6, <2>7 DEF StartStage, TypeOK, D, StageStatus
  <2>8. ASSUME Exists(D), NEW ok \in BOOLEAN, NEW alive \in BOOLEAN, EndStage(ok, alive)
        PROVE  /\ DOMAIN row'[d].stages = DOMAIN row[d].stages
               /\ stalls[d] > 0 \/ row'[d].stages[i] = row[d].stages[i]
    <3>1. PICK s \in {"SUCCESS", "SKIPPED", "FAILED"} : SetStage(s)
      BY <2>8, StageEnded
    <3> QED
      BY <2>6, <2>8, <3>1, StageEnded DEF StageStatus
  <2>9. CASE Finish /\ Exists(D)
    BY <1>0, <2>9, RowFinished
  <2> QED
    BY RowStep, <2>1, <2>2, <2>3, <2>4, <2>5, <2>7, <2>8, <2>9
<1>3. stalls[d] > 0 => stalls'[d] > 0
  BY <1>0, StallsKept
<1>4. stalls'[d] > 0 \/ (Passed(d, i) /\ Over(d) /\ Over(d)')
  BY <1>0, <1>3, OverKept DEF Past
<1> QED
  BY <1>1, <1>2, <1>3, <1>4 DEF Past, Passed

\* The least free number follows all that are taken, and leaves no gap.
LEMMA NextNumber ==
  ASSUME Created # Id, \A d \in Created, e \in Id : e < d => e \in Created
  PROVE  /\ \A e \in Created : e < Least(Id \ Created)
         /\ \A e \in Id : e < Least(Id \ Created) => e \in Created
<1> DEFINE m == Least(Id \ Created)
<1>1. Id \ Created # {} /\ Id \ Created \in SUBSET Nat /\ Created \subseteq Id
  BY Bounds DEF Created
<1>2. m \in Id /\ m \notin Created /\ \A y \in Id \ Created : m <= y
  BY <1>1, LeastOf
<1> HIDE DEF m
<1>3. ASSUME NEW e \in Id, e < m  PROVE e \in Created
  <2>1. e \in Nat /\ m \in Nat /\ ~ (m <= e)
    BY <1>2, <1>3, Bounds
  <2> QED
    BY <1>2, <2>1
<1>4. ASSUME NEW e \in Created  PROVE e < m
  <2>1. e \in Id /\ e \in Nat /\ m \in Nat /\ e # m
    BY <1>1, <1>2, Bounds
  <2>2. ~ (m < e)
    BY <1>2, <2>1
  <2> QED
    BY <2>1, <2>2
<1> QED
  BY <1>3, <1>4 DEF m

\* The row that is created follows all others.
LEMMA RowNumbered ==
  ASSUME TypeOK, RoomInv, SkipInv, NEW h \in Handlers, CreateRow(h), project # "deleted"
  PROVE  \E d \in Id \ Created :
           /\ Created' = Created \cup {d}
           /\ row'[d].status = "QUEUED" /\ skip'[d] = req[h].skip
           /\ \A e \in Created : e < d
           /\ \A e \in Id : e < d => e \in Created
           /\ \A e \in Id \ {d} : row'[e] = row[e] /\ skip'[e] = skip[e]
<1> DEFINE d == Least(Id \ Created)
<1>1. Created # Id /\ d \in Id \ Created
  BY FreeRow, NextRow DEF CreateRow, InFlight
<1>2. /\ \A e \in Created : e < d
      /\ \A e \in Id : e < d => e \in Created
  BY <1>1, NextNumber DEF SkipInv
<1>3. /\ row' = [row EXCEPT ![d] = [status |-> "QUEUED",
                                   stages |-> [i \in 1..req[h].len |-> "PENDING"],
                                   version |-> req[h].version]]
      /\ skip' = [skip EXCEPT ![d] = req[h].skip]
  BY DEF CreateRow
<1> HIDE DEF d
<1>4. row \in [Id -> Deployment] /\ skip \in [Id -> Nat]
  BY DEF TypeOK, Deployment, Status
<1>5. Created' = Created \cup {d}
  BY <1>1, <1>3, <1>4 DEF Created, Exists
<1> QED
  BY <1>1, <1>2, <1>3, <1>4, <1>5

\* Rows come one at a time, in order; else there are the same or none.
LEMMA RowsCounted ==
  ASSUME TypeOK, RoomInv, [Next]_vars, project' # "deleted"
  PROVE  \/ Created' = Created /\ UNCHANGED skip
         \/ \E h \in Handlers : CreateRow(h) /\ project # "deleted"
<1> SUFFICES ASSUME ~ \E h \in Handlers : CreateRow(h) /\ project # "deleted"
             PROVE  Created' = Created /\ UNCHANGED skip
  OBVIOUS
<1>1. Created \subseteq Created'
  BY RowsStay DEF Created
<1>2. Created' \subseteq Created /\ UNCHANGED skip
  <2>1. CASE UNCHANGED <<row, skip>>
    BY <2>1 DEF Created, Exists
  <2>2. ASSUME NEW h \in Handlers, WriteCancelled(h)
        PROVE  Created' \subseteq Created /\ UNCHANGED skip
    BY <2>2, RowCancelled DEF Created, Exists
  <2>3. CASE DeleteProject
    BY <2>3 DEF DeleteProject
  <2>4. CASE MarkRunning /\ Exists(D)
    BY <2>4, RowMarked DEF Created, Exists, jobs
  <2>5. CASE StartStage /\ worker.i \in DOMAIN row[D].stages
    <3>1. D \in Id /\ SetStage("RUNNING") /\ "RUNNING" \in StageStatus /\ UNCHANGED skip
      BY <2>5 DEF StartStage, TypeOK, D, StageStatus, jobs
    <3> QED
      BY <3>1, StageWritten DEF Created, Exists
  <2>6. ASSUME Exists(D), NEW ok \in BOOLEAN, NEW alive \in BOOLEAN, EndStage(ok, alive)
        PROVE  Created' \subseteq Created /\ UNCHANGED skip
    <3>1. PICK s \in {"SUCCESS", "SKIPPED", "FAILED"} : SetStage(s)
      BY <2>6, StageEnded
    <3>2. s \in StageStatus /\ D \in Id /\ UNCHANGED skip
      BY <2>6, StageEnded DEF StageStatus, jobs
    <3> QED
      BY <3>1, <3>2, StageWritten DEF Created, Exists
  <2>7. CASE Finish /\ Exists(D)
    BY <2>7, RowFinished DEF Created, Exists, jobs
  <2> QED
    BY RowStep, <2>1, <2>2, <2>3, <2>4, <2>5, <2>6, <2>7
<1> QED
  BY <1>1, <1>2

\* Only the end of a job makes a deployment FAILED.
LEMMA NewlyFailed ==
  ASSUME TypeOK, RoomInv, [Next]_vars, NEW d \in Id,
         row[d].status # "FAILED", row'[d].status = "FAILED"
  PROVE  Finish /\ d = D /\ worker'.pc = "unlock" /\ worker'.d = D /\ UNCHANGED jobs
<1>1. ~ UNCHANGED <<row, skip>>
  OBVIOUS
<1>2. ASSUME NEW h \in Handlers, CreateRow(h), project # "deleted"  PROVE FALSE
  BY <1>2, RowCreated
<1>3. ASSUME NEW h \in Handlers, WriteCancelled(h)  PROVE FALSE
  BY <1>3, RowCancelled
<1>4. ~DeleteProject
  BY DEF DeleteProject, NoRow
<1>5. ~ (MarkRunning /\ Exists(D))
  BY RowMarked
<1>6. ASSUME D \in Id, NEW s \in StageStatus, SetStage(s)  PROVE FALSE
  BY <1>6, StageWritten
<1>7. ~ (StartStage /\ worker.i \in DOMAIN row[D].stages)
  BY <1>6 DEF StartStage, TypeOK, D, StageStatus
<1>8. ASSUME Exists(D), NEW ok \in BOOLEAN, NEW alive \in BOOLEAN, EndStage(ok, alive)
      PROVE  FALSE
  BY <1>6, <1>8, StageEnded DEF StageStatus
<1>9. Finish /\ Exists(D)
  BY RowStep, <1>1, <1>2, <1>3, <1>4, <1>5, <1>7, <1>8
<1> QED
  BY <1>9, RowFinished

\* A request on its way to trigger goes on, starts from the beginning, or
\* retries a FAILED deployment.
LEMMA InFlightMoves ==
  ASSUME TypeOK, [Next]_vars, NEW h \in Handlers, h \in InFlight'
  PROVE  \/ h \in InFlight /\ req'[h].skip = req[h].skip
         \/ req'[h].skip = 0
         \/ \E d \in Id :
              /\ row[d].status = "FAILED"
              /\ req'[h].skip = IF Failures(d) = {} THEN 0 ELSE Least(Failures(d)) - 1
<1>0. req \in [Handlers -> Request] /\ req'[h].pc \in {"reading", "creating"}
  BY DEF TypeOK, Request, InFlight
<1>1. CASE req'[h] = req[h]
  BY <1>0, <1>1 DEF InFlight
<1>2. CASE Crash
  BY <1>2 DEF Crash, Dies, NoReq
<1>3. ASSUME NEW k, Begin(h, k)  PROVE req'[h].skip = k
  BY <1>0, <1>3 DEF Begin, NoReq
<1>4. CASE HandlerStep
  <2> SUFFICES ASSUME NEW g \in Handlers,
                      \/ Trigger(g) \/ Rollback(g) \/ ReadProject(g) \/ CreateRow(g)
                      \/ Enqueue(g) \/ WriteCancelled(g)
                      \/ \E d \in Id : Retry(g, d) \/ Cancel(g, d),
                      req'[h] # req[h]
               PROVE  \/ h \in InFlight /\ req'[h].skip = req[h].skip
                      \/ req'[h].skip = 0
                      \/ \E d \in Id :
                           /\ row[d].status = "FAILED"
                           /\ req'[h].skip =
                                IF Failures(d) = {} THEN 0 ELSE Least(Failures(d)) - 1
    BY <1>1, <1>4 DEF HandlerStep
  <2>1. g = h
    BY <1>0 DEF Trigger, Rollback, ReadProject, CreateRow, Enqueue, WriteCancelled, Retry, Cancel,
                Begin
  <2>2. CASE Trigger(h) \/ Rollback(h)
    BY <1>3, <2>2 DEF Trigger, Rollback
  <2>3. ASSUME NEW d \in Id, Retry(h, d)
        PROVE  /\ row[d].status = "FAILED"
               /\ req'[h].skip = IF Failures(d) = {} THEN 0 ELSE Least(Failures(d)) - 1
    BY <1>3, <2>3 DEF Retry
  <2>4. CASE ReadProject(h)
    <3>1. req'[h] = NoReq \/ (h \in InFlight /\ req'[h].skip = req[h].skip)
      BY <1>0, <2>4 DEF ReadProject, InFlight, Request
    <3> QED
      BY <3>1 DEF NoReq
  <2>5. CASE CreateRow(h)
    <3>1. req'[h].pc = "idle" \/ req'[h].pc = "enqueueing"
      BY <1>0, <2>5 DEF CreateRow, NoReq, Request
    <3> QED
      BY <1>0, <3>1
  <2>6. CASE Enqueue(h) \/ WriteCancelled(h)
    BY <1>0, <2>6 DEF Enqueue, WriteCancelled, NoReq
  <2>7. ASSUME NEW d \in Id, Cancel(h, d)  PROVE req'[h].pc = "cancelling"
    BY <1>0, <2>7 DEF Cancel, NoReq
  <2> QED
    BY <1>0, <2>1, <2>2, <2>3, <2>4, <2>5, <2>6, <2>7
<1>5. CASE ~HandlerStep /\ ~Crash
  BY <1>1, <1>5
  DEF Next, vars, WorkerStep, Take, AcquireLock, LockTimeout, Load, MarkRunning, StartStage,
      EndStage, Finish, Activate, Unlock, Environment, Stall, Expire, Redeliver, Reap,
      EditPipeline, DeleteProject
<1> QED
  BY <1>2, <1>4, <1>5

\* Every step keeps skipped stages accounted for.
LEMMA SkipStep == JobInv /\ SkipInv /\ [Next]_vars => SkipInv'
<1> SUFFICES ASSUME JobInv, SkipInv, [Next]_vars  PROVE SkipInv'
  OBVIOUS
<1> USE DEF JobInv, StageInv
<1>0. /\ job \in [Id -> {"none", "waiting", "active", "stalled", "done", "failed"}]
      /\ stalls \in [Id -> 0..1] /\ skip \in [Id -> Nat]
      /\ worker.pc # "idle" => D \in Id
      /\ Created \subseteq Id
  BY DEF TypeOK, D, Created
<1>1. worker'.pc # "idle" /\ job'[worker'.d] = "waiting" => stalls'[worker'.d] > 0
  <2> SUFFICES ASSUME worker'.pc # "idle", job'[worker'.d] = "waiting"
               PROVE  stalls'[worker'.d] > 0
    OBVIOUS
  <2>1. CASE Take
    <3>1. worker'.d = Head(queue) /\ Head(queue) \in Id /\ job'[Head(queue)] = "active"
      BY <1>0, <2>1, HeadTailProperties DEF Take, TypeOK, Idle
    <3> QED
      BY <3>1
  <2>2. CASE worker.pc # "idle" /\ worker'.d = D
    <3>1. CASE job[D] = "waiting"
      BY <1>0, <2>2, <3>1, StallsKept DEF SkipInv
    <3>2. ASSUME NEW e \in Id, Redeliver(e), job[D] # "waiting"  PROVE stalls'[D] > 0
      BY <1>0, <2>2, <3>2 DEF Redeliver
    <3>3. ASSUME NEW h \in Handlers, Enqueue(h)  PROVE job'[D] = job[D]
      BY <1>0, <2>2, <3>3 DEF Enqueue, QueueInv
    <3>4. ASSUME NEW o \in {"failed", "done", "stalled"}, job' = [job EXCEPT ![D] = o]
          PROVE  FALSE
      BY <1>0, <2>2, <3>4
    <3> QED
      BY <2>1, <2>2, JobMoves, <3>1, <3>2, <3>3, <3>4
  <2> QED
    BY <2>1, <2>2, WorkerMoves DEF D
<1>2. CASE project' = "deleted"
  <2>1. Created' = {}
    <3>1. CASE DeleteProject
      BY <3>1 DEF DeleteProject, Created, Exists, NoRow
    <3>2. CASE project = "deleted"
      BY <3>2, NothingReturns DEF SkipInv, Created
    <3>3. project = "deleted" \/ DeleteProject
      BY <1>2 DEF Next, vars, rows, HandlerStep, Trigger, Rollback, ReadProject, CreateRow,
         Enqueue, WriteCancelled, Retry, Cancel, WorkerStep, Take, AcquireLock, LockTimeout,
         Load, MarkRunning, StartStage, EndStage, Finish, Activate, Unlock, Environment, Stall,
         Crash, Dies, Expire, Redeliver, Reap, EditPipeline
    <3> QED
      BY <3>1, <3>2, <3>3
  <2> QED
    BY <1>1, <1>2, <2>1 DEF SkipInv, D
<1>3. CASE project' # "deleted"
  <2>0. project # "deleted" /\ \A d \in Id : Exists(d) => Exists(d)'
    BY <1>3, RowsStay
  <2>1. \A d \in Created', e \in Id : e < d => e \in Created'
    <3>1. CASE Created' = Created
      BY <3>1 DEF SkipInv
    <3>2. ASSUME NEW h \in Handlers, CreateRow(h)
          PROVE  \A d \in Created', e \in Id : e < d => e \in Created'
      BY <2>0, <3>2, RowNumbered DEF SkipInv
    <3> QED
      BY <1>3, <3>1, <3>2, RowsCounted
  <2>2. ASSUME NEW d \in Created', row'[d].status = "FAILED"
        PROVE  stalls'[d] > 0 \/ Over(d)'
    <3>1. d \in Id
      BY DEF Created
    <3>2. CASE row[d].status = "FAILED"
      <4>1. stalls[d] > 0 \/ Over(d)
        BY <3>1, <3>2 DEF SkipInv, Created, Exists
      <4> QED
        BY <3>1, <4>1, StallsKept, OverKept
    <3>3. CASE row[d].status # "FAILED"
      <4>1. Finish /\ d = D /\ worker'.pc = "unlock" /\ worker'.d = D /\ UNCHANGED jobs
        BY <2>2, <3>1, <3>3, NewlyFailed
      <4>2. worker.pc # "idle"
        BY <4>1 DEF Finish
      <4>3. job[d] # "none" /\ (job[d] = "waiting" => stalls[d] > 0)
        BY <4>1, <4>2 DEF QueueInv, SkipInv
      <4> QED
        BY <4>1, <4>3 DEF Over, jobs, D
    <3> QED
      BY <3>2, <3>3
  <2>a. ASSUME NEW d \in Created, NEW i \in 1..skip[d], skip'[d] = skip[d]
        PROVE  \E e \in Created' : e < d /\ Past(e, i)'
    BY <1>3, <2>a, PastKept DEF SkipInv
  <2>3. ASSUME NEW d \in Created', NEW i \in 1..skip'[d]
        PROVE  \E e \in Created' : e < d /\ Past(e, i)'
    <3>1. CASE Created' = Created /\ UNCHANGED skip
      BY <2>a, <3>1
    <3>2. ASSUME NEW h \in Handlers, CreateRow(h)
          PROVE  \E e \in Created' : e < d /\ Past(e, i)'
      <4>1. PICK n \in Id \ Created :
              /\ Created' = Created \cup {n}
              /\ skip'[n] = req[h].skip
              /\ \A e \in Created : e < n
              /\ \A e \in Id \ {n} : skip'[e] = skip[e]
        BY <2>0, <3>2, RowNumbered
      <4>2. CASE d = n
        <5>1. PICK e \in Created : Past(e, i)
          BY <2>0, <3>2, <4>1, <4>2 DEF SkipInv, InFlight, CreateRow
        <5> QED
          BY <1>3, <4>1, <4>2, <5>1, PastKept
      <4>3. CASE d # n
        <5>1. d \in Created /\ skip'[d] = skip[d]
          BY <1>0, <4>1, <4>3
        <5> QED
          BY <2>a, <5>1
      <4> QED
        BY <4>2, <4>3
    <3> QED
      BY <1>3, <3>1, <3>2, RowsCounted
  <2>4. ASSUME NEW h \in InFlight', NEW i \in 1..req'[h].skip
        PROVE  \E e \in Created' : Past(e, i)'
    <3> SUFFICES \E e \in Created : Past(e, i)
      BY <1>3, PastKept
    <3>0. h \in Handlers
      BY DEF InFlight
    <3>1. CASE h \in InFlight /\ req'[h].skip = req[h].skip
      BY <2>0, <3>1 DEF SkipInv
    <3>2. CASE req'[h].skip = 0
      BY <3>2
    <3>3. ASSUME NEW d \in Id, row[d].status = "FAILED",
                 req'[h].skip = IF Failures(d) = {} THEN 0 ELSE Least(Failures(d)) - 1
          PROVE  \E e \in Created : Past(e, i)
      <4>1. d \in Created
        BY <3>3 DEF Created, Exists
      <4>2. /\ Failures(d) # {}
            /\ \A j \in skip[d] + 1 .. Least(Failures(d)) - 1 : Passed(d, j)
        BY <3>3 DEF RetryTargetsFailure
      <4>3. /\ DOMAIN row[d].stages = 1..Len(row[d].stages) /\ Len(row[d].stages) \in Nat
            /\ Failures(d) \in SUBSET Nat
        BY LenProperties DEF TypeOK, Failures
      <4>4. Least(Failures(d)) \in 1..Len(row[d].stages)
        BY <4>2, <4>3, LeastOf DEF Failures
      <4> HIDE DEF Least
      <4>5. i \in 1..Least(Failures(d)) - 1
        BY <3>3, <4>2
      <4>6. CASE i <= skip[d]
        <5>1. i \in 1..skip[d]
          BY <1>0, <4>4, <4>5, <4>6
        <5> QED
          BY <4>1, <5>1 DEF SkipInv
      <4>7. CASE ~ (i <= skip[d])
        <5>1. i \in skip[d] + 1 .. Least(Failures(d)) - 1 /\ i \in DOMAIN row[d].stages
          BY <1>0, <4>3, <4>4, <4>5, <4>7
        <5>2. stalls[d] > 0 \/ Over(d)
          BY <3>3, <4>1 DEF SkipInv
        <5> QED
          BY <4>1, <4>2, <5>1, <5>2 DEF Past
      <4> QED
        BY <4>6, <4>7
    <3> QED
      BY <3>0, <3>1, <3>2, <3>3, InFlightMoves
  <2>5. (\A d \in Created : row[d].status = "FAILED" => stalls[d] > 0 \/ Over(d))'
    BY <2>2
  <2>6. (\A d \in Created : \A i \in 1..skip[d] : \E e \in Created : e < d /\ Past(e, i))'
    BY <2>3
  <2>7. (\A h \in InFlight : \A i \in 1..req[h].skip : \E e \in Created : Past(e, i))'
    BY <2>4
  <2>8. (worker.pc # "idle" /\ job[D] = "waiting" => stalls[D] > 0)'
    BY <1>1 DEF D
  <2> QED
    BY <1>3, <2>1, <2>5, <2>6, <2>7, <2>8 DEF SkipInv
<1> QED
  BY <1>2, <1>3

(***************************************************************************)
(* The stages run in the order of the pipeline, each after all that        *)
(* precede it, in this deployment or in one it retries, and where they     *)
(* stopped is where the next retry resumes.                                *)
(***************************************************************************)
THEOREM StagesRunInOrder == Spec => []StagesInOrder
<1>1. Init => SkipInv
  <2> SUFFICES ASSUME Init  PROVE SkipInv
    OBVIOUS
  <2>1. worker.pc = "idle" /\ Created = {} /\ InFlight = {}
    BY DEF Init, Idle, NoRow, NoReq, Created, Exists, InFlight
  <2> QED
    BY <2>1 DEF SkipInv
<1>2. JobInv /\ SkipInv => StagesInOrder
  <2> SUFFICES ASSUME JobInv, SkipInv  PROVE StagesInOrder
    OBVIOUS
  <2>1. StageOrder /\ RetryTargetsFailure
    BY DEF JobInv, StageInv, Progress, StageOrder
  <2>2. SkippedStagesPassed
    BY DEF SkipInv, Past, SkippedStagesPassed
  <2> QED
    BY <2>1, <2>2 DEF StagesInOrder
<1> QED
  BY <1>1, <1>2, JobsInductive, SkipStep, PTL DEF Spec
=============================================================================
