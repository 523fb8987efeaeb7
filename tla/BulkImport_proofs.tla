--------------------------- MODULE BulkImport_proofs ---------------------------
(***************************************************************************)
(* Proofs about BulkImport, for every set of slugs, packages and handlers, *)
(* every set of faults and every bound.                                    *)
(***************************************************************************)
EXTENDS BulkImport, SequenceTheorems, FiniteSetTheorems, WellFoundedInduction,
  TLAPS

(***************************************************************************)
(* TypeOK, by parts: the sets the variables are in, and what ties the      *)
(* items to the import and to their projects.                              *)
(***************************************************************************)
Pc == {"idle", "check", "done", "abort"} \cup InItem
ReqPc == {"idle", "uploading", "configuring", "starting", "enqueueing", "cancelling", "skipping"}
JobState == {"none", "waiting", "active", "stalled", "done", "failed"}
ImportRow == [status : Status, uploads : 0..MaxUploads]
ItemRow == [status : ItemStatus, name : Name, linked : BOOLEAN]
ProjectRow == [by : Item \cup {Nobody}, env : BOOLEAN]
Worker == [pc : Pc, job : Job \cup {0}, items : SUBSET Item, todo : SUBSET Item,
           item : Item \cup {0}, failed : BOOLEAN]
Request == [pc : ReqPc, names : SUBSET Name, items : SUBSET Item]

Sets ==
  /\ import \in ImportRow /\ item \in [Item -> ItemRow] /\ project \in [Name -> ProjectRow]
  /\ job \in [Job -> JobState] /\ stalls \in [Job -> 0..1] /\ queue \in Seq(Job)
  /\ worker \in Worker /\ req \in [Handlers -> Request]

Tied ==
  /\ \A i \in Item : item[i].status # "none" => import.status # "none"
  /\ \A i \in Item : item[i].linked => project[item[i].name].by = i

LEMMA TypeOKSplit == TypeOK <=> Sets /\ Tied
BY DEF TypeOK, Sets, Tied, ImportRow, ItemRow, ProjectRow, JobState, Worker, Request, Pc, ReqPc

(***************************************************************************)
(* The bounds hold with what is in flight counted, so a row or a job that  *)
(* is made is a new one.                                                   *)
(***************************************************************************)
RoomKept ==
  /\ Cardinality(Wanted) + Cardinality(Rows) <= MaxItems
  /\ Cardinality(Added) + Cardinality(Starters) <= MaxStarts

(***************************************************************************)
(* Requests and the worker hold jobs that were added and, while the import *)
(* is there, items that are rows.  The current item is one that was read   *)
(* and is no longer to do.                                                 *)
(***************************************************************************)
HandsOnRows ==
  /\ \A k \in 1..Len(queue) : queue[k] \in Added
  /\ worker.pc # "idle" => worker.job \in Added
  /\ \A h \in Handlers : req[h].pc # "uploading" => req[h].names = {}
  /\ Exists => worker.items \subseteq Rows /\ \A h \in Handlers : req[h].items \subseteq Rows
  /\ worker.todo \subseteq worker.items
  /\ worker.pc \in InItem => worker.item \in worker.items \ worker.todo
  /\ worker.pc = "check" => worker.item = 0

(***************************************************************************)
(* What the worker remembers of the items it is through with is what their *)
(* rows say, but for those a cancel has overwritten.                       *)
(***************************************************************************)
Through == worker.items \ (worker.todo \cup {worker.item})

Tally ==
  Exists /\ worker.pc \in {"check"} \cup InItem =>
    /\ \A i \in Through : \/ item[i].status \in {"COMPLETED", "SKIPPED"}
                          \/ worker.failed /\ item[i].status = "FAILED"
    /\ worker.failed => \E i \in Through : item[i].status \in {"FAILED", "SKIPPED"}

(***************************************************************************)
(* A project is of the item it was made for.  Once its project is stored,  *)
(* the worker's item is linked to it, unless the project is gone; about to *)
(* complete, the project has its variables.                                *)
(***************************************************************************)
Linked ==
  Exists =>
    /\ \A n \in Name : project[n].by # Nobody =>
         project[n].by \in Rows /\ item[project[n].by].name = n
    /\ worker.pc \in {"data", "env", "completing"} /\ project[N].by = I => item[I].linked
    /\ worker.pc = "completing" => project[N].by = Nobody \/ (project[N].by = I /\ project[N].env)

IInv == TypeOK /\ RoomKept /\ HandsOnRows /\ Tally /\ Linked

----------------------------------------------------------------------------
(* Numbers, sets and queues.                                               *)

\* The bounds are positive numbers, and nobody is an item.
LEMMA Bounds ==
  /\ {MaxItems, MaxUploads, MaxStarts} \subseteq Nat \ {0}
  /\ Item \subseteq Nat \ {0} /\ Job \subseteq Nat \ {0}
BY ImportAssumption DEF Item, Job

\* A nonempty set of numbers has a least one.
LEMMA LeastOf ==
  ASSUME NEW S \in SUBSET Nat, S # {}
  PROVE  Least(S) \in S
<1>1. PICK x \in S : \A y \in S : ~ (<<y, x>> \in OpToRel(<, Nat))
  BY NatLessThanWellFounded, WFMin
<1>2. \A y \in S : x <= y
  <2> SUFFICES ASSUME NEW y \in S, ~ (x <= y)  PROVE FALSE
    OBVIOUS
  <2>1. x \in Nat /\ y \in Nat /\ y < x
    OBVIOUS
  <2> QED
    BY <1>1, <2>1 DEF OpToRel
<1> QED
  BY <1>2 DEF Least

\* What the bounds count is finite.
LEMMA Finite ==
  /\ IsFiniteSet(Wanted) /\ Cardinality(Wanted) \in Nat
  /\ IsFiniteSet(Starters) /\ Cardinality(Starters) \in Nat
  /\ IsFiniteSet(Rows) /\ Cardinality(Rows) \in Nat
  /\ IsFiniteSet(Added) /\ Cardinality(Added) \in Nat
  /\ Cardinality(Item) = MaxItems /\ Cardinality(Job) = MaxStarts
<1>1. IsFiniteSet(Handlers \X Name) /\ Wanted \in SUBSET (Handlers \X Name)
  BY ImportAssumption, FS_Product DEF Wanted
<1>2. IsFiniteSet(Handlers) /\ Starters \in SUBSET Handlers
  BY ImportAssumption DEF Starters
<1>3. IsFiniteSet(Item) /\ IsFiniteSet(Job) /\ Cardinality(Item) = MaxItems /\ Cardinality(Job) = MaxStarts
  <2>1. MaxItems \in Int /\ 1 <= MaxItems /\ MaxStarts \in Int /\ 1 <= MaxStarts
    BY Bounds
  <2> QED
    BY <2>1, FS_Interval DEF Item, Job
<1>4. Rows \in SUBSET Item /\ Added \in SUBSET Job
  BY DEF Rows, Added
<1> QED
  BY <1>1, <1>2, <1>3, <1>4, FS_Subset, FS_CardinalityType

\* A row is left for every name an upload still holds ...
LEMMA NewItem ==
  ASSUME Sets, RoomKept, NEW h \in Handlers, req[h].names # {}
  PROVE  Least(Item \ Rows) \in Item \ Rows
<1>1. Wanted # {}
  <2>1. PICK n \in Name : n \in req[h].names
    BY DEF Sets, Request
  <2>2. <<h, n>> \in Wanted
    BY <2>1 DEF Wanted
  <2> QED
    BY <2>2
<1>2. Cardinality(Wanted) # 0
  BY <1>1, Finite, FS_EmptySet
<1>3. Cardinality(Rows) < MaxItems
  BY <1>2, Finite, Bounds DEF RoomKept
<1>4. Item \ Rows # {}
  BY <1>3, Finite, Bounds DEF Rows
<1> QED
  BY <1>4, Bounds, LeastOf

\* ... and a job for every request that is about to add one.
LEMMA NewJob ==
  ASSUME RoomKept, NEW h \in Handlers, req[h].pc = "enqueueing"
  PROVE  Least(Job \ Added) \in Job \ Added
<1>1. h \in Starters
  BY DEF Starters
<1>2. Cardinality(Starters) # 0
  BY <1>1, Finite, FS_EmptySet
<1>3. Cardinality(Added) < MaxStarts
  BY <1>2, Finite, Bounds DEF RoomKept
<1>4. Job \ Added # {}
  BY <1>3, Finite, Bounds DEF Added
<1> QED
  BY <1>4, Bounds, LeastOf

----------------------------------------------------------------------------
(* Types.                                                                  *)

LEMMA TypeInit == Init => TypeOK
<1> SUFFICES ASSUME Init  PROVE TypeOK
  OBVIOUS
<1>1. NoItem.name \in Name
  BY ImportAssumption DEF NoItem
<1> QED
  BY <1>1, Bounds DEF Init, TypeOK, NoItem, NoProject, Idle, NoReq, Nobody, Status, ItemStatus, InItem

\* What the rows without content are.
LEMMA Blanks ==
  /\ NoItem \in ItemRow /\ ~NoItem.linked /\ NoItem.status = "none"
  /\ NoProject \in ProjectRow /\ NoProject.by = Nobody /\ ~NoProject.env
  /\ Idle \in Worker /\ NoReq \in Request
  /\ Nobody \notin Item
<1>1. NoItem.name \in Name
  BY ImportAssumption DEF NoItem
<1> QED
  BY <1>1, Bounds DEF NoItem, NoProject, Idle, NoReq, Nobody, ItemRow, ProjectRow, Worker,
                      Request, Pc, ReqPc, ItemStatus

\* A request goes to another program counter, and stays a request.
LEMMA RequestStep ==
  ASSUME Sets, NEW h \in Handlers, NEW r \in Request, req' = [req EXCEPT ![h] = r]
  PROVE  req' \in [Handlers -> Request]
BY DEF Sets

\* Every step of a request keeps the sets.
LEMMA HandlerSets == Sets /\ Tied /\ RoomKept /\ HandlerStep => Sets' /\ Tied'
<1> SUFFICES ASSUME Sets, Tied, RoomKept, HandlerStep  PROVE Sets' /\ Tied'
  OBVIOUS
<1> USE DEF HandlerQuiet, jobs, Reply, Exists
<1>2. CASE DeleteImport
  BY <1>2, Blanks, Bounds DEF DeleteImport, Sets, Tied, ImportRow, Status
<1>3. ASSUME NEW h \in Handlers, NEW names \in Packages, Upload(h, names)  PROVE Sets' /\ Tied'
  <2>1. names \in SUBSET Name
    BY ImportAssumption
  <2>2. [NoReq EXCEPT !.pc = "uploading", !.names = names] \in Request
    BY <2>1 DEF NoReq, Request, ReqPc
  <2>3. req' \in [Handlers -> Request]
    BY <1>3, <2>2 DEF Upload, Sets
  <2>4. import.uploads + 1 \in 0..MaxUploads
    BY <1>3, Bounds DEF Upload, Sets, ImportRow
  <2>5. import' \in ImportRow /\ import'.status # "none"
    BY <1>3, <2>4 DEF Upload, ImportRow, Status
  <2> QED
    BY <1>3, <2>3, <2>5 DEF Upload, Sets, Tied
<1>4. ASSUME NEW h \in Handlers, CreateItem(h)  PROVE Sets' /\ Tied'
  <2>1. CASE Exists
    <3> DEFINE n == CHOOSE n \in req[h].names : TRUE
               new == [NoItem EXCEPT !.status = "PENDING", !.name = n]
    <3>1. n \in Name
      BY <1>4 DEF CreateItem, Sets, Request
    <3>2. /\ item' = [item EXCEPT ![Least(Item \ Rows)] = new]
          /\ req' = [req EXCEPT ![h].names = @ \ {n}]
      BY <1>4, <2>1 DEF CreateItem
    <3> HIDE DEF n
    <3>3. new \in ItemRow /\ ~new.linked
      BY <3>1 DEF NoItem, ItemRow, ItemStatus
    <3> HIDE DEF new
    <3>4. item' \in [Item -> ItemRow] /\ \A i \in Item : item'[i] = item[i] \/ item'[i] = new
      BY <3>2, <3>3 DEF Sets
    <3>5. [req[h] EXCEPT !.names = @ \ {n}] \in Request
      BY DEF Sets, Request
    <3>6. req' \in [Handlers -> Request]
      BY <3>2, <3>5 DEF Sets
    <3> QED
      BY <1>4, <2>1, <3>3, <3>4, <3>6 DEF CreateItem, Sets, Tied
  <2>2. CASE ~Exists
    BY <1>4, <2>2, Blanks DEF CreateItem, Sets, Tied
  <2> QED
    BY <2>1, <2>2
<1>5. ASSUME NEW h \in Handlers, FinishUpload(h) \/ FinishConfigure(h)  PROVE Sets' /\ Tied'
  <2>1. import' \in ImportRow /\ (Exists => import'.status # "none")
    BY <1>5 DEF FinishUpload, FinishConfigure, Sets, ImportRow, Status
  <2> QED
    BY <1>5, <2>1, Blanks DEF FinishUpload, FinishConfigure, Sets, Tied
<1>6. ASSUME NEW h \in Handlers, Configure(h) \/ Start(h)  PROVE Sets' /\ Tied'
  <2>1. \A pc \in ReqPc : [NoReq EXCEPT !.pc = pc] \in Request
    BY Blanks DEF Request
  <2>2. req' \in [Handlers -> Request]
    BY <1>6, <2>1 DEF Configure, Start, Sets, ReqPc
  <2> QED
    BY <1>6, <2>2 DEF Configure, Start, Sets, Tied
<1>9. ASSUME NEW h \in Handlers, WriteRunning(h) \/ WriteCancelled(h)  PROVE Sets' /\ Tied'
  <2>1. import' \in ImportRow /\ (Exists => import'.status # "none")
    BY <1>9 DEF WriteRunning, WriteCancelled, Sets, ImportRow, Status
  <2>2. \A pc \in ReqPc : [req[h] EXCEPT !.pc = pc] \in Request
    BY DEF Request, Sets
  <2>3. req' \in [Handlers -> Request]
    BY <1>9, <2>2, Blanks DEF WriteRunning, WriteCancelled, Sets, ReqPc
  <2> QED
    BY <1>9, <2>1, <2>3 DEF WriteRunning, WriteCancelled, Sets, Tied
<1>10. ASSUME NEW h \in Handlers, Enqueue(h)  PROVE Sets' /\ Tied'
  <2>1. Least(Job \ Added) \in Job
    BY <1>10, NewJob DEF Enqueue
  <2>2. Append(queue, Least(Job \ Added)) \in Seq(Job)
    BY <2>1, AppendProperties DEF Sets
  <2>3. job' \in [Job -> JobState] /\ req' \in [Handlers -> Request]
    BY <1>10, Blanks DEF Enqueue, Sets, JobState
  <2> QED
    BY <1>10, <2>2, <2>3 DEF Enqueue, Sets, Tied
<1>11. ASSUME NEW h \in Handlers, Cancel(h)  PROVE Sets' /\ Tied'
  <2> DEFINE r == [NoReq EXCEPT !.pc = "cancelling",
                     !.items = {i \in Item : item[i].status \in {"PENDING", "RUNNING"}}]
  <2>1. r \in Request
    BY DEF NoReq, Request, ReqPc
  <2>2. req' = [req EXCEPT ![h] = r]
    BY <1>11 DEF Cancel
  <2> HIDE DEF r
  <2>3. req' \in [Handlers -> Request]
    BY <2>1, <2>2, RequestStep
  <2> QED
    BY <1>11, <2>3 DEF Cancel, Sets, Tied
<1>13. ASSUME NEW h \in Handlers, SkipItem(h)  PROVE Sets' /\ Tied'
  <2>1. CASE Exists /\ req[h].items # {}
    <3> DEFINE i == Least(req[h].items)
    <3>1. /\ item' = [item EXCEPT ![i].status = "SKIPPED"]
          /\ req' = [req EXCEPT ![h].items = @ \ {i}]
      BY <1>13, <2>1 DEF SkipItem
    <3> HIDE DEF i
    <3>2. \A k \in Item : /\ [item[k] EXCEPT !.status = "SKIPPED"] \in ItemRow
                          /\ [item[k] EXCEPT !.status = "SKIPPED"].name = item[k].name
                          /\ [item[k] EXCEPT !.status = "SKIPPED"].linked = item[k].linked
      BY DEF Sets, ItemRow, ItemStatus
    <3>3. item' \in [Item -> ItemRow]
      BY <3>1, <3>2 DEF Sets
    <3>4. \A k \in Item : item'[k].name = item[k].name /\ item'[k].linked = item[k].linked
      BY <3>1, <3>2 DEF Sets
    <3>5. [req[h] EXCEPT !.items = @ \ {i}] \in Request
      BY DEF Sets, Request
    <3>6. req' \in [Handlers -> Request]
      BY <3>1, <3>5 DEF Sets
    <3> QED
      BY <1>13, <2>1, <3>3, <3>4, <3>6 DEF SkipItem, Sets, Tied
  <2>2. CASE ~(Exists /\ req[h].items # {})
    BY <1>13, <2>2, Blanks DEF SkipItem, Sets, Tied
  <2> QED
    BY <2>1, <2>2
<1> QED
  BY <1>2, <1>3, <1>4, <1>5, <1>6, <1>9, <1>10, <1>11, <1>13 DEF HandlerStep

\* The worker's item, and its name, are of their types.
LEMMA CurrentItem ==
  ASSUME Sets, HandsOnRows, worker.pc \in InItem
  PROVE  I \in Item /\ N \in Name /\ (Exists => I \in Rows)
BY DEF Sets, Worker, ItemRow, HandsOnRows, I, N

\* The worker goes to another program counter, and stays a worker.
LEMMA GotoStep ==
  ASSUME Sets, NEW pc \in Pc, Goto(pc)
  PROVE  /\ worker' \in Worker /\ worker'.pc = pc
         /\ worker'.items = worker.items /\ worker'.todo = worker.todo
         /\ worker'.item = worker.item /\ worker'.failed = worker.failed
         /\ worker'.job = worker.job
BY DEF Goto, Sets, Worker

\* A row's status or link is written; its name stays.
LEMMA ItemWrite ==
  ASSUME Sets, NEW i \in Item, NEW s \in ItemStatus, item' = [item EXCEPT ![i].status = s]
  PROVE  /\ item' \in [Item -> ItemRow]
         /\ item'[i].status = s
         /\ \A k \in Item : /\ item'[k].name = item[k].name
                            /\ item'[k].linked = item[k].linked
                            /\ k # i => item'[k] = item[k]
<1>1. \A k \in Item : /\ [item[k] EXCEPT !.status = s] \in ItemRow
                      /\ [item[k] EXCEPT !.status = s].status = s
                      /\ [item[k] EXCEPT !.status = s].name = item[k].name
                      /\ [item[k] EXCEPT !.status = s].linked = item[k].linked
  BY DEF Sets, ItemRow
<1> QED
  BY <1>1 DEF Sets

LEMMA ItemLink ==
  ASSUME Sets, NEW i \in Item, item' = [item EXCEPT ![i].linked = TRUE]
  PROVE  /\ item' \in [Item -> ItemRow]
         /\ item'[i].linked
         /\ \A k \in Item : /\ item'[k].name = item[k].name
                            /\ item'[k].status = item[k].status
                            /\ k # i => item'[k] = item[k]
<1>1. \A k \in Item : /\ [item[k] EXCEPT !.linked = TRUE] \in ItemRow
                      /\ [item[k] EXCEPT !.linked = TRUE].linked
                      /\ [item[k] EXCEPT !.linked = TRUE].name = item[k].name
                      /\ [item[k] EXCEPT !.linked = TRUE].status = item[k].status
  BY DEF Sets, ItemRow
<1> QED
  BY <1>1 DEF Sets

\* Every step of the worker keeps the types.
LEMMA WorkerSets == Sets /\ Tied /\ HandsOnRows /\ WorkerStep => Sets' /\ Tied'
<1> SUFFICES ASSUME Sets, Tied, HandsOnRows, WorkerStep  PROVE Sets' /\ Tied'
  OBVIOUS
<1>1. {"idle", "check", "done", "abort", "begin", "create", "store", "data", "env",
       "completing", "failing"} = Pc
  BY DEF Pc, InItem
<1> USE DEF At, Quiet, jobs, Exists
<1>2. CASE Take
  <2>1. Head(queue) \in Job /\ Tail(queue) \in Seq(Job)
    BY <1>2, HeadTailProperties DEF Take, Sets
  <2>2. job' \in [Job -> JobState]
    BY <1>2, <2>1 DEF Take, Sets, JobState
  <2> DEFINE w == [Idle EXCEPT !.pc = "check", !.job = Head(queue), !.items = Rows,
                     !.todo = {i \in Rows : item[i].status \notin {"SKIPPED", "COMPLETED"}}]
  <2>3. w \in Worker
    BY <2>1 DEF Idle, Worker, Pc, Rows
  <2>4. worker' = worker \/ worker' = w
    BY <1>2 DEF Take
  <2> HIDE DEF w
  <2> QED
    BY <1>2, <2>1, <2>2, <2>3, <2>4 DEF Take, Sets, Tied
<1>3. CASE NextItem
  <2>1. ASSUME NEW i \in worker.todo
        PROVE  [worker EXCEPT !.pc = "begin", !.item = i, !.todo = @ \ {i}] \in Worker
    BY <1>1 DEF Sets, Worker
  <2>2. worker' \in Worker
    BY <1>1, <1>3, <2>1, GotoStep DEF NextItem
  <2> QED
    BY <1>3, <2>2 DEF NextItem, Sets, Tied
<1>4. CASE BeginItem
  <2>1. worker' \in Worker
    BY <1>1, <1>4, GotoStep DEF BeginItem
  <2>2. I \in Item
    BY <1>4, CurrentItem DEF BeginItem, InItem
  <2>3. item' = item \/ (Exists /\ item' = [item EXCEPT ![I].status = "RUNNING"])
    BY <1>4 DEF BeginItem
  <2>4. item' \in [Item -> ItemRow] /\ \A k \in Item : item'[k].name = item[k].name
                                         /\ item'[k].linked = item[k].linked
    <3>1. "RUNNING" \in ItemStatus
      BY DEF ItemStatus
    <3>2. CASE item' = item
      BY <3>2 DEF Sets
    <3>3. CASE item' = [item EXCEPT ![I].status = "RUNNING"]
      BY <2>2, <3>1, <3>3, ItemWrite
    <3> QED
      BY <2>3, <3>2, <3>3
  <2> QED
    BY <1>4, <2>1, <2>3, <2>4 DEF BeginItem, Sets, Tied
<1>5. CASE CreateProject
  <2>1. I \in Item /\ N \in Name
    BY <1>5, CurrentItem DEF CreateProject, InItem
  <2>2. worker' \in Worker
    BY <1>1, <1>5, GotoStep DEF CreateProject
  <2>3. [NoProject EXCEPT !.by = I] \in ProjectRow
    BY <2>1 DEF NoProject, ProjectRow
  <2>4. \/ project' = project
        \/ project[N].by = Nobody /\ project' = [project EXCEPT ![N] = [NoProject EXCEPT !.by = I]]
    BY <1>5 DEF CreateProject
  <2>5. project' \in [Name -> ProjectRow] /\ \A n \in Name : project'[n] = project[n]
                                               \/ project[n].by = Nobody
    BY <2>1, <2>3, <2>4 DEF Sets
  <2>6. \A i \in Item : item[i].name \in Name
    BY DEF Sets, ItemRow
  <2> QED
    BY <1>5, <2>2, <2>5, <2>6, Blanks DEF CreateProject, Sets, Tied
<1>6. CASE StoreProject
  <2>1. I \in Item /\ N \in Name
    BY <1>6, CurrentItem DEF StoreProject, InItem
  <2>2. worker' \in Worker
    BY <1>1, <1>6, GotoStep DEF StoreProject
  <2>3. \/ item' = item
        \/ project[N].by = I /\ item' = [item EXCEPT ![I].linked = TRUE]
    BY <1>6 DEF StoreProject
  <2>4. item' \in [Item -> ItemRow] /\ \A k \in Item : item'[k].name = item[k].name
                                         /\ item'[k].status = item[k].status
                                         /\ (item'[k] = item[k] \/ (k = I /\ project[N].by = I))
    <3>1. CASE item' = item
      BY <3>1 DEF Sets
    <3>2. CASE project[N].by = I /\ item' = [item EXCEPT ![I].linked = TRUE]
      BY <2>1, <3>2, ItemLink
    <3> QED
      BY <2>3, <3>1, <3>2
  <2> QED
    BY <1>6, <2>2, <2>4 DEF StoreProject, Sets, Tied, N
<1>7. CASE DataStages
  <2>1. worker' \in Worker
    BY <1>1, <1>7, GotoStep DEF DataStages
  <2> QED
    BY <1>7, <2>1 DEF DataStages, Sets, Tied
<1>8. CASE SetEnv
  <2>1. worker' \in Worker
    BY <1>1, <1>8, GotoStep DEF SetEnv
  <2>2. \A n \in Name : /\ [project[n] EXCEPT !.env = TRUE] \in ProjectRow
                        /\ [project[n] EXCEPT !.env = TRUE].by = project[n].by
    BY DEF Sets, ProjectRow
  <2>3. project' = project \/ project' = [project EXCEPT ![N].env = TRUE]
    BY <1>8 DEF SetEnv
  <2>4. project' \in [Name -> ProjectRow] /\ \A n \in Name : project'[n].by = project[n].by
    BY <2>2, <2>3 DEF Sets
  <2>5. \A i \in Item : item[i].name \in Name
    BY DEF Sets, ItemRow
  <2> QED
    BY <1>8, <2>1, <2>4, <2>5 DEF SetEnv, Sets, Tied
<1>9. CASE EndItem
  <2>1. I \in Item
    BY <1>9, CurrentItem DEF EndItem, InItem
  <2>2. [worker EXCEPT !.pc = "check", !.item = 0, !.failed = @ \/ worker.pc = "failing"] \in Worker
    BY <1>1 DEF Sets, Worker
  <2>3. worker' \in Worker
    BY <1>1, <1>9, <2>2, GotoStep DEF EndItem
  <2>4. item' = item \/ (Exists /\ \E s \in {"COMPLETED", "FAILED"} : item' = [item EXCEPT ![I].status = s])
    BY <1>9 DEF EndItem
  <2>5. item' \in [Item -> ItemRow] /\ \A k \in Item : item'[k].name = item[k].name
                                         /\ item'[k].linked = item[k].linked
    <3>1. CASE item' = item
      BY <3>1 DEF Sets
    <3>2. ASSUME NEW s \in {"COMPLETED", "FAILED"}, item' = [item EXCEPT ![I].status = s]
          PROVE  /\ item' \in [Item -> ItemRow]
                 /\ \A k \in Item : item'[k].name = item[k].name
                                    /\ item'[k].linked = item[k].linked
      <4>1. s \in ItemStatus
        BY DEF ItemStatus
      <4> QED
        BY <2>1, <3>2, <4>1, ItemWrite
    <3> QED
      BY <2>4, <3>1, <3>2
  <2> QED
    BY <1>9, <2>3, <2>4, <2>5 DEF EndItem, Sets, Tied
<1>10. CASE Finish
  <2>1. worker' \in Worker
    BY <1>1, <1>10, GotoStep DEF Finish
  <2>2. import' \in ImportRow /\ (Exists => import'.status # "none")
    BY <1>10 DEF Finish, Sets, ImportRow, Status
  <2> QED
    BY <1>10, <2>1, <2>2 DEF Finish, Sets, Tied
<1>11. CASE Settle
  BY <1>11, Blanks DEF Settle, Sets, Tied, JobState
<1> QED
  BY <1>2, <1>3, <1>4, <1>5, <1>6, <1>7, <1>8, <1>9, <1>10, <1>11 DEF WorkerStep

\* Every step of the environment keeps the types.
LEMMA EnvironmentSets == Sets /\ Tied /\ Environment => Sets' /\ Tied'
<1> SUFFICES ASSUME Sets, Tied, Environment  PROVE Sets' /\ Tied'
  OBVIOUS
<1> USE DEF At, jobs
<1>1. CASE Crash
  BY <1>1, Blanks DEF Crash, Sets, Tied, JobState
<1>2. ASSUME NEW j \in Job, Redeliver(j)  PROVE Sets' /\ Tied'
  <2>1. <<j>> \o queue \in Seq(Job)
    BY ConcatProperties DEF Sets
  <2>2. queue' \in Seq(Job)
    BY <1>2, <2>1 DEF Redeliver, Sets
  <2>3. \A s \in JobState : [job EXCEPT ![j] = s] \in [Job -> JobState]
    BY DEF Sets
  <2>4. job' \in [Job -> JobState]
    BY <1>2, <2>3 DEF Redeliver, JobState
  <2>5. stalls' \in [Job -> 0..1]
    BY <1>2 DEF Redeliver, Sets
  <2> QED
    BY <1>2, <2>2, <2>4, <2>5 DEF Redeliver, Sets, Tied
<1>3. ASSUME NEW n \in Name, DeleteProject(n)  PROVE Sets' /\ Tied'
  <2>1. \A i \in Item : /\ [item[i] EXCEPT !.linked = FALSE] \in ItemRow
                        /\ ~[item[i] EXCEPT !.linked = FALSE].linked
                        /\ [item[i] EXCEPT !.linked = FALSE].name = item[i].name
                        /\ [item[i] EXCEPT !.linked = FALSE].status = item[i].status
    BY DEF Sets, ItemRow
  <2>2. item' \in [Item -> ItemRow]
    BY <1>3, <2>1 DEF DeleteProject, Sets
  <2>3. \A i \in Item : /\ item'[i].status = item[i].status /\ item'[i].name = item[i].name
                        /\ item'[i].linked => item[i].linked /\ project[n].by # i
    BY <1>3, <2>1 DEF DeleteProject
  <2>4. project' \in [Name -> ProjectRow]
    BY <1>3, Blanks DEF DeleteProject, Sets
  <2>5. \A i \in Item : item[i].name \in Name
    BY DEF Sets, ItemRow
  <2> QED
    BY <1>3, <2>2, <2>3, <2>4, <2>5 DEF DeleteProject, Sets, Tied
<1> QED
  BY <1>1, <1>2, <1>3 DEF Environment

----------------------------------------------------------------------------
(* What the steps of requests and of the environment do.                   *)

\* Requests leave projects and the worker alone.  Of an import that is still
\* there they keep the rows with their names and links, and make or skip items;
\* they never say that it, or one of them, is COMPLETED or FAILED.
LEMMA HandlerEffect ==
  ASSUME Sets, RoomKept, HandlerStep
  PROVE  /\ UNCHANGED <<project, worker>>
         /\ import'.status \in {import.status, "none", "UPLOADED", "CONFIGURING", "RUNNING",
                                "CANCELLED"}
         /\ \A i \in Item : item'[i].status \in {item[i].status, "none", "PENDING", "SKIPPED"}
         /\ Exists' =>
              /\ Exists
              /\ \A i \in Rows : /\ i \in Rows'
                                 /\ item'[i].name = item[i].name
                                 /\ item'[i].linked = item[i].linked
                                 /\ item'[i].status \in {item[i].status, "SKIPPED"}
<1> USE DEF HandlerQuiet, Exists, Rows
<1>1. CASE DeleteImport
  BY <1>1, Blanks DEF DeleteImport
<1>2. ASSUME NEW h \in Handlers, NEW names \in Packages, Upload(h, names)
      PROVE  UNCHANGED <<project, worker, item>> /\ Exists /\ import'.status = "UPLOADED"
  BY <1>2 DEF Upload
<1>3. ASSUME NEW h \in Handlers, CreateItem(h)
      PROVE  /\ UNCHANGED <<project, worker, import>>
             /\ \A i \in Item : item'[i].status \in {item[i].status, "PENDING"}
             /\ \A i \in Rows : item'[i] = item[i]
  <2>1. CASE Exists
    <3> DEFINE n == CHOOSE n \in req[h].names : TRUE
               new == [NoItem EXCEPT !.status = "PENDING", !.name = n]
               i == Least(Item \ Rows)
    <3>1. item' = [item EXCEPT ![i] = new] /\ UNCHANGED <<project, worker, import>>
      BY <1>3, <2>1 DEF CreateItem
    <3>2. i \in Item \ Rows
      BY <1>3, NewItem DEF CreateItem
    <3>3. new.status = "PENDING"
      BY DEF NoItem
    <3> HIDE DEF new, i
    <3> QED
      BY <3>1, <3>2, <3>3 DEF Sets
  <2>2. CASE ~Exists
    BY <1>3, <2>2 DEF CreateItem
  <2> QED
    BY <2>1, <2>2
<1>4. ASSUME NEW h \in Handlers, FinishUpload(h) \/ FinishConfigure(h)
      PROVE  /\ UNCHANGED <<project, worker, item>> /\ (Exists' => Exists)
             /\ import'.status \in {import.status, "CONFIGURING"}
  BY <1>4 DEF FinishUpload, FinishConfigure, Sets, ImportRow
<1>5. ASSUME NEW h \in Handlers, Configure(h) \/ Start(h) \/ Enqueue(h) \/ Cancel(h)
      PROVE  UNCHANGED <<project, worker, item, import>>
  BY <1>5 DEF Configure, Start, Enqueue, Cancel
<1>6. ASSUME NEW h \in Handlers, WriteRunning(h) \/ WriteCancelled(h)
      PROVE  /\ UNCHANGED <<project, worker, item>> /\ (Exists' => Exists)
             /\ import'.status \in {import.status, "RUNNING", "CANCELLED"}
  BY <1>6 DEF WriteRunning, WriteCancelled, Sets, ImportRow
<1>7. ASSUME NEW h \in Handlers, SkipItem(h)
      PROVE  /\ UNCHANGED <<project, worker, import>>
             /\ \A i \in Item : \/ item'[i] = item[i]
                                \/ item'[i] = [item[i] EXCEPT !.status = "SKIPPED"]
  BY <1>7 DEF SkipItem, Sets
<1>8. \A i \in Item : /\ [item[i] EXCEPT !.status = "SKIPPED"].status = "SKIPPED"
                      /\ [item[i] EXCEPT !.status = "SKIPPED"].name = item[i].name
                      /\ [item[i] EXCEPT !.status = "SKIPPED"].linked = item[i].linked
  BY DEF Sets, ItemRow
<1>9. ASSUME NEW h \in Handlers, SkipItem(h)
      PROVE  \A i \in Item : /\ item'[i].name = item[i].name
                             /\ item'[i].linked = item[i].linked
                             /\ item'[i].status \in {item[i].status, "SKIPPED"}
  BY <1>7, <1>8, <1>9
<1> QED
  BY <1>1, <1>2, <1>3, <1>4, <1>5, <1>6, <1>7, <1>9 DEF HandlerStep

\* The environment leaves the import and the status and name of items alone; it
\* takes away projects, with the links to them, and the worker's state.
LEMMA EnvironmentEffect ==
  ASSUME Sets, Environment
  PROVE  /\ UNCHANGED import
         /\ worker' = worker \/ worker' = Idle
         /\ \A i \in Item : item'[i].status = item[i].status /\ item'[i].name = item[i].name
         /\ \A n \in Name : project'[n] = project[n] \/ project'[n] = NoProject
         /\ \A i \in Item : \/ item'[i].linked = item[i].linked
                            \/ \E n \in Name : project[n].by = i /\ project'[n] = NoProject
<1>1. CASE Crash
  BY <1>1 DEF Crash
<1>2. ASSUME NEW j \in Job, Redeliver(j)  PROVE UNCHANGED <<import, worker, item, project>>
  BY <1>2 DEF Redeliver
<1>3. ASSUME NEW n \in Name, DeleteProject(n)
      PROVE  /\ UNCHANGED <<import, worker>>
             /\ \A i \in Item : item'[i].status = item[i].status /\ item'[i].name = item[i].name
             /\ \A m \in Name : project'[m] = project[m] \/ project'[m] = NoProject
             /\ \A i \in Item : \/ item'[i].linked = item[i].linked
                                \/ project[n].by = i /\ project'[n] = NoProject
  <2>1. \A i \in Item : /\ [item[i] EXCEPT !.linked = FALSE].name = item[i].name
                        /\ [item[i] EXCEPT !.linked = FALSE].status = item[i].status
    BY DEF Sets, ItemRow
  <2>2. project' = [project EXCEPT ![n] = NoProject] /\ UNCHANGED <<import, worker>>
    BY <1>3 DEF DeleteProject
  <2>3. \A i \in Item : item'[i] = IF i = project[n].by THEN [item[i] EXCEPT !.linked = FALSE]
                                                        ELSE item[i]
    BY <1>3 DEF DeleteProject
  <2> QED
    BY <2>1, <2>2, <2>3 DEF Sets
<1> QED
  BY <1>1, <1>2, <1>3 DEF Environment, jobs

----------------------------------------------------------------------------
(* The bounds.                                                             *)

\* A step that only lets go of what is counted keeps the bounds.
LEMMA RoomFrame ==
  ASSUME RoomKept, Wanted' \in SUBSET Wanted, Rows' \in SUBSET Rows,
         Added' \in SUBSET Added, Starters' \in SUBSET Starters
  PROVE  RoomKept'
<1>1. /\ Cardinality(Wanted') <= Cardinality(Wanted) /\ Cardinality(Wanted') \in Nat
      /\ Cardinality(Rows') <= Cardinality(Rows) /\ Cardinality(Rows') \in Nat
  BY Finite, FS_Subset, FS_CardinalityType
<1>2. /\ Cardinality(Added') <= Cardinality(Added) /\ Cardinality(Added') \in Nat
      /\ Cardinality(Starters') <= Cardinality(Starters) /\ Cardinality(Starters') \in Nat
  BY Finite, FS_Subset, FS_CardinalityType
<1> QED
  BY <1>1, <1>2, Finite, Bounds DEF RoomKept

\* So does a request that goes on without asking for more.
LEMMA RequestFrame ==
  ASSUME Sets, NEW h \in Handlers, NEW r \in Request, req' = [req EXCEPT ![h] = r],
         r.names \subseteq req[h].names,
         r.pc \in {"starting", "enqueueing"} => req[h].pc \in {"starting", "enqueueing"}
  PROVE  Wanted' \in SUBSET Wanted /\ Starters' \in SUBSET Starters
<1>1. \A g \in Handlers : req'[g] = IF g = h THEN r ELSE req[g]
  BY DEF Sets
<1> QED
  BY <1>1 DEF Wanted, Starters

\* An upload reserves the rows it will insert, and inserts them.
LEMMA UploadRoom ==
  ASSUME Sets, RoomKept, HandsOnRows, NEW h \in Handlers, NEW names \in Packages,
         Upload(h, names)
  PROVE  RoomKept'
<1>1. names \in SUBSET Name
  BY ImportAssumption
<1>2. req[h].names = {} /\ req[h].pc = "idle"
  BY DEF HandsOnRows, Upload
<1>3. \A g \in Handlers : /\ req'[g].names = IF g = h THEN names ELSE req[g].names
                          /\ req'[g].pc = IF g = h THEN "uploading" ELSE req[g].pc
  BY DEF Upload, Sets, NoReq
<1>4. Wanted' = Wanted \cup ({h} \X names)
  BY <1>1, <1>2, <1>3 DEF Wanted
<1>5. Starters' = Starters
  BY <1>2, <1>3 DEF Starters
<1>6. Rows' = Rows /\ Added' = Added
  BY DEF Upload, Rows, Added, jobs
<1> QED
  BY <1>4, <1>5, <1>6 DEF RoomKept, Upload

LEMMA CreateItemRoom ==
  ASSUME Sets, RoomKept, NEW h \in Handlers, CreateItem(h)
  PROVE  RoomKept'
<1> USE DEF jobs
<1>1. CASE Exists
  <2> DEFINE n == CHOOSE n \in req[h].names : TRUE
             new == [NoItem EXCEPT !.status = "PENDING", !.name = n]
             i == Least(Item \ Rows)
  <2>1. n \in req[h].names /\ n \in Name
    BY DEF CreateItem, Sets, Request
  <2>2. item' = [item EXCEPT ![i] = new] /\ req' = [req EXCEPT ![h].names = @ \ {n}] /\ UNCHANGED job
    BY <1>1 DEF CreateItem
  <2>3. i \in Item \ Rows
    BY NewItem DEF CreateItem
  <2>4. new.status = "PENDING"
    BY DEF NoItem
  <2> HIDE DEF n, new, i
  <2>5. \A g \in Handlers : /\ req'[g].names = IF g = h THEN req[h].names \ {n} ELSE req[g].names
                            /\ req'[g].pc = req[g].pc
    BY <2>2 DEF Sets, Request
  <2>6. Wanted' = Wanted \ {<<h, n>>} /\ <<h, n>> \in Wanted
    BY <2>1, <2>5 DEF Wanted
  <2>7. Rows' = Rows \cup {i}
    BY <2>2, <2>3, <2>4 DEF Rows, Sets
  <2>8. Cardinality(Wanted') = Cardinality(Wanted) - 1
    BY <2>6, Finite, FS_RemoveElement
  <2>9. Cardinality(Rows') = Cardinality(Rows) + 1
    BY <2>3, <2>7, Finite, FS_AddElement
  <2>10. Starters' = Starters /\ Added' = Added
    BY <2>2, <2>5 DEF Starters, Added
  <2> QED
    BY <2>8, <2>9, <2>10, Finite, Bounds DEF RoomKept
<1>2. CASE ~Exists
  <2>1. Wanted' \in SUBSET Wanted /\ Starters' \in SUBSET Starters
    BY <1>2, Blanks, RequestFrame DEF CreateItem, Reply, NoReq
  <2>2. Rows' = Rows /\ Added' = Added
    BY <1>2 DEF CreateItem, Rows, Added
  <2> QED
    BY <2>1, <2>2, RoomFrame
<1> QED
  BY <1>1, <1>2

\* A start reserves the job it will add, and adds it.
LEMMA StartRoom ==
  ASSUME Sets, RoomKept, NEW h \in Handlers, Start(h) \/ WriteRunning(h) \/ Enqueue(h)
  PROVE  RoomKept'
<1> USE DEF jobs, Exists
<1>1. CASE Start(h)
  <2>1. \A g \in Handlers : /\ req'[g].pc = IF g = h THEN "starting" ELSE req[g].pc
                            /\ req'[g].names = IF g = h THEN {} ELSE req[g].names
    BY <1>1 DEF Start, Sets, NoReq
  <2>2. Starters' = Starters \cup {h} /\ Wanted' \in SUBSET Wanted
    BY <2>1 DEF Starters, Wanted
  <2>3. Cardinality(Starters') \in Nat /\ Cardinality(Starters') <= Cardinality(Starters) + 1
    <3>1. Cardinality(Starters') = IF h \in Starters THEN Cardinality(Starters)
                                                      ELSE Cardinality(Starters) + 1
      BY <2>2, Finite, FS_AddElement
    <3> QED
      BY <3>1, Finite
  <2>4. Cardinality(Wanted') \in Nat /\ Cardinality(Wanted') <= Cardinality(Wanted)
    BY <2>2, Finite, FS_Subset, FS_CardinalityType
  <2>5. Added' = Added /\ Rows' = Rows
    BY <1>1 DEF Start, Added, Rows
  <2>6. Cardinality(Added) + Cardinality(Starters) < MaxStarts
    BY <1>1 DEF Start
  <2> QED
    BY <2>3, <2>4, <2>5, <2>6, Finite, Bounds DEF RoomKept
<1>2. CASE WriteRunning(h)
  <2>1. [req[h] EXCEPT !.pc = "enqueueing"] \in Request
    BY DEF Sets, Request, ReqPc
  <2>2. /\ [req[h] EXCEPT !.pc = "enqueueing"].names = req[h].names
        /\ [req[h] EXCEPT !.pc = "enqueueing"].pc = "enqueueing"
    BY DEF Sets, Request
  <2>3. \/ req' = [req EXCEPT ![h] = [req[h] EXCEPT !.pc = "enqueueing"]]
        \/ req' = [req EXCEPT ![h] = NoReq]
    BY <1>2 DEF WriteRunning, Reply
  <2>4. NoReq.names = {} /\ NoReq.pc = "idle" /\ req[h].pc = "starting"
    BY <1>2 DEF NoReq, WriteRunning
  <2>5. Wanted' \in SUBSET Wanted /\ Starters' \in SUBSET Starters
    BY <2>1, <2>2, <2>3, <2>4, Blanks, RequestFrame
  <2>6. Rows' = Rows /\ Added' = Added
    BY <1>2 DEF WriteRunning, Rows, Added
  <2> QED
    BY <2>5, <2>6, RoomFrame
<1>3. CASE Enqueue(h)
  <2> DEFINE j == Least(Job \ Added)
  <2>1. j \in Job \ Added
    BY <1>3, NewJob DEF Enqueue
  <2>2. job' = [job EXCEPT ![j] = "waiting"] /\ req' = [req EXCEPT ![h] = NoReq] /\ UNCHANGED item
    BY <1>3 DEF Enqueue, Reply
  <2> HIDE DEF j
  <2>3. Added' = Added \cup {j}
    BY <2>1, <2>2 DEF Added, Sets
  <2>4. \A g \in Handlers : req'[g] = IF g = h THEN NoReq ELSE req[g]
    BY <2>2 DEF Sets
  <2>5. Starters' = Starters \ {h} /\ h \in Starters /\ Wanted' \in SUBSET Wanted
    BY <1>3, <2>4 DEF Starters, Wanted, NoReq, Enqueue
  <2>6. Cardinality(Added') = Cardinality(Added) + 1
    BY <2>1, <2>3, Finite, FS_AddElement
  <2>7. Cardinality(Starters') = Cardinality(Starters) - 1
    BY <2>5, Finite, FS_RemoveElement
  <2>8. Cardinality(Wanted') \in Nat /\ Cardinality(Wanted') <= Cardinality(Wanted)
    BY <2>5, Finite, FS_Subset, FS_CardinalityType
  <2>9. Rows' = Rows
    BY <2>2 DEF Rows
  <2> QED
    BY <2>6, <2>7, <2>8, <2>9, Finite, Bounds DEF RoomKept
<1> QED
  BY <1>1, <1>2, <1>3

\* Every other step of a request lets go at most.
LEMMA HandlerRoom ==
  ASSUME Sets, RoomKept, HandsOnRows, HandlerStep
  PROVE  RoomKept'
<1> USE DEF jobs, Reply, Rows, Added
<1>1. CASE DeleteImport
  <2>1. Wanted' = Wanted /\ Starters' = Starters /\ Added' = Added
    BY <1>1 DEF DeleteImport, Wanted, Starters
  <2>2. Rows' \in SUBSET Rows
    BY <1>1, Blanks DEF DeleteImport
  <2> QED
    BY <2>1, <2>2, RoomFrame
<1>2. ASSUME NEW h \in Handlers, FinishUpload(h) \/ FinishConfigure(h)  PROVE RoomKept'
  <2>1. Wanted' \in SUBSET Wanted /\ Starters' \in SUBSET Starters
    BY <1>2, Blanks, RequestFrame DEF FinishUpload, FinishConfigure, NoReq
  <2> QED
    BY <1>2, <2>1, RoomFrame DEF FinishUpload, FinishConfigure
<1>3. ASSUME NEW h \in Handlers, Configure(h) \/ Cancel(h)  PROVE RoomKept'
  <2> DEFINE r == IF req'[h].pc = "configuring" THEN [NoReq EXCEPT !.pc = "configuring"]
                  ELSE [NoReq EXCEPT !.pc = "cancelling",
                          !.items = {i \in Item : item[i].status \in {"PENDING", "RUNNING"}}]
  <2>1. \A g \in Handlers : /\ req'[g].names = IF g = h THEN {} ELSE req[g].names
                            /\ req'[g].pc = IF g = h THEN req'[h].pc ELSE req[g].pc
    BY <1>3 DEF Configure, Cancel, Sets, NoReq
  <2>2. req'[h].pc \in {"configuring", "cancelling"}
    BY <1>3 DEF Configure, Cancel, Sets, NoReq
  <2>3. Wanted' \in SUBSET Wanted /\ Starters' \in SUBSET Starters
    BY <2>1, <2>2 DEF Wanted, Starters
  <2> QED
    BY <1>3, <2>3, RoomFrame DEF Configure, Cancel
<1>4. ASSUME NEW h \in Handlers, WriteCancelled(h)  PROVE RoomKept'
  <2>1. \A g \in Handlers : /\ req'[g].names \subseteq req[g].names
                            /\ req'[g].pc = req[g].pc \/ req'[g].pc \in {"skipping", "idle"}
    BY <1>4 DEF WriteCancelled, Sets, Request, NoReq
  <2>2. Wanted' \in SUBSET Wanted /\ Starters' \in SUBSET Starters
    BY <2>1 DEF Wanted, Starters
  <2> QED
    BY <1>4, <2>2, RoomFrame DEF WriteCancelled
<1>5. ASSUME NEW h \in Handlers, SkipItem(h)  PROVE RoomKept'
  <2>1. \A g \in Handlers : /\ req'[g].names \subseteq req[g].names
                            /\ req'[g].pc = req[g].pc \/ req'[g].pc = "idle"
    BY <1>5 DEF SkipItem, Sets, Request, NoReq
  <2>2. Wanted' \in SUBSET Wanted /\ Starters' \in SUBSET Starters
    BY <2>1 DEF Wanted, Starters
  <2>3. Rows' \in SUBSET Rows /\ Added' = Added
    <3>1. CASE Exists /\ req[h].items # {}
      <4> DEFINE i == Least(req[h].items)
      <4>1. item' = [item EXCEPT ![i].status = "SKIPPED"] /\ UNCHANGED job
        BY <1>5, <3>1 DEF SkipItem
      <4>2. i \in req[h].items
        <5>1. req[h].items \in SUBSET Nat
          BY Bounds DEF Sets, Request
        <5> QED
          BY <3>1, <5>1, LeastOf
      <4>3. i \in Rows
        BY <3>1, <4>2 DEF HandsOnRows
      <4> HIDE DEF i
      <4>4. \A k \in Item : k # i => item'[k] = item[k]
        BY <4>1 DEF Sets
      <4> QED
        BY <4>1, <4>3, <4>4
    <3>2. CASE ~(Exists /\ req[h].items # {})
      BY <1>5, <3>2 DEF SkipItem
    <3> QED
      BY <3>1, <3>2
  <2> QED
    BY <2>2, <2>3, RoomFrame
<1> QED
  BY <1>1, <1>2, <1>3, <1>4, <1>5, UploadRoom, CreateItemRoom, StartRoom DEF HandlerStep

\* The worker writes rows that are there and jobs that were added.
LEMMA WorkerCounts ==
  ASSUME Sets, HandsOnRows, WorkerStep
  PROVE  UNCHANGED req /\ Rows' = Rows /\ Added' = Added
<1> USE DEF Quiet, jobs, Rows, Added
<1>1. CASE Take
  <2>1. queue # <<>> /\ Len(queue) >= 1 /\ Head(queue) = queue[1]
    BY <1>1 DEF Take, Sets
  <2>2. Head(queue) \in Added
    BY <2>1 DEF HandsOnRows, Sets
  <2>3. \E s \in {"done", "active"} : job' = [job EXCEPT ![Head(queue)] = s]
    BY <1>1 DEF Take
  <2> QED
    BY <1>1, <2>2, <2>3 DEF Take, Sets
<1>2. CASE NextItem \/ CreateProject \/ DataStages \/ SetEnv \/ Finish
  BY <1>2 DEF NextItem, CreateProject, DataStages, SetEnv, Finish
<1>3. CASE BeginItem
  <2>1. I \in Item /\ (Exists => I \in Rows)
    BY <1>3, CurrentItem DEF BeginItem, At, InItem
  <2>2. \/ item' = item
        \/ Exists /\ item' = [item EXCEPT ![I].status = "RUNNING"]
    BY <1>3 DEF BeginItem
  <2>3. "RUNNING" \in ItemStatus
    BY DEF ItemStatus
  <2>4. Rows' = Rows
    BY <2>1, <2>2, <2>3, ItemWrite
  <2> QED
    BY <1>3, <2>4 DEF BeginItem
<1>4. CASE StoreProject
  <2>1. I \in Item
    BY <1>4, CurrentItem DEF StoreProject, At, InItem
  <2>2. item' = item \/ item' = [item EXCEPT ![I].linked = TRUE]
    BY <1>4 DEF StoreProject
  <2>3. Rows' = Rows
    BY <2>1, <2>2, ItemLink
  <2> QED
    BY <1>4, <2>3 DEF StoreProject
<1>5. CASE EndItem
  <2>1. I \in Item /\ (Exists => I \in Rows)
    BY <1>5, CurrentItem DEF EndItem, InItem
  <2>2. \/ item' = item
        \/ Exists /\ item' = [item EXCEPT ![I].status = "COMPLETED"]
        \/ Exists /\ item' = [item EXCEPT ![I].status = "FAILED"]
    BY <1>5 DEF EndItem
  <2>3. "COMPLETED" \in ItemStatus /\ "FAILED" \in ItemStatus
    BY DEF ItemStatus
  <2>4. Rows' = Rows
    BY <2>1, <2>2, <2>3, ItemWrite
  <2> QED
    BY <1>5, <2>4 DEF EndItem
<1>6. CASE Settle
  <2>1. worker.job \in Added
    BY <1>6 DEF Settle, HandsOnRows
  <2>2. \E s \in {"done", "failed"} : job' = [job EXCEPT ![worker.job] = s]
    BY <1>6 DEF Settle
  <2> QED
    BY <1>6, <2>1, <2>2 DEF Settle, Sets
<1> QED
  BY <1>1, <1>2, <1>3, <1>4, <1>5, <1>6 DEF WorkerStep

\* So does the environment; a crash answers every request.
LEMMA EnvironmentCounts ==
  ASSUME Sets, HandsOnRows, Environment
  PROVE  /\ req' = req \/ req' = [h \in Handlers |-> NoReq]
         /\ Rows' = Rows /\ Added' = Added
<1> USE DEF jobs, Added
<1>1. Rows' = Rows
  BY EnvironmentEffect DEF Rows
<1>2. CASE Crash
  BY <1>1, <1>2 DEF Crash, HandsOnRows, At, Sets
<1>3. ASSUME NEW j \in Job, Redeliver(j)  PROVE UNCHANGED req /\ Added' = Added
  <2>1. j \in Added
    BY <1>3 DEF Redeliver
  <2>2. \E s \in {"waiting", "failed"} : job' = [job EXCEPT ![j] = s]
    BY <1>3 DEF Redeliver
  <2> QED
    BY <1>3, <2>1, <2>2 DEF Redeliver, Sets
<1>4. ASSUME NEW n \in Name, DeleteProject(n)  PROVE UNCHANGED <<req, job>>
  BY <1>4 DEF DeleteProject
<1> QED
  BY <1>1, <1>2, <1>3, <1>4 DEF Environment

LEMMA RoomStep ==
  ASSUME Sets, RoomKept, HandsOnRows, WorkerStep \/ Environment
  PROVE  RoomKept'
<1>1. CASE WorkerStep
  <2>1. Wanted' = Wanted /\ Starters' = Starters
    BY <1>1, WorkerCounts DEF Wanted, Starters
  <2> QED
    BY <1>1, <2>1, WorkerCounts, RoomFrame
<1>2. CASE Environment
  <2>1. Wanted' \in SUBSET Wanted /\ Starters' \in SUBSET Starters
    BY <1>2, EnvironmentCounts DEF Wanted, Starters, NoReq
  <2> QED
    BY <1>2, <2>1, EnvironmentCounts, RoomFrame
<1> QED
  BY <1>1, <1>2

----------------------------------------------------------------------------
(* What requests and the worker hold.                                      *)

\* Jobs are only ever added, and a request queues a job that was added.
LEMMA HandlerQueue ==
  ASSUME Sets, RoomKept, HandsOnRows, HandlerStep
  PROVE  Added \subseteq Added' /\ \A k \in 1..Len(queue') : queue'[k] \in Added'
<1> USE DEF jobs, Added
<1>1. ASSUME NEW h \in Handlers, Enqueue(h)
      PROVE  Added \subseteq Added' /\ \A k \in 1..Len(queue') : queue'[k] \in Added'
  <2> DEFINE j == Least(Job \ Added)
  <2>1. j \in Job
    BY <1>1, NewJob DEF Enqueue
  <2>2. job' = [job EXCEPT ![j] = "waiting"] /\ queue' = Append(queue, j)
    BY <1>1 DEF Enqueue
  <2> HIDE DEF j
  <2>3. Added \subseteq Added' /\ j \in Added'
    BY <2>1, <2>2 DEF Sets
  <2>4. /\ Len(queue') = Len(queue) + 1 /\ Len(queue) \in Nat
        /\ \A k \in 1..Len(queue) : queue'[k] = queue[k]
        /\ queue'[Len(queue) + 1] = j
    BY <2>1, <2>2, AppendProperties, LenProperties DEF Sets
  <2> QED
    BY <2>3, <2>4 DEF HandsOnRows
<1>2. CASE \A h \in Handlers : ~Enqueue(h)
  <2>1. UNCHANGED <<job, queue>>
    BY <1>2 DEF HandlerStep, DeleteImport, Upload, CreateItem, FinishUpload, Configure,
                FinishConfigure, Start, WriteRunning, Cancel, WriteCancelled, SkipItem
  <2> QED
    BY <2>1 DEF HandsOnRows
<1> QED
  BY <1>1, <1>2

\* A request holds the names of an upload or the items of a cancel.
LEMMA HandlerHands ==
  ASSUME Sets, RoomKept, HandsOnRows, HandlerStep
  PROVE  /\ \A h \in Handlers : req'[h].pc # "uploading" => req'[h].names = {}
         /\ Exists' => \A h \in Handlers : req'[h].items \subseteq Rows'
<1>1. Exists' => Rows \subseteq Rows' /\ \A h \in Handlers : req[h].items \subseteq Rows
  BY HandlerEffect DEF HandsOnRows
<1>2. ASSUME NEW h \in Handlers, NEW r \in Request, req' = [req EXCEPT ![h] = r],
             r.pc # "uploading" => r.names = {}, Exists => r.items \subseteq Rows
      PROVE  /\ \A g \in Handlers : req'[g].pc # "uploading" => req'[g].names = {}
             /\ Exists' => \A g \in Handlers : req'[g].items \subseteq Rows'
  <2>1. \A g \in Handlers : req'[g] = IF g = h THEN r ELSE req[g]
    BY <1>2 DEF Sets
  <2>2. Exists' => Exists
    BY HandlerEffect
  <2> QED
    BY <1>1, <1>2, <2>1, <2>2 DEF HandsOnRows
<1>3. CASE DeleteImport
  BY <1>3 DEF DeleteImport, HandsOnRows, Exists
<1>4. ASSUME NEW h \in Handlers, NEW names \in Packages, Upload(h, names)
      PROVE  \E r \in Request : /\ req' = [req EXCEPT ![h] = r]
                                /\ r.pc # "uploading" => r.names = {}
                                /\ Exists => r.items \subseteq Rows
  <2>1. names \in SUBSET Name
    BY ImportAssumption
  <2> QED
    <3> DEFINE r == [NoReq EXCEPT !.pc = "uploading", !.names = names]
    <3>1. r \in Request /\ r.pc = "uploading" /\ r.items = {}
      BY <2>1 DEF NoReq, Request, ReqPc
    <3>2. req' = [req EXCEPT ![h] = r]
      BY <1>4 DEF Upload
    <3> HIDE DEF r
    <3> QED
      BY <3>1, <3>2
<1>5. ASSUME NEW h \in Handlers,
             CreateItem(h) \/ FinishUpload(h) \/ Configure(h) \/ FinishConfigure(h)
      PROVE  \E r \in Request : /\ req' = [req EXCEPT ![h] = r]
                                /\ r.pc # "uploading" => r.names = {}
                                /\ Exists => r.items \subseteq Rows
  <2>1. ASSUME FinishUpload(h) \/ FinishConfigure(h)  PROVE req' = [req EXCEPT ![h] = NoReq]
    BY <2>1 DEF FinishUpload, FinishConfigure, Reply
  <2>2. CASE Configure(h)
    <3>1. [NoReq EXCEPT !.pc = "configuring"] \in Request
      BY DEF NoReq, Request, ReqPc
    <3> QED
      BY <2>2, <3>1 DEF Configure, NoReq
  <2>3. CASE CreateItem(h)
    <3> DEFINE n == CHOOSE n \in req[h].names : TRUE
    <3>1. req' = [req EXCEPT ![h].names = @ \ {n}] \/ req' = [req EXCEPT ![h] = NoReq]
      BY <2>3 DEF CreateItem, Reply
    <3> HIDE DEF n
    <3>2. /\ [req[h] EXCEPT !.names = @ \ {n}] \in Request
          /\ [req[h] EXCEPT !.names = @ \ {n}].pc = req[h].pc
          /\ [req[h] EXCEPT !.names = @ \ {n}].items = req[h].items
      BY DEF Sets, Request
    <3>3. req[h].pc = "uploading" /\ (Exists => req[h].items \subseteq Rows)
      BY <2>3 DEF CreateItem, HandsOnRows
    <3> QED
      BY <3>1, <3>2, <3>3, Blanks DEF NoReq
  <2> QED
    BY <1>5, <2>1, <2>2, <2>3, Blanks DEF NoReq
<1>6. ASSUME NEW h \in Handlers, Start(h) \/ WriteRunning(h) \/ Enqueue(h)
      PROVE  \E r \in Request : /\ req' = [req EXCEPT ![h] = r]
                                /\ r.pc # "uploading" => r.names = {}
                                /\ Exists => r.items \subseteq Rows
  <2>1. CASE Start(h)
    <3>1. [NoReq EXCEPT !.pc = "starting"] \in Request
      BY DEF NoReq, Request, ReqPc
    <3> QED
      BY <2>1, <3>1 DEF Start, NoReq
  <2>2. CASE WriteRunning(h)
    <3>1. /\ [req[h] EXCEPT !.pc = "enqueueing"] \in Request
          /\ [req[h] EXCEPT !.pc = "enqueueing"].names = req[h].names
          /\ [req[h] EXCEPT !.pc = "enqueueing"].items = req[h].items
      BY DEF Sets, Request, ReqPc
    <3>2. req[h].names = {} /\ (Exists => req[h].items \subseteq Rows)
      BY <2>2 DEF WriteRunning, HandsOnRows
    <3> QED
      BY <2>2, <3>1, <3>2, Blanks DEF WriteRunning, Reply, NoReq
  <2>3. CASE Enqueue(h)
    BY <2>3, Blanks DEF Enqueue, Reply, NoReq
  <2> QED
    BY <1>6, <2>1, <2>2, <2>3
<1>7. ASSUME NEW h \in Handlers, Cancel(h) \/ WriteCancelled(h) \/ SkipItem(h)
      PROVE  \E r \in Request : /\ req' = [req EXCEPT ![h] = r]
                                /\ r.pc # "uploading" => r.names = {}
                                /\ Exists => r.items \subseteq Rows
  <2>1. CASE Cancel(h)
    <3> DEFINE r == [NoReq EXCEPT !.pc = "cancelling",
                       !.items = {i \in Item : item[i].status \in {"PENDING", "RUNNING"}}]
    <3>1. r \in Request /\ r.names = {} /\ r.items \subseteq Rows
      BY DEF NoReq, Request, ReqPc, Rows
    <3>2. req' = [req EXCEPT ![h] = r]
      BY <2>1 DEF Cancel
    <3> HIDE DEF r
    <3> QED
      BY <3>1, <3>2
  <2>2. CASE WriteCancelled(h)
    <3>1. /\ [req[h] EXCEPT !.pc = "skipping"] \in Request
          /\ [req[h] EXCEPT !.pc = "skipping"].names = req[h].names
          /\ [req[h] EXCEPT !.pc = "skipping"].items = req[h].items
      BY DEF Sets, Request, ReqPc
    <3>2. req[h].names = {} /\ (Exists => req[h].items \subseteq Rows)
      BY <2>2 DEF WriteCancelled, HandsOnRows
    <3> QED
      BY <2>2, <3>1, <3>2, Blanks DEF WriteCancelled, Reply, NoReq
  <2>3. CASE SkipItem(h)
    <3> DEFINE i == Least(req[h].items)
    <3>1. req' = [req EXCEPT ![h].items = @ \ {i}] \/ req' = [req EXCEPT ![h] = NoReq]
      BY <2>3 DEF SkipItem, Reply
    <3> HIDE DEF i
    <3>2. /\ [req[h] EXCEPT !.items = @ \ {i}] \in Request
          /\ [req[h] EXCEPT !.items = @ \ {i}].names = req[h].names
          /\ [req[h] EXCEPT !.items = @ \ {i}].items \subseteq req[h].items
      BY DEF Sets, Request
    <3>3. req[h].names = {} /\ (Exists => req[h].items \subseteq Rows)
      BY <2>3 DEF SkipItem, HandsOnRows
    <3> QED
      BY <3>1, <3>2, <3>3, Blanks DEF NoReq
  <2> QED
    BY <1>7, <2>1, <2>2, <2>3
<1> QED
  BY <1>2, <1>3, <1>4, <1>5, <1>6, <1>7 DEF HandlerStep

\* What a step of the worker leaves in its hands.
LEMMA WorkerHands ==
  ASSUME Sets, HandsOnRows, WorkerStep
  PROVE  /\ worker'.pc # "idle" => worker'.job \in Added
         /\ Exists' => worker'.items \subseteq Rows
         /\ worker'.todo \subseteq worker'.items
         /\ worker'.pc \in InItem => worker'.item \in worker'.items \ worker'.todo
         /\ worker'.pc = "check" => worker'.item = 0
<1> USE DEF At, Quiet, jobs, InItem, Exists
<1>1. {"idle", "check", "done", "abort", "begin", "create", "store", "data", "env",
       "completing", "failing"} = Pc
  BY DEF Pc
<1>2. CASE Take
  <2>1. queue # <<>> /\ Len(queue) >= 1 /\ Head(queue) = queue[1]
    BY <1>2 DEF Take, Sets
  <2>2. Head(queue) \in Added
    BY <2>1 DEF HandsOnRows, Sets
  <2> DEFINE w == [Idle EXCEPT !.pc = "check", !.job = Head(queue), !.items = Rows,
                     !.todo = {i \in Rows : item[i].status \notin {"SKIPPED", "COMPLETED"}}]
  <2>3. /\ w.pc = "check" /\ w.job = Head(queue) /\ w.items = Rows /\ w.item = 0
        /\ w.todo \subseteq Rows
    BY DEF Idle
  <2>4. (worker' = worker \/ worker' = w) /\ UNCHANGED import
    BY <1>2 DEF Take
  <2> HIDE DEF w
  <2> QED
    BY <2>2, <2>3, <2>4 DEF HandsOnRows
<1>3. CASE NextItem
  <2>1. ASSUME NEW i \in worker.todo, worker' = [worker EXCEPT !.pc = "begin", !.item = i, !.todo = @ \ {i}]
        PROVE  /\ worker'.pc = "begin" /\ worker'.item = i /\ worker'.todo = worker.todo \ {i}
               /\ worker'.items = worker.items /\ worker'.job = worker.job
    BY <2>1 DEF Sets, Worker
  <2> QED
    BY <1>1, <1>3, <2>1, GotoStep DEF NextItem, HandsOnRows
<1>4. CASE BeginItem
  BY <1>1, <1>4, GotoStep DEF BeginItem, HandsOnRows
<1>5. CASE CreateProject
  BY <1>1, <1>5, GotoStep DEF CreateProject, HandsOnRows
<1>6. CASE StoreProject
  BY <1>1, <1>6, GotoStep DEF StoreProject, HandsOnRows
<1>7. CASE DataStages
  BY <1>1, <1>7, GotoStep DEF DataStages, HandsOnRows
<1>8. CASE SetEnv
  BY <1>1, <1>8, GotoStep DEF SetEnv, HandsOnRows
<1>9. CASE EndItem
  <2>1. ASSUME worker' = [worker EXCEPT !.pc = "check", !.item = 0, !.failed = @ \/ worker.pc = "failing"]
        PROVE  /\ worker'.pc = "check" /\ worker'.item = 0 /\ worker'.todo = worker.todo
               /\ worker'.items = worker.items /\ worker'.job = worker.job
    BY <2>1 DEF Sets, Worker
  <2> QED
    BY <1>1, <1>9, <2>1, GotoStep DEF EndItem, HandsOnRows
<1>10. CASE Finish
  <2>1. Exists' => Exists
    BY <1>10 DEF Finish
  <2> QED
    BY <1>1, <1>10, <2>1, GotoStep DEF Finish, HandsOnRows
<1>11. CASE Settle
  BY <1>11 DEF Settle, Idle
<1> QED
  BY <1>2, <1>3, <1>4, <1>5, <1>6, <1>7, <1>8, <1>9, <1>10, <1>11 DEF WorkerStep

\* The import is not made again.
LEMMA NotMadeAgain ==
  ASSUME Sets, RoomKept, Next
  PROVE  Exists' => Exists
<1>1. CASE WorkerStep
  BY <1>1 DEF WorkerStep, Take, NextItem, BeginItem, CreateProject, StoreProject, DataStages,
              SetEnv, EndItem, Finish, Settle, Exists
<1> QED
  BY <1>1, HandlerEffect, EnvironmentEffect DEF Next, Exists

LEMMA HandsStep ==
  ASSUME Sets, RoomKept, HandsOnRows, Next
  PROVE  HandsOnRows'
<1>1. CASE HandlerStep
  <2>1. UNCHANGED worker /\ (Exists' => Exists /\ Rows \subseteq Rows')
    BY <1>1, HandlerEffect
  <2> QED
    BY <1>1, <2>1, HandlerQueue, HandlerHands DEF HandsOnRows
<1>2. CASE WorkerStep
  <2>1. UNCHANGED req /\ Rows' = Rows /\ Added' = Added /\ (Exists' => Exists)
    BY <1>2, WorkerCounts, NotMadeAgain
  <2>2. \A k \in 1..Len(queue') : queue'[k] \in Added
    <3>1. CASE Take
      <4>1. /\ Len(Tail(queue)) = Len(queue) - 1 /\ Len(queue) \in Nat
            /\ \A k \in 1..Len(Tail(queue)) : Tail(queue)[k] = queue[k + 1]
        BY <3>1, HeadTailProperties, LenProperties DEF Take, Sets
      <4>2. queue' = Tail(queue)
        BY <3>1 DEF Take
      <4> QED
        BY <4>1, <4>2 DEF HandsOnRows
    <3>2. CASE ~Take
      <4>1. UNCHANGED queue
        BY <1>2, <3>2 DEF WorkerStep, NextItem, BeginItem, CreateProject, StoreProject, DataStages,
                          SetEnv, EndItem, Finish, Settle, Quiet, jobs
      <4> QED
        BY <4>1 DEF HandsOnRows
    <3> QED
      BY <3>1, <3>2
  <2> QED
    BY <1>2, <2>1, <2>2, WorkerHands DEF HandsOnRows
<1>3. CASE Environment
  <2>1. /\ req' = req \/ req' = [h \in Handlers |-> NoReq]
        /\ Rows' = Rows /\ Added' = Added /\ (Exists' => Exists)
        /\ worker' = worker \/ worker' = Idle
    BY <1>3, EnvironmentCounts, EnvironmentEffect, NotMadeAgain
  <2>2. \A k \in 1..Len(queue') : queue'[k] \in Added
    <3>1. ASSUME NEW j \in Job, Redeliver(j)
          PROVE  \A k \in 1..Len(queue') : queue'[k] \in Added
      <4>1. j \in Added
        BY <3>1 DEF Redeliver, Added
      <4>2. /\ Len(<<j>> \o queue) = 1 + Len(queue) /\ Len(queue) \in Nat
            /\ \A k \in 1..(1 + Len(queue)) :
                 (<<j>> \o queue)[k] = IF k <= 1 THEN <<j>>[k] ELSE queue[k - 1]
        <5>1. <<j>> \in Seq(Job) /\ Len(<<j>>) = 1 /\ queue \in Seq(Job)
          BY DEF Sets
        <5> QED
          BY <5>1, ConcatProperties, LenProperties
      <4>3. queue' = queue \/ queue' = <<j>> \o queue
        BY <3>1 DEF Redeliver
      <4> QED
        BY <4>1, <4>2, <4>3 DEF HandsOnRows
    <3>2. CASE \A j \in Job : ~Redeliver(j)
      BY <1>3, <3>2 DEF Environment, Crash, DeleteProject, jobs, HandsOnRows
    <3> QED
      BY <3>1, <3>2
  <2> QED
    BY <2>1, <2>2, Blanks DEF HandsOnRows, NoReq, Idle, InItem
<1> QED
  BY <1>1, <1>2, <1>3 DEF Next

----------------------------------------------------------------------------
(* What the worker remembers.                                              *)

\* The worker is through with rows, of which the current item is none.
LEMMA ThroughRows ==
  ASSUME HandsOnRows, Exists
  PROVE  Through \subseteq Rows /\ Through \subseteq worker.items
BY DEF HandsOnRows, Through

LEMMA TallyStep ==
  ASSUME Sets, RoomKept, HandsOnRows, Tally, Next
  PROVE  Tally'
<1> SUFFICES ASSUME Exists', worker'.pc \in {"check"} \cup InItem
             PROVE  /\ \A i \in Through' : \/ item'[i].status \in {"COMPLETED", "SKIPPED"}
                                           \/ worker'.failed /\ item'[i].status = "FAILED"
                    /\ worker'.failed => \E i \in Through' : item'[i].status \in {"FAILED", "SKIPPED"}
  BY DEF Tally
<1>1. Exists /\ Through \subseteq Rows /\ Rows \subseteq Item
  BY NotMadeAgain, ThroughRows DEF Rows
<1>2. CASE HandlerStep
  <2>1. Through' = Through /\ UNCHANGED worker
    BY <1>2, HandlerEffect DEF Through
  <2>2. \A i \in Through : item'[i].status \in {item[i].status, "SKIPPED"}
    BY <1>1, <1>2, HandlerEffect
  <2> QED
    BY <1>1, <2>1, <2>2 DEF Tally
<1>3. CASE WorkerStep
  <2> USE DEF At, Quiet, InItem
  <2>1. {"idle", "check", "done", "abort", "begin", "create", "store", "data", "env",
         "completing", "failing"} = Pc
    BY DEF Pc
  <2>2. CASE Take
    <3> DEFINE w == [Idle EXCEPT !.pc = "check", !.job = Head(queue), !.items = Rows,
                       !.todo = {i \in Rows : item[i].status \notin {"SKIPPED", "COMPLETED"}}]
    <3>1. /\ w.items = Rows /\ w.item = 0 /\ w.failed = FALSE
          /\ w.todo = {i \in Rows : item[i].status \notin {"SKIPPED", "COMPLETED"}}
      BY DEF Idle
    <3>2. worker' = w /\ UNCHANGED item
      BY <2>2 DEF Take
    <3> HIDE DEF w
    <3>3. Through' = Rows \ (w.todo \cup {0})
      BY <3>1, <3>2 DEF Through
    <3> QED
      BY <3>1, <3>2, <3>3
  <2>3. CASE NextItem
    <3>1. ASSUME NEW i \in worker.todo,
                 worker' = [worker EXCEPT !.pc = "begin", !.item = i, !.todo = @ \ {i}]
          PROVE  /\ worker'.item = i /\ worker'.todo = worker.todo \ {i}
                 /\ worker'.items = worker.items /\ worker'.failed = worker.failed
      BY <3>1 DEF Sets, Worker
    <3>2. worker.item = 0 /\ 0 \notin Through
      BY <1>1, <2>3, Bounds DEF NextItem, HandsOnRows
    <3>3. PICK i \in worker.todo :
            worker' = [worker EXCEPT !.pc = "begin", !.item = i, !.todo = @ \ {i}]
      BY <2>1, <2>3, GotoStep DEF NextItem
    <3>4. worker.items \subseteq Item
      BY DEF Sets, Worker
    <3>5. Through' = Through
      BY <3>1, <3>2, <3>3, <3>4, Bounds DEF Through
    <3> QED
      BY <1>1, <2>3, <3>1, <3>3, <3>5 DEF NextItem, Tally
  <2>4. CASE BeginItem
    <3>1. I \in Item /\ I \notin Through
      BY <2>4, CurrentItem DEF BeginItem, I, Through
    <3>2. item' = item \/ item' = [item EXCEPT ![I].status = "RUNNING"]
      BY <2>4 DEF BeginItem
    <3>3. \A i \in Through : item'[i] = item[i]
      BY <1>1, <3>1, <3>2 DEF Sets
    <3>4. Through' = Through /\ worker'.failed = worker.failed
      BY <2>1, <2>4, GotoStep DEF BeginItem, Through
    <3> QED
      BY <1>1, <2>4, <3>3, <3>4 DEF BeginItem, Tally
  <2>5. CASE CreateProject \/ DataStages \/ SetEnv
    <3>1. Through' = Through /\ worker'.failed = worker.failed /\ UNCHANGED item
      BY <2>1, <2>5, GotoStep DEF CreateProject, DataStages, SetEnv, Through
    <3> QED
      BY <1>1, <2>5, <3>1 DEF CreateProject, DataStages, SetEnv, Tally
  <2>6. CASE StoreProject
    <3>1. I \in Item /\ I \notin Through
      BY <2>6, CurrentItem DEF StoreProject, I, Through
    <3>2. item' = item \/ item' = [item EXCEPT ![I].linked = TRUE]
      BY <2>6 DEF StoreProject
    <3>3. \A i \in Through : item'[i] = item[i]
      BY <1>1, <3>1, <3>2 DEF Sets
    <3>4. Through' = Through /\ worker'.failed = worker.failed
      BY <2>1, <2>6, GotoStep DEF StoreProject, Through
    <3> QED
      BY <1>1, <2>6, <3>3, <3>4 DEF StoreProject, Tally
  <2>7. CASE EndItem
    <3>1. Exists /\ I \in Rows /\ I \in Item /\ worker.pc \in {"completing", "failing"}
      BY <1>1, <2>7, CurrentItem DEF EndItem
    <3>2. /\ item' = [item EXCEPT ![I].status = IF worker.pc = "completing" THEN "COMPLETED" ELSE "FAILED"]
          /\ worker' = [worker EXCEPT !.pc = "check", !.item = 0,
                                      !.failed = @ \/ worker.pc = "failing"]
      BY <2>7, <3>1 DEF EndItem
    <3>3. /\ worker'.item = 0 /\ worker'.todo = worker.todo /\ worker'.items = worker.items
          /\ worker'.failed <=> worker.failed \/ worker.pc = "failing"
      BY <3>2 DEF Sets, Worker
    <3>4. I \in worker.items \ worker.todo /\ worker.items \subseteq Item /\ 0 \notin Item
      BY <3>1, Bounds DEF HandsOnRows, I, Sets, Worker
    <3>5. Through' = Through \cup {I} /\ I \notin Through
      BY <3>3, <3>4 DEF Through, I
    <3>6. "COMPLETED" \in ItemStatus /\ "FAILED" \in ItemStatus
      BY DEF ItemStatus
    <3>7. /\ \A i \in Through : item'[i] = item[i]
          /\ item'[I].status = IF worker.pc = "completing" THEN "COMPLETED" ELSE "FAILED"
      <4> DEFINE s == IF worker.pc = "completing" THEN "COMPLETED" ELSE "FAILED"
      <4>1. s \in ItemStatus /\ item' = [item EXCEPT ![I].status = s]
        BY <3>2, <3>6
      <4> HIDE DEF s
      <4>2. item'[I].status = s /\ \A k \in Item : k # I => item'[k] = item[k]
        BY <3>1, <4>1, ItemWrite
      <4> QED
        BY <1>1, <3>5, <4>2 DEF s
    <3>8. /\ \A i \in Through : \/ item[i].status \in {"COMPLETED", "SKIPPED"}
                                \/ worker.failed /\ item[i].status = "FAILED"
          /\ worker.failed => \E i \in Through : item[i].status \in {"FAILED", "SKIPPED"}
      BY <3>1 DEF Tally
    <3> QED
      BY <3>1, <3>3, <3>5, <3>7, <3>8
  <2>8. CASE Finish
    BY <2>1, <2>8, GotoStep DEF Finish
  <2>9. CASE Settle
    BY <2>9 DEF Settle, Idle
  <2> QED
    BY <1>3, <2>2, <2>3, <2>4, <2>5, <2>6, <2>7, <2>8, <2>9 DEF WorkerStep
<1>4. CASE Environment
  <2>1. worker' = worker
    BY <1>4, EnvironmentEffect DEF Idle, InItem
  <2>2. Through' = Through
    BY <2>1 DEF Through
  <2>3. \A i \in Item : item'[i].status = item[i].status
    BY <1>4, EnvironmentEffect
  <2> QED
    BY <1>1, <2>1, <2>2, <2>3 DEF Tally
<1> QED
  BY <1>2, <1>3, <1>4 DEF Next

----------------------------------------------------------------------------
(* Whose project it is.                                                    *)

LEMMA LinkedStep ==
  ASSUME Sets, Tied, RoomKept, HandsOnRows, Linked, Next
  PROVE  Linked'
<1> SUFFICES ASSUME Exists'  PROVE Linked'
  BY DEF Linked
<1>1. Exists /\ Rows \subseteq Item
  BY NotMadeAgain DEF Rows
<1>2. \A n \in Name : project[n].by # Nobody => project[n].by \in Rows /\ item[project[n].by].name = n
  BY <1>1 DEF Linked
<1>3. worker.pc \in InItem => I \in Item /\ I \in Rows /\ N \in Name
  BY <1>1, CurrentItem
<1> USE DEF At, Quiet
<1>4. {"idle", "check", "done", "abort", "begin", "create", "store", "data", "env",
       "completing", "failing"} = Pc
  BY DEF Pc, InItem
<1>5. CASE HandlerStep
  <2>1. /\ UNCHANGED <<project, worker>>
        /\ \A i \in Rows : /\ i \in Rows' /\ item'[i].name = item[i].name
                           /\ item'[i].linked = item[i].linked
    BY <1>5, HandlerEffect
  <2>2. worker.pc \in InItem => N' = N /\ I' = I
    BY <1>3, <2>1 DEF N, I
  <2> QED
    BY <1>1, <1>3, <2>1, <2>2 DEF Linked, InItem
<1>6. CASE WorkerStep
  <2>1. Rows' = Rows
    BY <1>6, WorkerCounts
  <2>2. CASE Take \/ NextItem \/ Finish \/ Settle
    <3>1. worker'.pc \notin {"data", "env", "completing"}
      <4>1. CASE Take
        BY <4>1 DEF Take, Idle
      <4>2. CASE NextItem
        BY <1>4, <4>2, GotoStep DEF NextItem, Sets, Worker
      <4>3. CASE Finish \/ Settle
        BY <1>4, <4>3, GotoStep DEF Finish, Settle, Idle
      <4> QED
        BY <2>2, <4>1, <4>2, <4>3
    <3>2. UNCHANGED <<item, project>>
      BY <2>2 DEF Take, NextItem, Finish, Settle
    <3> QED
      BY <1>1, <2>1, <3>1, <3>2 DEF Linked
  <2>3. CASE BeginItem \/ EndItem
    <3>1. worker'.pc \notin {"data", "env", "completing"} /\ UNCHANGED project
      BY <1>1, <1>4, <2>3, GotoStep DEF BeginItem, EndItem, Sets, Worker
    <3>2. I \in Item
      BY <1>3, <2>3 DEF BeginItem, EndItem, InItem
    <3>3. \E s \in ItemStatus : item' = [item EXCEPT ![I].status = s]
      BY <1>1, <2>3 DEF BeginItem, EndItem, ItemStatus
    <3>4. \A k \in Item : item'[k].name = item[k].name
      BY <3>2, <3>3, ItemWrite
    <3> QED
      BY <1>1, <1>2, <2>1, <3>1, <3>4 DEF Linked
  <2>4. CASE CreateProject
    <3>1. worker'.pc \notin {"data", "env", "completing"} /\ UNCHANGED item
      BY <1>4, <2>4, GotoStep DEF CreateProject
    <3>2. I \in Rows /\ N \in Name
      BY <1>3, <2>4 DEF CreateProject, InItem
    <3>3. [NoProject EXCEPT !.by = I].by = I
      BY DEF NoProject
    <3>4. project' = project \/ project' = [project EXCEPT ![N] = [NoProject EXCEPT !.by = I]]
      BY <2>4 DEF CreateProject
    <3>5. \A n \in Name : project'[n] = project[n] \/ (n = N /\ project'[n].by = I)
      BY <3>2, <3>3, <3>4 DEF Sets
    <3> QED
      BY <1>2, <2>1, <3>1, <3>2, <3>5 DEF Linked, N
  <2>5. CASE StoreProject
    <3>1. worker'.item = worker.item /\ worker'.pc # "completing" /\ UNCHANGED project
      BY <1>4, <2>5, GotoStep DEF StoreProject
    <3>2. I \in Item
      BY <1>3, <2>5 DEF StoreProject, InItem
    <3>3. \/ item' = [item EXCEPT ![I].linked = TRUE]
          \/ item' = item /\ worker'.pc = "failing"
      BY <1>1, <1>4, <2>5, GotoStep DEF StoreProject
    <3>4. /\ \A k \in Item : item'[k].name = item[k].name
          /\ worker'.pc \in {"data", "env", "completing"} => item'[I].linked
      BY <3>2, <3>3, ItemLink
    <3>5. I' = I
      BY <3>1 DEF I
    <3> QED
      BY <1>1, <1>2, <2>1, <3>1, <3>4, <3>5 DEF Linked
  <2>6. CASE DataStages
    <3>1. /\ worker'.item = worker.item /\ worker'.pc # "completing" /\ UNCHANGED <<project, item>>
          /\ worker.pc = "data"
      BY <1>4, <2>6, GotoStep DEF DataStages
    <3>2. I' = I /\ N' = N
      BY <3>1 DEF I, N
    <3> QED
      BY <1>1, <1>2, <2>1, <3>1, <3>2 DEF Linked
  <2>7. CASE SetEnv
    <3>1. /\ worker'.item = worker.item /\ UNCHANGED item /\ worker.pc = "env"
          /\ worker'.pc \in {"completing", "failing"}
      BY <1>4, <2>7, GotoStep DEF SetEnv
    <3>2. I' = I /\ N' = N /\ N \in Name
      BY <1>3, <3>1 DEF I, N, InItem
    <3>3. \/ project' = project /\ worker'.pc = "failing"
          \/ project[N].by = I /\ project' = [project EXCEPT ![N].env = TRUE]
      BY <1>4, <2>7, GotoStep DEF SetEnv
    <3>4. \A n \in Name : /\ [project[n] EXCEPT !.env = TRUE].by = project[n].by
                          /\ [project[n] EXCEPT !.env = TRUE].env
      BY DEF Sets, ProjectRow
    <3>5. /\ \A n \in Name : project'[n].by = project[n].by
          /\ worker'.pc = "completing" => project'[N].by = I /\ project'[N].env
      BY <3>2, <3>3, <3>4 DEF Sets
    <3> QED
      BY <1>1, <1>2, <2>1, <3>1, <3>2, <3>5 DEF Linked
  <2> QED
    BY <1>6, <2>2, <2>3, <2>4, <2>5, <2>6, <2>7 DEF WorkerStep
<1>7. CASE Environment
  <2>1. /\ Rows' = Rows /\ (worker' = worker \/ worker' = Idle)
        /\ \A i \in Item : item'[i].name = item[i].name
        /\ \A n \in Name : project'[n] = project[n] \/ project'[n] = NoProject
        /\ \A i \in Item : \/ item'[i].linked = item[i].linked
                           \/ \E n \in Name : project[n].by = i /\ project'[n] = NoProject
    BY <1>7, EnvironmentCounts, EnvironmentEffect
  <2>2. \A n \in Name : project'[n].by # Nobody =>
          project'[n].by \in Rows' /\ item'[project'[n].by].name = n
    BY <1>1, <1>2, <2>1, Blanks
  <2>3. CASE worker' = Idle
    BY <2>2, <2>3 DEF Linked, Idle
  <2>4. CASE worker' = worker /\ worker.pc \in {"data", "env", "completing"}
    <3>1. I' = I /\ N' = N /\ I \in Item /\ N \in Name
      BY <1>3, <2>1, <2>4 DEF I, N, InItem
    <3>2. project'[N].by = I => project'[N] = project[N] /\ item'[I].linked = item[I].linked
      <4> SUFFICES ASSUME project'[N].by = I
                   PROVE  project'[N] = project[N] /\ item'[I].linked = item[I].linked
        OBVIOUS
      <4>1. project'[N] = project[N] /\ project[N].by = I
        BY <2>1, <3>1, Blanks
      <4>2. ASSUME NEW n \in Name, project[n].by = I  PROVE n = N
        BY <1>2, <3>1, <4>2, Blanks DEF N
      <4> QED
        BY <2>1, <3>1, <4>1, <4>2, Blanks
    <3> QED
      BY <1>1, <2>1, <2>2, <2>4, <3>1, <3>2, Blanks DEF Linked
  <2>5. CASE worker' = worker /\ worker.pc \notin {"data", "env", "completing"}
    BY <2>2, <2>5 DEF Linked
  <2> QED
    BY <2>1, <2>3, <2>4, <2>5
<1> QED
  BY <1>5, <1>6, <1>7 DEF Next

----------------------------------------------------------------------------
(* The invariant, and what follows.                                        *)

LEMMA IInvInit == Init => IInv
<1> SUFFICES ASSUME Init  PROVE IInv
  OBVIOUS
<1>1. Wanted = {} /\ Starters = {} /\ Rows = {} /\ Added = {}
  BY DEF Init, Wanted, Starters, Rows, Added, NoReq, NoItem
<1>2. RoomKept
  BY <1>1, FS_EmptySet, Bounds DEF RoomKept
<1>3. HandsOnRows
  BY <1>1 DEF Init, HandsOnRows, Idle, NoReq, InItem
<1>4. Tally /\ Linked
  BY DEF Init, Tally, Linked, Idle, InItem, NoProject
<1> QED
  BY <1>2, <1>3, <1>4, TypeInit DEF IInv

LEMMA IInvStep == IInv /\ [Next]_vars => IInv'
<1> SUFFICES ASSUME IInv, [Next]_vars  PROVE IInv'
  OBVIOUS
<1>1. Sets /\ Tied /\ RoomKept /\ HandsOnRows /\ Tally /\ Linked
  BY TypeOKSplit DEF IInv
<1>2. CASE Next
  <2>1. Sets' /\ Tied'
    BY <1>1, <1>2, HandlerSets, WorkerSets, EnvironmentSets DEF Next
  <2>2. RoomKept'
    BY <1>1, <1>2, HandlerRoom, RoomStep DEF Next
  <2>3. HandsOnRows' /\ Tally' /\ Linked'
    BY <1>1, <1>2, HandsStep, TallyStep, LinkedStep
  <2>4. TypeOK'
    BY <2>1, TypeOKSplit, PTL
  <2> QED
    BY <2>2, <2>3, <2>4 DEF IInv
<1>3. CASE UNCHANGED vars
  BY <1>3 DEF vars, jobs, IInv, TypeOK, RoomKept, HandsOnRows, Tally, Linked, Wanted, Starters,
              Rows, Added, Exists, Through, I, N
<1> QED
  BY <1>2, <1>3

LEMMA IInvCorrect == Spec => []IInv
BY IInvInit, IInvStep, PTL DEF Spec

(***************************************************************************)
(* The variables keep their types, items are of an import that is there    *)
(* and a link leads to the project made for the item, through deletes,     *)
(* crashes and packages sent again.                                        *)
(***************************************************************************)
THEOREM TypeCorrect == Spec => []TypeOK
<1>1. IInv => TypeOK
  BY DEF IInv
<1> QED
  BY <1>1, IInvCorrect, PTL

(***************************************************************************)
(* An item turns COMPLETED only with a project of its own, known to it and *)
(* with its variables, or one that a user has deleted.                     *)
(***************************************************************************)
THEOREM CompletedIsWhole == Spec => ImportedWhole
<1>1. IInv /\ [Next]_vars =>
        [\A i \in Item : item[i].status # "COMPLETED" /\ item'[i].status = "COMPLETED" =>
           LET p == project[item[i].name] IN
             p.by = Nobody \/ (p.by = i /\ p.env /\ item[i].linked)]_vars
  <2> SUFFICES ASSUME IInv, Next, NEW i \in Item,
                      item[i].status # "COMPLETED", item'[i].status = "COMPLETED"
               PROVE  \/ project[item[i].name].by = Nobody
                      \/ /\ project[item[i].name].by = i /\ project[item[i].name].env
                         /\ item[i].linked
    OBVIOUS
  <2>1. Sets /\ RoomKept /\ HandsOnRows /\ Linked
    BY TypeOKSplit DEF IInv
  <2>2. WorkerStep
    BY <2>1, HandlerEffect, EnvironmentEffect DEF Next
  <2>3. ~StoreProject
    <3> SUFFICES ASSUME StoreProject  PROVE FALSE
      OBVIOUS
    <3>1. I \in Item
      BY <2>1, CurrentItem DEF StoreProject, At, InItem
    <3>2. item' = item \/ item' = [item EXCEPT ![I].linked = TRUE]
      BY DEF StoreProject
    <3> QED
      BY <2>1, <3>1, <3>2, ItemLink
  <2>4. ~BeginItem
    <3> SUFFICES ASSUME BeginItem  PROVE FALSE
      OBVIOUS
    <3>1. I \in Item /\ "RUNNING" \in ItemStatus
      BY <2>1, CurrentItem DEF BeginItem, At, InItem, ItemStatus
    <3>2. item' = item \/ item' = [item EXCEPT ![I].status = "RUNNING"]
      BY DEF BeginItem
    <3> QED
      BY <2>1, <3>1, <3>2, ItemWrite
  <2>5. EndItem
    BY <2>2, <2>3, <2>4
       DEF WorkerStep, Take, NextItem, CreateProject, DataStages, SetEnv, Finish, Settle
  <2>6. I \in Item /\ "COMPLETED" \in ItemStatus /\ "FAILED" \in ItemStatus
    BY <2>1, <2>5, CurrentItem DEF EndItem, InItem, ItemStatus
  <2>7. /\ Exists
        /\ \/ worker.pc = "completing" /\ item' = [item EXCEPT ![I].status = "COMPLETED"]
           \/ item' = [item EXCEPT ![I].status = "FAILED"]
    BY <2>5 DEF EndItem, At
  <2>8. i = I /\ worker.pc = "completing"
    BY <2>1, <2>6, <2>7, ItemWrite
  <2> QED
    BY <2>1, <2>7, <2>8 DEF Linked, N
<1> QED
  BY <1>1, IInvCorrect, PTL DEF Spec, ImportedWhole

(***************************************************************************)
(* An import turns COMPLETED only when every item its job read is through, *)
(* and FAILED only when one of them failed.                                *)
(***************************************************************************)
THEOREM OutcomeHonest == Spec => FinalStatusHonest
<1>1. IInv /\ [Next]_vars =>
        [/\ import.status # "COMPLETED" /\ import'.status = "COMPLETED" =>
              \A i \in worker.items : item[i].status \in {"COMPLETED", "SKIPPED"}
         /\ import.status # "FAILED" /\ import'.status = "FAILED" =>
              \E i \in worker.items : item[i].status \in {"FAILED", "SKIPPED"}]_vars
  <2> SUFFICES ASSUME IInv, Next, import.status # import'.status,
                      import'.status \in {"COMPLETED", "FAILED"}
               PROVE  /\ import'.status = "COMPLETED" =>
                           \A i \in worker.items : item[i].status \in {"COMPLETED", "SKIPPED"}
                      /\ import'.status = "FAILED" =>
                           \E i \in worker.items : item[i].status \in {"FAILED", "SKIPPED"}
    OBVIOUS
  <2>1. Sets /\ RoomKept /\ HandsOnRows /\ Tally
    BY TypeOKSplit DEF IInv
  <2>2. WorkerStep
    BY <2>1, HandlerEffect, EnvironmentEffect DEF Next
  <2>3. Finish
    BY <2>2 DEF WorkerStep, Take, NextItem, BeginItem, CreateProject, StoreProject, DataStages,
                SetEnv, EndItem, Settle
  <2>4. /\ Exists /\ worker.pc = "check" /\ worker.todo = {}
        /\ import' = [import EXCEPT !.status = IF worker.failed THEN "FAILED" ELSE "COMPLETED"]
    BY <2>3 DEF Finish, At
  <2>5. import'.status = IF worker.failed THEN "FAILED" ELSE "COMPLETED"
    BY <2>1, <2>4 DEF Sets, ImportRow
  <2>6. Through = worker.items
    BY <2>1, <2>4, Bounds DEF HandsOnRows, Through, Sets, Worker
  <2> QED
    BY <2>1, <2>4, <2>5, <2>6 DEF Tally
<1> QED
  BY <1>1, IInvCorrect, PTL DEF Spec, FinalStatusHonest
=============================================================================
