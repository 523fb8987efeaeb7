------------------------------ MODULE BulkImport ------------------------------
(***************************************************************************)
(* ONE import of whole projects: ImportService (upload, configuration,     *)
(* start, cancel, delete), the "import" BullMQ queue and ImportProcessor.  *)
(*                                                                         *)
(* Every await is an interleaving point.  What a stage wants is left out:  *)
(* CREATE_PROJECT and SET_ENV are always run, the stages between them (the *)
(* step "data") may each have nothing to do, succeed or fail, and the last *)
(* three (SETUP_CRON, DEPLOY, SWITCH_DNS) do nothing but write a log.      *)
(* Persisted stage records are left out: no code of the backend reads them.*)
(***************************************************************************)
EXTENDS Integers, Sequences, FiniteSets

CONSTANTS
  Name,        \* slugs of projects
  Packages,    \* what a package may hold: sets of the slugs its projects ask for
  MaxItems,    \* bound: ImportItem rows ever created
  MaxUploads,  \* bound: packages uploaded for the import
  MaxStarts,   \* bound: jobs added
  Handlers,    \* HTTP requests that can be in flight at once
  Faults       \* which of AllFaults the environment may inject

AllFaults == {"crash", "deleteImport", "deleteProject"}

ASSUME ImportAssumption ==
  /\ {MaxItems, MaxUploads, MaxStarts} \subseteq Nat \ {0}
  /\ Name # {} /\ IsFiniteSet(Name) /\ IsFiniteSet(Handlers)
  /\ Packages \subseteq (SUBSET Name) \ {{}}
  /\ Faults \subseteq AllFaults

Item == 1..MaxItems
Job == 1..MaxStarts
Nobody == 0

VARIABLES
  import,   \* the status of the Import row, and how many packages it was sent
  item,     \* its ImportItem rows
  project,  \* the Project of each slug: the item it was made for, and whether SET_ENV ran
  job,      \* BullMQ state of each job
  stalls,   \* BullMQ stalled counter of each job
  queue,    \* waiting jobs, next first
  worker,   \* the worker's locals and program counter
  req       \* the handlers' locals and program counters

jobs == <<job, stalls, queue>>
vars == <<import, item, project, jobs, worker, req>>

Status == {"none", "PENDING", "UPLOADED", "CONFIGURING", "RUNNING", "COMPLETED", "FAILED",
           "CANCELLED"}
ItemStatus == {"none", "PENDING", "RUNNING", "COMPLETED", "FAILED", "SKIPPED"}
NoItem == [status |-> "none", name |-> CHOOSE n \in Name : TRUE, linked |-> FALSE]
NoProject == [by |-> Nobody, env |-> FALSE]
Idle == [pc |-> "idle", job |-> 0, items |-> {}, todo |-> {}, item |-> 0, failed |-> FALSE]
NoReq == [pc |-> "idle", names |-> {}, items |-> {}]

InItem == {"begin", "create", "store", "data", "env", "completing", "failing"}

TypeOK ==
  /\ import \in [status : Status, uploads : 0..MaxUploads]
  /\ item \in [Item -> [status : ItemStatus, name : Name, linked : BOOLEAN]]
  /\ project \in [Name -> [by : Item \cup {Nobody}, env : BOOLEAN]]
  /\ job \in [Job -> {"none", "waiting", "active", "stalled", "done", "failed"}]
  /\ stalls \in [Job -> 0..1]
  /\ queue \in Seq(Job)
  /\ worker \in [pc : {"idle", "check", "done", "abort"} \cup InItem, job : Job \cup {0},
                 items : SUBSET Item, todo : SUBSET Item, item : Item \cup {0},
                 failed : BOOLEAN]
  /\ \A i \in Item : item[i].status # "none" => import.status # "none"
  /\ \A i \in Item : item[i].linked => project[item[i].name].by = i
  /\ req \in [Handlers -> [pc : {"idle", "uploading", "configuring", "starting", "enqueueing",
                                 "cancelling", "skipping"},
                           names : SUBSET Name, items : SUBSET Item]]

\* createImport has made the row (its package is never found: the directory it
\* looks in bears the new row's own id).
Init ==
  /\ import = [status |-> "PENDING", uploads |-> 0]
  /\ item = [i \in Item |-> NoItem]
  /\ project = [n \in Name |-> NoProject]
  /\ job = [j \in Job |-> "none"]
  /\ stalls = [j \in Job |-> 0]
  /\ queue = <<>>
  /\ worker = Idle
  /\ req = [h \in Handlers |-> NoReq]

Exists == import.status # "none"
Rows == {i \in Item : item[i].status # "none"}
Least(S) == CHOOSE x \in S : \A y \in S : x <= y

----------------------------------------------------------------------------
(* ImportService.                                                          *)

Reply(h) == req' = [req EXCEPT ![h] = NoReq]
HandlerQuiet == UNCHANGED <<project, worker>>

\* What the uploads in flight have yet to insert, the requests that have yet to
\* add a job, and the jobs that were added (for the bounds).
Wanted == {w \in Handlers \X Name : w[2] \in req[w[1]].names}
Starters == {h \in Handlers : req[h].pc \in {"starting", "enqueueing"}}
Added == {j \in Job : job[j] # "none"}

\* handleUpload for an existing import, whatever its status: the row ...
Upload(h, names) ==
  /\ req[h].pc = "idle"
  /\ Exists
  /\ import.uploads < MaxUploads
  /\ Cardinality(Wanted \cup ({h} \X names)) + Cardinality(Rows) <= MaxItems
  /\ import' = [status |-> "UPLOADED", uploads |-> import.uploads + 1]
  /\ req' = [req EXCEPT ![h] = [NoReq EXCEPT !.pc = "uploading", !.names = names]]
  /\ UNCHANGED <<item, jobs>> /\ HandlerQuiet

\* ... one item for each project of the manifest (the foreign key of a deleted
\* import fails) ...
CreateItem(h) ==
  /\ req[h].pc = "uploading" /\ req[h].names # {}
  /\ IF Exists
       THEN LET n == CHOOSE n \in req[h].names : TRUE IN
              /\ item' = [item EXCEPT ![Least(Item \ Rows)] =
                            [NoItem EXCEPT !.status = "PENDING", !.name = n]]
              /\ req' = [req EXCEPT ![h].names = @ \ {n}]
       ELSE Reply(h) /\ UNCHANGED item
  /\ UNCHANGED <<import, jobs>> /\ HandlerQuiet

\* ... and the status again.
FinishUpload(h) ==
  /\ req[h].pc = "uploading" /\ req[h].names = {}
  /\ import' = IF Exists THEN [import EXCEPT !.status = "CONFIGURING"] ELSE import
  /\ Reply(h)
  /\ UNCHANGED <<item, jobs>> /\ HandlerQuiet

\* updateConfig read UPLOADED.  (Reading CONFIGURING it writes no status; what
\* it writes of the items is left out.)
Configure(h) ==
  /\ req[h].pc = "idle"
  /\ import.status = "UPLOADED"
  /\ req' = [req EXCEPT ![h] = [NoReq EXCEPT !.pc = "configuring"]]
  /\ UNCHANGED <<import, item, jobs>> /\ HandlerQuiet

FinishConfigure(h) ==
  /\ req[h].pc = "configuring"
  /\ import' = IF Exists THEN [import EXCEPT !.status = "CONFIGURING"] ELSE import
  /\ Reply(h)
  /\ UNCHANGED <<item, jobs>> /\ HandlerQuiet

\* startImport: read the status ...
Start(h) ==
  /\ req[h].pc = "idle"
  /\ import.status = "CONFIGURING"
  /\ Cardinality(Added) + Cardinality(Starters) < MaxStarts
  /\ req' = [req EXCEPT ![h] = [NoReq EXCEPT !.pc = "starting"]]
  /\ UNCHANGED <<import, item, jobs>> /\ HandlerQuiet

\* ... overwrite it ...
WriteRunning(h) ==
  /\ req[h].pc = "starting"
  /\ IF Exists THEN /\ import' = [import EXCEPT !.status = "RUNNING"]
                    /\ req' = [req EXCEPT ![h].pc = "enqueueing"]
               ELSE Reply(h) /\ UNCHANGED import
  /\ UNCHANGED <<item, jobs>> /\ HandlerQuiet

\* ... and add the job.
Enqueue(h) ==
  /\ req[h].pc = "enqueueing"
  /\ LET j == Least(Job \ Added) IN
       /\ job' = [job EXCEPT ![j] = "waiting"]
       /\ queue' = Append(queue, j)
  /\ Reply(h)
  /\ UNCHANGED <<import, item, stalls>> /\ HandlerQuiet

\* cancelImport, whatever the status: read the items, write the status ...
Cancel(h) ==
  /\ req[h].pc = "idle"
  /\ Exists
  /\ req' = [req EXCEPT ![h] =
               [NoReq EXCEPT !.pc = "cancelling",
                             !.items = {i \in Item : item[i].status \in {"PENDING", "RUNNING"}}]]
  /\ UNCHANGED <<import, item, jobs>> /\ HandlerQuiet

WriteCancelled(h) ==
  /\ req[h].pc = "cancelling"
  /\ IF Exists THEN /\ import' = [import EXCEPT !.status = "CANCELLED"]
                    /\ req' = [req EXCEPT ![h].pc = "skipping"]
               ELSE Reply(h) /\ UNCHANGED import
  /\ UNCHANGED <<item, jobs>> /\ HandlerQuiet

\* ... then the items that were unfinished when they were read, one by one.
SkipItem(h) ==
  /\ req[h].pc = "skipping"
  /\ IF Exists /\ req[h].items # {}
       THEN LET i == Least(req[h].items) IN
              /\ item' = [item EXCEPT ![i].status = "SKIPPED"]
              /\ req' = [req EXCEPT ![h].items = @ \ {i}]
       ELSE Reply(h) /\ UNCHANGED item
  /\ UNCHANGED <<import, jobs>> /\ HandlerQuiet

\* deleteImport cascades to the items; projects stay.
DeleteImport ==
  /\ "deleteImport" \in Faults
  /\ Exists
  /\ import' = [status |-> "none", uploads |-> 0]
  /\ item' = [i \in Item |-> NoItem]
  /\ UNCHANGED <<jobs, req>> /\ HandlerQuiet

HandlerStep ==
  \/ DeleteImport
  \/ \E h \in Handlers :
       \/ \E names \in Packages : Upload(h, names)
       \/ CreateItem(h) \/ FinishUpload(h) \/ Configure(h) \/ FinishConfigure(h)
       \/ Start(h) \/ WriteRunning(h) \/ Enqueue(h)
       \/ Cancel(h) \/ WriteCancelled(h) \/ SkipItem(h)

----------------------------------------------------------------------------
(* ImportProcessor.process.                                                *)

I == worker.item
N == item[I].name
At(pc) == worker.pc = pc
Goto(pc) == worker' = [worker EXCEPT !.pc = pc]
Quiet == UNCHANGED <<jobs, req>>

\* Mutant: only items that have not been begun are taken up.
Take_pending ==
  /\ At("idle") /\ queue # <<>>
  /\ queue' = Tail(queue)
  /\ job' = [job EXCEPT ![Head(queue)] = IF import.status \in {"none", "CANCELLED"}
                                            THEN "done" ELSE "active"]
  /\ worker' = IF import.status \in {"none", "CANCELLED"} THEN worker
               ELSE [Idle EXCEPT !.pc = "check", !.job = Head(queue), !.items = Rows,
                                 !.todo = {i \in Rows : item[i].status = "PENDING"}]
  /\ UNCHANGED <<import, item, project, stalls, req>>

\* The import and its items are read once, when the job begins.
Take ==
  /\ At("idle") /\ queue # <<>>
  /\ queue' = Tail(queue)
  /\ LET j == Head(queue) IN
       IF import.status \in {"none", "CANCELLED"}
         THEN job' = [job EXCEPT ![j] = "done"] /\ UNCHANGED worker
         ELSE /\ job' = [job EXCEPT ![j] = "active"]
              /\ worker' = [Idle EXCEPT !.pc = "check", !.job = j, !.items = Rows,
                                        !.todo = {i \in Rows : item[i].status
                                                                 \notin {"SKIPPED", "COMPLETED"}}]
  /\ UNCHANGED <<import, item, project, stalls, req>>

\* Mutant: the status is not read between items.
NextItem_unchecked ==
  /\ At("check") /\ worker.todo # {}
  /\ \E i \in worker.todo : worker' = [worker EXCEPT !.pc = "begin", !.item = i, !.todo = @ \ {i}]
  /\ UNCHANGED <<import, item, project>> /\ Quiet

\* Before each item a cancelled import returns.
NextItem ==
  /\ At("check") /\ worker.todo # {}
  /\ IF import.status = "CANCELLED"
       THEN Goto("done")
       ELSE \E i \in worker.todo :
              worker' = [worker EXCEPT !.pc = "begin", !.item = i, !.todo = @ \ {i}]
  /\ UNCHANGED <<import, item, project>> /\ Quiet

\* processItem: the item is RUNNING, with a new list of stages.
BeginItem ==
  /\ At("begin")
  /\ IF Exists THEN item' = [item EXCEPT ![I].status = "RUNNING"] /\ Goto("create")
               ELSE UNCHANGED item /\ Goto("failing")
  /\ UNCHANGED <<import, project>> /\ Quiet

\* ProjectsService.create fails on a slug that is taken (by others too), and it
\* may fail after it inserted its row (a connection row, the port) or before.
CreateProject ==
  /\ At("create")
  /\ \/ /\ Exists /\ project[N].by = Nobody
        /\ project' = [project EXCEPT ![N] = [NoProject EXCEPT !.by = I]]
        /\ Goto("store") \/ Goto("failing")
     \/ UNCHANGED project /\ Goto("failing")
  /\ UNCHANGED <<import, item>> /\ Quiet

\* Mutant: the item is not told which project was made for it.
StoreProject_unsaved ==
  /\ At("store")
  /\ Goto("data")
  /\ UNCHANGED <<import, item, project>> /\ Quiet

\* Mutant: no foreign key ties the item to the project.
StoreProject_untied ==
  /\ At("store")
  /\ IF Exists THEN item' = [item EXCEPT ![I].linked = TRUE] /\ Goto("data")
               ELSE UNCHANGED item /\ Goto("failing")
  /\ UNCHANGED <<import, project>> /\ Quiet

\* The project's id is stored in a second statement (whose foreign key fails
\* when the project is gone again).
StoreProject ==
  /\ At("store")
  /\ IF Exists /\ project[N].by = I
       THEN item' = [item EXCEPT ![I].linked = TRUE] /\ Goto("data")
       ELSE UNCHANGED item /\ Goto("failing")
  /\ UNCHANGED <<import, project>> /\ Quiet

\* PROVISION_DB to SYNC_STORAGE, each bracketed by updates of the item.
DataStages ==
  /\ At("data")
  /\ (Exists /\ Goto("env")) \/ Goto("failing")
  /\ UNCHANGED <<import, item, project>> /\ Quiet

\* SET_ENV reads the project and writes its variables, mapped to the local
\* services; the stages after it only log.
SetEnv ==
  /\ At("env")
  /\ \/ /\ Exists /\ project[N].by = I
        /\ project' = [project EXCEPT ![N].env = TRUE]
        /\ Goto("completing")
     \/ UNCHANGED project /\ Goto("failing")
  /\ UNCHANGED <<import, item>> /\ Quiet

\* The outcome of the item.  A failing update of a COMPLETED item is caught;
\* one of a FAILED item is not, and ends the job.
EndItem ==
  /\ worker.pc \in {"completing", "failing"}
  /\ IF Exists
       THEN /\ item' = [item EXCEPT ![I].status =
                          IF At("completing") THEN "COMPLETED" ELSE "FAILED"]
            /\ worker' = [worker EXCEPT !.pc = "check", !.item = 0,
                                        !.failed = @ \/ At("failing")]
       ELSE UNCHANGED item /\ Goto(IF At("completing") THEN "failing" ELSE "abort")
  /\ UNCHANGED <<import, project>> /\ Quiet

\* Mutant: only success is reported.
Finish_silent ==
  /\ At("check") /\ worker.todo = {}
  /\ import' = IF Exists /\ ~worker.failed THEN [import EXCEPT !.status = "COMPLETED"] ELSE import
  /\ Goto("done")
  /\ UNCHANGED <<item, project>> /\ Quiet

\* All items done: the status is overwritten, whatever it is.
Finish ==
  /\ At("check") /\ worker.todo = {}
  /\ IF Exists
       THEN /\ import' = [import EXCEPT !.status =
                            IF worker.failed THEN "FAILED" ELSE "COMPLETED"]
            /\ Goto("done")
       ELSE UNCHANGED import /\ Goto("abort")
  /\ UNCHANGED <<item, project>> /\ Quiet

\* process() has returned or thrown: BullMQ settles the job.
Settle ==
  /\ worker.pc \in {"done", "abort"}
  /\ job' = [job EXCEPT ![worker.job] = IF At("done") THEN "done" ELSE "failed"]
  /\ worker' = Idle
  /\ UNCHANGED <<import, item, project, stalls, queue, req>>

WorkerStep ==
  \/ Take \/ NextItem \/ BeginItem \/ CreateProject \/ StoreProject \/ DataStages
  \/ SetEnv \/ EndItem \/ Finish \/ Settle

----------------------------------------------------------------------------
(* The environment.                                                        *)

Crash ==
  /\ "crash" \in Faults
  /\ worker' = Idle
  /\ req' = [h \in Handlers |-> NoReq]
  /\ job' = IF At("idle") THEN job ELSE [job EXCEPT ![worker.job] = "stalled"]
  /\ UNCHANGED <<import, item, project, stalls, queue>>

\* A stalled job goes back to the head of the queue once; then it fails.
Redeliver(j) ==
  /\ job[j] = "stalled"
  /\ IF stalls[j] = 0
       THEN /\ stalls' = [stalls EXCEPT ![j] = 1]
            /\ job' = [job EXCEPT ![j] = "waiting"]
            /\ queue' = <<j>> \o queue
       ELSE job' = [job EXCEPT ![j] = "failed"] /\ UNCHANGED <<stalls, queue>>
  /\ UNCHANGED <<import, item, project, worker, req>>

\* DELETE projects/:id: the items that pointed to it point to nothing.
DeleteProject(n) ==
  /\ "deleteProject" \in Faults
  /\ project[n].by # Nobody
  /\ project' = [project EXCEPT ![n] = NoProject]
  /\ item' = [i \in Item |-> IF i = project[n].by THEN [item[i] EXCEPT !.linked = FALSE]
                                                  ELSE item[i]]
  /\ UNCHANGED <<import, jobs, worker, req>>

Environment ==
  \/ Crash
  \/ \E j \in Job : Redeliver(j)
  \/ \E n \in Name : DeleteProject(n)

Next == HandlerStep \/ WorkerStep \/ Environment

Spec == Init /\ [][Next]_vars

\* The worker runs (stages end or time out), BullMQ re-delivers.
Fairness == WF_vars(WorkerStep) /\ \A j \in Job : WF_vars(Redeliver(j))

FairSpec == Spec /\ Fairness

----------------------------------------------------------------------------
(***************************************************************************)
(* An item turns COMPLETED only with a project of its own: it made the     *)
(* project, knows it and has set its variables, whichever delivery of      *)
(* which job did the work and whoever else wanted the slug.  (A user may   *)
(* have deleted the project meanwhile.)                                    *)
(***************************************************************************)
ImportedWhole ==
  [][\A i \in Item :
       item[i].status # "COMPLETED" /\ item'[i].status = "COMPLETED" =>
         LET p == project[item[i].name] IN
           p.by = Nobody \/ (p.by = i /\ p.env /\ item[i].linked)]_vars

(***************************************************************************)
(* An import turns COMPLETED only when no item the job has seen is left    *)
(* failed or unfinished, also when a re-delivered or a second job goes     *)
(* over the items of the first; it turns FAILED only if one failed (a      *)
(* cancel may have overwritten that item).                                 *)
(***************************************************************************)
FinalStatusHonest ==
  [][/\ import.status # "COMPLETED" /\ import'.status = "COMPLETED" =>
          \A i \in worker.items : item[i].status \in {"COMPLETED", "SKIPPED"}
     /\ import.status # "FAILED" /\ import'.status = "FAILED" =>
          \E i \in worker.items : item[i].status \in {"FAILED", "SKIPPED"}]_vars

(***************************************************************************)
(* A cancel that finds the worker in an item with more to come stops it    *)
(* before the next one and is not overwritten by the worker: the status    *)
(* can only change by another request.                                     *)
(***************************************************************************)
MoreToCome == worker.pc \in {"check"} \cup InItem /\ worker.todo # {}

CancelHonoured ==
  import.status = "CANCELLED" /\ MoreToCome
    ~> \/ At("idle") /\ import.status = "CANCELLED"
       \/ import.status \in {"none", "UPLOADED", "CONFIGURING", "RUNNING"}

(***************************************************************************)
(* A started import ends: unless a job fails, an import whose job is       *)
(* queued does not stay RUNNING, whatever fails or is deleted under it.    *)
(***************************************************************************)
StartedImportEnds ==
  queue # <<>> /\ import.status = "RUNNING"
    ~> import.status # "RUNNING" \/ \E j \in Job : job[j] = "failed"
=============================================================================
