---------------------------- MODULE StorageImport ----------------------------
(***************************************************************************)
(* Imports of files into the bucket of ONE project: StorageImportService   *)
(* (createImport, cancelImport, the cleaner of temporary files), the       *)
(* "storage-import" BullMQ queue and StorageImportProcessor.process.       *)
(*                                                                         *)
(* Every await is an interleaving point.  An import has items (remote      *)
(* objects, uploaded files, entries of an uploaded archive, URLs), each    *)
(* with its key in the target bucket.  Progress, logs and sizes are left   *)
(* out: nothing depends on them.                                           *)
(***************************************************************************)
EXTENDS Integers, Sequences, FiniteSets

CONSTANTS
  Item,        \* the items of an import
  Key, KeyOf,  \* the target keys; two URLs may name the same
  NoItem,
  Sources, Strategies,  \* what requests ask for
  MaxImports,  \* bound: imports ever created
  Handlers,    \* HTTP requests that can be in flight at once
  Faults       \* which of AllFaults the environment may inject

AllSources == {"REMOTE", "FILES", "ARCHIVE", "URL"}
AllFaults == {"crash", "deprovision", "delete", "clean", "upload"}

StorageImportAssumption ==
  /\ MaxImports \in Nat
  /\ NoItem \notin Item
  /\ KeyOf \in [Item -> Key]
  /\ Sources \subseteq AllSources
  /\ Strategies \subseteq {"SKIP", "OVERWRITE", "ERROR"}
  /\ Faults \subseteq AllFaults

Id == 1..MaxImports

VARIABLES
  project,  \* "present", "noBucket" (deprovisioned) or "deleted"
  bucket,   \* what the target bucket has under each key: "none", "old" or "src"
  temp,     \* per import, its uploaded files that are (all, for an archive) there
  imp,      \* StorageImport rows
  job, stalls, queue,   \* BullMQ: state and stalled counter of the jobs, waiting ones
  worker,   \* the worker's locals and program counter; unseen (history): the
            \* item's key has an object that the stat before the put did not show
  req       \* the handlers' locals and program counters

jobs == <<job, stalls, queue>>
vars == <<project, bucket, temp, imp, jobs, worker, req>>

Active == {"PENDING", "RUNNING"}
NoImp == [status |-> "none", source |-> "REMOTE", strategy |-> "SKIP"]
Idle == [pc |-> "idle", m |-> 0, todo |-> {}, item |-> NoItem, unseen |-> FALSE]
NoReq == [pc |-> "idle", m |-> 0, new |-> NoImp]

Row == [status : {"none", "COMPLETED", "FAILED", "CANCELLED"} \cup Active,
        source : AllSources, strategy : {"SKIP", "OVERWRITE", "ERROR"}]

TypeOK ==
  /\ project \in {"present", "noBucket", "deleted"}
  /\ bucket \in [Key -> {"none", "old", "src"}]
  /\ temp \in [Id -> SUBSET Item]
  /\ imp \in [Id -> Row]
  /\ job \in [Id -> {"none", "waiting", "active", "stalled", "done", "failed"}]
  /\ stalls \in [Id -> 0..1]
  /\ queue \in Seq(Id)
  /\ worker \in [pc : {"idle", "run", "service", "list", "check", "stat", "put", "error",
                       "unlink", "counts", "complete", "catch", "done", "abort"},
                 m : Id \cup {0}, todo : SUBSET Item, item : Item \cup {NoItem}, unseen : BOOLEAN]
  /\ req \in [Handlers -> [pc : {"idle", "creating", "enqueueing", "cancelling"},
                           m : Id \cup {0}, new : Row]]

\* What is in the bucket: whatever the application or the user has put there.
Init ==
  /\ project = "present"
  /\ bucket \in [Key -> {"none", "old"}]
  /\ temp = [m \in Id |-> {}]
  /\ imp = [m \in Id |-> NoImp]
  /\ job = [m \in Id |-> "none"]
  /\ stalls = [m \in Id |-> 0]
  /\ queue = <<>>
  /\ worker = Idle
  /\ req = [h \in Handlers |-> NoReq]

Exists(m) == imp[m].status # "none"
Used == {m \in Id : Exists(m) \/ job[m] # "none"}

----------------------------------------------------------------------------
(* StorageImportService.                                                   *)

\* createImport: no import of the project is active ...
Create(h, source, strategy) ==
  /\ req[h].pc = "idle"
  /\ project # "deleted"
  /\ \A m \in Id : imp[m].status \notin Active
  /\ Cardinality(Used) + Cardinality({g \in Handlers : req[g].pc = "creating"}) < MaxImports
  /\ req' = [req EXCEPT ![h] = [pc |-> "creating", m |-> 0,
               new |-> [status |-> "PENDING", source |-> source, strategy |-> strategy]]]
  /\ UNCHANGED <<project, bucket, temp, imp, jobs, worker>>

\* ... insert its row (the foreign key fails once the project is gone) ...
CreateRow(h) ==
  /\ req[h].pc = "creating"
  /\ IF project = "deleted"
       THEN req' = [req EXCEPT ![h] = NoReq] /\ UNCHANGED <<imp, temp>>
       ELSE \E m \in Id \ Used :
              /\ \A i \in Id \ Used : m <= i
              /\ imp' = [imp EXCEPT ![m] = req[h].new]
              /\ temp' = [temp EXCEPT ![m] =
                   IF req[h].new.source \in {"FILES", "ARCHIVE"} THEN Item ELSE {}]
              /\ req' = [req EXCEPT ![h].pc = "enqueueing", ![h].m = m]
  /\ UNCHANGED <<project, bucket, jobs, worker>>

\* ... and its job.
Enqueue(h) ==
  /\ req[h].pc = "enqueueing"
  /\ queue' = Append(queue, req[h].m)
  /\ job' = [job EXCEPT ![req[h].m] = "waiting"]
  /\ req' = [req EXCEPT ![h] = NoReq]
  /\ UNCHANGED <<project, bucket, temp, imp, stalls, worker>>

\* cancelImport: read the status, then overwrite it.
Cancel(h, m) ==
  /\ req[h].pc = "idle"
  /\ imp[m].status \in Active
  /\ req' = [req EXCEPT ![h] = [NoReq EXCEPT !.pc = "cancelling", !.m = m]]
  /\ UNCHANGED <<project, bucket, temp, imp, jobs, worker>>

WriteCancelled(h) ==
  /\ req[h].pc = "cancelling"
  /\ imp' = IF Exists(req[h].m) THEN [imp EXCEPT ![req[h].m].status = "CANCELLED"] ELSE imp
  /\ req' = [req EXCEPT ![h] = NoReq]
  /\ UNCHANGED <<project, bucket, temp, jobs, worker>>

HandlerStep ==
  \E h \in Handlers :
    \/ \E source \in Sources, strategy \in Strategies : Create(h, source, strategy)
    \/ CreateRow(h) \/ Enqueue(h) \/ WriteCancelled(h)
    \/ \E m \in Id : Cancel(h, m)

----------------------------------------------------------------------------
(* StorageImportProcessor.process.                                         *)

M == worker.m
I == worker.item
K == KeyOf[I]
Source == imp[M].source
Strategy == imp[M].strategy
At(pc) == worker.pc = pc
Goto(pc) == worker' = [worker EXCEPT !.pc = pc]
Quiet == UNCHANGED <<project, jobs, req>>
Reads == UNCHANGED <<bucket, temp, imp>> /\ Quiet

Take ==
  /\ At("idle") /\ queue # <<>>
  /\ queue' = Tail(queue)
  /\ LET m == Head(queue) IN
       IF imp[m].status \in {"none", "CANCELLED"}
         THEN job' = [job EXCEPT ![m] = "done"] /\ UNCHANGED worker
         ELSE /\ job' = [job EXCEPT ![m] = "active"]
              /\ worker' = [Idle EXCEPT !.pc = "run", !.m = m]
  /\ UNCHANGED <<project, bucket, temp, imp, stalls, req>>

\* updateStatus throws when the row has gone with the project.
SetStatus(s, next, gone) ==
  /\ IF Exists(M) THEN imp' = [imp EXCEPT ![M].status = s] /\ Goto(next)
                  ELSE UNCHANGED imp /\ Goto(gone)
  /\ UNCHANGED <<bucket, temp>> /\ Quiet

Run == At("run") /\ SetStatus("RUNNING", "service", "abort")

\* getServiceWithConfig wants a connection, which goes with the bucket.
GetService ==
  /\ At("service")
  /\ Goto(IF project = "present" THEN "list" ELSE "catch")
  /\ Reads

\* The remote is listed, an archive opened and its entries counted in the
\* row: a source that does not answer, an archive that has been cleaned away
\* or a row that is gone ends the import.
List ==
  /\ At("list")
  /\ \/ /\ Source = "ARCHIVE" => temp[M] = Item
        /\ Exists(M) \/ Source \in {"FILES", "URL"}
        /\ worker' = [worker EXCEPT !.pc = "check", !.todo = Item]
     \/ Source \in {"REMOTE", "ARCHIVE"} /\ Goto("catch")
  /\ Reads

\* Before each item a cancelled import returns.
NextItem ==
  /\ At("check") /\ worker.todo # {}
  /\ IF imp[M].status = "CANCELLED"
       THEN Goto("done")
       ELSE \E i \in worker.todo : worker' = [worker EXCEPT !.pc = "stat", !.item = i]
  /\ Reads

ItemDone ==
  worker' = [worker EXCEPT !.pc = "check", !.todo = @ \ {I}, !.item = NoItem, !.unseen = FALSE]

\* A key that exists is skipped or an error, or overwritten.  objectExists
\* takes ANY error of statObject for "does not exist".
Present == project # "noBucket" /\ bucket[K] # "none"

Stat ==
  /\ At("stat")
  /\ \E exists \in {Present, FALSE} :
       CASE exists /\ Strategy = "SKIP" -> ItemDone
         [] exists /\ Strategy = "ERROR" -> Goto("error")
         [] OTHER -> worker' = [worker EXCEPT !.pc = "put", !.unseen = Present /\ ~exists]
  /\ Reads

\* putObject writes the whole object; it fails without a bucket or without
\* the uploaded file, and a download or a copy may fail by itself.
Put ==
  /\ At("put")
  /\ \/ /\ project # "noBucket"
        /\ Source = "FILES" => I \in temp[M]
        /\ bucket' = [bucket EXCEPT ![K] = "src"]
        /\ IF Source = "FILES" THEN Goto("unlink") ELSE ItemDone
     \/ Goto("error") /\ UNCHANGED bucket
  /\ UNCHANGED <<temp, imp>> /\ Quiet

\* An uploaded file is removed once it is in the bucket.
Unlink ==
  /\ At("unlink")
  /\ temp' = [temp EXCEPT ![M] = @ \ {I}]
  /\ ItemDone
  /\ UNCHANGED <<bucket, imp>> /\ Quiet

\* A failing URL is logged and counted, unless the strategy is ERROR.
ItemFails ==
  /\ At("error")
  /\ IF Source = "URL" /\ Strategy # "ERROR" THEN ItemDone ELSE Goto("catch")
  /\ Reads

\* All items done: the archive is removed, the counters are written ...
WriteCounts ==
  /\ At("check") /\ worker.todo = {}
  /\ temp' = IF Source = "ARCHIVE" THEN [temp EXCEPT ![M] = {}] ELSE temp
  /\ Goto(IF Exists(M) THEN "complete" ELSE "catch")
  /\ UNCHANGED <<bucket, imp>> /\ Quiet

\* ... and the status, whatever it has become.
Complete == At("complete") /\ SetStatus("COMPLETED", "done", "catch")

Catch == At("catch") /\ SetStatus("FAILED", "done", "abort")

\* process() has returned or thrown: BullMQ settles the job.
Settle ==
  /\ worker.pc \in {"done", "abort"}
  /\ job' = [job EXCEPT ![M] = IF At("done") THEN "done" ELSE "failed"]
  /\ worker' = Idle
  /\ UNCHANGED <<project, bucket, temp, imp, stalls, queue, req>>

WorkerStep ==
  \/ Take \/ Run \/ GetService \/ List \/ NextItem \/ Stat \/ Put \/ Unlink \/ ItemFails
  \/ WriteCounts \/ Complete \/ Catch \/ Settle

----------------------------------------------------------------------------
(* The environment.                                                        *)

Crash ==
  /\ "crash" \in Faults
  /\ worker' = Idle
  /\ req' = [h \in Handlers |-> NoReq]
  /\ job' = IF At("idle") THEN job ELSE [job EXCEPT ![M] = "stalled"]
  /\ UNCHANGED <<project, bucket, temp, imp, stalls, queue>>

\* A stalled job is delivered again once; then it fails.
Redeliver(m) ==
  /\ job[m] = "stalled"
  /\ IF stalls[m] = 0
       THEN /\ stalls' = [stalls EXCEPT ![m] = 1]
            /\ job' = [job EXCEPT ![m] = "waiting"]
            /\ queue' = <<m>> \o queue
       ELSE job' = [job EXCEPT ![m] = "failed"] /\ UNCHANGED <<stalls, queue>>
  /\ UNCHANGED <<project, bucket, temp, imp, worker, req>>

\* cleanTemp: files an hour old are removed, a waiting import's too.
CleanTempFiles ==
  /\ "clean" \in Faults
  /\ \E m \in Id : temp[m] # {} /\ temp' = [temp EXCEPT ![m] = {}]
  /\ UNCHANGED <<project, bucket, imp, jobs, worker, req>>

\* The application, the storage browser or another client of the bucket puts
\* an object, also between the worker's stat and its put.
Upload(k) ==
  /\ "upload" \in Faults
  /\ project # "noBucket"
  /\ bucket' = [bucket EXCEPT ![k] = "old"]
  /\ worker' = [worker EXCEPT !.unseen = @ \/ (At("put") /\ K = k)]
  /\ UNCHANGED <<project, temp, imp, jobs, req>>

\* deprovisionMinio empties and removes the bucket, with its connection.
Deprovision ==
  /\ "deprovision" \in Faults
  /\ project = "present"
  /\ project' = "noBucket"
  /\ bucket' = [k \in Key |-> "none"]
  /\ UNCHANGED <<temp, imp, jobs, worker, req>>

\* DELETE projects/:id cascades to the rows; a bucket of the user's stays.
DeleteProject ==
  /\ "delete" \in Faults
  /\ project = "present"
  /\ project' = "deleted"
  /\ imp' = [m \in Id |-> [imp[m] EXCEPT !.status = "none"]]
  /\ UNCHANGED <<bucket, temp, jobs, worker, req>>

Environment ==
  \/ Crash \/ CleanTempFiles \/ Deprovision \/ DeleteProject
  \/ \E m \in Id : Redeliver(m)
  \/ \E k \in Key : Upload(k)

Next == HandlerStep \/ WorkerStep \/ Environment

Spec == Init /\ [][Next]_vars

\* The worker runs (copies and downloads end), BullMQ re-delivers.
Fairness == WF_vars(WorkerStep) /\ \A m \in Id : WF_vars(Redeliver(m))

FairSpec == Spec /\ Fairness

----------------------------------------------------------------------------
(***************************************************************************)
(* An import that turns COMPLETED has all its items in the bucket, also    *)
(* when a delivery before this one died in the middle.  (Failed URLs are   *)
(* passed over by design, line 212; a bucket may be gone by then.)         *)
(***************************************************************************)
Completes(m) == imp[m].status # "COMPLETED" /\ imp'[m].status = "COMPLETED"

CompletedHoldsItems ==
  [][\A m \in Id : Completes(m) /\ project # "noBucket"
                     /\ (imp[m].source # "URL" \/ imp[m].strategy = "ERROR") =>
       \A i \in Item : bucket[KeyOf[i]] # "none"]_vars

(***************************************************************************)
(* "Keep existing files": an import that does not OVERWRITE replaces no    *)
(* object its stat has shown, whatever keys collide and whatever is        *)
(* delivered twice.  It does replace one that came after the stat, and any *)
(* when the stat failed: for both, the worker has not seen it.             *)
(***************************************************************************)
ExistingKept ==
  [][\A k \in Key : bucket[k] = "old" /\ bucket'[k] = "src" =>
       Strategy = "OVERWRITE" \/ worker.unseen]_vars

(***************************************************************************)
(* "Cancellation: stop processing remaining files": an import cancelled    *)
(* while another item is still to come ends without becoming COMPLETED.    *)
(* (The item in progress may still fail, which makes it FAILED.)           *)
(***************************************************************************)
CancelledEarly(m) ==
  /\ M = m /\ imp[m].status = "CANCELLED"
  /\ worker.pc \in {"check", "stat", "put", "unlink"} /\ worker.todo \ {I} # {}
NotCompleted(m) == At("idle") /\ imp[m].status \in {"CANCELLED", "FAILED", "none"}

CancelHonoured == \A m \in Id : CancelledEarly(m) ~> NotCompleted(m)
=============================================================================
