---------------------------- MODULE DataMigration ----------------------------
(***************************************************************************)
(* Imports of existing data into the database of ONE project:              *)
(* DataMigrationService (createMigration, cancelMigration), the            *)
(* "data-migration" BullMQ queue and DataMigrationProcessor.process.       *)
(*                                                                         *)
(* Every await is an interleaving point.  A selected table of the target   *)
(* database is in "existing" or not and holds rows "old" (there before)    *)
(* and "src" (copied from the source).  Progress counters, logs and        *)
(* foreign keys are left out: nothing depends on them.                     *)
(***************************************************************************)
EXTENDS Integers, Sequences, FiniteSets

CONSTANTS
  MaxMigrations,  \* bound: rows ever created
  Table,          \* the tables a migration selects
  NoTable,
  Kinds,          \* <<source, conflictStrategy>> pairs a request may carry
  Handlers,       \* HTTP requests that can be in flight at once
  Faults          \* which of AllFaults the environment may inject

AllFaults == {"crash", "deprovision", "delete"}
AllKinds == {"REMOTE", "SQL", "DUMP"} \X {"ERROR", "SKIP", "OVERWRITE", "APPEND"}

MigrationAssumption ==
  /\ MaxMigrations \in Nat \ {0}
  /\ NoTable \notin Table
  /\ Kinds \subseteq AllKinds
  /\ IsFiniteSet(Handlers)
  /\ Faults \subseteq AllFaults

Id == 1..MaxMigrations

VARIABLES
  project,   \* "withDb", "noDb" (deprovisioned) or "deleted"
  existing,  \* the selected tables the target database has
  data,      \* the rows of each table, a subset of {"old", "src"}
  mig,       \* DataMigration rows with their DataMigrationTable rows
  job,       \* BullMQ state of each migration's job
  stalls,    \* BullMQ stalled counter of each job
  queue,     \* waiting jobs, next first
  worker,    \* the worker's locals and program counter
  req        \* the handlers' locals and program counters

db == <<existing, data>>
jobs == <<job, stalls, queue>>
vars == <<project, db, mig, jobs, worker, req>>

Active == {"PENDING", "CONNECTING", "ANALYZING", "MIGRATING"}
Final == {"COMPLETED", "FAILED", "CANCELLED"}
TableStatus == {"none", "PENDING", "MIGRATING", "COMPLETED", "FAILED", "SKIPPED"}
NoMig == [status |-> "none", kind |-> <<"REMOTE", "ERROR">>,
          tables |-> [t \in Table |-> "none"]]
Idle == [pc |-> "idle", m |-> 0, todo |-> {}, t |-> NoTable]
NoReq == [pc |-> "idle", m |-> 0, kind |-> <<"REMOTE", "ERROR">>]

InTable == {"start", "table", "append", "create", "copy", "completing", "skipping",
            "failing"}
PC == {"idle", "project", "begin", "connect", "analyzing", "order", "migrating", "check",
       "final", "restore", "succeeded", "failed", "catch", "done", "abort"} \cup InTable

TypeOK ==
  /\ project \in {"withDb", "noDb", "deleted"}
  /\ existing \subseteq Table
  /\ data \in [Table -> SUBSET {"old", "src"}]
  /\ \A t \in Table \ existing : data[t] = {}
  /\ mig \in [Id -> [status : {"none"} \cup Active \cup Final, kind : AllKinds,
                     tables : [Table -> TableStatus]]]
  /\ job \in [Id -> {"none", "waiting", "active", "stalled", "done", "failed"}]
  /\ stalls \in [Id -> 0..1]
  /\ queue \in Seq(Id)
  /\ worker \in [pc : PC, m : Id \cup {0}, todo : SUBSET Table, t : Table \cup {NoTable}]
  /\ req \in [Handlers -> [pc : {"idle", "creating", "tables", "enqueueing", "cancelling"},
                           m : Id \cup {0}, kind : AllKinds]]

\* Whatever an earlier migration or the application left: an empty table too.
Init ==
  /\ project = "withDb"
  /\ existing \in SUBSET Table
  /\ data \in [Table -> {{}, {"old"}}]
  /\ \A t \in Table \ existing : data[t] = {}
  /\ mig = [m \in Id |-> NoMig]
  /\ job = [m \in Id |-> "none"]
  /\ stalls = [m \in Id |-> 0]
  /\ queue = <<>>
  /\ worker = Idle
  /\ req = [h \in Handlers |-> NoReq]

Exists(m) == mig[m].status # "none"
Used == {m \in Id : Exists(m) \/ job[m] # "none"}
Least(S) == CHOOSE x \in S : \A y \in S : x <= y

----------------------------------------------------------------------------
(* DataMigrationService.                                                   *)

\* createMigration: the project has a database and no active migration ...
Create(h, kind) ==
  /\ req[h].pc = "idle"
  /\ project = "withDb"
  /\ \A m \in Id : mig[m].status \notin Active
  /\ Cardinality(Used) + Cardinality({g \in Handlers : req[g].pc = "creating"})
       < MaxMigrations
  /\ req' = [req EXCEPT ![h] = [NoReq EXCEPT !.pc = "creating", !.kind = kind]]
  /\ UNCHANGED <<project, db, mig, jobs, worker>>

\* ... insert its row (the foreign key fails once the project is gone) ...
CreateRow(h) ==
  /\ req[h].pc = "creating"
  /\ IF project = "deleted"
       THEN req' = [req EXCEPT ![h] = NoReq] /\ UNCHANGED mig
       ELSE LET m == Least(Id \ Used) IN
              /\ mig' = [mig EXCEPT ![m] =
                           [NoMig EXCEPT !.status = "PENDING", !.kind = req[h].kind]]
              /\ req' = [req EXCEPT ![h].pc = "tables", ![h].m = m]
  /\ UNCHANGED <<project, db, jobs, worker>>

\* ... then the rows of its tables ...
CreateTables(h) ==
  /\ req[h].pc = "tables"
  /\ LET m == req[h].m IN
       IF Exists(m)
         THEN /\ mig' = [mig EXCEPT ![m].tables = [t \in Table |-> "PENDING"]]
              /\ req' = [req EXCEPT ![h].pc = "enqueueing"]
         ELSE req' = [req EXCEPT ![h] = NoReq] /\ UNCHANGED mig
  /\ UNCHANGED <<project, db, jobs, worker>>

\* ... and the job.
Enqueue(h) ==
  /\ req[h].pc = "enqueueing"
  /\ queue' = Append(queue, req[h].m)
  /\ job' = [job EXCEPT ![req[h].m] = "waiting"]
  /\ req' = [req EXCEPT ![h] = NoReq]
  /\ UNCHANGED <<project, db, mig, stalls, worker>>

\* cancelMigration: read the status ...
Cancel(h, m) ==
  /\ req[h].pc = "idle"
  /\ mig[m].status \in Active
  /\ req' = [req EXCEPT ![h] = [NoReq EXCEPT !.pc = "cancelling", !.m = m]]
  /\ UNCHANGED <<project, db, mig, jobs, worker>>

\* ... then overwrite it.
WriteCancelled(h) ==
  /\ req[h].pc = "cancelling"
  /\ LET m == req[h].m IN
       mig' = IF Exists(m) THEN [mig EXCEPT ![m].status = "CANCELLED"] ELSE mig
  /\ req' = [req EXCEPT ![h] = NoReq]
  /\ UNCHANGED <<project, db, jobs, worker>>

HandlerStep ==
  \E h \in Handlers :
    \/ \E kind \in Kinds : Create(h, kind)
    \/ CreateRow(h) \/ CreateTables(h) \/ Enqueue(h) \/ WriteCancelled(h)
    \/ \E m \in Id : Cancel(h, m)

----------------------------------------------------------------------------
(* DataMigrationProcessor.process.                                         *)

M == worker.m
T == worker.t
Source == mig[M].kind[1]
Strategy == mig[M].kind[2]
At(pc) == worker.pc = pc
Goto(pc) == worker' = [worker EXCEPT !.pc = pc]
Quiet == UNCHANGED <<project, jobs, req>>
\* A failing statement of a phase or of a table, for whatever reason.
Fail(pc) == Goto(pc) /\ UNCHANGED <<db, mig>>

\* updateMigrationStatus throws when the row has gone with the project.
SetStatus(s, pc) ==
  /\ IF Exists(M) THEN mig' = [mig EXCEPT ![M].status = s] /\ Goto(pc)
                  ELSE UNCHANGED mig /\ Goto("catch")
  /\ UNCHANGED db /\ Quiet

SetTable(s, next) ==
  IF Exists(M) THEN mig' = [mig EXCEPT ![M].tables[T] = s] /\ worker' = next
               ELSE UNCHANGED mig /\ Goto("catch")

\* A job whose migration is gone or CANCELLED is completed at once.
Take ==
  /\ At("idle")
  /\ queue # <<>>
  /\ queue' = Tail(queue)
  /\ LET m == Head(queue) IN
       IF mig[m].status \in {"none", "CANCELLED"}
         THEN job' = [job EXCEPT ![m] = "done"] /\ UNCHANGED worker
         ELSE /\ job' = [job EXCEPT ![m] = "active"]
              /\ worker' = [Idle EXCEPT !.pc = "project", !.m = m]
  /\ UNCHANGED <<project, db, mig, stalls, req>>

\* Without a project or a database process() returns, whatever the status.
ReadProject ==
  /\ At("project")
  /\ Goto(IF project = "withDb" THEN "begin" ELSE "done")
  /\ UNCHANGED <<db, mig>> /\ Quiet

BeginRemote == At("begin") /\ Source = "REMOTE" /\ SetStatus("CONNECTING", "connect")
BeginFile == At("begin") /\ Source # "REMOTE" /\ SetStatus("MIGRATING", "restore")

\* Mutant: an unreachable database is waited for.
Connect_waits ==
  At("connect") /\ project # "noDb" /\ Fail("analyzing") /\ Quiet

Connect ==
  /\ At("connect")
  /\ \/ project # "noDb" /\ Goto("analyzing") /\ UNCHANGED <<db, mig>>
     \/ Fail("catch")
  /\ Quiet

Analyze == At("analyzing") /\ SetStatus("ANALYZING", "order")

\* getTableOrder queries the source (the order itself is any order here).
Order ==
  /\ At("order")
  /\ \/ Goto("migrating") /\ UNCHANGED <<db, mig>>
     \/ Fail("catch")
  /\ Quiet

BeginTables ==
  /\ At("migrating")
  /\ IF Exists(M)
       THEN /\ mig' = [mig EXCEPT ![M].status = "MIGRATING"]
            /\ worker' = [worker EXCEPT !.pc = "check", !.todo = Table]
       ELSE UNCHANGED mig /\ Goto("catch")
  /\ UNCHANGED db /\ Quiet

\* Mutant: the status is not read between tables.
NextTable_unchecked ==
  /\ At("check") /\ worker.todo # {}
  /\ \E t \in worker.todo : worker' = [worker EXCEPT !.pc = "start", !.t = t]
  /\ UNCHANGED <<db, mig>> /\ Quiet

\* Before each table a cancelled migration returns.
NextTable ==
  /\ At("check") /\ worker.todo # {}
  /\ IF mig[M].status = "CANCELLED"
       THEN Goto("done")
       ELSE \E t \in worker.todo : worker' = [worker EXCEPT !.pc = "start", !.t = t]
  /\ UNCHANGED <<db, mig>> /\ Quiet

StartTable ==
  /\ At("start")
  /\ SetTable("MIGRATING", [worker EXCEPT !.pc = "table"])
  /\ UNCHANGED db /\ Quiet

\* The conflict strategy decides on a table that exists, or not.
Conflict ==
  /\ At("table")
  /\ \/ /\ project # "noDb"
        /\ Strategy = "OVERWRITE" /\ T \in existing
        /\ existing' = existing \ {T}
        /\ data' = [data EXCEPT ![T] = {}]
        /\ Goto("create") /\ UNCHANGED mig
     \/ /\ project # "noDb"
        /\ ~(Strategy = "OVERWRITE" /\ T \in existing)
        /\ Goto(CASE Strategy = "APPEND" /\ T \in existing -> "append"
                  [] Strategy = "APPEND" /\ T \notin existing -> "skipping"
                  [] Strategy = "SKIP" /\ T \in existing -> "skipping"
                  [] Strategy = "ERROR" /\ T \in existing -> "failing"
                  [] OTHER -> "create")
        /\ UNCHANGED <<db, mig>>
     \/ Fail("failing")
  /\ Quiet

\* Mutant: the insert from the temporary table is not waited for.
AppendRows_unawaited ==
  /\ At("append")
  /\ Goto("completing") /\ UNCHANGED <<db, mig>>
  /\ Quiet

\* APPEND copies into a temporary table, then inserts in one statement.
AppendRows ==
  /\ At("append")
  /\ \/ /\ project # "noDb"
        /\ data' = [data EXCEPT ![T] = @ \cup {"src"}]
        /\ Goto("completing") /\ UNCHANGED <<existing, mig>>
     \/ Fail("failing")
  /\ Quiet

CreateTable ==
  /\ At("create")
  /\ \/ /\ project # "noDb"
        /\ existing' = existing \cup {T}
        /\ Goto("copy") /\ UNCHANGED <<data, mig>>
     \/ Fail("failing")
  /\ Quiet

\* COPY: all rows or none; the created table stays.
CopyRows ==
  /\ At("copy")
  /\ \/ /\ project # "noDb"
        /\ data' = [data EXCEPT ![T] = @ \cup {"src"}]
        /\ Goto("completing") /\ UNCHANGED <<existing, mig>>
     \/ Fail("failing")
  /\ Quiet

\* The table's outcome.  (A failing update is caught, fails again and leaves.)
EndTable ==
  /\ worker.pc \in {"completing", "skipping", "failing"}
  /\ SetTable(CASE At("completing") -> "COMPLETED"
                [] At("skipping") -> "SKIPPED"
                [] OTHER -> "FAILED",
              [worker EXCEPT !.pc = "check", !.todo = @ \ {T}, !.t = NoTable])
  /\ UNCHANGED db /\ Quiet

\* All tables done (foreign keys are restored as far as they can be).
FinishRemote ==
  /\ At("check") /\ worker.todo = {}
  /\ SetStatus(IF \E t \in Table : mig[M].tables[t] = "FAILED"
                 THEN "FAILED" ELSE "COMPLETED", "done")

\* Tables dropped for OVERWRITE by psql or pg_restore --clean, if they can be.
Cleared(D, t) == IF t \in D THEN {} ELSE data[t]

\* psql or pg_restore loads some tables.  Only psql with ON_ERROR_STOP tells
\* by its exit code that it loaded all.
Restore ==
  /\ At("restore")
  /\ \E D \in IF Strategy = "OVERWRITE" THEN {{}, existing} ELSE {{}} :
     \E L \in SUBSET Table :
     \E ok \in BOOLEAN :
       /\ project = "noDb" => L = {} /\ ~ok
       /\ ok /\ mig[M].kind = <<"SQL", "ERROR">> => L = Table
       /\ existing' = (existing \ D) \cup L
       /\ data' = [t \in Table |-> Cleared(D, t) \cup (IF t \in L THEN {"src"} ELSE {})]
       /\ worker' = [worker EXCEPT !.pc = IF ok THEN "succeeded" ELSE "failed", !.todo = Table]
  /\ UNCHANGED mig /\ Quiet

\* Every table gets the outcome of the file, one update each.
MarkTable ==
  /\ worker.pc \in {"succeeded", "failed"}
  /\ \E t \in worker.todo :
       IF Exists(M)
         THEN /\ mig' = [mig EXCEPT ![M].tables[t] =
                           IF At("succeeded") THEN "COMPLETED" ELSE "FAILED"]
              /\ worker' = [worker EXCEPT !.todo = @ \ {t}]
         ELSE UNCHANGED mig /\ Goto("catch")
  /\ UNCHANGED db /\ Quiet

FinishFile ==
  /\ worker.pc \in {"succeeded", "failed"} /\ worker.todo = {}
  /\ SetStatus(IF At("succeeded") THEN "COMPLETED" ELSE "FAILED", "done")

\* Mutant: the exception is logged and nothing more.
Catch_logged == At("catch") /\ Fail("done") /\ Quiet

\* The handler of process(): its own update throws when the row is gone.
Catch ==
  /\ At("catch")
  /\ IF Exists(M)
       THEN mig' = [mig EXCEPT ![M].status = "FAILED"] /\ Goto("done")
       ELSE UNCHANGED mig /\ Goto("abort")
  /\ UNCHANGED db /\ Quiet

\* process() has returned or thrown: BullMQ settles the job.
Settle ==
  /\ worker.pc \in {"done", "abort"}
  /\ job' = [job EXCEPT ![M] = IF At("done") THEN "done" ELSE "failed"]
  /\ worker' = Idle
  /\ UNCHANGED <<project, db, mig, stalls, queue, req>>

WorkerStep ==
  \/ Take \/ ReadProject \/ BeginRemote \/ BeginFile \/ Connect \/ Analyze \/ Order
  \/ BeginTables \/ NextTable \/ StartTable \/ Conflict \/ AppendRows \/ CreateTable
  \/ CopyRows \/ EndTable \/ FinishRemote \/ Restore \/ MarkTable \/ FinishFile
  \/ Catch \/ Settle

----------------------------------------------------------------------------
(* The environment.                                                        *)

Crash ==
  /\ "crash" \in Faults
  /\ worker' = Idle
  /\ req' = [h \in Handlers |-> NoReq]
  /\ job' = IF At("idle") THEN job ELSE [job EXCEPT ![M] = "stalled"]
  /\ UNCHANGED <<project, db, mig, stalls, queue>>

\* A stalled job goes back to the head of the queue once; then it fails.
Redeliver(m) ==
  /\ job[m] = "stalled"
  /\ IF stalls[m] = 0
       THEN /\ stalls' = [stalls EXCEPT ![m] = 1]
            /\ job' = [job EXCEPT ![m] = "waiting"]
            /\ queue' = <<m>> \o queue
       ELSE job' = [job EXCEPT ![m] = "failed"] /\ UNCHANGED <<stalls, queue>>
  /\ UNCHANGED <<project, db, mig, worker, req>>

\* deprovisionDatabase drops the database and forgets it.
Deprovision ==
  /\ "deprovision" \in Faults
  /\ project = "withDb"
  /\ project' = "noDb"
  /\ existing' = {}
  /\ data' = [t \in Table |-> {}]
  /\ UNCHANGED <<mig, jobs, worker, req>>

\* DELETE projects/:id cascades to the rows; the database stays.  (A project
\* without a database is not deleted here: that tells nothing more apart.)
DeleteProject ==
  /\ "delete" \in Faults
  /\ project = "withDb"
  /\ project' = "deleted"
  /\ mig' = [m \in Id |-> [NoMig EXCEPT !.kind = mig[m].kind]]
  /\ UNCHANGED <<db, jobs, worker, req>>

Environment == Crash \/ Deprovision \/ DeleteProject \/ \E m \in Id : Redeliver(m)

Next == HandlerStep \/ WorkerStep \/ Environment

Spec == Init /\ [][Next]_vars

\* The worker runs (connections and statements end), BullMQ re-delivers.
Fairness == WF_vars(WorkerStep) /\ \A m \in Id : WF_vars(Redeliver(m))

FairSpec == Spec /\ Fairness

----------------------------------------------------------------------------
(***************************************************************************)
(* A table is reported COMPLETED only when the rows of the source are in   *)
(* it: through failing statements, a first delivery that died in the       *)
(* middle and every conflict strategy.  (Of files only psql with           *)
(* ON_ERROR_STOP can tell.)                                                *)
(***************************************************************************)
Reliable(m) == mig[m].kind[1] = "REMOTE" \/ mig[m].kind = <<"SQL", "ERROR">>

CompletedHoldsSource ==
  [][\A m \in Id : \A t \in Table :
       /\ Reliable(m)
       /\ mig[m].tables[t] # "COMPLETED" /\ mig'[m].tables[t] = "COMPLETED"
       => "src" \in data[t] \/ project = "noDb"]_vars

(***************************************************************************)
(* A migration that turns COMPLETED has no table left that is failed or    *)
(* unfinished, also when a re-delivered job worked over the table rows an  *)
(* earlier delivery had left.                                              *)
(***************************************************************************)
FinalStatusHonest ==
  [][\A m \in Id :
       mig[m].status # "COMPLETED" /\ mig'[m].status = "COMPLETED" =>
         \A t \in Table : mig'[m].tables[t] \in {"COMPLETED", "SKIPPED"}]_vars

(***************************************************************************)
(* A migration whose job is completed is over, so that it does not block   *)
(* the project's next one, unless the database went away under it.         *)
(***************************************************************************)
DoneJobSettlesMigration ==
  \A m \in Id : job[m] = "done" /\ project = "withDb" => mig[m].status \in Final

(***************************************************************************)
(* A migration cancelled while another table is still to come stops before *)
(* that table and stays CANCELLED.                                         *)
(***************************************************************************)
MoreToCome ==
  \/ At("check") /\ worker.todo # {}
  \/ worker.pc \in InTable /\ worker.todo \ {T} # {}

CancelledEarly(m) == M = m /\ mig[m].status = "CANCELLED" /\ MoreToCome
StaysCancelled(m) == At("idle") /\ mig[m].status \in {"CANCELLED", "none"}

CancelHonoured == \A m \in Id : CancelledEarly(m) ~> StaysCancelled(m)

(***************************************************************************)
(* Every job of the queue ends, whatever connection or statement fails,    *)
(* and the queue goes on to the next project's migration.                  *)
(***************************************************************************)
Unsettled(m) == job[m] \notin {"none", "done", "failed"}

MigrationSettles == \A m \in Id : Unsettled(m) ~> ~Unsettled(m)
=============================================================================
