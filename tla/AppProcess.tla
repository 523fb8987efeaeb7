------------------------------ MODULE AppProcess ------------------------------
(***************************************************************************)
(* The process of ONE project under PM2 and the files it is started from:  *)
(* stop and restart, the update of the PM2 settings, the update of the     *)
(* variables with its unawaited syncEnvFile, and the stages of a           *)
(* deployment, which have the project lock that the requests do not take.  *)
(*                                                                         *)
(* Variables and PM2 settings are version numbers, 0 before any is set;    *)
(* every await is an interleaving point.                                   *)
(***************************************************************************)
EXTENDS Naturals

CONSTANTS
  MaxRequests, MaxDeploys,  \* bounds: of requests, and of deployments
  Handlers                  \* requests that can be in flight

AppProcessAssumption == MaxRequests \in Nat /\ MaxDeploys \in Nat

VARIABLES
  env, settings,  \* the rows: version of the variables, of the PM2 settings
  status,         \* Project.status
  directory,      \* whether the project's directory is there
  dotenv,         \* the .env file: version of the variables
  ecosystem,      \* ecosystem.config.js: <<variables, settings>>, or NoFile
  process,        \* what PM2 has: "none", "stopped" or "online"
  syncing,        \* versions whose syncEnvFile has not run yet
  req, worker,    \* locals and program counters
  requests, deploys,
  calm,           \* requests and deployments have not overlapped, none failed
  revived         \* the settings of a stopped project were updated

rows == <<env, settings, status>>
files == <<directory, dotenv, ecosystem>>
bounds == <<requests, deploys>>
history == <<calm, revived>>
vars == <<rows, files, process, syncing, req, worker, bounds, history>>

Version == 0..MaxRequests
NoFile == <<>>
NoReq == [pc |-> "idle", op |-> "none", v |-> 0, env |-> 0]
NoDeploy == [pc |-> "idle", env |-> 0, settings |-> 0]

TypeOK ==
  /\ env \in Version /\ settings \in Version
  /\ status \in {"ACTIVE", "STOPPED"}
  /\ directory \in BOOLEAN
  /\ dotenv \in Version
  /\ ecosystem \in (Version \X Version) \cup {NoFile}
  /\ process \in {"none", "stopped", "online"}
  /\ syncing \subseteq Version
  /\ req \in [Handlers -> [pc : {"idle", "store", "write", "pm2", "status"},
                           op : {"none", "env", "settings", "stop", "restart"},
                           v : Version, env : Version]]
  /\ worker \in [pc : {"idle", "clone", "env", "read", "write", "delete", "start", "finish"},
                 env : Version, settings : Version]
  /\ requests \in Version /\ deploys \in 0..MaxDeploys
  /\ calm \in BOOLEAN /\ revived \in BOOLEAN

Init ==
  /\ env = 0 /\ settings = 0 /\ status = "ACTIVE"
  /\ directory = FALSE /\ dotenv = 0 /\ ecosystem = NoFile
  /\ process = "none"
  /\ syncing = {}
  /\ req = [h \in Handlers |-> NoReq]
  /\ worker = NoDeploy
  /\ requests = 0 /\ deploys = 0
  /\ calm = TRUE /\ revived = FALSE

Idle == worker.pc = "idle" /\ syncing = {} /\ \A h \in Handlers : req[h].pc = "idle"
Others(h) == worker.pc # "idle" \/ syncing # {} \/ \E g \in Handlers \ {h} : req[g].pc # "idle"

At(h, op, pc) == req[h].op = op /\ req[h].pc = pc
Goto(h, pc) == req' = [req EXCEPT ![h].pc = pc]
Return(h) == req' = [req EXCEPT ![h] = NoReq]
Throw(h) == Return(h) /\ calm' = FALSE /\ UNCHANGED revived

----------------------------------------------------------------------------
(* Requests.                                                               *)

\* Each reads the project first; stop refuses a stopped one.
Begin(h, op) ==
  /\ req[h].pc = "idle"
  /\ op = "stop" => status # "STOPPED"
  /\ requests < MaxRequests /\ requests' = requests + 1
  /\ req' = [req EXCEPT ![h] = [pc |-> CASE op \in {"env", "settings"} -> "store"
                                         [] op = "stop" -> "pm2"
                                         [] OTHER -> "write",
                                op |-> op, v |-> requests + 1, env |-> env]]
  /\ syncing' = IF op = "env" THEN syncing \cup {requests + 1} ELSE syncing
  /\ calm' = (calm /\ ~Others(h))
  /\ revived' = (revived \/ (op = "settings" /\ status = "STOPPED"))
  /\ UNCHANGED <<rows, files, process, worker, deploys>>

\* update: the row, while syncEnvFile goes its own way.
StoreEnv(h) ==
  /\ At(h, "env", "store")
  /\ env' = req[h].v
  /\ Return(h)
  /\ UNCHANGED <<settings, status, files, process, syncing, worker, bounds, history>>

SyncEnvFile(v) ==
  /\ v \in syncing
  /\ syncing' = syncing \ {v}
  /\ dotenv' = IF directory THEN v ELSE dotenv
  /\ UNCHANGED <<rows, directory, ecosystem, process, req, worker, bounds, history>>

StoreSettings(h) ==
  /\ At(h, "settings", "store")
  /\ settings' = req[h].v
  /\ Goto(h, "write")
  /\ UNCHANGED <<env, status, files, process, syncing, worker, bounds, history>>

\* Mutant: restart writes default settings.
WriteEcosystem_default(h) ==
  /\ req[h].pc = "write"
  /\ IF directory
       THEN /\ ecosystem' = <<req[h].env, IF req[h].op = "settings" THEN req[h].v ELSE 0>>
            /\ Goto(h, "pm2")
            /\ UNCHANGED history
       ELSE Throw(h) /\ UNCHANGED ecosystem
  /\ UNCHANGED <<rows, directory, dotenv, process, syncing, worker, bounds>>

\* ecosystem.config.js, from the project as it was read and the settings of
\* the upsert (restart: of now); without the directory this throws.
WriteEcosystem(h) ==
  /\ req[h].pc = "write"
  /\ IF directory
       THEN /\ ecosystem' = <<req[h].env, IF req[h].op = "settings" THEN req[h].v ELSE settings>>
            /\ Goto(h, "pm2")
            /\ UNCHANGED history
       ELSE Throw(h) /\ UNCHANGED ecosystem
  /\ UNCHANGED <<rows, directory, dotenv, process, syncing, worker, bounds>>

\* pm2 stop, or pm2 restart, which also starts a stopped process.
Pm2(h) ==
  /\ req[h].pc = "pm2"
  /\ \/ /\ process # "none"
        /\ process' = IF req[h].op = "stop" THEN "stopped" ELSE "online"
        /\ IF req[h].op = "settings" THEN Return(h) ELSE Goto(h, "status")
        /\ UNCHANGED history
     \/ Throw(h) /\ UNCHANGED process
  /\ UNCHANGED <<rows, files, syncing, worker, bounds>>

WriteStatus(h) ==
  /\ req[h].pc = "status"
  /\ status' = IF req[h].op = "stop" THEN "STOPPED" ELSE "ACTIVE"
  /\ Return(h)
  /\ UNCHANGED <<env, settings, files, process, syncing, worker, bounds, history>>

Request(h) ==
  \/ \E op \in {"env", "settings", "stop", "restart"} : Begin(h, op)
  \/ StoreEnv(h) \/ StoreSettings(h) \/ WriteEcosystem(h) \/ Pm2(h) \/ WriteStatus(h)

----------------------------------------------------------------------------
(* A deployment.                                                           *)

Stage(pc, next) == worker.pc = pc /\ worker' = [worker EXCEPT !.pc = next]

\* The project is read when the job begins.
Deploy ==
  /\ worker.pc = "idle"
  /\ deploys < MaxDeploys /\ deploys' = deploys + 1
  /\ worker' = [pc |-> "clone", env |-> env, settings |-> 0]
  /\ calm' = (calm /\ Idle)
  /\ UNCHANGED <<rows, files, process, syncing, req, requests, revived>>

Clone ==
  /\ Stage("clone", "env")
  /\ directory' = TRUE
  /\ UNCHANGED <<rows, dotenv, ecosystem, process, syncing, req, bounds, history>>

\* Variables that are not set are not written.
WriteDotEnv ==
  /\ Stage("env", "read")
  /\ dotenv' = IF worker.env = 0 THEN dotenv ELSE worker.env
  /\ UNCHANGED <<rows, directory, ecosystem, process, syncing, req, bounds, history>>

ReadSettings ==
  /\ worker.pc = "read"
  /\ worker' = [worker EXCEPT !.pc = "write", !.settings = settings]
  /\ UNCHANGED <<rows, files, process, syncing, req, bounds, history>>

WriteStageEcosystem ==
  /\ Stage("write", "delete")
  /\ ecosystem' = <<worker.env, worker.settings>>
  /\ UNCHANGED <<rows, directory, dotenv, process, syncing, req, bounds, history>>

\* pm2 delete, then pm2 start, which may fail.
Pm2Delete ==
  /\ Stage("delete", "start")
  /\ process' = "none"
  /\ UNCHANGED <<rows, files, syncing, req, bounds, history>>

Pm2Start ==
  /\ Stage("start", "finish")
  /\ process' = "online"
  /\ UNCHANGED <<rows, files, syncing, req, bounds, history>>

\* A deployment that fails leaves Project.status as it is.
Fail ==
  /\ worker.pc \in {"clone", "write", "start"}
  /\ worker' = NoDeploy
  /\ calm' = FALSE
  /\ UNCHANGED <<rows, files, process, syncing, req, bounds, revived>>

Finish ==
  /\ worker.pc = "finish"
  /\ worker' = NoDeploy
  /\ status' = "ACTIVE"
  /\ UNCHANGED <<env, settings, files, process, syncing, req, bounds, history>>

DeployStep ==
  \/ Deploy \/ Clone \/ WriteDotEnv \/ ReadSettings \/ WriteStageEcosystem
  \/ Pm2Delete \/ Pm2Start \/ Fail \/ Finish

Next ==
  (\E h \in Handlers : Request(h)) \/ (\E v \in syncing : SyncEnvFile(v)) \/ DeployStep

Spec == Init /\ [][Next]_vars

----------------------------------------------------------------------------
(***************************************************************************)
(* "Project is already stopped": when requests and deployments have        *)
(* neither overlapped nor failed, the process of a STOPPED project is      *)
(* stopped and that of a deployed ACTIVE one runs -- unless somebody       *)
(* updated the PM2 settings of a stopped one, which starts it.             *)
(***************************************************************************)
StatusHonest ==
  calm /\ ~revived /\ Idle /\ ecosystem # NoFile =>
    process = IF status = "STOPPED" THEN "stopped" ELSE "online"

(***************************************************************************)
(* "The file and DB stay in sync" (PM2 design, line 201): under the same   *)
(* conditions the files of a deployed project hold the settings of the row *)
(* and no variables but the row's; .env holds the latest.                  *)
(***************************************************************************)
FilesCurrent ==
  calm /\ Idle /\ directory =>
    /\ dotenv = env
    /\ ecosystem # NoFile => ecosystem[1] <= env /\ ecosystem[2] = settings
=============================================================================
