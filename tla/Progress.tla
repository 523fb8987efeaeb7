------------------------------- MODULE Progress -------------------------------
(***************************************************************************)
(* The components whose work must end, side by side: the project lock, the *)
(* webhook deliveries (Wh), the imports of files (Si) and of data (Dm),    *)
(* and the page that follows a running job (Lv).  They share no state.     *)
(* turn is chosen in the initial state and says which of them runs; the    *)
(* others stay in their initial states, in which none of the actions that  *)
(* their fairness is about is enabled.                                     *)
(***************************************************************************)
EXTENDS ProjectLock

CONSTANTS
  \* Webhooks
  Pushes, HookFilters, MaxReplays, Processors, HookAdmins, MaxHooks,
  \* StorageImport
  Item, Key, KeyOf, Sources, Strategies, MaxImports, Importers, ImportFaults,
  \* DataMigration
  MaxMigrations, Table, Kinds, Migrators, MigrationFaults,
  \* LiveView
  Hooks, MaxDrops, MaxPolls, MaxRestarts,
  None

VARIABLES
  turn,
  whProject, whConfig, whGithub, whMade, whSender, whEvent, whDeployed, whProc, whAdmin,
  whCalm, whCrashed,
  siProject, siBucket, siTemp, siImp, siJob, siStalls, siQueue, siWorker, siReq,
  dmProject, dmExisting, dmData, dmMig, dmJob, dmStalls, dmQueue, dmWorker, dmReq,
  lvHook, lvRow, lvToEmit, lvRestarts, lvSocket, lvRequests, lvMessages, lvAnswers,
  lvTimer, lvMounted, lvShown, lvNotified, lvDrops

lock == vars
hooks ==
  <<whProject, whConfig, whGithub, whMade, whSender, whEvent, whDeployed, whProc,
  whAdmin, whCalm, whCrashed>>
objects ==
  <<siProject, siBucket, siTemp, siImp, siJob, siStalls, siQueue, siWorker, siReq>>
rows ==
  <<dmProject, dmExisting, dmData, dmMig, dmJob, dmStalls, dmQueue, dmWorker, dmReq>>
view ==
  <<lvHook, lvRow, lvToEmit, lvRestarts, lvSocket, lvRequests, lvMessages, lvAnswers,
  lvTimer, lvMounted, lvShown, lvNotified, lvDrops>>
all == <<turn, lock, hooks, objects, rows, view>>

Wh == INSTANCE Webhooks_proofs WITH
  Payload <- Pushes, Filters <- HookFilters, Admins <- HookAdmins, project <- whProject,
  config <- whConfig, github <- whGithub, made <- whMade, sender <- whSender,
  event <- whEvent, deployed <- whDeployed, proc <- whProc, admin <- whAdmin,
  calm <- whCalm, crashed <- whCrashed
Si == INSTANCE StorageImport WITH
  NoItem <- None, Handlers <- Importers, Faults <- ImportFaults, project <- siProject,
  bucket <- siBucket, temp <- siTemp, imp <- siImp, job <- siJob, stalls <- siStalls,
  queue <- siQueue, worker <- siWorker, req <- siReq
Dm == INSTANCE DataMigration WITH
  NoTable <- None, Handlers <- Migrators, Faults <- MigrationFaults,
  project <- dmProject, existing <- dmExisting, data <- dmData, mig <- dmMig,
  job <- dmJob, stalls <- dmStalls, queue <- dmQueue, worker <- dmWorker, req <- dmReq
Lv == INSTANCE LiveView WITH
  hook <- lvHook, row <- lvRow, toEmit <- lvToEmit, restarts <- lvRestarts, socket <- lvSocket,
  requests <- lvRequests, messages <- lvMessages, answers <- lvAnswers, timer <- lvTimer,
  mounted <- lvMounted, shown <- lvShown, notified <- lvNotified, drops <- lvDrops

ProgressAssumption ==
  /\ Wh!WebhooksAssumption /\ Si!StorageImportAssumption
  /\ Dm!MigrationAssumption /\ Lv!LiveViewAssumption

Components == {"lock", "hooks", "objects", "rows", "view"}

AllInit ==
  /\ turn \in Components
  /\ Init /\ Wh!Init /\ Si!Init /\ Dm!Init /\ Lv!Init
  /\ turn # "objects" => \A k \in DOMAIN siBucket : siBucket[k] = "none"
  /\ turn # "rows" => dmExisting = {}
  /\ turn # "view" => ~lvHook.polls /\ lvRow = "DONE"

Runs(component) == turn = component /\ UNCHANGED turn

AllNext ==
  \/ Runs("lock") /\ Next /\ UNCHANGED <<hooks, objects, rows, view>>
  \/ Runs("hooks") /\ Wh!Next /\ UNCHANGED <<lock, objects, rows, view>>
  \/ Runs("objects") /\ Si!Next /\ UNCHANGED <<lock, hooks, rows, view>>
  \/ Runs("rows") /\ Dm!Next /\ UNCHANGED <<lock, hooks, objects, view>>
  \/ Runs("view") /\ Lv!Next /\ UNCHANGED <<lock, hooks, objects, rows>>

AllSpec == AllInit /\ [][AllNext]_all

----------------------------------------------------------------------------
(***************************************************************************)
(* Each component's variables keep their types.                            *)
(***************************************************************************)
AllTypeOK ==
  CASE turn = "lock" -> TypeOK
    [] turn = "hooks" -> Wh!TypeOK
    [] turn = "objects" -> Si!TypeOK
    [] turn = "rows" -> Dm!TypeOK
    [] turn = "view" -> Lv!TypeOK

(***************************************************************************)
(* What a migration or an import says of itself when it ends is true: its  *)
(* tables hold the rows of the source, its items are in the bucket, and    *)
(* without OVERWRITE it has replaced no object its stat had shown.         *)
(***************************************************************************)
EndsHonest ==
  /\ Dm!CompletedHoldsSource /\ Dm!FinalStatusHonest
  /\ Si!CompletedHoldsItems /\ Si!ExistingKept

(***************************************************************************)
(* However often a delivery comes, one deployment at most comes of it; a   *)
(* migration whose job is done is over; a page announces no end before the *)
(* row has had one, nor stops asking before it has announced one.          *)
(***************************************************************************)
SettledOnce ==
  Wh!OneDeploymentPerDelivery /\ Dm!DoneJobSettlesMigration /\ Lv!WatchedToTheEnd
===============================================================================
