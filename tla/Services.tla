-------------------------------- MODULE Services --------------------------------
(***************************************************************************)
(* The disjoint sum of the backend's components that share no state and    *)
(* about which there are proofs: the live logs (Lt), the pool of database  *)
(* clients (Cp), a static site (Ss), the process of a project (Ap), the    *)
(* nginx sites (Ng), the projects' resources (Pj), the users (Ac), the     *)
(* webhooks (Wh: their configuration, Dv: their deliveries) and            *)
(* deployments under edited pipelines (Dp).  turn says which of them runs; *)
(* what it does is what it does on its own.                                *)
(*                                                                         *)
(* Variables of one name are one variable, of whichever component runs;    *)
(* the variables of Wh, Dv and Dp, whose proofs are modules of their own,  *)
(* are v1, v2, ...                                                         *)
(***************************************************************************)
EXTENDS Naturals

CONSTANTS
  \* LogTails and ConnectionPool
  Viewers, MaxJoins, Queriers, Editors, MaxVersion, MaxClient,
  \* StaticSite, its handlers also those of Accounts
  Files, MaxEdits, MaxUploads, MaxDeploys, Requests,
  \* AppProcess and NginxSites
  MaxRequests, AppDeploys, Sites, Static, Settings, MaxUpdates, SiteDeploys,
  \* Projects and Accounts
  Apps, Slugs, ResourceKinds, MaxIndex, MaxHash, AppUpdates, Emails, MaxUsers, MaxInvites,
  \* Webhooks, for Wh ...
  HookFilters, HookAdmins, MaxHooks,
  \* ... and for Dv
  Pushes, PushFilters, MaxReplays, Processors, PushAdmins,
  \* DeployPipeline
  MaxDeployments, Pipelines, Faults,
  ApiHandlers,  \* requests in flight, of AppProcess, NginxSites, Projects and DeployPipeline
  None

VARIABLES
  turn,
  project, watching, room, starting, joins, logged, unlogged, live, closing, tails, calm,
  type, row, versions, made, open, entry, user, editor, cleaner,
  rows, disk, upload, deploys, publication, edits, uploads, deployed,
  env, settings, state, directory, dotenv, ecosystem, process, syncing, request,
  worker, requests, revived,
  conf, bak, cache, enabled, cert, loaded, dropped, updates, overlap, broken,
  conn, databases, buckets, failed, dirty,
  invite, tokens, ids, owners, accounts, reused, emptied,
  v1, v2, v3, v4, v5, v6, v7, v8, v9, v10, v11

Lt == INSTANCE LogTails WITH Client <- Viewers
Cp == INSTANCE ConnectionPool WITH Users <- Queriers
Ss == INSTANCE StaticSite
Ap == INSTANCE AppProcess WITH
  Handlers <- ApiHandlers, MaxDeploys <- AppDeploys, status <- state, req <- request
Ng == INSTANCE NginxSites WITH Site <- Sites,
  Handlers <- ApiHandlers, MaxDeploys <- SiteDeploys, req <- request
Pj == INSTANCE Projects WITH
  Project <- Apps, Slug <- Slugs, Kinds <- ResourceKinds, MaxUpdates <- AppUpdates,
  Handlers <- ApiHandlers, req <- request
Ac == INSTANCE Accounts WITH Handlers <- Requests, req <- request
Wh == INSTANCE Webhooks_proofs WITH
  Payload <- <<>>, Filters <- HookFilters, MaxReplays <- 0, Processors <- {},
  Admins <- HookAdmins, project <- v1, config <- v2, github <- v3, made <- v4,
  sender <- v5, event <- v6, deployed <- v7, proc <- v8, admin <- v9, calm <- v10,
  crashed <- v11
Dv == INSTANCE Webhooks_proofs WITH Payload <- Pushes,
  Filters <- PushFilters, Admins <- PushAdmins, MaxHooks <- 1, project <- v1,
  config <- v2, github <- v3, made <- v4, sender <- v5, event <- v6, deployed <- v7,
  proc <- v8, admin <- v9, calm <- v10, crashed <- v11
Dp == INSTANCE DeployPipeline_proofs WITH
  Handlers <- ApiHandlers, project <- v1, pipeline <- v2, row <- v3, skip <- v4,
  job <- v5, stalls <- v6, queue <- v7, worker <- v8, req <- v9, lock <- v10,
  procs <- v11

ServicesAssumption ==
  /\ Lt!LogTailsAssumption /\ Cp!ConnectionPoolAssumption /\ Ss!StaticSiteAssumption
  /\ Ap!AppProcessAssumption /\ Ng!NginxSitesAssumption
  /\ Pj!ProjectsAssumption /\ Ac!AccountsAssumption
  /\ Wh!WebhooksAssumption /\ Dv!WebhooksAssumption /\ Dp!DeployAssumption

\* The variables of one component only, and those that several have.
tailed == <<project, watching, room, starting, joins, logged, unlogged, live, closing, tails>>
pooled == <<type, versions, made, open, entry, editor, cleaner>>
sited == <<rows, disk, upload, publication, edits, uploads, deployed>>
processed == <<env, settings, state, directory, dotenv, ecosystem, process, syncing,
               requests, revived>>
served == <<conf, bak, cache, enabled, cert, loaded, dropped, broken>>
provided == <<conn, databases, buckets, failed, dirty>>
invited == <<invite, tokens, ids, owners, accounts, reused, emptied>>
shared == <<calm, row, user, deploys, request, worker, updates, overlap>>
slots == <<v1, v2, v3, v4, v5, v6, v7, v8, v9, v10, v11>>
services == <<turn, tailed, pooled, sited, processed, served, provided, invited, shared,
              slots>>

NoTails ==
  /\ project = None /\ watching = None /\ room = None /\ starting = None /\ joins = None
  /\ logged = None /\ unlogged = None
  /\ live = None /\ closing = None /\ tails = None
NoPool ==
  /\ type = None /\ versions = None /\ made = None /\ open = None /\ entry = None
  /\ editor = None /\ cleaner = None
NoSite ==
  /\ rows = None /\ disk = None /\ upload = None /\ publication = None /\ edits = None
  /\ uploads = None /\ deployed = None
NoProcess ==
  /\ env = None /\ settings = None /\ state = None /\ directory = None /\ dotenv = None
  /\ ecosystem = None /\ process = None /\ syncing = None /\ requests = None
  /\ revived = None
NotServed ==
  /\ conf = None /\ bak = None /\ cache = None /\ enabled = None /\ cert = None
  /\ loaded = None /\ dropped = None /\ broken = None
NoResources ==
  /\ conn = None /\ databases = None /\ buckets = None /\ failed = None /\ dirty = None
NoAccounts ==
  /\ invite = None /\ tokens = None /\ ids = None /\ owners = None /\ accounts = None
  /\ reused = None /\ emptied = None
NoSlots ==
  /\ v1 = None /\ v2 = None /\ v3 = None /\ v4 = None /\ v5 = None /\ v6 = None
  /\ v7 = None /\ v8 = None /\ v9 = None /\ v10 = None /\ v11 = None

ServicesInit ==
  \/ /\ turn = "tails" /\ Lt!Init
     /\ NoPool /\ NoSite /\ NoProcess /\ NotServed /\ NoResources /\ NoAccounts
     /\ NoSlots
     /\ row = None /\ user = None /\ deploys = None /\ request = None /\ worker = None
     /\ updates = None /\ overlap = None
  \/ /\ turn = "pool" /\ Cp!Init
     /\ NoTails /\ NoSite /\ NoProcess /\ NotServed /\ NoResources /\ NoAccounts
     /\ NoSlots
     /\ deploys = None /\ request = None /\ worker = None /\ updates = None
     /\ overlap = None
  \/ /\ turn = "static" /\ Ss!Init
     /\ NoTails /\ NoPool /\ NoProcess /\ NotServed /\ NoResources /\ NoAccounts
     /\ NoSlots
     /\ calm = None /\ row = None /\ user = None /\ request = None /\ worker = None
     /\ updates = None /\ overlap = None
  \/ /\ turn = "process" /\ Ap!Init
     /\ NoTails /\ NoPool /\ NoSite /\ NotServed /\ NoResources /\ NoAccounts /\ NoSlots
     /\ row = None /\ user = None /\ updates = None /\ overlap = None
  \/ /\ turn = "nginx" /\ Ng!Init
     /\ NoTails /\ NoPool /\ NoSite /\ NoProcess /\ NoResources /\ NoAccounts /\ NoSlots
     /\ calm = None /\ user = None
  \/ /\ turn = "projects" /\ Pj!Init
     /\ NoTails /\ NoPool /\ NoSite /\ NoProcess /\ NotServed /\ NoAccounts /\ NoSlots
     /\ calm = None /\ user = None /\ deploys = None /\ worker = None /\ overlap = None
  \/ /\ turn = "accounts" /\ Ac!Init
     /\ NoTails /\ NoPool /\ NoSite /\ NoProcess /\ NotServed /\ NoResources /\ NoSlots
     /\ calm = None /\ row = None /\ deploys = None /\ worker = None /\ updates = None
  \/ /\ \/ turn = "hooks" /\ Wh!Init
        \/ turn = "deliveries" /\ Dv!Init
        \/ turn = "deploy" /\ Dp!Init
     /\ NoTails /\ NoPool /\ NoSite /\ NoProcess /\ NotServed /\ NoResources
     /\ NoAccounts
     /\ calm = None /\ row = None /\ user = None /\ deploys = None /\ request = None
     /\ worker = None /\ updates = None /\ overlap = None

Runs(component) == turn = component /\ UNCHANGED turn

ServicesNext ==
  \/ /\ Runs("tails") /\ Lt!Next
     /\ UNCHANGED <<pooled, sited, processed, served, provided, invited, slots, row,
                    user, deploys, request, worker, updates, overlap>>
  \/ /\ Runs("pool") /\ Cp!Next
     /\ UNCHANGED <<tailed, sited, processed, served, provided, invited, slots, deploys,
                    request, worker, updates, overlap>>
  \/ /\ Runs("static") /\ Ss!Next
     /\ UNCHANGED <<tailed, pooled, processed, served, provided, invited, slots, calm,
                    row, user, request, worker, updates, overlap>>
  \/ /\ Runs("process") /\ Ap!Next
     /\ UNCHANGED <<tailed, pooled, sited, served, provided, invited, slots, row, user,
                    updates, overlap>>
  \/ /\ Runs("nginx") /\ Ng!Next
     /\ UNCHANGED <<tailed, pooled, sited, processed, provided, invited, slots, calm,
                    user>>
  \/ /\ Runs("projects") /\ Pj!Next
     /\ UNCHANGED <<tailed, pooled, sited, processed, served, invited, slots, calm, user,
                    deploys, worker, overlap>>
  \/ /\ Runs("accounts") /\ Ac!Next
     /\ UNCHANGED <<tailed, pooled, sited, processed, served, provided, slots, calm, row,
                    deploys, worker, updates>>
  \/ /\ \/ Runs("hooks") /\ Wh!Next
        \/ Runs("deliveries") /\ Dv!Next
        \/ Runs("deploy") /\ Dp!Next
     /\ UNCHANGED <<tailed, pooled, sited, processed, served, provided, invited, shared>>

ServicesSpec == ServicesInit /\ [][ServicesNext]_services

Served ==
  {"tails", "pool", "static", "process", "nginx", "projects", "accounts", "hooks",
   "deliveries", "deploy"}

ServicesTypeOK ==
  CASE turn = "tails" -> Lt!TypeOK
    [] turn = "pool" -> Cp!TypeOK
    [] turn = "static" -> Ss!TypeOK
    [] turn = "process" -> Ap!TypeOK
    [] turn = "nginx" -> Ng!TypeOK
    [] turn = "projects" -> Pj!TypeOK
    [] turn = "accounts" -> Ac!TypeOK
    [] turn = "hooks" -> Wh!TypeOK
    [] turn = "deliveries" -> Dv!TypeOK
    [] turn = "deploy" -> Dp!TypeOK

----------------------------------------------------------------------------
(***************************************************************************)
(* A room with viewers has a tail unless it was entered before there was a *)
(* log, and one only unless somebody came or went while it started; a      *)
(* query reaches an open client made from the row, and no client but the   *)
(* pool's is left open.                                                    *)
(***************************************************************************)
TailsAndClients ==
  /\ turn = "tails" => Lt!RoomIsServed /\ Lt!TailsFollowRoom
  /\ turn = "pool" => Cp!QueriesReachTheRow /\ Cp!NoClientLost

(***************************************************************************)
(* Whatever creates, regenerations and deletes of a webhook race, GitHub   *)
(* signs with the secret the guard knows; serial ones leave no hook over.  *)
(* However often a delivery comes or is replayed, each event is deployed   *)
(* once at most.                                                           *)
(***************************************************************************)
DeliveriesAccounted ==
  /\ turn = "hooks" => Wh!HooksAccounted
  /\ turn = "deliveries" => Dv!HooksAccounted /\ Dv!OneDeploymentPerDelivery

(***************************************************************************)
(* Where writers neither overlap nor fail: nginx serves what the rows say  *)
(* (but for the locations, which deployments drop), the status of a        *)
(* project is what PM2 does with its process, and its .env and             *)
(* ecosystem.config.js hold the variables and settings of the rows.        *)
(***************************************************************************)
RunsAsConfigured ==
  /\ turn = "nginx" => Ng!ServedAsConfigured
  /\ turn = "process" => Ap!StatusHonest /\ Ap!FilesCurrent

(***************************************************************************)
(* Of serial requests, whatever fails half way: no two projects have the   *)
(* same database or Redis index, and when none failed either the rows, the *)
(* connections and the variables of every project agree.  Set-ups that do  *)
(* not meet make one owner, and an invite makes one account.               *)
(***************************************************************************)
ResourcesAccounted ==
  /\ turn = "projects" => Pj!SerialResourcesExclusive /\ Pj!SerialRowsAgree
  /\ turn = "accounts" => Ac!OneOwner /\ Ac!InvitesAccounted

(***************************************************************************)
(* A pipeline edited under its deployments: stages still run in the order  *)
(* the worker loaded, after all earlier ones, and a FAILED deployment      *)
(* shows where retry must resume.                                          *)
(***************************************************************************)
EditedStagesInOrder ==
  turn = "deploy" => Dp!StageOrder /\ Dp!RetryTargetsFailure

(***************************************************************************)
(* What a step may never do, whatever is interleaved: write SUCCESS before *)
(* every stage has passed; leave another file or row than a rejected nginx *)
(* update found, or files nginx refuses unless it did before or the site   *)
(* has a cache; rewrite a settled webhook event; take the index page from  *)
(* a site but to publish other files, or report as published what it did   *)
(* not find in the rows.                                                   *)
(***************************************************************************)
StepsHonest ==
  [][ /\ turn = "deploy" => Dp!SuccessEarnedStep
      /\ turn = "nginx" => Ng!RejectionRestoresStep
      /\ turn = "deliveries" => Dv!SettledEventsKeptStep
      /\ turn = "static" => Ss!SiteKeepsIndexStep ]_services
===============================================================================
