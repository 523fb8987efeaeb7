------------------------------ MODULE MCPlatform ------------------------------
(***************************************************************************)
(* The components that share no state, checked for safety by one run of    *)
(* TLC as a disjoint sum: turn is chosen in the initial state and says     *)
(* which component runs, in the instance given here.  What each of them    *)
(* does and reaches is what it does and reaches on its own.                *)
(*                                                                         *)
(* PortAllocation, Services, Servers and Pages keep their variables; the   *)
(* others are instantiated over the same v1, v2, ..., of which a component *)
(* with n variables uses the first n and leaves the rest None.             *)
(***************************************************************************)
EXTENDS PortAllocation, Services, Servers, Pages, TLC

CONSTANT MainPush

VARIABLES v12, v13, v14

ports == vars
named == <<tailed, pooled, sited, processed, served, provided, invited, shared>>
after12 == <<v13, v14>>
after11 == <<v12, after12>>
after9 == <<v10, v11, after11>>
after7 == <<v8, v9, after9>>
all == <<services, servers, ports, pages, after11>>

\* The rest of the variables is not used.
Unused11 == v12 = None /\ v13 = None /\ v14 = None
Unused9 == v10 = None /\ v11 = None /\ Unused11
Unused7 == v8 = None /\ v9 = None /\ Unused9

EditedPipelines == {<<"optional", "required">>, <<"required">>}

\* Accepted by nginx, and rejected.
NginxSettings == {[body |-> "tuned", locs |-> "cached"], [body |-> "bad", locs |-> "none"]}

PushFilter == [events |-> {"push"}, branches |-> {"main"}, paths |-> {"a"}]
HooksFilters == {PushFilter, [events |-> {"release"}, branches |-> {}, paths |-> {}]}
PushOnly == {PushFilter}

\* One push, of a file the filter names.
Deliveries ==
  MainPush :> [event |-> "push", merged |-> FALSE, branch |-> {"main"}, files |-> {"a"}]

\* A host with one project under PM2 and one in Docker, and their services.
ScannedHosts == {"a" :> {"pm2", "process"} @@ "b" :> {"docker"}}
ServiceUrls == "a" :> {"redis"} @@ "b" :> {"database"}

\* Two tables of one row; an archive; limits, each of which one file breaks.
FirstRows == "t" :> <<1>> @@ "s" :> <<2>>
Archived == "f" :> 1
FileLimits ==
  {[file |-> 2, total |-> 3], [file |-> 2, total |-> 2], [file |-> 1, total |-> 2]}

\* Of an import's package, two projects and the variables of each; and a dump of
\* the first database that is too big.
ItemVariables == <<{"x", "y"}, {"x"}>>
BigDumps == {{"d1"} \X {1, 2}}

Mc == INSTANCE MigrateCli WITH
  Hosts <- ScannedHosts, Urls <- ServiceUrls, Lookups <- {{"remote", "commit"}},
  Crontab <- <<"a">>, Under <- {<<"a", "a">>, <<"b", "b">>, <<"b", "a">>},
  MaxWrites <- 1, MaxPolls <- 2, MaxReports <- 1, None <- None, host <- v1,
  linked <- v2, phase <- v3, found <- v4, projects <- v5, todo <- v6, collect <- v7,
  redis <- v8, packed <- v9, package <- v10, upload <- v11, row <- v12, reports <- v13,
  overlap <- v14
Db == INSTANCE DatabaseBrowser WITH
  Users <- {"u1"}, Rows <- FirstRows, PageSize <- 1, MaxClicks <- 3, MaxWrites <- 1,
  heap <- v1, ui <- v2, requests <- v3, clicks <- v4, writes <- v5, shifted <- v6,
  astray <- v7
Pf == INSTANCE ProjectFiles WITH
  Users <- {"u1"}, Dirs <- {"d"}, Names <- {"f"}, Inside <- Archived, Sizes <- {2},
  Limits <- FileLimits, MaxRequests <- 2, MaxWrites <- 1, files <- v1, dirs <- v2,
  limit <- v3, ui <- v4, requests <- v5, sent <- v6, writes <- v7, ceiling <- v8,
  unchecked <- v9
ASSUME ServicesHold == ServicesAssumption
ASSUME ServersHold == ServersAssumption
ASSUME PagesHold == PagesAssumption
ASSUME MigrateCliHolds == Mc!MigrateCliAssumption
ASSUME DatabaseBrowserHolds == Db!DatabaseBrowserAssumption
ASSUME ProjectFilesHolds == Pf!ProjectFilesAssumption

\* None of the components of Services runs.
NoService ==
  /\ NoTails /\ NoPool /\ NoSite /\ NoProcess /\ NotServed /\ NoResources /\ NoAccounts
  /\ calm = None /\ row = None /\ user = None /\ deploys = None /\ request = None
  /\ worker = None /\ updates = None /\ overlap = None

\* No page is open.
NoPages ==
  /\ view = NoValue /\ NotEdited /\ NotConfigured /\ NotEntered /\ NotBrowsed /\ NotListed
  /\ NotFollowed
  /\ stored = NoValue /\ known = NoValue /\ fetch = NoValue /\ selected = NoValue
  /\ standing = NoValue /\ sent = NoValue /\ shown = NoValue /\ changes = NoValue
  /\ calls = NoValue /\ form = NoValue /\ stage = NoValue /\ meant = NoValue
  /\ sourceMode = NoValue /\ starts = NoValue /\ unfinished = NoValue
  /\ strayed = NoValue /\ lost = NoValue

OtherInit ==
  /\ Init
  /\ \/ turn = "servers" /\ NoService /\ NoSlots /\ Unused11 /\ ServersInit
     \/ NoServers /\ ServicesInit /\ Unused11
     \/ NoServers /\ turn = "ports" /\ NoService /\ NoSlots /\ Unused11
     \/ /\ NoServers /\ NoService
        /\ \/ turn = "migrate" /\ Mc!Init
           \/ turn = "database" /\ Db!Init /\ Unused7
           \/ turn = "files" /\ Pf!Init /\ Unused9

AllInit ==
  \/ NoPages /\ OtherInit
  \/ Init /\ NoServers /\ NoService /\ NoSlots /\ Unused11 /\ turn = "pages" /\ PagesInit

\* What does not run is unchanged (said first: TLC then says it once a state).
AllNext ==
  \/ turn \in Served /\ UNCHANGED <<pages, servers, ports, after11>> /\ ServicesNext
  \/ Runs("ports") /\ UNCHANGED <<pages, servers, named, slots, after11>> /\ Next
  \/ Runs("pages") /\ UNCHANGED <<services, servers, ports, after11>> /\ PagesNext
  \/ Runs("servers") /\ UNCHANGED <<pages, ports, named, slots, after11>> /\ ServersNext
  \/ Runs("migrate") /\ UNCHANGED <<pages, servers, ports, named>> /\ Mc!Next
  \/ Runs("database") /\ UNCHANGED <<pages, servers, ports, named, after7>> /\ Db!Next
  \/ Runs("files") /\ UNCHANGED <<pages, servers, ports, named, after9>> /\ Pf!Next

AllSpec == AllInit /\ [][AllNext]_all
----------------------------------------------------------------------------
(***************************************************************************)
(* Each component's variables keep their types.                            *)
(***************************************************************************)
AllTypeOK ==
  CASE turn = "ports" -> TypeOK
    [] turn \in Served -> ServicesTypeOK
    [] turn = "servers" -> ServersTypeOK
    [] turn = "pages" -> PagesTypeOK
    [] turn = "migrate" -> Mc!TypeOK
    [] turn = "database" -> Db!TypeOK
    [] turn = "files" -> Pf!TypeOK

(***************************************************************************)
(* What the migration command sends is what it found: projects found twice *)
(* are one, a Redis dump is of what it held when asked, and nothing it     *)
(* packed is lost.  The browsers of a project's data keep the rows that    *)
(* nobody marked or edited, and the files within the limit but for what    *)
(* archives hold whose size the service cannot find out.                   *)
(***************************************************************************)
BrowsersHonest ==
  /\ turn = "migrate" =>
       Mc!ScanMerges /\ Mc!RedisDumpFresh /\ Mc!PackageKept /\ Mc!ManifestKept
  /\ turn = "database" => Db!RowsAsMeant
  /\ turn = "files" => Pf!TotalWithinLimit
=============================================================================
