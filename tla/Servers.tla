-------------------------------- MODULE Servers --------------------------------
(***************************************************************************)
(* The disjoint sum of what is run on a server from outside the backend:   *)
(* its upgrades (Up), the set-up, certificate and deployment scripts (Sv)  *)
(* and the installer (It).  duty says which of them this server is for;    *)
(* what it does is what it does on its own.  Variables of one name are one *)
(* variable, of whichever is run.                                          *)
(***************************************************************************)
EXTENDS Naturals

CONSTANTS
  MaxRelease, MaxUpgrades, UpgradeFaults, \* Upgrade
  MaxSource, MaxRuns,                     \* ServerScripts
  MaxInstalls, MaxSilent,                 \* Installer
  Unset                                   \* no value; that of what is not run

VARIABLES
  duty,
  files, saved, schema, running, runs, database, minio,
  latest, head, built, backups, upgrading, args, attempted, outcome,
  commands, pgvector, active, sites, serving, certificate, local, origin, git, server, at,
  note,
  phase, step, config, number, missed, undone, silent, packages, redis, nginx, api, admin

Up == INSTANCE Upgrade WITH
  MaxVersion <- MaxRelease, Faults <- UpgradeFaults, None <- Unset, pc <- upgrading
Sv == INSTANCE ServerScripts WITH
  MaxVersion <- MaxSource, loaded <- serving, cert <- certificate
It == INSTANCE Installer WITH failed <- undone

ServersAssumption ==
  Up!UpgradeAssumption /\ Sv!ServerScriptsAssumption /\ It!InstallerAssumption

\* The variables that several have, and those of one only.
common == <<files, saved, runs, database, minio>>
upgraded ==
  <<latest, head, built, running, schema, backups, upgrading, args, attempted, outcome>>
scripted == <<commands, pgvector, active, sites, serving, certificate, local, origin, git,
              server, at, note>>
installed == <<phase, step, config, number, missed, undone, silent, packages, redis, nginx, api,
               admin>>
servers == <<duty, common, upgraded, scripted, installed>>

NotUpgraded ==
  /\ latest = Unset /\ head = Unset /\ built = Unset /\ running = Unset /\ schema = Unset
  /\ backups = Unset /\ upgrading = Unset /\ args = Unset /\ attempted = Unset /\ outcome = Unset
NotScripted ==
  /\ commands = Unset /\ pgvector = Unset /\ active = Unset /\ sites = Unset /\ serving = Unset
  /\ certificate = Unset /\ local = Unset /\ origin = Unset /\ git = Unset /\ server = Unset
  /\ at = Unset /\ note = Unset
NotInstalled ==
  /\ phase = Unset /\ step = Unset /\ config = Unset /\ number = Unset /\ missed = Unset
  /\ undone = Unset /\ silent = Unset /\ packages = Unset /\ redis = Unset /\ nginx = Unset
  /\ api = Unset /\ admin = Unset

\* Unset of them is run.
NoServers ==
  /\ duty = Unset /\ NotUpgraded /\ NotScripted /\ NotInstalled
  /\ files = Unset /\ saved = Unset /\ runs = Unset /\ database = Unset /\ minio = Unset

ServersInit ==
  \/ /\ duty = "upgrade" /\ Up!Init /\ NotScripted /\ NotInstalled
     /\ database = Unset /\ minio = Unset
  \/ /\ duty = "scripts" /\ Sv!Init /\ NotUpgraded /\ NotInstalled
     /\ files = Unset /\ saved = Unset
  \/ /\ duty = "installer" /\ It!Init /\ NotUpgraded /\ NotScripted
     /\ runs = Unset

Serves(component) == duty = component /\ UNCHANGED duty

ServersNext ==
  \/ Serves("upgrade") /\ Up!Next /\ UNCHANGED <<scripted, installed, database, minio>>
  \/ Serves("scripts") /\ Sv!Next /\ UNCHANGED <<upgraded, installed, files, saved>>
  \/ Serves("installer") /\ It!Next /\ UNCHANGED <<upgraded, scripted, runs>>

ServersSpec == ServersInit /\ [][ServersNext]_servers

ServersTypeOK ==
  CASE duty = "upgrade" -> Up!TypeOK
    [] duty = "scripts" -> Sv!TypeOK
    [] duty = "installer" -> It!TypeOK

----------------------------------------------------------------------------
(***************************************************************************)
(* Through steps that fail and scripts killed anywhere: a completed        *)
(* upgrade is whole, a rolled back one leaves what was there, and from the *)
(* pull on there is a backup; a server set up passes the check, a deployed *)
(* release is whole and the API stays served; and what the installer       *)
(* reports has been done, on the server its configuration describes, but   *)
(* for the commands it does not look at.                                   *)
(***************************************************************************)
ServersWhole ==
  /\ duty = "upgrade" => Up!CompletedIsWhole /\ Up!RollbackRestores /\ Up!Recoverable
  /\ duty = "scripts" => Sv!SetupSatisfiesCheck /\ Sv!DeployedIsWhole /\ Sv!ApiStaysServed
  /\ duty = "installer" => It!ReportEarned /\ It!ReportedAsInstalled
===============================================================================
