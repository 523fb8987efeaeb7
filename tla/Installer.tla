------------------------------ MODULE Installer ------------------------------
(***************************************************************************)
(* The installation of the platform: install.sh, and the command it ends   *)
(* with, which asks for the configuration (collect), installs what is      *)
(* missing (install) and initialises the platform (initialize) before it   *)
(* reports.  Everything an installation writes carries its number, so that *)
(* what an earlier one left over can be told apart.  On Debian or Ubuntu,  *)
(* with services of its own; any step may fail, and the command be killed. *)
(***************************************************************************)
EXTENDS Naturals, Sequences, FiniteSets

CONSTANTS
  MaxInstalls, \* installations started (bound)
  MaxSilent    \* tasks whose commands fail unseen (bound)

InstallerAssumption == MaxInstalls \in Nat /\ MaxSilent \in Nat

Number == 0..MaxInstalls \* 0: of none
Dependencies == <<"PostgreSQL", "Redis", "Nginx", "MinIO", "PM2">>
Packages == {Dependencies[i] : i \in DOMAIN Dependencies}

Tasks ==
  <<"configs", "npm", "prisma", "database", "migrations", "redis", "build", "webdeps",
    "web", "nginx", "minio", "ssl", "pm2", "admin", "register", "save">>
TaskNames == {Tasks[i] : i \in DOMAIN Tasks}
\* A failure of the others is shown, and the next task runs.
Critical == {"npm", "database", "migrations", "build"}
CriticalPackages == {"PostgreSQL", "Redis"}

VARIABLES
  phase, step,    \* of the installation under way
  config, number, \* what was collected (SSL or not), and its number
  missed, failed, \* dependencies and tasks that failed
  silent,         \* history: tasks of which a command failed that nobody looks at,
                  \* each with the number of its installation
  files,          \* /opt/shipdock
  packages, database, redis, minio, nginx, \* the server
  api, admin, saved

progress == <<phase, step, config, number, missed, failed, silent>>
services == <<packages, database, redis, minio, nginx>>
vars == <<progress, files, services, api, admin, saved>>

Erased == [exists |-> FALSE, dotenv |-> 0, conf |-> 0, ssl |-> FALSE, deps |-> FALSE, dist |-> FALSE, web |-> FALSE]
Site == [number : Number, ssl : BOOLEAN]
NoSite == [number |-> 0, ssl |-> FALSE]

TypeOK ==
  /\ phase \in {"idle", "erase", "clone", "collecting", "installing", "initializing", "done"}
  /\ step \in 0..Len(Tasks) /\ config \in [ssl : BOOLEAN] /\ number \in Number
  /\ missed \subseteq Packages /\ failed \subseteq TaskNames
  /\ silent \subseteq Number \X {"redis", "nginx", "minio", "ssl"}
  /\ files \in [exists : BOOLEAN, dotenv : Number, conf : Number, ssl : BOOLEAN,
                deps : BOOLEAN, dist : BOOLEAN, web : BOOLEAN]
  /\ packages \subseteq Packages
  /\ database \in [password : Number, schema : BOOLEAN, users : BOOLEAN, project : BOOLEAN]
  /\ redis \in Number /\ minio \in [unit : Number, running : Number]
  /\ nginx \in [enabled : Site, loaded : Site, cert : BOOLEAN]
  /\ api \in Number /\ admin \in Number /\ saved \in Number

\* The domain may have a certificate already.
Init ==
  /\ phase = "idle" /\ step = 0 /\ config = [ssl |-> FALSE] /\ number = 0
  /\ missed = {} /\ failed = {} /\ silent = {} /\ files = Erased
  /\ packages \in {{}, {"PostgreSQL", "Redis", "Nginx"}}
  /\ database = [password |-> 0, schema |-> FALSE, users |-> FALSE, project |-> FALSE]
  /\ redis = 0 /\ minio = [unit |-> 0, running |-> 0]
  /\ \E c \in BOOLEAN : nginx = [enabled |-> NoSite, loaded |-> NoSite, cert |-> c]
  /\ api = 0 /\ admin = 0 /\ saved = 0
\* What the command knows goes with it.
Ended ==
  /\ phase' = "idle" /\ step' = 0 /\ config' = [ssl |-> FALSE] /\ missed' = {} /\ failed' = {}
  /\ UNCHANGED number

----------------------------------------------------------------------------
(***************************************************************************)
(* install.sh                                                              *)
(***************************************************************************)
Run ==
  /\ phase \in {"idle", "done"} /\ number < MaxInstalls
  /\ number' = number + 1 /\ step' = 0 /\ config' = [ssl |-> FALSE]
  /\ missed' = {} /\ failed' = {}
  /\ phase' = IF files.exists THEN "erase" ELSE "clone"
  /\ UNCHANGED <<silent, files, services, api, admin, saved>>

\* The user has confirmed; the running processes keep what they have loaded.
Erase ==
  /\ phase = "erase" /\ phase' = "clone" /\ files' = Erased
  /\ UNCHANGED <<step, config, number, missed, failed, silent, services, api, admin, saved>>

Clone ==
  /\ phase = "clone" /\ phase' = "collecting" /\ files' = [Erased EXCEPT !.exists = TRUE]
  /\ UNCHANGED <<step, config, number, missed, failed, silent, services, api, admin, saved>>

\* The questions; the secrets are new ones each time.
Collect(ssl) ==
  /\ phase = "collecting" /\ phase' = "installing" /\ step' = 1 /\ config' = [ssl |-> ssl]
  /\ UNCHANGED <<number, missed, failed, silent, files, services, api, admin, saved>>

Kill ==
  /\ phase \notin {"idle", "done"} /\ Ended
  /\ UNCHANGED <<silent, files, services, api, admin, saved>>
----------------------------------------------------------------------------
(***************************************************************************)
(* The install phase: the dependencies detected as missing, in order.  The *)
(* installer of MinIO fetches the binary and makes no service of it.       *)
(***************************************************************************)
NextDependency ==
  IF step = Len(Dependencies) THEN phase' = "initializing" /\ step' = 1
  ELSE step' = step + 1 /\ UNCHANGED phase

Install ==
  /\ phase = "installing"
  /\ packages' = packages \cup {Dependencies[step]} /\ NextDependency
  /\ UNCHANGED <<config, number, missed, failed, silent, files, database, redis, minio, nginx, api, admin, saved>>

InstallFails ==
  /\ phase = "installing" /\ Dependencies[step] \notin packages
  /\ IF Dependencies[step] \in CriticalPackages THEN Ended
     ELSE /\ missed' = missed \cup {Dependencies[step]} /\ NextDependency
          /\ UNCHANGED <<config, number, failed>>
  /\ UNCHANGED <<silent, files, services, api, admin, saved>>
----------------------------------------------------------------------------
(***************************************************************************)
(* The initialize phase: the tasks, one after the other.                   *)
(***************************************************************************)
At(task) == phase = "initializing" /\ Tasks[step] = task
NextTask ==
  /\ IF step = Len(Tasks) THEN phase' = "done" /\ UNCHANGED step ELSE step' = step + 1 /\ UNCHANGED phase
  /\ UNCHANGED <<config, number, missed>>
Done(task) == At(task) /\ NextTask /\ UNCHANGED <<failed, silent>>

\* At any task, whatever part of it was done (the nginx task's is below).
TaskFails ==
  /\ phase = "initializing" /\ Tasks[step] \notin {"redis", "nginx"}
  /\ IF Tasks[step] \in Critical THEN Ended
     ELSE failed' = failed \cup {Tasks[step]} /\ NextTask
  /\ api' = IF At("pm2") THEN 0 ELSE api
  /\ UNCHANGED <<files, services, admin, saved, silent>>

WriteConfigs ==
  /\ Done("configs") /\ files' = [files EXCEPT !.dotenv = number, !.conf = number, !.ssl = config.ssl]
  /\ UNCHANGED <<services, api, admin, saved>>

NpmCi ==
  /\ Done("npm") /\ files' = [files EXCEPT !.deps = TRUE]
  /\ UNCHANGED <<services, api, admin, saved>>

GenerateClient == Done("prisma") /\ UNCHANGED <<files, services, api, admin, saved>>

\* The user is created, or gets the new password.
SetUpDatabase ==
  /\ Done("database") /\ database' = [database EXCEPT !.password = number]
  /\ UNCHANGED <<files, packages, redis, minio, nginx, api, admin, saved>>

Reachable(env) == env # 0 /\ database.password = env
Migrate ==
  /\ Done("migrations") /\ Reachable(files.dotenv) /\ database' = [database EXCEPT !.schema = TRUE]
  /\ UNCHANGED <<files, packages, redis, minio, nginx, api, admin, saved>>

\* Nobody looks at whether the commands worked: the task is done all the same.
Unheeded(task, worked) ==
  /\ At(task) /\ NextTask
  /\ IF worked THEN UNCHANGED silent
     ELSE Cardinality(silent) < MaxSilent /\ silent' = silent \cup {<<number, task>>}

SetRedisPassword ==
  /\ \E worked \in BOOLEAN :
       Unheeded("redis", worked) /\ redis' = IF worked THEN number ELSE redis
  /\ UNCHANGED <<failed, files, packages, database, minio, nginx, api, admin, saved>>

Build ==
  /\ Done("build") /\ files' = [files EXCEPT !.dist = TRUE]
  /\ UNCHANGED <<services, api, admin, saved>>

WebDependencies == Done("webdeps") /\ UNCHANGED <<files, services, api, admin, saved>>

BuildWeb ==
  /\ Done("web") /\ files' = [files EXCEPT !.web = "webdeps" \notin failed]
  /\ UNCHANGED <<services, api, admin, saved>>

\* A configuration with SSL fails the test unless there is a certificate: the
\* site stays enabled, and nginx goes on with what it has.  Of the commands only
\* the test is heeded, of a site that was not copied, or before the reload.
ConfigureNginx ==
  /\ \E copied, reloaded \in BOOLEAN :
       LET site == IF copied THEN [number |-> files.conf, ssl |-> files.ssl] ELSE nginx.enabled
           valid == site.number # 0 /\ "Nginx" \in packages /\ (site.ssl => nginx.cert)
       IN  /\ copied \/ reloaded  \* one of the two fails by itself
           /\ Unheeded("nginx", copied /\ reloaded)
           /\ nginx' = [nginx EXCEPT !.enabled = site,
                                     !.loaded = IF valid /\ reloaded THEN site ELSE @]
           /\ failed' = IF valid THEN failed ELSE failed \cup {"nginx"}
  /\ UNCHANGED <<files, packages, database, redis, minio, api, admin, saved>>

\* `systemctl start` leaves a MinIO that runs as it is.
SetUpMinio ==
  /\ \E moved, started \in BOOLEAN :
       LET unit == IF moved THEN number ELSE minio.unit
           up == started /\ "MinIO" \in packages /\ unit # 0
       IN  /\ moved \/ started  \* as above
           /\ Unheeded("minio", moved /\ up)
           /\ minio' = [unit |-> unit,
                        running |-> IF up /\ minio.running = 0 THEN unit ELSE minio.running]
  /\ UNCHANGED <<failed, files, packages, database, redis, nginx, api, admin, saved>>

\* Only if asked for; certbot too wants a configuration that is valid.
RequestCertificate ==
  /\ config.ssl => "Nginx" \in packages /\ (nginx.enabled.ssl => nginx.cert)
  /\ \E reloaded \in BOOLEAN :
       /\ Unheeded("ssl", reloaded)
       /\ nginx' = IF ~config.ssl THEN nginx
                   ELSE [nginx EXCEPT !.cert = TRUE, !.loaded = IF reloaded THEN nginx.enabled ELSE @]
       /\ reloaded \/ config.ssl
  /\ UNCHANGED <<failed, files, packages, database, redis, minio, api, admin, saved>>

StartPm2 ==
  /\ Done("pm2") /\ "PM2" \in packages /\ files.dist /\ files.dotenv # 0 /\ api' = files.dotenv
  /\ UNCHANGED <<files, services, admin, saved>>

\* The first account is set up; later the owner's is changed.
CreateAdmin ==
  /\ Done("admin") /\ api # 0 /\ Reachable(api) /\ database.schema
  /\ database' = [database EXCEPT !.users = TRUE] /\ admin' = number
  /\ UNCHANGED <<files, packages, redis, minio, nginx, api, saved>>

Register ==
  /\ Done("register") /\ "admin" \notin failed /\ ~database.project
  /\ database' = [database EXCEPT !.project = TRUE]
  /\ UNCHANGED <<files, packages, redis, minio, nginx, api, admin, saved>>

SaveCredentials ==
  /\ Done("save") /\ saved' = number
  /\ UNCHANGED <<files, services, api, admin>>

Next ==
  \/ Run \/ Erase \/ Clone \/ Kill \/ Install \/ InstallFails \/ TaskFails
  \/ \E ssl \in BOOLEAN : Collect(ssl)
  \/ WriteConfigs \/ NpmCi \/ GenerateClient \/ SetUpDatabase \/ Migrate \/ SetRedisPassword
  \/ Build \/ WebDependencies \/ BuildWeb \/ ConfigureNginx \/ SetUpMinio \/ RequestCertificate
  \/ StartPm2 \/ CreateAdmin \/ Register \/ SaveCredentials

Spec == Init /\ [][Next]_vars
----------------------------------------------------------------------------
(***************************************************************************)
(* When the report appears, the backend is built and reaches its migrated  *)
(* database with the .env of this installation, whatever failed on the way.*)
(***************************************************************************)
ReportEarned ==
  phase = "done" => files.dist /\ files.dotenv = number /\ Reachable(number) /\ database.schema

(***************************************************************************)
(* When no task is shown as failed but the registration, which a second    *)
(* installation repeats, the API runs with this configuration, and the     *)
(* account and the credentials file agree with it.  Redis, nginx and MinIO *)
(* agree as well (only the MinIO of an earlier installation keeps its      *)
(* keys), each unless one of the commands that set it up failed: of those  *)
(* the report knows nothing.                                               *)
(***************************************************************************)
ReportedAsInstalled ==
  phase = "done" /\ failed \subseteq {"register"} =>
    /\ {api, admin, saved} = {number} /\ files.web
    /\ <<number, "redis">> \notin silent => redis = number
    /\ <<number, "nginx">> \notin silent => nginx.loaded = [number |-> number, ssl |-> config.ssl]
    /\ <<number, "minio">> \notin silent =>
         minio.unit = number /\ minio.running # 0 /\ (number = 1 => minio.running = 1)
=============================================================================
