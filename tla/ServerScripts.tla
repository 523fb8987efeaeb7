---------------------------- MODULE ServerScripts ----------------------------
(***************************************************************************)
(* The scripts an operator (and CI) runs against the server: the set-up    *)
(* of its dependencies (server-setup.sh, env-setup.sh), the certificate    *)
(* (setup-ssl.sh) and deployments (deploy.sh, deploy-remote.sh).  Each is  *)
(* a sequence of steps under `set -e`: it ends at the first that fails,    *)
(* and may be killed at any.  Nothing keeps two of them from overlapping.  *)
(*                                                                         *)
(* No PostgreSQL older than 16 and no Node.js older than 20 is installed.  *)
(***************************************************************************)
EXTENDS Naturals, Sequences, FiniteSets

CONSTANTS
  MaxVersion, \* versions of the sources (bound)
  MaxRuns     \* scripts started (bound)

ServerScriptsAssumption == MaxVersion \in Nat \ {0} /\ MaxRuns \in Nat

Actor == {"operator", "ci"}
Version == 1..MaxVersion
Tree == 0..MaxVersion \* 0: no sources
Services == {"psql", "redis", "nginx", "minio"}
Checked == {"node", "pm2", "git", "nginx", "psql", "redis"}
Commands == Checked \cup {"pnpm"}
\* None or the new files; the unit makes them a service, enabling starts it at boot.
Minio == {"none", "binary", "unit", "enabled"}

\* The steps of each script; a deployment is Upload, EnvSetup if asked for, Remote.
Script == [
  setup  |-> <<"node", "pnpm", "psql", "pgvector", "database", "vector", "redis", "nginx",
               "pm2", "git">>,
  env    |-> <<"node", "pm2", "git", "psql", "database", "vector", "redis", "nginx",
               "minio", "unit", "enable", "start", "services">>,
  upload |-> <<"upload", "dotenv", "check">>,
  remote |-> <<"pull", "npm", "migrate", "build", "reload", "restart", "health">>,
  ssl    |-> <<"temporary", "test", "certbot", "drop", "link", "test">>]

Idle == [script |-> "none", step |-> 0]
Position == {Idle} \cup UNION {[script : {s}, step : 1..Len(Script[s])] : s \in DOMAIN Script}

VARIABLES
  commands, pgvector, database, minio, active, \* what is installed, created and running
  sites, loaded, cert,                         \* nginx: enabled, served; the certificate
  local, origin, git,                          \* sources: the operator's, the branch's; a clone?
  server,                                      \* the project directory and what runs from it
  at, runs,                                    \* the scripts under way, and started so far
  note                                         \* history

machine == <<commands, pgvector, database, minio, active>>
nginx == <<sites, loaded, cert>>
sources == <<local, origin, git>>
vars == <<machine, nginx, sources, server, at, runs, note>>

Site == {"default", "temporary", "production"}
TypeOK ==
  /\ commands \subseteq Commands /\ pgvector \in BOOLEAN /\ database \in BOOLEAN
  /\ minio \in Minio /\ active \subseteq Services
  /\ sites \subseteq Site /\ loaded \subseteq Site /\ cert \in BOOLEAN
  /\ local \in Version /\ origin \in Version /\ git \in BOOLEAN
  /\ server \in [tree : Tree, dotenv : BOOLEAN, deps : Tree, schema : Tree, dist : Tree, running : Tree]
  /\ at \in [Actor -> Position] /\ runs \in 0..MaxRuns
  /\ note \in [overlap : BOOLEAN, strayed : BOOLEAN, cut : BOOLEAN, ready : BOOLEAN, deployed : BOOLEAN]

\* An empty server, or one with a PostgreSQL of somebody else's.
Bare ==
  /\ commands \in {{}, {"psql"}} /\ active = commands
  /\ pgvector = FALSE /\ database = FALSE /\ minio = "none"
  /\ sites = {} /\ loaded = {} /\ cert = FALSE
  /\ server = [tree |-> 0, dotenv |-> FALSE, deps |-> 0, schema |-> 0, dist |-> 0, running |-> 0]
\* What the first set-up, deployment and certificate leave.
InService ==
  /\ commands = Checked /\ active = Services /\ pgvector = TRUE /\ database = TRUE /\ minio = "enabled"
  /\ sites = {"production"} /\ loaded = {"production"} /\ cert = TRUE
  /\ server = [tree |-> 1, dotenv |-> TRUE, deps |-> 1, schema |-> 1, dist |-> 1, running |-> 1]
Init ==
  /\ Bare \/ InService
  /\ local = 1 /\ origin = 1 /\ git = FALSE
  /\ at = [a \in Actor |-> Idle] /\ runs = 0
  /\ note = [overlap |-> FALSE, strayed |-> FALSE, cut |-> FALSE, ready |-> FALSE, deployed |-> FALSE]
----------------------------------------------------------------------------
Deploying(a) == at[a].script \in {"upload", "env", "remote"}
Step(a) == Script[at[a].script][at[a].step]
At(a, step) == at[a] # Idle /\ Step(a) = step
Last(a) == at[a].step = Len(Script[at[a].script])
First(script) == [script |-> script, step |-> 1]

\* env-setup.sh is followed by deploy-remote.sh.
After(a) ==
  IF ~Last(a) THEN [at[a] EXCEPT !.step = @ + 1]
  ELSE IF at[a].script = "env" THEN First("remote") ELSE Idle
Advance(a) == at' = [at EXCEPT ![a] = After(a)] /\ UNCHANGED runs

Start(a, script) ==
  /\ at[a] = Idle /\ runs < MaxRuns /\ runs' = runs + 1
  /\ a = "ci" => script = "remote"
  /\ at' = [at EXCEPT ![a] = First(script)]
  /\ LET others == {at[b].script : b \in {c \in Actor : at[c] # Idle}}
     IN  note' = [note EXCEPT !.deployed = FALSE, !.ready = FALSE, !.overlap = others # {},
                              !.cut = @ \/ (others # {} /\ "ssl" \in others \cup {script})]
  /\ UNCHANGED <<machine, nginx, sources, server>>

\* A step fails, or the script is killed.  What was done stays.
Die(a) ==
  /\ at[a] # Idle /\ at' = [at EXCEPT ![a] = Idle]
  /\ note' = [note EXCEPT !.strayed = @ \/ (at[a].script = "env" /\ Step(a) \in {"unit", "enable"}),
                          !.cut = @ \/ (at[a].script = "ssl" /\ Step(a) = "link"),
                          !.ready = FALSE]
  /\ UNCHANGED <<machine, nginx, sources, server, runs>>
----------------------------------------------------------------------------
(***************************************************************************)
(* server-setup.sh and env-setup.sh.                                       *)
(***************************************************************************)

\* A package that is missing; its service is enabled and started with it.
InstallCommand(a) ==
  \E c \in Commands :
    /\ At(a, c) /\ Advance(a)
    /\ commands' = commands \cup {c}
    /\ active' = IF c \in commands THEN active ELSE active \cup ({c} \cap Services)
    /\ pgvector' = (pgvector \/ (c = "psql" /\ c \notin commands /\ at[a].script = "env"))
    /\ sites' = IF c = "nginx" /\ c \notin commands THEN sites \cup {"default"} ELSE sites
    /\ loaded' = IF c = "nginx" /\ c \notin commands THEN sites' ELSE loaded
    /\ UNCHANGED <<database, minio, cert, sources, server, note>>

InstallPgvector(a) ==
  /\ At(a, "pgvector") /\ Advance(a) /\ pgvector' = TRUE
  /\ UNCHANGED <<commands, database, minio, active, nginx, sources, server, note>>

CreateDatabase(a) ==
  /\ At(a, "database") /\ "psql" \in active /\ Advance(a) /\ database' = TRUE
  /\ UNCHANGED <<commands, pgvector, minio, active, nginx, sources, server, note>>

\* Without the package the script ends here, its message in /dev/null.
CreateExtension(a) ==
  /\ At(a, "vector") /\ "psql" \in active /\ pgvector /\ Advance(a)
  /\ UNCHANGED <<machine, nginx, sources, server, note>>

\* The one check of MinIO is for the binary.
InstallMinio(a) ==
  /\ At(a, "minio")
  /\ IF minio = "none"
     THEN minio' = "binary" /\ Advance(a)
     ELSE /\ at' = [at EXCEPT ![a].step = Len(Script["env"])]
          /\ UNCHANGED <<minio, runs>>
  /\ UNCHANGED <<commands, pgvector, database, active, nginx, sources, server, note>>

WriteUnit(a) ==
  /\ At(a, "unit") /\ Advance(a) /\ minio' = "unit"
  /\ UNCHANGED <<commands, pgvector, database, active, nginx, sources, server, note>>

EnableMinio(a) ==
  /\ At(a, "enable") /\ Advance(a) /\ minio' = "enabled"
  /\ UNCHANGED <<commands, pgvector, database, active, nginx, sources, server, note>>

StartMinio(a) ==
  /\ At(a, "start") /\ Advance(a) /\ active' = active \cup {"minio"}
  /\ UNCHANGED <<commands, pgvector, database, minio, nginx, sources, server, note>>

Enabled == (commands \cap Services) \cup {s \in {"minio"} : minio = "enabled"}

\* nginx starts with the sites enabled now.
EnsureRunning(a) ==
  /\ At(a, "services") /\ Advance(a)
  /\ active' = active \cup Enabled
  /\ loaded' = IF "nginx" \in active' \ active THEN sites ELSE loaded
  /\ note' = [note EXCEPT !.ready = TRUE]
  /\ UNCHANGED <<commands, pgvector, database, minio, sites, cert, sources, server>>

\* A service stops, or the server restarts without it, between two scripts.
StopService(s) ==
  /\ s \in active /\ \A a \in Actor : at[a] = Idle
  /\ active' = active \ {s} /\ note' = [note EXCEPT !.ready = FALSE]
  /\ loaded' = IF s = "nginx" THEN {} ELSE loaded
  /\ UNCHANGED <<commands, pgvector, database, minio, sites, cert, sources, server, at, runs>>
----------------------------------------------------------------------------
(***************************************************************************)
(* deploy.sh and deploy-remote.sh.                                         *)
(***************************************************************************)

\* env-check.sh
Missing ==
  (Checked \ commands) \cup (Services \ active) \cup {s \in {"minio"} : minio = "none"}
    \cup {d \in {"database"} : "psql" \in commands /\ ~database}

Upload(a) ==
  /\ At(a, "upload") /\ Advance(a) /\ server' = [server EXCEPT !.tree = local]
  /\ UNCHANGED <<machine, nginx, sources, note>>

WriteDotEnv(a) ==
  /\ At(a, "dotenv") /\ Advance(a) /\ server' = [server EXCEPT !.dotenv = TRUE]
  /\ UNCHANGED <<machine, nginx, sources, note>>

\* The operator is asked, and may go on without.
CheckEnvironment(a) ==
  /\ At(a, "check")
  /\ \E next \in {"remote"} \cup {s \in {"env"} : Missing # {}} :
       at' = [at EXCEPT ![a] = First(next)]
  /\ note' = [note EXCEPT !.ready = Missing = {}]
  /\ UNCHANGED <<machine, nginx, sources, server, runs>>

\* A clone is reset to the branch, whatever has been uploaded over it.
Pull(a) ==
  /\ At(a, "pull") /\ Advance(a) /\ server.tree # 0
  /\ server' = IF git THEN [server EXCEPT !.tree = origin] ELSE server
  /\ UNCHANGED <<machine, nginx, sources, note>>

NpmCi(a) ==
  /\ At(a, "npm") /\ "node" \in commands /\ Advance(a)
  /\ server' = [server EXCEPT !.deps = server.tree]
  /\ UNCHANGED <<machine, nginx, sources, note>>

\* Migrations are only added, never taken back.
Newer(v, w) == IF v < w THEN w ELSE v
Migrate(a) ==
  /\ At(a, "migrate") /\ server.dotenv /\ database /\ "psql" \in active /\ Advance(a)
  /\ server' = [server EXCEPT !.schema = Newer(server.schema, server.tree)]
  /\ UNCHANGED <<machine, nginx, sources, note>>

Build(a) ==
  /\ At(a, "build") /\ Advance(a) /\ server' = [server EXCEPT !.dist = server.tree]
  /\ UNCHANGED <<machine, nginx, sources, note>>

\* What `nginx -t` says of the sites of this script; others may be broken too.
TestPasses == "production" \in sites => cert
Reload(a) ==
  /\ At(a, "reload") /\ Advance(a)
  /\ \E valid \in {FALSE, TestPasses} :
       loaded' = IF valid /\ "nginx" \in active THEN sites ELSE loaded
  /\ UNCHANGED <<machine, sites, cert, sources, server, note>>

Restart(a) ==
  /\ At(a, "restart") /\ "pm2" \in commands /\ Advance(a)
  /\ server' = [server EXCEPT !.running = server.dist]
  /\ UNCHANGED <<machine, nginx, sources, note>>

\* A failed check is a warning.
HealthCheck(a) ==
  /\ At(a, "health") /\ Advance(a) /\ note' = [note EXCEPT !.deployed = TRUE]
  /\ UNCHANGED <<machine, nginx, sources, server>>
----------------------------------------------------------------------------
(***************************************************************************)
(* setup-ssl.sh.                                                           *)
(***************************************************************************)
TemporarySite(a) ==
  /\ At(a, "temporary") /\ "nginx" \in commands /\ Advance(a) /\ sites' = {"temporary"}
  /\ UNCHANGED <<machine, loaded, cert, sources, server, note>>

\* The first test, in an && list, does not end the script; the second does.
TestAndReload(a) ==
  /\ At(a, "test") /\ Advance(a)
  /\ \E valid \in {FALSE, TestPasses} :
       loaded' = IF valid /\ "nginx" \in active THEN sites ELSE loaded
  /\ UNCHANGED <<machine, sites, cert, sources, server, note>>

RequestCertificate(a) ==
  /\ At(a, "certbot") /\ TestPasses /\ "nginx" \in active /\ Advance(a) /\ cert' = TRUE
  /\ UNCHANGED <<machine, sites, loaded, sources, server, note>>

RemoveTemporary(a) ==
  /\ At(a, "drop") /\ Advance(a) /\ sites' = sites \ {"temporary"}
  /\ UNCHANGED <<machine, loaded, cert, sources, server, note>>

LinkSite(a) ==
  /\ At(a, "link") /\ Advance(a) /\ sites' = sites \cup {"production"}
  /\ UNCHANGED <<machine, loaded, cert, sources, server, note>>
----------------------------------------------------------------------------
\* The developers, and the clone the set-up's summary asks for, between scripts.
Quiet == \A a \in Actor : at[a] = Idle
Commit ==
  /\ Quiet /\ local < MaxVersion /\ local' = local + 1
  /\ UNCHANGED <<machine, nginx, origin, git, server, at, runs, note>>
Push ==
  /\ origin # local /\ origin' = local /\ \E a \in Actor : At(a, "pull")
  /\ UNCHANGED <<machine, nginx, local, git, server, at, runs, note>>
Clone ==
  /\ Quiet /\ server.tree = 0 /\ "git" \in commands
  /\ git' = TRUE /\ server' = [server EXCEPT !.tree = origin]
  /\ UNCHANGED <<machine, nginx, local, origin, at, runs, note>>

Setup(a) ==
  \/ InstallCommand(a) \/ InstallPgvector(a) \/ CreateDatabase(a) \/ CreateExtension(a)
  \/ InstallMinio(a) \/ WriteUnit(a) \/ EnableMinio(a) \/ StartMinio(a) \/ EnsureRunning(a)
Deploy(a) ==
  \/ Upload(a) \/ WriteDotEnv(a) \/ CheckEnvironment(a) \/ Pull(a) \/ NpmCi(a)
  \/ Migrate(a) \/ Build(a) \/ Reload(a) \/ Restart(a) \/ HealthCheck(a)
Ssl(a) ==
  TemporarySite(a) \/ TestAndReload(a) \/ RequestCertificate(a) \/ RemoveTemporary(a) \/ LinkSite(a)

Next ==
  \/ \E a \in Actor : Setup(a) \/ Deploy(a) \/ Ssl(a) \/ Die(a)
  \/ \E a \in Actor, s \in {"setup", "upload", "remote", "ssl"} : Start(a, s)
  \/ \E s \in Services : StopService(s)
  \/ Commit \/ Push \/ Clone

Spec == Init /\ [][Next]_vars
----------------------------------------------------------------------------
(***************************************************************************)
(* When the set-up of a deployment ends, env-check.sh would pass; what an  *)
(* earlier run left of MinIO, killed between its binary and its service,   *)
(* is the one thing no later run repairs.                                  *)
(***************************************************************************)
SetupSatisfiesCheck ==
  note.ready => Missing \subseteq {s \in {"minio"} : note.strayed}

(***************************************************************************)
(* A completed deployment that overlapped with no other script runs the    *)
(* sources of the directory with their dependencies and schema.            *)
(***************************************************************************)
DeployedIsWhole ==
  note.deployed /\ ~note.overlap =>
    /\ {server.deps, server.dist, server.running} = {server.tree}
    /\ server.schema >= server.tree

(***************************************************************************)
(* While nginx runs it serves a site, unless setup-ssl.sh was killed       *)
(* between the temporary site and the real one, or ran beside another      *)
(* script: the site that was loaded is replaced only by one that is valid. *)
(***************************************************************************)
ApiStaysServed == "nginx" \in active /\ ~note.cut => loaded # {}
=============================================================================
