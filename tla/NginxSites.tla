------------------------------ MODULE NginxSites ------------------------------
(***************************************************************************)
(* The nginx sites of the server: NginxConfigService.updateConfig and the  *)
(* nginx and ssl stages of the deployments, which write the same files     *)
(* under no common lock, and which nginx -t only accepts all together.     *)
(*                                                                         *)
(* Every await, and every command of a shell, is an interleaving point.    *)
(* Of the settings only what nginx makes of them counts: a "bad" body or   *)
(* location passes the validation of the request and fails nginx -t, a     *)
(* "cached" location needs its zone in the project's file in conf.d.       *)
(***************************************************************************)
EXTENDS Naturals, FiniteSets

CONSTANTS
  Site, Static,  \* the projects (each has a domain); those that are static
  Settings,      \* what requests ask for, each naming every field
  MaxUpdates, MaxDeploys,  \* bounds: of requests, and of deployments
  Handlers,      \* requests that can be in flight
  None

ConfType == [kind : {"proxy", "static"}, body : {"default", "tuned", "bad"},
             locs : {"none", "cached", "bad"}, ssl : BOOLEAN]

NginxSitesAssumption ==
  /\ Static \subseteq Site
  /\ MaxUpdates \in Nat /\ MaxDeploys \in Nat
  /\ Settings \subseteq [body : {"default", "tuned", "bad"}, locs : {"none", "cached", "bad"}]
  /\ None \notin Settings \cup ConfType

VARIABLES
  row,      \* NginxConfig rows
  conf,     \* the files in sites-available ...
  bak,      \* ... and their backups
  cache,    \* whether conf.d has the file of the site's cache zones
  enabled,  \* whether sites-enabled has the link
  cert,     \* whether Let's Encrypt has issued the certificate
  loaded,   \* the sites nginx serves
  req,      \* the handlers' locals and program counters
  worker,   \* the deployment that is running
  updates, deploys,  \* how many there have been
  dropped,  \* a deployment has written the site since its settings were accepted
  overlap,  \* writers have overlapped
  broken    \* a deployment's nginx command failed, or the backend stopped

files == <<conf, bak, cache, enabled, cert>>
bounds == <<updates, deploys>>
vars == <<row, files, loaded, req, worker, bounds, dropped, overlap, broken>>

Default == [body |-> "default", locs |-> "none"]
Rows == Settings \cup {None}
Confs == ConfType \cup {None}
NoReq == [pc |-> "idle", s |-> None, prev |-> None, new |-> Default, ssl |-> FALSE,
          was |-> None, fit |-> FALSE]
NoDeploy == [pc |-> "idle", s |-> None, body |-> "default", stage |-> "nginx"]

TypeOK ==
  /\ row \in [Site -> Rows]
  /\ conf \in [Site -> Confs] /\ bak \in [Site -> Confs] /\ loaded \in [Site -> Confs]
  /\ cache \in [Site -> BOOLEAN] /\ enabled \in [Site -> BOOLEAN] /\ cert \in [Site -> BOOLEAN]
  /\ req \in [Handlers ->
       [pc : {"idle", "upsert", "backup", "install", "cache", "test", "reload", "unbackup",
              "restore", "uncache", "rollback"},
        s : Site \cup {None}, prev : Rows, new : Settings \cup {Default}, ssl : BOOLEAN,
        was : Confs, fit : BOOLEAN]]
  /\ worker \in [pc : {"idle", "read", "write", "test", "reload", "certify"},
                 s : Site \cup {None}, body : {"default", "tuned", "bad"},
                 stage : {"nginx", "ssl"}]
  /\ updates \in 0..MaxUpdates /\ deploys \in 0..MaxDeploys
  /\ dropped \in [Site -> BOOLEAN] /\ overlap \in BOOLEAN /\ broken \in BOOLEAN

Init ==
  /\ row = [s \in Site |-> None]
  /\ conf = [s \in Site |-> None] /\ bak = conf /\ loaded = conf
  /\ cache = [s \in Site |-> FALSE] /\ enabled = cache /\ cert = cache
  /\ dropped = cache
  /\ req = [h \in Handlers |-> NoReq]
  /\ worker = NoDeploy
  /\ updates = 0 /\ deploys = 0
  /\ overlap = FALSE /\ broken = FALSE

\* nginx -t: every enabled file is read, with the zones in conf.d.
Accepted(s, c) ==
  /\ c.body # "bad" /\ c.locs # "bad"
  /\ c.locs = "cached" => cache[s]
  /\ c.ssl => cert[s]
Valid == \A s \in Site : enabled[s] => Accepted(s, conf[s])

\* nginx -s reload keeps what it serves if it does not accept the files.
Reload == loaded' = IF Valid THEN [s \in Site |-> IF enabled[s] THEN conf[s] ELSE None]
                             ELSE loaded

\* buildConfig and buildStaticConfig.
Proxy(settings, ssl) == [kind |-> "proxy", body |-> settings.body, locs |-> settings.locs,
                         ssl |-> ssl]
StaticSite(ssl) == [kind |-> "static", body |-> "default", locs |-> "none", ssl |-> ssl]

----------------------------------------------------------------------------
(* NginxConfigService.updateConfig.                                        *)

At(h, pc) == req[h].pc = pc
Goto(h, pc) == req' = [req EXCEPT ![h].pc = pc]
Return(h) == req' = [req EXCEPT ![h] = NoReq]
Mine(h) == req[h].s
Rest == UNCHANGED <<worker, bounds, overlap, broken>>
Keeps == Rest /\ UNCHANGED dropped

\* Read the configuration there is, for the rollback.  (was is the file
\* the request found, and fit whether nginx would have accepted the files:
\* history, for the properties.)
Begin(h, s, new) ==
  /\ At(h, "idle")
  /\ updates < MaxUpdates /\ updates' = updates + 1
  /\ req' = [req EXCEPT ![h] = [NoReq EXCEPT !.pc = "upsert", !.s = s, !.prev = row[s],
                                  !.new = new, !.was = conf[s], !.fit = Valid]]
  /\ overlap' = (overlap \/ worker.pc # "idle" \/ \E g \in Handlers \ {h} : ~At(g, "idle"))
  /\ UNCHANGED <<row, files, loaded, worker, deploys, dropped, broken>>

Upsert(h) ==
  /\ At(h, "upsert")
  /\ row' = [row EXCEPT ![Mine(h)] = req[h].new]
  /\ Goto(h, "backup")
  /\ UNCHANGED <<files, loaded>> /\ Keeps

\* Mutant: a backup that is there is kept.
Backup_kept(h) ==
  /\ At(h, "backup")
  /\ bak' = [bak EXCEPT ![Mine(h)] = IF @ = None THEN conf[Mine(h)] ELSE @]
  /\ req' = [req EXCEPT ![h].pc = "install", ![h].ssl = cert[Mine(h)]]
  /\ UNCHANGED <<row, conf, cache, enabled, cert, loaded>> /\ Keeps

\* hasCert, then the backup of the file there is.
Backup(h) ==
  /\ At(h, "backup")
  /\ bak' = IF conf[Mine(h)] # None THEN [bak EXCEPT ![Mine(h)] = conf[Mine(h)]] ELSE bak
  /\ req' = [req EXCEPT ![h].pc = "install", ![h].ssl = cert[Mine(h)]]
  /\ UNCHANGED <<row, conf, cache, enabled, cert, loaded>> /\ Keeps

\* A proxy's file, also for a static project.
Install(h) ==
  /\ At(h, "install")
  /\ conf' = [conf EXCEPT ![Mine(h)] = Proxy(req[h].new, req[h].ssl)]
  /\ Goto(h, "cache")
  /\ UNCHANGED <<row, bak, cache, enabled, cert, loaded>> /\ Keeps

InstallCache(h) ==
  /\ At(h, "cache")
  /\ cache' = [cache EXCEPT ![Mine(h)] = (req[h].new.locs = "cached")]
  /\ Goto(h, "test")
  /\ UNCHANGED <<row, conf, bak, enabled, cert, loaded>> /\ Keeps

Test(h) ==
  /\ At(h, "test")
  /\ Goto(h, IF Valid THEN "reload" ELSE "restore")
  /\ UNCHANGED <<row, files, loaded>> /\ Keeps

ReloadSite(h) ==
  /\ At(h, "reload")
  /\ Reload
  /\ Goto(h, "unbackup")
  /\ dropped' = [dropped EXCEPT ![Mine(h)] = FALSE]
  /\ UNCHANGED <<row, files>> /\ Rest

RemoveBackup(h) ==
  /\ At(h, "unbackup")
  /\ bak' = [bak EXCEPT ![Mine(h)] = None]
  /\ Return(h)
  /\ UNCHANGED <<row, conf, cache, enabled, cert, loaded>> /\ Keeps

\* Rejected: the backup comes back if there is one (and stays), ...
Restore(h) ==
  /\ At(h, "restore")
  /\ conf' = IF bak[Mine(h)] # None THEN [conf EXCEPT ![Mine(h)] = bak[Mine(h)]] ELSE conf
  /\ Goto(h, "uncache")
  /\ UNCHANGED <<row, bak, cache, enabled, cert, loaded>> /\ Keeps

\* ... the zones go, ...
RemoveCache(h) ==
  /\ At(h, "uncache")
  /\ cache' = [cache EXCEPT ![Mine(h)] = FALSE]
  /\ Goto(h, "rollback")
  /\ UNCHANGED <<row, conf, bak, enabled, cert, loaded>> /\ Keeps

\* ... and the row is what it was, or deleted.
Rollback(h) ==
  /\ At(h, "rollback")
  /\ row' = [row EXCEPT ![Mine(h)] = req[h].prev]
  /\ Return(h)
  /\ UNCHANGED <<files, loaded>> /\ Keeps

Update(h) ==
  \/ \E s \in Site, new \in Settings : Begin(h, s, new)
  \/ Upsert(h) \/ Backup(h) \/ Install(h) \/ InstallCache(h) \/ Test(h)
  \/ ReloadSite(h) \/ RemoveBackup(h)
  \/ Restore(h) \/ RemoveCache(h) \/ Rollback(h)

----------------------------------------------------------------------------
(* The nginx and ssl stages of a deployment.                               *)

W == worker.s
DeployAt(pc) == worker.pc = pc
DeployGoto(pc) == worker' = [worker EXCEPT !.pc = pc]
Quiet == UNCHANGED <<req, bounds, overlap>>
Calm == Quiet /\ UNCHANGED dropped

\* The nginx stage begins.
Deploy(s) ==
  /\ DeployAt("idle")
  /\ deploys < MaxDeploys /\ deploys' = deploys + 1
  /\ worker' = [NoDeploy EXCEPT !.pc = "read", !.s = s]
  /\ overlap' = (overlap \/ \E h \in Handlers : ~At(h, "idle"))
  /\ UNCHANGED <<row, files, loaded, req, updates, dropped, broken>>

\* The stage reads the row, but not its custom locations.
ReadSettings ==
  /\ DeployAt("read")
  /\ worker' = [worker EXCEPT !.pc = "write",
                              !.body = IF row[W] = None THEN "default" ELSE row[W].body]
  /\ UNCHANGED <<row, files, loaded, broken>> /\ Calm

\* tee and ln (without the link, the file does not count yet); the ssl stage
\* takes the certificate for granted.
WriteSite ==
  /\ DeployAt("write")
  /\ LET ssl == worker.stage = "ssl" \/ cert[W] IN
       conf' = [conf EXCEPT ![W] =
         IF W \in Static THEN StaticSite(ssl)
                         ELSE Proxy([body |-> worker.body, locs |-> "none"], ssl)]
  /\ enabled' = [enabled EXCEPT ![W] = TRUE]
  /\ dropped' = [dropped EXCEPT ![W] = TRUE]
  /\ DeployGoto("test")
  /\ UNCHANGED <<row, bak, cache, cert, loaded, broken>> /\ Quiet

\* nginx -t: what it refuses stays on the disk, and the deployment fails
\* (the ssl stage does not look).
TestSite ==
  /\ DeployAt("test")
  /\ IF Valid THEN DeployGoto("reload") /\ UNCHANGED broken
              ELSE worker' = NoDeploy /\ broken' = TRUE
  /\ UNCHANGED <<row, files, loaded>> /\ Calm

ReloadNginx ==
  /\ DeployAt("reload")
  /\ Reload
  /\ IF worker.stage = "nginx" THEN DeployGoto("certify") ELSE worker' = NoDeploy
  /\ UNCHANGED <<row, files, broken>> /\ Calm

\* hasCert, or certbot, whose nginx plugin wants files nginx accepts; then
\* the site is written again.
Certify ==
  /\ DeployAt("certify")
  /\ \/ /\ cert[W] \/ Valid
        /\ cert' = [cert EXCEPT ![W] = TRUE]
        /\ worker' = [worker EXCEPT !.pc = "read", !.stage = "ssl"]
     \/ ~cert[W] /\ worker' = NoDeploy /\ UNCHANGED cert
  /\ UNCHANGED <<row, conf, bak, cache, enabled, loaded, broken>> /\ Calm

DeployStep ==
  \/ \E s \in Site : Deploy(s)
  \/ ReadSettings \/ WriteSite \/ TestSite \/ ReloadNginx \/ Certify

----------------------------------------------------------------------------
\* The backend stops in the middle (bound: once): the files stay.
Crash ==
  /\ ~broken
  /\ \E h \in Handlers : ~At(h, "idle")
  /\ req' = [h \in Handlers |-> NoReq]
  /\ worker' = NoDeploy
  /\ broken' = TRUE
  /\ UNCHANGED <<row, files, loaded, bounds, dropped, overlap>>

Next == (\E h \in Handlers : Update(h)) \/ DeployStep \/ Crash

Spec == Init /\ [][Next]_vars

----------------------------------------------------------------------------
(***************************************************************************)
(* "If invalid: restore backup, rollback database" (nginx design, line     *)
(* 88): as long as writers do not overlap, a rejected update leaves the    *)
(* file and the row it found, also when an update that died has left its   *)
(* backup.  The zones go whatever there was: nginx accepts its files       *)
(* afterwards if it did before, except that of a site with a cache, which  *)
(* has every test of every site refused until it is updated again.         *)
(***************************************************************************)
Rejects(h) == At(h, "rollback") /\ req'[h].pc = "idle" /\ broken' = broken

RejectionRestoresStep ==
  \A h \in Handlers : LET s == Mine(h) IN
    Rejects(h) /\ ~overlap =>
      /\ req[h].was # None => conf'[s] = req[h].was
      /\ row'[s] = req[h].prev
      /\ Valid' <=> req[h].fit /\ (enabled[s] => req[h].was.locs # "cached")

(***************************************************************************)
(* As long as writers do not overlap, none dies and no deployment's nginx  *)
(* command fails, nginx serves the files as they are, and those hold the   *)
(* settings of the rows (or the defaults, or a static site, until somebody *)
(* updates the settings), over HTTPS once there is a certificate.  Their   *)
(* locations they hold only until the next deployment, which drops them:   *)
(* edits and deployments are not "consistent" (nginx design, line 199).    *)
(***************************************************************************)
ServedAsConfigured ==
  ~overlap /\ ~broken /\ DeployAt("idle") /\ (\A h \in Handlers : At(h, "idle")) =>
    \A s \in Site : enabled[s] =>
      /\ loaded[s] = conf[s]
      /\ cert[s] => conf[s].ssl
      /\ IF row[s] = None
         THEN conf[s].kind = (IF s \in Static THEN "static" ELSE "proxy") /\ conf[s].locs = "none"
         ELSE conf[s].kind = "proxy" =>
                /\ conf[s].body = row[s].body
                /\ conf[s].locs = IF dropped[s] THEN "none" ELSE row[s].locs
=============================================================================
