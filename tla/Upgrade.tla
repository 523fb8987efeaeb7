------------------------------ MODULE Upgrade ------------------------------
(***************************************************************************)
(* The self-upgrade script (scripts/upgrade.sh): check, backup, pull,      *)
(* install, migrate, build, reload, health check, and the rollback that    *)
(* follows a failed step or is asked for by hand.  One script runs at a    *)
(* time.  A version number stands for a release tag and for its commit;    *)
(* `files' is the checked-out backend (and frontend, where it is hosted),  *)
(* `built' what was last built from it, `running' what PM2 serves.         *)
(***************************************************************************)
EXTENDS Naturals, Sequences

CONSTANTS
  MaxVersion,  \* releases 1..MaxVersion (bound)
  MaxUpgrades, \* runs of the script (bound)
  Faults,      \* "kill" (the script dies), "dump" (pg_dump fails)
  None

Version == 1..MaxVersion

UpgradeAssumption == MaxVersion \in Nat \ {0} /\ MaxUpgrades \in Nat /\ None \notin Version

Steps == {"idle", "backup", "fill", "pull", "install", "generate", "migrate", "build",
          "frontend", "restart", "health", "save",
          "rollback", "restoreCode", "rebuild", "reload", "recheck", "restoreVersion"}
Outcomes == {"none", "done", "upToDate", "rolledBack", "failed", "exited"}
Keep == 3

VARIABLES
  latest,    \* the newest release, and origin/main
  head,      \* git HEAD of the installation
  files, built, running,
  schema,    \* the newest migration applied to the database
  saved,     \* .shipdock-version: [version, edge], or None
  backups,   \* newest first
  pc, args,  \* where the script is, and its options
  attempted, \* MIGRATION_ATTEMPTED
  outcome,   \* how the last run ended
  runs

vars == <<latest, head, files, built, running, schema, saved, backups, pc, args, attempted, outcome, runs>>
system == <<head, files, built, running, schema, saved, backups>>

Saved == [version : Version, edge : BOOLEAN]
Backup == [files : Version \cup {None}, schema : Version, dump : {"none", "good", "bad"},
           saved : Saved \cup {None}]
Args == [mode : {"stable", "edge"}, force : BOOLEAN, manual : BOOLEAN]

TypeOK ==
  /\ latest \in Version /\ head \in Version /\ files \in Version /\ built \in Version
  /\ running \in Version \cup {None} /\ schema \in Version
  /\ saved \in Saved \cup {None}
  /\ backups \in Seq(Backup)
  /\ pc \in Steps /\ args \in Args /\ attempted \in BOOLEAN
  /\ outcome \in Outcomes /\ runs \in 0..MaxUpgrades

\* install.sh leaves a clone of the first release, no version file.
Init ==
  /\ latest = 1 /\ head = 1 /\ files = 1 /\ built = 1 /\ running = 1 /\ schema = 1
  /\ saved = None /\ backups = <<>>
  /\ pc = "idle" /\ args = [mode |-> "stable", force |-> FALSE, manual |-> FALSE]
  /\ attempted = FALSE /\ outcome = "none" /\ runs = 0

Release == latest < MaxVersion /\ pc = "idle" /\ latest' = latest + 1
           /\ UNCHANGED <<system, pc, args, attempted, outcome, runs>>

Goto(s) == pc' = s /\ UNCHANGED outcome
Exit(o) == pc' = "idle" /\ outcome' = o
----------------------------------------------------------------------------
(***************************************************************************)
(* Up to date: stable mode trusts the version file (package.json where     *)
(* there is none), edge mode compares git HEAD with origin/main.           *)
(***************************************************************************)
UpToDate(a) ==
  IF a.mode = "edge" THEN head = latest
  ELSE IF saved = None THEN files = latest
  ELSE saved = [version |-> latest, edge |-> FALSE]

Start(a) ==
  /\ pc = "idle" /\ runs < MaxUpgrades /\ ~a.manual
  /\ args' = a /\ attempted' = FALSE /\ runs' = runs + 1
  /\ IF UpToDate(a) /\ ~a.force THEN Exit("upToDate") ELSE Goto("backup")
  /\ UNCHANGED <<latest, system>>

\* --rollback takes the newest backup and assumes that migrations ran.
StartRollback(a) ==
  /\ pc = "idle" /\ runs < MaxUpgrades /\ a.manual
  /\ args' = a /\ attempted' = TRUE /\ runs' = runs + 1
  /\ IF backups = <<>> THEN Exit("failed") ELSE Goto("rollback")
  /\ UNCHANGED <<latest, system>>

MakeBackup ==
  /\ pc = "backup" /\ Goto("fill")
  /\ backups' = <<[files |-> None, schema |-> schema, dump |-> "none", saved |-> None]>> \o backups
  /\ UNCHANGED <<latest, head, files, built, running, schema, saved, args, attempted, runs>>

\* A failed dump leaves database.sql.gz behind (the shell opened it), and the
\* upgrade goes on.  Older backups than the third are removed at the end.
FillBackup ==
  /\ pc = "fill" /\ Goto("pull")
  /\ \E dump \in {"good"} \cup (IF "dump" \in Faults THEN {"bad"} ELSE {}) :
       LET filled == <<[files |-> files, schema |-> schema, dump |-> dump, saved |-> saved]>>
                       \o Tail(backups)
       IN  backups' = SubSeq(filled, 1, IF Len(filled) > Keep THEN Keep ELSE Len(filled))
  /\ UNCHANGED <<latest, head, files, built, running, schema, saved, args, attempted, runs>>
----------------------------------------------------------------------------
(***************************************************************************)
(* git checkout refuses to overwrite a changed tree, and keeps its changes *)
(* when the tag is the commit HEAD is at already; reset --hard discards    *)
(* them.  A git command outside an `||' that fails ends the script (set -e)*)
(* before anything has changed.                                            *)
(***************************************************************************)
PullFails ==
  /\ pc = "pull" /\ Exit("exited")
  /\ UNCHANGED <<latest, system, args, attempted, runs>>

Checkout ==
  /\ pc = "pull" /\ args.mode = "stable"
  /\ IF files = head \/ head = latest
     THEN /\ head' = latest /\ files' = IF files = head THEN latest ELSE files
          /\ Goto("install")
     ELSE Goto("rollback") /\ UNCHANGED <<head, files>>
  /\ UNCHANGED <<latest, built, running, schema, saved, backups, args, attempted, runs>>

Reset ==
  /\ pc = "pull" /\ args.mode = "edge" /\ Goto("install")
  /\ head' = latest /\ files' = latest
  /\ UNCHANGED <<latest, built, running, schema, saved, backups, args, attempted, runs>>

\* npm ci, prisma generate, migrate deploy, build: each may fail.
Install ==
  /\ pc = "install" /\ \E next \in {"generate", "rollback"} : Goto(next)
  /\ UNCHANGED <<latest, system, args, attempted, runs>>

Generate ==
  /\ pc = "generate"
  /\ \/ Goto("migrate") /\ attempted' = TRUE
     \/ Goto("rollback") /\ UNCHANGED attempted
  /\ UNCHANGED <<latest, system, args, runs>>

Newer(a, b) == IF a > b THEN a ELSE b

\* Migrations only add: older files have nothing to apply to a newer schema.
Migrate ==
  /\ pc = "migrate"
  /\ \/ schema' = Newer(schema, files) /\ Goto("build")
     \/ schema' \in schema..Newer(schema, files) /\ Goto("rollback")
  /\ UNCHANGED <<latest, head, files, built, running, saved, backups, args, attempted, runs>>

Build ==
  /\ pc = "build"
  /\ \/ built' = files /\ Goto("frontend")
     \/ UNCHANGED built /\ Goto("rollback")
  /\ UNCHANGED <<latest, head, files, running, schema, saved, backups, args, attempted, runs>>

Frontend ==
  /\ pc = "frontend" /\ \E next \in {"restart", "rollback"} : Goto(next)
  /\ UNCHANGED <<latest, system, args, attempted, runs>>

\* The process may be dead afterwards; a reload that reports failure ends the
\* script on the spot (set -e), a start that does is rolled back.
Restart ==
  /\ pc = "restart"
  /\ \/ running' \in {built, None} /\ Goto("health")
     \/ running' \in {running, None} /\ Exit("exited")
     \/ running = None /\ UNCHANGED running /\ Goto("rollback")
  /\ UNCHANGED <<latest, head, files, built, schema, saved, backups, args, attempted, runs>>

Health ==
  /\ pc = "health"
  /\ \/ running # None /\ Goto("save")
     \/ Goto("rollback")
  /\ UNCHANGED <<latest, system, args, attempted, runs>>

SaveVersion ==
  /\ pc = "save" /\ Exit("done")
  /\ saved' = [version |-> IF args.mode = "edge" THEN files ELSE latest, edge |-> args.mode = "edge"]
  /\ UNCHANGED <<latest, head, files, built, running, schema, backups, args, attempted, runs>>
----------------------------------------------------------------------------
(***************************************************************************)
(* do_rollback.  psql runs the dump, which drops nothing, and goes on past *)
(* errors: how much of a newer schema survives is left open.  It has       *)
(* nothing to object to in the empty file that a failed pg_dump left.      *)
(***************************************************************************)
RestoreDatabase ==
  /\ pc = "rollback"
  /\ IF attempted /\ backups[1].dump # "none"
     THEN \/ UNCHANGED schema /\ Goto("restoreCode")
          \/ backups[1].dump = "good" /\ schema' = backups[1].schema /\ Goto("restoreCode")
          \/ UNCHANGED schema /\ Exit("failed")
     ELSE UNCHANGED schema /\ Goto("restoreCode")
  /\ UNCHANGED <<latest, head, files, built, running, saved, backups, args, attempted, runs>>

\* Mutant: what git has.
RestoreCode_head ==
  /\ pc = "restoreCode" /\ Goto("rebuild")
  /\ files' = head
  /\ UNCHANGED <<latest, head, built, running, schema, saved, backups, args, attempted, runs>>

\* backend/ is copied with its dist/, so what is built comes back too.
RestoreCode ==
  /\ pc = "restoreCode" /\ Goto("rebuild")
  /\ files' = IF backups[1].files = None THEN files ELSE backups[1].files
  /\ UNCHANGED <<latest, head, built, running, schema, saved, backups, args, attempted, runs>>

Rebuild ==
  /\ pc = "rebuild"
  /\ \/ built' = files /\ Goto("reload")
     \/ UNCHANGED built /\ Exit("failed")
  /\ UNCHANGED <<latest, head, files, running, schema, saved, backups, args, attempted, runs>>

Reload ==
  /\ pc = "reload" /\ running' \in {built, running, None} /\ Goto("recheck")
  /\ UNCHANGED <<latest, head, files, built, schema, saved, backups, args, attempted, runs>>

Recheck ==
  /\ pc = "recheck"
  /\ \/ running # None /\ Goto("restoreVersion")
     \/ Exit("failed")
  /\ UNCHANGED <<latest, system, args, attempted, runs>>

RestoreVersion ==
  /\ pc = "restoreVersion" /\ Exit("rolledBack")
  /\ saved' = IF backups[1].saved = None THEN saved ELSE backups[1].saved
  /\ UNCHANGED <<latest, head, files, built, running, schema, backups, args, attempted, runs>>

\* The terminal closes, or the operator interrupts the script.
Kill ==
  /\ "kill" \in Faults /\ pc # "idle" /\ Exit("exited")
  /\ UNCHANGED <<latest, system, args, attempted, runs>>
----------------------------------------------------------------------------
Next ==
  \/ Release \/ MakeBackup \/ FillBackup \/ PullFails \/ Checkout \/ Reset
  \/ Install \/ Generate \/ Migrate \/ Build \/ Frontend \/ Restart \/ Health \/ SaveVersion
  \/ RestoreDatabase \/ RestoreCode \/ Rebuild \/ Reload \/ Recheck \/ RestoreVersion \/ Kill
  \/ \E a \in Args : Start(a) \/ StartRollback(a)

Spec == Init /\ [][Next]_vars
----------------------------------------------------------------------------
(***************************************************************************)
(* A completed upgrade is whole: what is served was built from the files   *)
(* on disk, and the database has every migration those files carry.        *)
(***************************************************************************)
CompletedIsWhole ==
  outcome = "done" /\ pc = "idle" => files = built /\ schema >= files

(***************************************************************************)
(* An upgrade that a failed step rolled back leaves the files, the build   *)
(* and the recorded version of before, whatever step failed.               *)
(***************************************************************************)
RollbackRestores ==
  outcome = "rolledBack" /\ pc = "idle" /\ ~args.manual =>
    /\ files = backups[1].files /\ built = files
    /\ saved = backups[1].saved

(***************************************************************************)
(* Neither do the pruning nor a killed run leave the installation without  *)
(* a backup to go back to: from the pull on, the newest backup holds files *)
(* that ran with the schema it was taken with.                             *)
(***************************************************************************)
Recoverable ==
  pc \notin {"idle", "backup", "fill"} /\ ~args.manual =>
    backups # <<>> /\ backups[1].files # None

(***************************************************************************)
(* "Upgrade complete!" with version v means that v is what was built.      *)
(***************************************************************************)
CompletedRunsTarget ==
  outcome = "done" /\ pc = "idle" => built = saved.version
=============================================================================
