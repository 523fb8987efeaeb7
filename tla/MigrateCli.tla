----------------------------- MODULE MigrateCli -----------------------------
(***************************************************************************)
(* The migration command an administrator runs on the server to leave:     *)
(* it scans for projects, packages those selected with their databases,    *)
(* uploads the package and meanwhile reports its progress to the import's  *)
(* row, from which the import page polls it (packages/cli, ImportService). *)
(*                                                                         *)
(* A project's field is abstracted to the detector it was taken from, a    *)
(* Redis database to the version of its data.  Projects are packaged in    *)
(* any order; all proxied ports are the projects' own.                     *)
(***************************************************************************)
EXTENDS Naturals, FiniteSets, Sequences, SequencesExt, TLC

CONSTANTS
  Hosts,      \* servers: each directory with the detectors that see something in it
  Urls,       \* directory -> the databases its .env names
  Lookups,    \* what looking into a repository may tell
  Crontab,    \* the directories of the crontab's groups, in order
  Under,      \* pairs of directories of which the first starts with the second
  MaxWrites,  \* writes to Redis (bound)
  MaxPolls,   \* polls of LASTSAVE; 30 in the code (bound)
  MaxReports, \* progress reports under way at once (bound)
  None

Detectors == <<"pm2", "docker", "systemd", "process">>
Real == ToSet(Detectors)
Directory == DOMAIN Urls

MigrateCliAssumption ==
  /\ \A host \in Hosts : host \in [Directory -> SUBSET Real]
  /\ \A dir \in Directory : Urls[dir] \subseteq {"database", "redis"}
  /\ Lookups \subseteq SUBSET {"remote", "commit"}
  /\ Under \subseteq Directory \X Directory /\ Crontab \in Seq(Directory)
  /\ MaxWrites \in Nat /\ MaxPolls \in Nat \ {0} /\ MaxReports \in Nat

Stage == {"scanning", "packaging", "uploading", "done"}
GitFields == {"remote", "commit"}
Steps == {"database", "redis", "code", "git"}

\* What each detector can tell of a project, beside its .env and its repository.
Pm2Detector == {"runtime", "version", "port", "manager"}
DockerDetector == {"port", "manager", "docker"}
SystemdDetector == {"runtime", "manager"}
ProcessDetector == {"runtime"}
Gives == [pm2 |-> Pm2Detector, docker |-> DockerDetector, systemd |-> SystemdDetector,
          process |-> ProcessDetector]
Field == UNION {Gives[d] : d \in Real} \cup GitFields \cup {"database", "redis"}

VARIABLES
  host, linked,    \* the server; was the command given an import's id?
  phase,           \* of the command
  found, projects, \* what the detectors returned; what the scanner made of it
  todo, collect,   \* collectors of the projects left to package; the one at work
  redis,           \* data, dump file, the save under way, saves done, writes
  packed, package, \* the manifest so far; the archive in the temporary directory
  upload,          \* the upload's request at the server
  row, reports,    \* the import; progress reports under way
  overlap          \* history: a report was under way when the upload was stored

scan == <<found, projects>>
collecting == <<todo, collect, packed>>
server == <<upload, row, reports>>
vars == <<host, linked, phase, scan, collecting, redis, package, server, overlap>>

Entry == [database : {"none", "whole", "broken"}, redis : {"none", "fresh", "stale", "doubtful"},
          code : {"git", "archive", "none"}]
Manifests == UNION {[dirs -> Entry] : dirs \in SUBSET Directory}
NoRow == [status |-> "NONE", manifest |-> None, stages |-> {}, package |-> None, items |-> 0]
Saved == [data |-> 0, rdb |-> 0, saving |-> None, saves |-> 1]
Nothing == [at |-> "idle", dir |-> None, start |-> 0, attempts |-> 0, asked |-> 0, sure |-> TRUE]

TypeOK ==
  /\ host \in Hosts /\ linked \in BOOLEAN
  /\ phase \in {"scan", "select", "package", "upload", "answered", "done", "failed", "killed"}
  /\ DOMAIN projects \subseteq Directory
  /\ \A dir \in DOMAIN projects : DOMAIN projects[dir].from \subseteq Field
  /\ DOMAIN todo \subseteq Directory /\ collect.dir \in Directory \cup {None}
  /\ collect.attempts \in 0..MaxPolls
  /\ redis.data \in 0..MaxWrites /\ redis.rdb \in 0..redis.data
  /\ packed \in Manifests /\ package \in Manifests \cup {None}
  /\ upload \in {"none", "received", "stored", "made", "lost", "ok", "error"}
  /\ row.status \in {"NONE", "PENDING", "UPLOADED", "CONFIGURING"}
  /\ row.stages \subseteq Stage /\ row.items \in 0..Cardinality(Directory)
  /\ Cardinality(reports) <= MaxReports + 1
  /\ overlap \in BOOLEAN

\* Redis has been saved once, when it started.
Init ==
  /\ host \in Hosts /\ linked \in BOOLEAN
  /\ phase = "scan" /\ found = <<>> /\ projects = <<>>
  /\ todo = <<>> /\ collect = Nothing /\ packed = <<>> /\ package = None
  /\ redis = Saved
  /\ upload = "none" /\ reports = {}
  /\ row = IF linked THEN [NoRow EXCEPT !.status = "PENDING"] ELSE NoRow
  /\ overlap = FALSE
----------------------------------------------------------------------------
\* Progress reports.  Some are awaited by the command, others sent while it goes on; one
\* that is awaited may be lost with its connection.
Waiting == \E report \in reports : report.awaited
Report(stage, awaited) ==
  reports' = IF linked THEN reports \cup {[stage |-> stage, awaited |-> awaited, read |-> None]}
             ELSE reports

ReadRow(report) ==
  /\ report.read = None
  /\ reports' = (reports \ {report})
       \cup {[report EXCEPT !.read = [manifest |-> row.manifest, stages |-> row.stages]]}
  /\ UNCHANGED <<host, linked, phase, scan, collecting, redis, package, upload, row, overlap>>

WriteProgress(report) ==
  /\ report.read # None
  /\ row' = [row EXCEPT !.manifest = report.read.manifest,
                        !.stages = report.read.stages \cup {report.stage}]
  /\ reports' = reports \ {report}
  /\ UNCHANGED <<host, linked, phase, scan, collecting, redis, package, upload, overlap>>

LoseReport(report) ==
  /\ report.awaited
  /\ reports' = reports \ {report}
  /\ UNCHANGED <<host, linked, phase, scan, collecting, redis, package, upload, row, overlap>>
----------------------------------------------------------------------------
\* The scan: six detectors at once, one that fails has found nothing.
Start ==
  /\ phase = "scan" /\ found = <<>> /\ reports = {} /\ "scanning" \notin row.stages
  /\ Report("scanning", TRUE)
  /\ found' = [d \in Real |-> None]
  /\ UNCHANGED <<host, linked, phase, projects, collecting, redis, package, upload, row, overlap>>

Sees(d) == {dir \in Directory : d \in host[dir]}

\* Each lookup in the repository may fail.
Detect(d) ==
  /\ phase = "scan" /\ found # <<>> /\ ~Waiting /\ found[d] = None
  /\ \E git \in [Sees(d) -> Lookups], dirs \in {{}, Sees(d)} :
       found' = [found EXCEPT ![d] =
         [dir \in dirs |-> Gives[d] \cup Urls[dir] \cup git[dir]]]
  /\ UNCHANGED <<host, linked, phase, projects, collecting, redis, package, server, overlap>>

\* What an earlier detector found is kept, gaps are filled.
MergeProject(target, d, fields) == target @@ [field \in fields |-> d]

Merged(dir) ==
  FoldLeft(LAMBDA target, d : MergeProject(target, d, found[d][dir]), <<>>,
           SelectSeq(Detectors, LAMBDA d : dir \in DOMAIN found[d]))

\* The first group of the crontab whose directory the project's starts with.
CronOf(dir) ==
  LET groups == SelectSeq(Crontab, LAMBDA group : <<dir, group>> \in Under)
  IN IF groups = <<>> THEN None ELSE Head(groups)

Scan ==
  /\ phase = "scan" /\ found # <<>> /\ \A d \in Real : found[d] # None
  /\ LET dirs == UNION {DOMAIN found[d] : d \in Real}
     IN \E nginx \in BOOLEAN, cron \in BOOLEAN :
          /\ projects' = [dir \in dirs |->
               [from |-> Merged(dir), nginx |-> nginx /\ "port" \in DOMAIN Merged(dir),
                cron |-> IF cron THEN CronOf(dir) ELSE None]]
          /\ phase' = IF dirs = {} THEN "done" ELSE "select"
  /\ UNCHANGED <<host, linked, found, collecting, redis, package, server, overlap>>

\* The collectors that find what they need in a project.
Applies(step, fields) ==
  CASE step = "code" -> TRUE
    [] step = "git" -> GitFields \subseteq fields
    [] OTHER -> step \in fields

Select ==
  /\ phase = "select"
  /\ \E dirs \in SUBSET (DOMAIN projects) \ {{}} :
       todo' = [dir \in dirs |-> {step \in Steps : Applies(step, DOMAIN projects[dir].from)}]
  /\ projects' = <<>> /\ found' = <<>> /\ phase' = "package"
  /\ Report("packaging", TRUE)
  /\ UNCHANGED <<host, linked, collect, packed, redis, package, upload, row, overlap>>
----------------------------------------------------------------------------
\* The package: metadata, databases and sources of one project after the other.
Collecting(at) == phase = "package" /\ ~Waiting /\ collect.at = at

\* The collector that comes next for a project.
From(steps, dir) == Head(SelectSeq(steps, LAMBDA step : step \in todo[dir]))
Go(at) == collect' = [collect EXCEPT !.at = at]
Entered(field, value) == packed' = [packed EXCEPT ![collect.dir][field] = value]

BeginProject ==
  /\ Collecting("idle")
  /\ \E dir \in DOMAIN todo :
       /\ collect' = [Nothing EXCEPT !.dir = dir, !.at = From(<<"database", "redis", "code">>, dir)]
       /\ packed' = packed @@ (dir :> [database |-> "none", redis |-> "none", code |-> "none"])
  /\ IF Cardinality(reports) < MaxReports THEN Report("packaging", FALSE) ELSE UNCHANGED reports
  /\ UNCHANGED <<host, linked, phase, scan, todo, redis, package, upload, row, overlap>>

\* The status of `pg_dump | gzip` is that of gzip.
CollectDatabase ==
  /\ Collecting("database")
  /\ \E result \in {"none", "whole", "broken"} : Entered("database", result)
  /\ Go(From(<<"redis", "code">>, collect.dir))
  /\ UNCHANGED <<host, linked, phase, scan, todo, redis, package, server, overlap>>

\* A save that is under way answers BGSAVE with an error redis-cli only prints.
Bgsave ==
  /\ Collecting("redis")
  /\ \/ Go("code") /\ UNCHANGED redis
     \/ /\ collect' = [collect EXCEPT !.at = "lastsave", !.asked = redis.data,
                                      !.sure = redis.saving = None]
        /\ redis' = IF redis.saving = None THEN [redis EXCEPT !.saving = redis.data] ELSE redis
  /\ UNCHANGED <<host, linked, phase, scan, todo, packed, package, server, overlap>>

\* LASTSAVE, 0 if it fails.
StartTime ==
  /\ Collecting("lastsave")
  /\ \E time \in {0, redis.saves} :
       collect' = [collect EXCEPT !.at = "poll", !.start = time, !.sure = @ /\ time # 0]
  /\ UNCHANGED <<host, linked, phase, scan, todo, packed, redis, package, server, overlap>>

Newer(time) == time > collect.start

Poll ==
  /\ Collecting("poll")
  /\ \E time \in {0, redis.saves} :
       IF Newer(time) THEN Go("copy")
       ELSE collect' = [collect EXCEPT !.attempts = @ + 1,
                                       !.at = IF collect.attempts + 1 = MaxPolls THEN "code" ELSE @]
  /\ UNCHANGED <<host, linked, phase, scan, todo, packed, redis, package, server, overlap>>

\* What the file holds, against what Redis held when a save was asked for; doubtful if a
\* save was under way already or the first LASTSAVE failed.
Dump ==
  CASE ~collect.sure -> "doubtful"
    [] collect.sure /\ redis.rdb >= collect.asked -> "fresh"
    [] OTHER -> "stale"

CopyRdb ==
  /\ Collecting("copy")
  /\ \E dump \in {"none", Dump} : Entered("redis", dump)
  /\ Go("code")
  /\ UNCHANGED <<host, linked, phase, scan, todo, redis, package, server, overlap>>

CollectCode ==
  /\ Collecting("code")
  /\ IF "git" \in todo[collect.dir] THEN Entered("code", "git")
     ELSE \E result \in {"archive", "none"} : Entered("code", result)
  /\ collect' = Nothing
  /\ todo' = Restrict(todo, DOMAIN todo \ {collect.dir})
  /\ UNCHANGED <<host, linked, phase, scan, redis, package, server, overlap>>

\* From here on Redis is not looked at any more.
CreateArchive ==
  /\ Collecting("idle") /\ todo = <<>>
  /\ \/ package' = packed /\ phase' = "upload" /\ Report("uploading", TRUE)
     \/ phase' = "failed" /\ UNCHANGED <<package, reports>>
  /\ redis' = Saved
  /\ UNCHANGED <<host, linked, scan, collecting, upload, row, overlap>>
----------------------------------------------------------------------------
\* Redis itself: its clients write, it saves when its save points say so, or fails to.
Observed == \E dir \in DOMAIN todo : "redis" \in todo[dir]

Write ==
  /\ Observed /\ redis.data < MaxWrites
  /\ redis' = [redis EXCEPT !.data = @ + 1]
  /\ UNCHANGED <<host, linked, phase, scan, collecting, package, server, overlap>>

SavePoint ==
  /\ Observed /\ redis.saving = None /\ redis.data > redis.rdb
  /\ redis' = [redis EXCEPT !.saving = redis.data]
  /\ UNCHANGED <<host, linked, phase, scan, collecting, package, server, overlap>>

EndSave ==
  /\ Observed /\ redis.saving # None
  /\ \/ redis' = [redis EXCEPT !.rdb = redis.saving, !.saving = None, !.saves = @ + 1]
     \/ redis' = [redis EXCEPT !.saving = None]
  /\ UNCHANGED <<host, linked, phase, scan, collecting, package, server, overlap>>
----------------------------------------------------------------------------
\* The upload: the request's parts, with a report for every tenth percent, then its handler.
Uploading ==
  /\ phase = "upload" /\ upload = "none" /\ ~Waiting
  /\ Cardinality(reports) < MaxReports /\ linked
  /\ Report("uploading", FALSE)
  /\ UNCHANGED <<host, linked, phase, scan, collecting, redis, package, upload, row, overlap>>

Send ==
  /\ phase = "upload" /\ upload = "none" /\ ~Waiting
  /\ upload' \in {"received", "lost"}
  /\ UNCHANGED <<host, linked, phase, scan, collecting, redis, package, row, reports, overlap>>

HandleUpload ==
  /\ upload = "received"
  /\ \/ /\ row' = [row EXCEPT !.status = "UPLOADED", !.manifest = package, !.package = package]
        /\ overlap' = (reports # {})
        /\ upload' = "stored"
     \/ upload' = "error" /\ UNCHANGED <<row, overlap>>
  /\ UNCHANGED <<host, linked, phase, scan, collecting, redis, package, reports>>

CreateItems ==
  /\ upload = "stored"
  /\ \/ /\ row.items < Cardinality(DOMAIN package)
        /\ row' = [row EXCEPT !.items = @ + 1] /\ UNCHANGED upload
     \/ /\ row.items = Cardinality(DOMAIN package)
        /\ row' = [row EXCEPT !.status = "CONFIGURING"] /\ upload' = "ok"
     \/ upload' = "error" /\ UNCHANGED row
  /\ UNCHANGED <<host, linked, phase, scan, collecting, redis, package, reports, overlap>>

\* The package is removed after an answer of success, and reported done before.
Answer ==
  /\ phase = "upload" /\ upload \in {"ok", "error", "lost"}
  /\ IF upload = "ok" THEN phase' = "answered" /\ Report("done", TRUE)
     ELSE phase' = "failed" /\ UNCHANGED reports
  /\ UNCHANGED <<host, linked, scan, collecting, redis, package, upload, row, overlap>>

\* The connection ends before the answer; the handler goes on.
LoseAnswer ==
  /\ phase = "upload" /\ upload # "none"
  /\ phase' = "failed"
  /\ UNCHANGED <<host, linked, scan, collecting, redis, package, server, overlap>>

Unlink ==
  /\ phase = "answered" /\ ~Waiting
  /\ package' = None /\ phase' = "done"
  /\ UNCHANGED <<host, linked, scan, collecting, redis, server, overlap>>

Kill ==
  /\ phase \notin {"done", "failed", "killed"}
  /\ phase' = "killed" /\ projects' = <<>> /\ found' = <<>>
  /\ todo' = <<>> /\ collect' = Nothing /\ packed' = <<>> /\ redis' = Saved
  /\ reports' = {[report EXCEPT !.awaited = FALSE] : report \in reports}
  /\ upload' = IF upload = "none" THEN "lost" ELSE upload
  /\ UNCHANGED <<host, linked, package, row, overlap>>

Next ==
  \/ \E report \in reports : ReadRow(report) \/ WriteProgress(report) \/ LoseReport(report)
  \/ Start \/ (\E d \in Real : Detect(d)) \/ Scan \/ Select
  \/ BeginProject \/ CollectDatabase \/ Bgsave \/ StartTime \/ Poll \/ CopyRdb \/ CollectCode
  \/ CreateArchive \/ Write \/ SavePoint \/ EndSave
  \/ Uploading \/ Send \/ HandleUpload \/ CreateItems \/ Answer \/ LoseAnswer \/ Unlink \/ Kill

Spec == Init /\ [][Next]_vars
----------------------------------------------------------------------------
(***************************************************************************)
(* However many detectors see a directory, it is one project, and each of  *)
(* its fields is that of the first of them, in the scanner's order, that   *)
(* has it (scanner.ts, mergeProject).                                      *)
(***************************************************************************)
ScanMerges ==
  phase = "select" =>
    \A dir \in DOMAIN projects, field \in Field :
      LET tells == {i \in DOMAIN Detectors :
                      dir \in DOMAIN found[Detectors[i]] /\ field \in found[Detectors[i]][dir]}
      IN IF tells = {} THEN field \notin DOMAIN projects[dir].from
         ELSE projects[dir].from[field] = Detectors[CHOOSE i \in tells : \A j \in tells : i <= j]

(***************************************************************************)
(* The Redis dump of a package holds what Redis held when the command      *)
(* asked for a save, unless a save was under way already or the first      *)
(* LASTSAVE failed: saves race the polls (redis.collector.ts).             *)
(***************************************************************************)
RedisDumpFresh == \A dir \in DOMAIN packed : packed[dir].redis # "stale"

(***************************************************************************)
(* Once made, a package is on the server it was made on or at Ship Dock;   *)
(* and the command reports success only of an import with every project's  *)
(* item (index.ts, uploader.ts, ImportService.handleUpload).               *)
(***************************************************************************)
PackageKept ==
  /\ packed # <<>> /\ phase \in {"upload", "answered", "done"} =>
       package = packed \/ row.package = packed
  /\ phase = "answered" => row.status = "CONFIGURING" /\ row.items = Cardinality(DOMAIN packed)

(***************************************************************************)
(* An upload's manifest stays in the import's row, whatever is reported,   *)
(* unless a report was under way when it was stored: a report writes back  *)
(* all it has read (ImportService.reportProgress).                         *)
(***************************************************************************)
ManifestKept == row.package # None /\ ~overlap => row.manifest = row.package
=============================================================================
