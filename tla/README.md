# A TLA+ verification of ship-dock

Ship-dock deploys and hosts projects on one server. Its backend (`src/backend`,
NestJS) is a single Node process that answers HTTP requests, runs five BullMQ
queues with one worker each, and keeps its state in Postgres (through Prisma,
without transactions), in Redis, in the file system, and in what nginx and PM2
hold. Its frontend (`src/frontend`, Next.js) keeps forms, marks and followed
jobs between a user's clicks. Shell scripts and two command line tools install,
upgrade, deploy and leave it. What makes it hard to get right is not any single
function but the steps in between: every `await` is a point at which another
request, the worker of another queue, a late answer, a crash with a re-delivered
job or a deletion may come in; every step of a script may fail or be the last.
The modules here model those steps. Paths below are relative to
`src/backend/src` unless they begin with another directory of `src/`.

## 1. Inventory

| component | source | state | operations |
|---|---|---|---|
| Project lock | `common/project-lock.service.ts` | Redis key `project-lock:<id>` with a TTL; token and deadline of each caller | `withLock`, compare-and-delete release, expiry |
| Deployments | `deploy/` | `Deployment` rows, `Project.status` and `pipeline`, queue `deploy`, shell processes | trigger, cancel, retry, rollback, `process` with its stages |
| Task runs | `project-tasks/` | `ProjectTask`, `ProjectTaskRun`, queue `tasks`, `cancelRequested`, child process groups | triggerRun, cancelRun, remove, recoverStuckRuns, `process` |
| Ports | `projects/port-allocation.service.ts` | `PortAllocation` rows, `Project.port` | allocate, allocateSpecific, release |
| Projects and provisioners | `projects/`, `common/*-provisioner.service.ts` | `Project` row, variables, service connections, databases, Redis indexes, buckets | create, update, delete, provision and deprovision |
| The project's process | `pm2-config/`, `deploy/stages/` | `.env`, `ecosystem.config.js`, the PM2 process, `Project.status` | stop, restart, update of variables and settings, the stages |
| Nginx sites | `nginx-config/`, `deploy/stages/` | row, site file and its backup, certificate, what nginx has loaded | updateConfig with its roll-back, nginx and ssl stages |
| Data migration | `data-migration/` | `DataMigration` rows, queue, the target database | createMigration, cancelMigration, `process` |
| Bulk import | `import/` | `Import`, `ImportItem` rows, queue `import` | upload, configure, start, cancel, delete, report, `process` |
| Storage import | `storage-import/` | `StorageImport` row, queue, bucket, uploaded files | createImport, cancelImport, the sweep, `process` |
| Webhooks | `webhooks/`, `github-app/` | `WebhookConfig`, `WebhookEvent` rows, the hooks at GitHub | receive, filter, replay; create, regenerate, delete |
| Accounts | `auth/`, `users/` | `User`, `Invite` rows, tokens | set-up, login, invite, accept, roles, delete |
| Logs | `logs/` | socket room, tail processes | join, leave, disconnect |
| Connection pool | `services/` | pooled clients, the connection's row | get, change, delete, idle clean-up |
| Static sites | `static-files/`, `upload/` | `StaticFile` rows, the served directory | unpack, clear, publish |
| Storage, database and file browsers | `storage-browser/`, `database-browser/`, `project-files/` and their pages | objects; rows; files under limits; marks and editors of the pages | list, mark, move, rename, edit, delete, upload, extract |
| Live views | `frontend/src/hooks/` | room, polls, what was announced | join, receive, poll, reconnect |
| Pages with work in them | `frontend/src/app/projects/` (editor, settings, new), `app/(app)/import/`, `components/*-wizard.tsx` | forms, timers, requests and late answers, query cache | type, choose, save, submit |
| Upgrade | `scripts/upgrade.sh` | files, git HEAD, build, schema, backups, recorded version | upgrade, roll-back |
| Server scripts | `scripts/` | packages, services, sites, certificate, what is deployed | set-up, check, certificate, deploy |
| Installer | `scripts/install.sh`, `cli/` | configuration files, packages, services, admin account | collect, install, initialize |
| Migration command | `packages/cli/` | what was found and packed, the import's row | scan, package, collect, upload, report |
| Redis browser, domains, analytics, GitHub tokens, pages that only show rows | | none that several steps share, or an external service's | not modelled (section 7) |

**Interactions.** `deploy` and `tasks` jobs of one project exclude each other
by the project lock; requests that write the same files (`.env`, the ecosystem
file, the nginx site) do not take it. HTTP handlers write rows and add jobs;
workers read the rows once and later overwrite them. Deleting a project cascades
to the rows while its jobs stay in Redis. BullMQ re-delivers the job of a worker
that died (or blocked the event loop for 30 s) once, at the head of the queue; a
job that throws is not retried (`attempts: 1`). Bulk imports create projects
through `ProjectsService.create`; webhooks and uploads trigger deployments through
`DeployService.trigger`; pages follow jobs through socket rooms and polls; the
migration command fills a bulk import through the API.

**Hard behaviours.** Cancels and edits that race a worker; blind writes after a
read (statuses, ports, indexes, variables, manifests); crashes between two writes
and the re-delivery after them; leases that expire under their holder; commands
that outlive their job; rows deleted under a worker; answers that arrive when the
form says something else; marks that are positions in a listing that has changed;
files and rows that must be rolled back together; scripts cut short and run
again. `PROJECT.json` lists them one by one under "hazards", with the
properties that answer for them.

## 2. How the modules are written

* A row is an element of a function from ids; "none" is a row that is not there.
  Logs, counters, timestamps and payloads are left out unless a property is about
  them.
* A guard the code checks before an `await` is a guard of the action that reads,
  and is *not* repeated by the action that writes. A database call that is atomic
  in Postgres is one action; a read followed by a write is two; a function that
  awaits nothing in between is one.
* `req` holds an HTTP handler for each member of `Handlers`; `worker` is the
  single worker of a queue (concurrency 1 is the default and nothing overrides
  it): `pc` names the next statement, the other fields are the locals that are
  used after an `await`.
* `job`, `stalls`, `queue` are BullMQ: a job is waiting, active, stalled, done or
  failed; `stalls` is its stalled counter, of which BullMQ allows one.
* An update of a deleted row throws (Prisma P2025), and so does an insert whose
  foreign key is gone; the action takes the branch that the code's `catch` or its
  absence prescribes.
* A page's requests are a set or a sequence of what was asked, answered in any
  order, late or never; its effects, timers and React Query's cache are variables.
* A script is a program counter and what it has changed; each step may fail, and
  `Kill` or `Die` ends it anywhere. What the shell reports (`set -e`, a pipe's
  status) decides what comes next.
* `Faults` is a set of names: a `.cfg` says which faults its run injects.
* A property that holds only of patient users or writers that do not overlap
  says so through a variable the model keeps for it (`calm`, `patient`, `dirty`,
  `overlap`, `hurried`, `strayed`, `shifted`, ...). Each is set by a named
  combination of steps, never by the violation itself. What the code does outside
  of the condition is in section 5.

## 3. Modules

**Lock, deployments, tasks.**
`Mutex` is the abstract specification of mutual exclusion: at most one caller
inside.
`ProjectLock` is the Redis lock in discrete time: `Acquire` is `SET NX PX`,
`GiveUp` the throw at the deadline, `Release` the Lua script, `Tick` expires the
key; `Abstract == INSTANCE Mutex`. Ages saturate at `TTL`, waits at `MaxWait`: the
code compares nothing beyond them.
`DeployPipeline`: `Trigger`, `Retry`, `Rollback` start `trigger` (`ReadProject`,
`CreateRow`, `Enqueue`); `Cancel`, `WriteCancelled`; the worker's `Take`,
`AcquireLock` or `LockTimeout`, `Load`, `MarkRunning`, `StartStage`/`EndStage`,
`Finish`, `Activate`, `Unlock`. A stage is abstracted to whether it succeeds,
`procs` to the shell processes alive, and the lock to its owner.
`TaskRuns`: the service with its cancel by status, the worker with the child
process, and the start-up sweep, which runs while the worker already works.
`ProjectExecutions` composes the two: one process, one key, one project;
`LockMutex == INSTANCE Mutex` is what they implement together.

**Projects and what belongs to them.**
`PortAllocation`: the awaits of allocate and release inside create and delete,
each of which may fail.
`Projects`: create, update, delete and the six (de)provisioning requests; a
database is a slug with a suffix, a Redis database an index.
`AppProcess`: the variables and PM2 settings as versions, the `.env` and ecosystem
files, the process; `SyncEnvFile` is the call that nobody awaits.
`NginxSites`: two sites (one static) that nginx accepts only together;
`Backup`, write, test, and the roll-back of file and row, which removes the zones of
a cache whatever the restored file needs; `WriteSite` of a deployment drops the row's
locations.
`ConnectionPool`: a client remembers the version of the configuration it was made
from; ending a PostgreSQL pool takes a while, and the entry stays meanwhile.
`LogTails`: the room, the tails that start and end, the map's one entry; a log that
may not be there before the application's `FirstStart`.
`StaticSite`: an archive unpacked over the directory, the rows cleared, a
deployment triggered, and publications from the rows: `FindFiles`, `RemoveSite` with
`RemoveFile` for each file, `MakeDirectory`, `WriteFile`, `Published`; `SyncFails` and
`Stops` end one anywhere. From `RemoveSite` on the code awaits nothing, so that only a
crash, and who visits the site, sees what is in between.
`Webhooks`: both receivers, the duplicate check, the filter, the deployment, the
replay, and the configuration requests with their calls to GitHub.
`Accounts`: set-ups, invites and acceptances at every await, roles, deletions.

**Long jobs.**
`DataMigration`: `processRemoteMigration` and `processFileMigration`; the target
is `existing` (its tables) and `data` (whether old rows and rows of the source are
in them). `psql` and `pg_restore` load any subset of the tables.
`StorageImport`: items of remote buckets, files, archives and URLs with their
keys, the strategies, the hourly sweep of uploads. `Stat` may find that a key which
exists does not (`objectExists` takes any error for an absence), and `Upload` puts
another client's object between it and the worker's put; `unseen` remembers either.
`BulkImport`: upload, configuration, start, and the worker's stages; `project`
says for each slug whose project it is.
`LiveView`: the server writes, then emits; the page joins, polls, announces. A row that has
ended may be overwritten or run again (`Rewrite`): the workers write over a
cancellation, and only CANCELLED stops a re-delivery.

**Pages.**
`StaticEditor` (a text is the set of edits it contains), `SettingsPage` (a variable
is its name), `NewProject`, `StorageWizard`, `MigrationWizard` (an object or table
bears the source it is of), `StorageBrowser` (a key is its folders and name; moves
copy object by object), `DatabaseBrowser` (a row is its key; marks are positions),
`ProjectFiles` (sizes under two limits), `ImportPages` (of an item of a bulk import its
variables; the polled query, the form and the backend's answers). Each contains the page and the service
behind it, at the service's awaits.

**Server.**
`Upgrade`, `ServerScripts`, `Installer`, `MigrateCli`: the scripts and commands,
failing and killed at every step, more than once on one server. The installer's tasks
for Redis, nginx and MinIO ignore the exit codes of their commands: `Unheeded` lets
one fail and be done all the same, at most `MaxSilent` times.

**For TLC.**
Values that a `.cfg` cannot write (`TwoStages`, `OneStage`, `NginxSettings`, ...) are
definitions of the module a run is of.
`MCPlatform` and `Progress` put components that share no state side by side,
as a *disjoint sum*: `turn` is chosen in the initial state and never changes, and
the next-state relation is the chosen component's, with everything else
unchanged. The reachable states are those of the components, side by side and
not multiplied. A property of the sum has the form `turn = "pool" => Cp!NoClientLost`,
so that an invariant of the run is a conjunction of invariants of the
components, each stated and commented in its own module.
`Services` is the part of that sum that is the backend's: the live logs, the pool,
a static site, a project's process, the nginx sites, the resources of the projects,
the users, the webhooks twice (their configuration, and their deliveries) and
deployments under edits, with `ServicesSpec` of its own. Where two of them have a variable of one name it is
one variable, of whichever runs. `Servers` is in the same way what is run on a server
from outside the backend (`Upgrade`, `ServerScripts`, `Installer`; `duty` says which), with
`ServersSpec`, and `Pages` the seven pages that keep what their user does (`StaticEditor`,
`SettingsPage`, `NewProject`, `StorageWizard`, `MigrationWizard`, `ImportPages`, `StorageBrowser`;
`view` says which), with `PagesSpec`. `MCPlatform` extends `Services`, `Servers`, `Pages` and
`PortAllocation` and instantiates the rest (`MigrateCli` and the browsers of database and files) over
`v1`, `v2`, ...; a component of n variables uses the first n. `Progress` is the same sum
for the components whose work must end (the lock, the deliveries, the imports of data and of files, the page that follows a job),
with variables of their own since fairness is of a component's step. There are
proofs about all of it, as about all of `Services`, `Servers` and `Pages`;
`MCProgress` extends it with the instance for TLC, the fairness and the liveness
properties.

Theorems are in modules named `..._proofs`, which extend the module they are about;
those of the logs, the pool, the static site, the process, the nginx sites, the projects,
the users and the ports are in `Services_proofs`, those of the lock, of the imports of data
and of files, of the page that follows a job and of `Servers` in `Progress_proofs`, and
those of the pages that keep what their user does in `Pages_proofs`.

## 4. Runs

| run | instance | shows |
|---|---|---|
| `deploy_pipeline` | 2 deployments, 1 request in flight, 2 required stages, no edit of the pipeline; crash, stall, lock timeout, stage timeout, deletion of the project | SUCCESS is earned; stages run in order, a failure says where to resume, skipped stages had passed; a completed job settles its row; every queued job settles |
| `deploy_cancel` (violated) | 1 deployment, no fault | a cancelled deployment is resurrected |
| `task_runs` | 2 runs, 1 request in flight; crash, orphaned commands, stall, lock timeout, overrun, delete | nobody is left RUNNING, a killed run ends CANCELLED, a completed job settles its run, a cancel frees the worker, only a running command stops the queue |
| `task_cancel` (violated) | 2 runs, no fault | a run cancelled in the queue is executed |
| `executions` | 1 deployment and 1 run, 1 required stage; crash, stall, lock timeout, delete | at most one process of a project is alive; the two processors implement `Mutex`; a deployment settles although a task may run for ever |
| `one_execution` (violated) | the same; stage timeout | a task runs beside the process of a stage that timed out |
| `port_reuse` (violated) | 2 projects, 1 request in flight that may fail | a delete that fails half way leaves a port with two projects |
| `bulk_import` | 2 items of different slugs or of one, 1 or 2 packages, 2 starts, 1 request in flight; crash, deletion of import and projects | a COMPLETED item made, knows and configured its own project; the final status is honest; a cancel stops before the next item; a started import ends |
| `upgrade_retry` (violated) | 2 versions, 3 upgrades | after a rolled back upgrade the second attempt reports completion with the old code |
| `settings_env` (violated) | 1 service, 2 visits, 1 edit | a second visit saves away the variable a service added |
| `platform_safety` | the disjoint sum `MCPlatform`, below | the safety of the components that share no state |
| `platform_live` | the disjoint sum `Progress`, below | the components whose work must end |

**`platform_safety`** (about 3.1 million states).

| component | instance | what holds |
|---|---|---|
| ports | 3 projects, 2 ports, 2 requests in flight that may fail | `OneRowPerProject`; serial requests never share a port |
| projects | 2 projects, 2 slugs, database and Redis, 2 indexes, names with 1 suffix, 1 update, 1 request | `SerialResourcesExclusive`, `SerialRowsAgree` |
| deploy | 2 deployments, pipelines of 1 and 2 stages with an optional one, edits, deletion, timeouts, overruns | `StageOrder`, `RetryTargetsFailure`, `SuccessEarnedStep` under edits |
| nginx | 2 sites, one static, 2 updates, 1 deployment, an accepted and a rejected setting | `RejectionRestoresStep`, `ServedAsConfigured` |
| process | 3 requests, 2 deployments, 1 request in flight | `StatusHonest`, `FilesCurrent` |
| tails | 3 clients, 5 joins, a log that is there or comes later | `RoomIsServed`, `TailsFollowRoom` |
| pool | 2 users, 1 editor, 3 configurations, 3 clients, all kinds | `QueriesReachTheRow`, `NoClientLost` |
| hooks | 3 hooks, 2 administrators | `HooksAccounted` |
| deliveries | 1 push, 2 receptions at once, 1 replay, 1 administrator | `OneDeploymentPerDelivery`, `SettledEventsKeptStep` |
| upgrade | 2 releases, 3 runs, killed anywhere, failing dump | `CompletedIsWhole`, `RollbackRestores`, `Recoverable` |
| static | 2 files, 2 edits, 2 uploads at once, 3 deployments, each failing or cut short anywhere | `SiteKeepsIndexStep` |
| scripts | 2 versions, 2 scripts at once | `SetupSatisfiesCheck`, `DeployedIsWhole`, `ApiStaysServed` |
| installer | 2 installations, 1 task that fails unnoticed | `ReportEarned`, `ReportedAsInstalled` |
| migrate | 2 projects on 1 host, 2 polls, 1 report | `ScanMerges`, `RedisDumpFresh`, `PackageKept`, `ManifestKept` |
| storage | 2 users, 1 folder name, depth 2, 2 uploads, 2 changes | `MovesKeepObjects` |
| database | 1 user, 2 tables of 1 row, pages of 1 row, 3 clicks, 1 other write | `RowsAsMeant` |
| files | 1 user, 1 directory, a file and an archive whose listing may fail, 3 pairs of limits, 2 requests | `TotalWithinLimit` |
| accounts | 2 addresses, 3 users, 1 invite, 2 requests at once | `OneOwner`, `InvitesAccounted` |
| editor | 2 files, 2 edits, 2 requests at once | `PatientEditsKept` |
| settings | 1 service, 1 variable of the user, 1 edit, 1 visit (`settings_env` has the second) | `SavedKept` |
| new | 2 repositories, 2 ports (one taken), 5 edits | `SubmissionAsChosen` |
| import wizard | 2 servers, 1 bucket, 1 object, 1 file, 1 URL, 2 edits, 2 imports | `ImportFollowed`, `SubmissionAsShown` |
| import pages | a package of 2 projects (2 and 1 variables), 1 edit or way back | `ConfiguredAsMeant`, `ImportedAsShown`, `StaysCancelled`, `BadgeHonest` |
| migration wizard | 2 databases, 1 dump, 2 tables each, 3 edits, 2 migrations | `MigrationAsListed`, `MigrationFollowed` |

**`platform_live`** (about 430 000 states).

| component | instance | what holds |
|---|---|---|
| lock | 3 callers, 4 tokens, TTL = MaxWait = 2 ticks | `LeaseHeld`, `OverlapNeedsOverrun`, `TimeoutMeansContention`, `WaitEnds` |
| hooks | 1 push, 2 receptions at once, filters that pass and stop it, crash | `OneDeploymentPerDelivery`; a received event settles unless the backend stops |
| objects | 1 storage import of 2 items, all sources and strategies; crash, deprovision, delete, sweep, a look that fails, another client's object | `CompletedHoldsItems`, `ExistingKept`, `CancelHonoured` |
| rows | 1 migration of 2 tables, 12 kinds, any contents before; crash, deprovision, delete | `CompletedHoldsSource`, `FinalStatusHonest`, `DoneJobSettlesMigration`; it ends; `CancelHonoured` |
| view | every hook, 2 lost connections, 2 polls under way, 1 rewrite of an ended row | `WatchedToTheEnd`; a page that polls learns the end |

**Why these bounds are enough to be of interest.** Two rows are the least for a
retry, for a queue with something behind its head, and for one row to disturb
another; a job is re-delivered at most once (BullMQ's limit, not ours), so that
two deliveries of a job meet each other. One request in flight suffices for
every race of a request with a worker; where requests race each other (`ports`,
`accounts`, `static`, `hooks`) there are two. Two stages (tables, items, files,
rows, sites) are the least with a "next" or an "other" one. Three callers of the
lock let one wait while another overruns and a third takes over. Two upgrades or
installations let the second meet what the first left; a third upgrade prunes a
backup. Two versions of a source let a late answer be of the other. Every action
of every module fires in some passing run, and each property is broken by a
plausible mutation of the code ("mutants"), of a bundle by one of a part. The
bounds are `Max...` constants in the guards of the actions that create, `TTL` and
`MaxWait`.

**Deadlock** is checked in `deploy_pipeline`, `task_runs` and `executions`. In the
others the bounds leave states in which nothing is left to do.

**Fairness** is no more than the code gives. A worker keeps going
(`WF(WorkerStep)`): stages have timeouts (`deploy/stages/command.stage.ts`),
`withLock` has a deadline (`WaitEnds` shows it), statements of Postgres,
copies and downloads end. A task's command has no timeout: it may run for ever, and
only a killed one has to end (`WF(R \in killed /\ Closes)`, the SIGKILL after five
seconds). BullMQ's stalled check runs (`WF(Redeliver)`), Redis expires the key of a
dead owner, the start-up sweep goes on, time passes and a waiting caller polls, the
event loop runs a received delivery to its end (`WF(Process(p))`), a page's interval
ticks and its polls are answered or fail. Nobody has to send a request or to click,
nothing has to crash, and nothing is assumed of a socket. `executions` assumes
still less: only the deploy worker and the re-delivery of its jobs.

## 5. Findings

With a run of their own:

* **A cancelled deployment goes on** (`deploy_cancel`). Cancel only writes the
  row (`deploy/deploy.service.ts:38`); the worker never reads it and overwrites
  CANCELLED with RUNNING and SUCCESS or FAILED. The deploy-engine design says
  "Kill running process, mark deployment as CANCELLED".
* **A run cancelled in the queue is executed** (`task_cancel`). While the job waits
  for the project lock it is active, so that `job.remove()` throws (and is
  ignored), CANCELLED is written, and the processor writes RUNNING over it.
* **Two executions at once** (`one_execution`). A stage that times out resolves
  before its process is killed, and SIGKILL reaches the shell only; the lock is
  released and a task starts beside it.
* **A port for two projects** (`port_reuse`). Delete releases the port before it
  deletes the project.
* **An upgrade that changes nothing reports completion** (`upgrade_retry`). The
  roll-back restores the files but not git's HEAD; the next `git checkout` of the
  same tag changes nothing, the old code is built, and the new version recorded.
* **A variable a service added is saved away** (`settings_env`). The form is filled
  from the cache of the last visit, and Save sends all variables.

Seen while modelling, and outside the conditions of the properties:

*Deployments, ports, projects.* The count and the insert of `trigger` are two
awaits, so that two deployments may bear one version number; a retry skips stages
whose results a deployment in between may have overwritten; a crash during the first
clone leaves a directory that makes the next one no first deployment; a crash
between SUCCESS and ACTIVE leaves the project's status behind. At the end of the port
range creation fails although lower numbers were never used. Two creates may claim
one free port, or one Redis index. A failed create leaves its databases; buckets are
named after the slug and not exclusive; delete leaves the process, the nginx site
and a database whose drop failed. `syncEnvFile` is not awaited: a deployment may
write the older variables last. Updating the PM2 settings of a stopped project
starts it (`projects/projects.service.ts:661`). A rejected nginx update that
overlaps another writer may restore what that one had replaced; a file nginx
refuses makes every other site's test fail until it goes. Every deployment writes the
site without the row's locations, and passes (`deploy/deploy.processor.ts:313`), where
the nginx design (line 199) has edits and deployments consistent; and a rejected
update removes the file with the zones of a cache (`nginx-config.service.ts:132`),
after which nginx refuses the restored file too if it has a cache, and with it every
test of every site. `ServedAsConfigured` and `RejectionRestoresStep` state exactly
these two exceptions.

*Tasks and long jobs.* A crash after `job.remove` strands a QUEUED run; a detached
command survives the backend, its lock expires, and a deployment may run beside
it; the design says a waiting task "does not fail", but `withLock` throws at its
deadline. Two requests may create two active migrations; a cancel or a missing
database at the start of one leaves it as it was; a migration re-delivered
after it created a table skips it, empty (strategy SKIP). A re-delivered bulk import
fails on the slug of the project its first delivery made; its DEPLOY stage is always
skipped; a package sent to a running import leaves PENDING items nothing can start;
`startImport` may write RUNNING over CANCELLED. The sweep of uploads may remove
files of an import that waits; a final status is written over CANCELLED, and so are
RUNNING (`storage-import.processor.ts:32`) and the phases of a migration
(`data-migration.processor.ts:55`, `:68`, `:76`): a page that has announced the end
stops asking and sees by the socket alone that the job runs on. An import that does
not overwrite does so where its look at a key fails (`storage-import.processor.ts:289`)
or comes before another client's upload.

*Static sites and pages.* Two publications or uploads that overlap may leave an
older archive served than the rows say (`upload/upload.controller.ts:78`). A publication
that fails or dies after its `rm -rf` leaves the site empty or in part, also without
the index page (rows `css` and `css/style.css` are enough). A room of viewers that comes
before the log file gets no tail until all have left and one joins again
(`logs/logs.service.ts:63`). The settings page sends no emptied field
(`settings/page.tsx:132`) and reports it saved. The editor
loses what is typed while a save is under way, or before a change of file. A
validation or a listing that arrives late is taken for the form as it is: the
storage wizard keeps marked objects when another bucket is chosen and sends the old
keys with the new bucket, and shows a validation of an older text; the migration
wizard shows, and sends, remote tables under FILE mode or the reverse, may go back
from "execute" to "tables", and leaves a failed creation unhandled; a start goes on
after its dialog is closed. In the storage browser a folder moved or renamed onto
itself (the default destination; a trailing space) is copied and then deleted, a
folder moved up over a subfolder of its name loses what is nested, and a listing of
over 100 entries destroys its stream and never answers. In the database browser
marks and the editor are positions: rows marked while another table is on its way
carry over, a pending save closes the next editor, a double click inserts twice,
and the SQL panel asks for confirmation by prefix. In the files page a failed
extraction leaves the archive, an archive whose listing cannot be read counts as empty
and passes the total limit (`project-files.service.ts:261`), Cancel keeps the chosen files, and a success closes
whichever dialog is open.

*Pages of the bulk import.* The preview's selection is never sent: every item is
imported. The form takes the variables of the manifest each time it is opened, also
after a submission, which the next one then overwrites (`configure/page.tsx:51`); its
mapper is not keyed by item, keeps the values of the first one it was shown for, and
sends them under the next item's name with the first edit there. The answer to a
submission moves the user on from wherever they are by then. A cloud import has no
items: its form is a dead end, and its service connections are never sent. A
form opened before the upload has ended configures the items there were; the end
of an upload overwrites a cancel, and so does a start that has looked at the status
before it (`import.service.ts:311`). A failure of the start is swallowed, and the page
goes on saying "Import in progress".

*Accounts.* Two overlapping set-ups make two owners; an invite accepted twice at
once, or stopped before its mark, makes two accounts; when the last user is
deleted the set-up is open again; the frontend asks for `POST /auth/refresh`, which
no controller answers, so that a 401 always ends at the login.

*Server.* The installer's nginx configuration with SSL names a certificate that does
not exist yet, so that `nginx -t` and certbot fail; its report says "running"
whatever non-critical task failed, and its tasks for Redis and MinIO (and most of
nginx's) count as done whatever their commands returned (`initialize.tsx:103`, `:149`); a second installation makes old secrets
unreadable and leaves MinIO with its old keys. `env-setup.sh` cut short between
MinIO's binary and its service is never completed by a later run. `setup-ssl.sh`
leaves a window without the API's site. The migration command does not notice a
failed `pg_dump` (the pipe's status is gzip's), its reports may overwrite the
upload's manifest, asks for URLs without `/api`, and takes cron lines by a
prefix of the directory.

## 6. Proofs

TLC checks the instances of section 4; the theorems below hold for every value of
the constants that satisfies the modules' assumptions. These are named, stand in
the modules that declare the constants, and are as weak as the code allows:
`LockAssumption` (the TTL is positive, the deadline is a number, `NoToken` is no
token), `PortAssumption` (ports are positive, the markers are no projects),
`TaskAssumption` and `DeployAssumption` (at least one row; finitely many deploy
requests in flight; pipelines are sequences of stages; faults are known ones),
`ImportAssumption` (there is a slug; slugs and requests in flight are finitely many),
`WebhooksAssumption`, `NginxSitesAssumption`, `ProjectsAssumption`, `AccountsAssumption` (a
marker is no setting, no row and no address), and so on. `Services` conjoins those of the components it
instantiates (`ServicesAssumption`), `Servers` its own (`ServersAssumption`: finite bounds, known faults,
and a marker that is no release), `Pages` its own (`PagesAssumption`: bounds that are numbers, a package
that is a sequence of sets of variables, and a marker that is no value). `MCPlatform` and
`MCProgress` ASSUME them, so that TLC evaluates them, and the theorems have the form `XAssumption => (Spec => ...)`.

Most of the properties are not inductive. What follows names for each theorem the
invariant that is, and why the property needs it.

**`DeployPipeline_proofs`.** For every number of deployments, any pipelines,
every set of faults, and the pipeline edited at any time:

* `TypeCorrect`: types. Ids do not run out, although the guard that counts rows is in
  the step that begins a request: `RoomInv` keeps one row in reserve for each
  request on its way.
* `SuccessIsEarned`: SUCCESS is written after every stage of the worker's plan has passed.
  `StageInv` adds that whoever speaks of a deployment has its row while the project
  stays (`Attended`: otherwise a new row could take its place), and that the worker's
  place in its plan agrees with the row (`Progress`). `RetryTargetsFailure` is part
  of it: a FAILED row has a first FAILED stage, where `Retry` starts.
* `CompletedJobSettles`: a completed job leaves a row with a final status. `JobInv` adds that a
  job is in the queue once and only while it waits, that the job in hand is not
  done, that no two requests add one job (`QueueInv`), and that what the worker
  leaves without an exception is settled (`LeftSettled`). Without `QueueInv` a second
  delivery could write RUNNING over the row of a job that is done.
* `StagesRunInOrder`: order, where to resume, and that a skipped stage had passed in
  an earlier deployment. The last is about history: `SkipInv` adds that rows are
  numbered without a gap, that a FAILED deployment is over unless BullMQ delivered it
  twice (`Over`, `stalls`), and that every request about to skip stages can name the
  row that justifies each (`Past`).

**`ProjectExecutions_proofs`.** For every number of deployments, runs and requests:
`ProcessorsExclude`: unless a callback overruns the TTL, the two processors implement
`Mutex`. The invariant is that who is inside `withLock` owns the key and the other way
round (`OwnerInside`); `AcquireLock` maps to `Enter`, `Unlock` to `Leave`, a crash of
the backend to `Crash`, the rest stutters. `OneAtATime`: if, moreover, no stage times out
and no command survives a crash (`Punctual`), at most one process of the project is
alive (`OneExecution`). `AwaitedProcesses` adds that a process lives only while its processor
waits for it. `one_execution` shows that the timeout has to be excluded.

**`TaskRuns_proofs`.** For every number of runs and requests in flight, and every
set of faults:
`TypeCorrect`: types, and that a worker or handler that needs a run has one.
`NoRunAbandoned`: `RunningIsAttended` is inductive with the types alone: the proof is
that every step which writes RUNNING, or lets go of a run, is followed up.
`KilledEndsCancelled`: `KilledRunIsCancelled` speaks of the moment after the final
update only. `KillInv` follows a killed run there from the kill (`KilledInHand`) and
says that the start-up sweep runs with no kill outstanding and no request under way
(`BootQuiet`), since otherwise it would write FAILED over CANCELLED.
`CompletedJobSettles`: `SettleInv` adds that the job in hand is not completed
and that its row is missing only if its task is (`InHand`: otherwise a new run could
take the id), and that what is left behind at the unlock is settled
(`UnlockSettled`).

**`Progress_proofs`.** The lock, for any callers, tokens, TTL and deadline.
`TypeCorrect`: types. `LeaseSafety`: a callback within its TTL owns the key.
`OverlapSafety`: two callbacks overlap only after an overrun. Neither is inductive:
a tick could expire a key early, and a release could delete the key of a caller
that bears the same token. `IInv` therefore adds that the key is free exactly when
nothing of its time is left (`KeyMatchesExpiry`), that who is inside has a token
(`HolderHasToken`), that no two have the same one (`TokensDistinct`), and that the
time left on the key and the time the owner has been inside add up to the TTL
(`LeaseExact`). `TimeoutNeedsContention` follows from the same invariant under
`MaxWait >= TTL`. `LockImplementsMutex`: every behaviour whose callbacks keep within
the TTL (`BoundedSpec`: every step leads to a state with `NoOverrun`) is one of `Mutex` under
the mapping that sends the state to the callers inside; `Acquire`, `Release` and
`Crash` map to the actions of the same idea, the rest stutters. Without the
hypothesis it is false, and the code does not establish it: that is the point of
the `overrun` fault of the other modules.

The imports of data, for any tables, kinds, faults, requests and bound.
`TablesHoldTheirSource` and `FinalStatusIsHonest` speak of one step, the write of
COMPLETED; what it stands on was done by many steps before, maybe by an earlier
delivery. `DmInv` adds what the worker relies on at each of its places: until the
database goes away, the table it appends to or copies exists, the one it is about to
complete holds the rows of the source, and after a strict SQL load all of them do
(`DmCopied`); the tables it is through with are COMPLETED, SKIPPED or FAILED in
their rows (`DmTally`: otherwise a table left PENDING by the delivery before could
hide in a COMPLETED migration); its job is active, and final when it is about to be
done (`DmAtJob`, `DmOver`). `DmRows` says that a request which fills in its row has
it to itself, and `DmRoom` that requests under way are counted against the bound, so
that a new row is new: a request never writes under the worker's hands.
The imports of files, for any items, keys, sources and strategies.
`ImportsHoldTheirItems` and `ExistingObjectsAreKept`: `SiInv` adds that the items the worker is
through with are in the bucket (`SiHeld`) and that an object it is about to write
replaces nothing old unless the import overwrites (`SiAtJob`: the check and the
write are two steps), but for an object its look at the key has not shown.
The page, for any hooks, losses, polls and rewrites. `WatchedToTheEnd` is not inductive: a
message or an answer on its way could say DONE of a job that never ended. `LvUnderWay` says
that until the row has first been DONE nothing under way is.
`ProgressTypes`, `EverythingSettlesOnce` and `EndsAreHonest` state the run's safety
bundles for the sum: `AllSteps` says once that each component takes its own steps or
none, so that a behaviour of the sum is one of each (`AllOwn`).

The upgrades (`UpgradesAreWhole`), for any releases, runs and faults. The three properties
speak of how an upgrade ended and of the pull. `UpgradedSoFar` says what each place of the
script stands on: from the build on the schema is at least the files', from the
front end on the build is theirs, and on the way back the files, then the build,
are the backup's. `BackedUp` adds that past the pull the newest backup is filled
and remembers the recorded version, although a run killed between its two steps
leaves an empty one, and that pruning never takes the newest.
The scripts (`ScriptsAreWhole`), for any sources and runs of two actors. `SetUpSoFar`: whatever the
set-up is past stays, MinIO's half-made service excepted, which is where a cut run
strays. `DeployedSoFar`: until two scripts overlap, who is at work is alone, and what
it has built so far is of the tree it pulled (`Built`): otherwise a pull of the other
would make the release one of two sources. `SitesKept`: unless the certificate's
script is cut, it is alone, and between its removal of one site and its link of
the other nginx still serves what it loaded.
The installer (`InstallsAreReported`), for any number of installations. `ReportEarned` is of the last state; `TasksSoFar`
says for each of the sixteen tasks what it leaves once it is behind, unless it is among those
that failed (`undone`), on a server that an earlier installation has left in any
state; what a task that nobody looks at leaves, only if it has not failed unnoticed
(`silent`); `Depended` that a dependency is there or missed; `Counted` that a
configuration file is of this installation or of none, and MinIO's process of this or an earlier one.
`ServersAreWhole` states the types and the run's bundle for the sum of the three.

**`Pages_proofs`.** The pages, for any files, variables, repositories, objects, tables and
bounds. Their properties speak of the moment when nothing is under way, or of what was
sent; the invariants follow the user's choice through every timer, call and late answer to there.

* `PatientEditsAreKept` (`EdInv`): of each file the edits are in the table, or in the timer, or
  in the one request on its way (`EdEdits`, `EdSent`). `EdAsked` and `EdShown` are why
  the page shows them: what it has cached is the table, or a refetch will be, and a
  delete lets it go to another file whose text it has.
* `SavedSettingsAreKept` (`SpInv`): the row is as the user wants but for the save on its way
  (`SpRows`), and the form is the row but for what was added and removed since
  (`SpFilled`). `SpCalls` and `SpRead` say that while all is calm nothing writes the row
  under a read for the page; a visit that starts from old answers breaks exactly
  `SpFilled`, which is what `settings_env` shows.
* `SubmittedAsChosen` (`NpInv`): every question about branches that will fill in a blank
  branch asks for the one meant (`NpBranch`), and the port in the form is the one under
  check, or passed it (`NpPort`): an answer for another one is not shown.
* `ImportsAreAsShown` (`SwInv`): what is listed, valid, started and created is of the form as
  it is (`SwListed`, `SwOrdered`), one start at a time (`SwOrders`); the dialog's import
  is the last created (`SwFollowed`).
* `MigrationsAreAsListed` (`MwInv`): the same, with one call at a time: `MwListed` says that it
  is of the form's mode and source, so that the tables it lists are too.
* `ImportPagesAreHonest` (`IpInv`): the form, what it has sent and what is stored agree with
  what was meant of each item (`IpFilled`), although a poll may open the form again;
  a form opened after the upload holds all items, and so everything from its
  submission on finds them configured (`IpWhole`); a test is of the fields as they
  are (`IpBadge`).
* `ObjectsAreKept` (`SbInv`): while no two requests met in a key and no move met its own, the
  keys of the requests under way are apart (`SbApart`), a move copies to none that it will
  remove (`SbFresh`), and what it has copied is at its new key as long as it is at the old
  one (`SbCopied`): its last step, which removes what it listed, then loses nothing.

`PagesAreKept` states the types and the run's bundle for the sum of the seven: `OnePage`
says once that the page that is open takes its own steps and stays open.

**`BulkImport_proofs`.** For any slugs (finitely many), packages, bounds, faults and requests in
flight. `IInv` has five parts. `RoomKept` counts what is in flight against the
bounds, so that a row or a job that is made is a new one. `HandsOnRows`: what requests and
the worker hold are jobs that were added and, while the import is there, items
that are rows. `Tally`: what the worker remembers of the items it is through with is
what their rows say, but for those a cancel has overwritten. `Linked`: a project
belongs to the item it was made for; once it is stored the worker's item is linked
to it. With these, `TypeCorrect` (also that links lead to an item's own project),
`CompletedIsWhole` (`ImportedWhole`: without `Linked` a re-delivered item could
complete on the project of another with the same slug) and `OutcomeHonest`
(`FinalStatusHonest`: without `Tally` the one boolean `hasFailures` says nothing of
the rows). `StartedImportEnds` and `CancelHonoured` are liveness, with TLC.

**`Webhooks_proofs`.** For any deliveries, filters, processors and administrators.
`DeliveredOnce`: one deployment for each delivery and each replay, and
`HooksAccounted`. `Held` adds that past the insert a processor holds an event that
nobody else does, not settled yet, and that what has been deployed for it is what
its place says; `Signed` that the row's secret is that of the hook it names, through
every request between its call to GitHub and its write; `Serial` what GitHub has
at each of these places while requests are serial (`AtWork`). `SettledStaysSettled`
follows from `Held`: only the holder writes a status, and what it holds is RECEIVED.

**`Services_proofs`.** `Services` is the disjoint sum of ten instances (live logs,
pool, static site, process, nginx sites, projects, users, webhook configuration,
deliveries, deployments under edits) in which `turn` says which of them runs. `OwnStart`, `OnlyItsOwnSteps` and
`NoOtherSteps` say once that the sum starts, moves and stutters as the component whose turn it
is; each bundle then follows from the theorems of the components. These are proved
there or, for webhooks and deployments, taken from their proof modules through
the instances (`Dv!IInvStep`, `Dp!...`).

* `ViewersAreServed` (of rooms whose first viewer found the log file): inductive with the
  number of starts under way counted right:
  a join that starts no tail found somebody in the room (`FirstJoinStarts`), and a
  leave stops the tail of an empty room only (`TailOutlivesLeave`).
  `TailsAsWatched`: `StartsAlone` adds that without overlaps a start is the only one,
  of a room with clients and no tail yet.
* `NoneLost`: `PoolInv` adds that while a PostgreSQL pool is being ended its entry stays
  in the map and keeps others from making a client (`EntryKeepsOthersOut`), and that
  only one call ends it (`OneEndsIt`): `end()` is awaited before the map is changed.
  `QueriesServed`: while all is calm the entry is of the row as it is, is gone before
  the row is written, and is what each user got (`PoolCalmInv`).
* `IndexIsKept`: a site with an index page loses it only while a publication that has
  found files removes the site for them; an archive, rejected or not, and an empty table
  leave it alone (`UnpackingKeepsIndex`). That a publication which reports SUCCESS leaves
  just the files it found needs `SiteInv`: from the emptied directory on it holds
  those files but for the ones still to be written.
* `ProcessFollowed`: `StatusHonest` and `FilesCurrent` speak of quiet moments only.
  `ProcessInv` says for every place of the one request or deployment at work
  what the files, the process and the rows are to each other (`DotEnvFollows`,
  `EcosystemFollows`, `StatusFollows`), the `syncEnvFile` that nobody awaits included.
* `SitesServed`: `SitesInv` follows the one writer through `updateConfig`: what it found
  (`FoundBy`) and wrote (`WrittenBy`), and that a site nobody works on is served as
  configured, the one at work as it was found until the reload (`Serving`).
  That a rejected update restores what it found needs no such calm, only that writers do not
  overlap; `FitInv` follows whether nginx accepted its files from the request's begin to
  the roll-back, where the zones it removes are the one thing not restored.
* `RowsAccounted`: `SerialResourcesExclusive` and `SerialRowsAgree` speak of rows. `PjInv`
  adds what the one request at work holds. As long as requests are serial: the names
  and indexes it got are of no row yet, and its database has been created (`Fresh`);
  what it gives back is what the row names (`Giving`); the database of a row exists,
  but for the one a deprovision has dropped and is about to erase (`Exist`). If no
  request failed either: the variables it will write are those of the row but for the
  kinds it is about (`Snapshot`), and a row's connections are its resources but for
  those still to be connected or disconnected (`Linked`, `ToConnect`). Without `Fresh`
  the insert could give away a name a second time; without `Snapshot` it could write
  the variables of a resource that is gone. The count of Redis indexes in use, instead
  of one past the highest, breaks `Fresh` (the mutant of `ResourcesAccounted`).
* `AccountsAccounted`: `OwnerInv` adds that, unless set-ups met, a set-up past its count is
  the only one and there is no owner yet, and that an owner means that somebody is
  left unless the last user was deleted. `InviteInv` adds that an invite without a mark
  has an account only while the acceptance that made it is about to mark it.
* `TailsAndClientsHold`, `DeliveriesAreAccounted`, `ResourcesAreAccounted`,
  `RunAsConfigured`, `EditedStagesStayInOrder` and `StepsAreHonest` state the run's
  bundles for the sum.

The ports, which have a turn of their own, for any range, projects, requests and requested
ports. `NeverTwoRows`: a project never owns two allocation rows, whatever overlaps. The
strengthening `RowInv` says that a project under creation has one creating request and owns
no row until that request has claimed or inserted it (`CreatorInv`), and that owners
were created (`OwnersCreated`). `SerialExclusive`: as long as requests do not
overlap and no delete has stopped half way (`Serial`), no two projects bear one
port. The invariant is `SerialInv`: the row of a project's port names it, or is
free with its delete at the last step (`PortsOwned`), and a request under way
works on what is still true (`RequestsCurrent`). Both need "as long as": `port_reuse`
shows what a stopped delete does, and two overlapping creates can claim one free
row.

`MCPlatform` extends `Services`. In the turns of `Services`, `AllSpec` starts as `ServicesInit`
and steps as `ServicesNext`, with its own variables unchanged beside it, so that what
is proved of `ServicesSpec` is what the run checks there. It relates to `Servers` in its one
turn `servers`, to `Pages` in the turn `pages`, and to `PortAllocation` in the turn
`ports`, in the same way.

Each strengthening was checked with TLC on the instance of its run before it was
proved. Proofs are laid out with one step for each action, and with lemmas for what
several actions share (`GotoStep`, `KilledUndisturbed`, `StageWritten`, `OverKept`,
`Moved`, `RequestFrame`, `RoomFrame`).

What the proofs found in the model: `DataMigration` did not say that its handlers are
finitely many, nor `LiveView` that its hooks are the code's; the `CASE` of `WriteConfig` (`Webhooks`)
overlapped when there was no configuration, and its value was then TLC's choice;
and nothing said that the marker `None` was no setting of `NginxSites`, no row of
`Projects`, no release of `Upgrade` and no user or invite of `Accounts`, without which such a row counts as
none. The types of `Upgrade` bounded the backups by one more than are kept: that is false of the
code, where every run killed before its pruning leaves one more,
and only the bound on runs hid it. Two arms of a `CASE` in `ServerScripts` (`After`)
overlapped. Nothing said that the bounds of the pages are numbers, that a package
is a sequence, or that their marker is no file, variable, repository, server or set of
URLs. All are mended. `ApiStaysServed` turned out to hold also before there is
a certificate and while `setup-ssl.sh` is at work, and is now stated so.

**Out of reach of the prover**, and therefore with TLC only: liveness under fairness
and `ENABLED`; what a recursive definition computes for every input (induction
over data). No module declares a RECURSIVE operator.

## 7. What is only model-checked, and what is not modelled

Only model-checked, for the bounds of section 4: all liveness properties; in
`platform_safety` `BrowsersHonest` (its sums of sizes and merged scans are folds, and what
a fold computes is induction over data) and `AllTypeOK` (the sums' parts of it are proved:
`ServersTypeOK`, `PagesTypeOK` and the ports'). Every safety property of `platform_live`
is proved.

Abstractions that a reader should know of:

* Commands, SQL, HTTP and the file system are reduced to their outcomes. A stage
  succeeds, fails or times out; a restore loads any subset of the tables.
* Redis and Postgres do not fail, except where an action says so (`Fail`); a
  request's failure between two awaits is elsewhere the crash.
* `DeployPipeline` and the modules beside it see the lock through its owner. That this is
  what `ProjectLock` gives while nobody overruns is `LockImplementsMutex`; the step
  from the one to the other is by inspection, not by an INSTANCE.
* One project, one task, one migration, one import at a time, except where the
  property is about several (`PortAllocation`, `Projects`, `NginxSites`). That one
  project's job can hold up another's in the shared queue is a hazard with no property.
* The pages of the frontend are modelled where they keep state of their own (wizards,
  editors, browsers); rendering, wording and layout are left out.
* Ages, waits and counters saturate or are bounded as named in section 4.

Not modelled, with the reasons in `PROJECT.json`: the Redis browser, domains,
analytics, the GitHub App's token cache, and the pages that only show rows. They
keep no state that several steps share, or consist of calls to external services.
Of the parts listed there as "partly" modelled the note names what is left out.

## 8. Plan

Done: every module of section 3, the 12 runs, and the theorems of section 6.

Left, in this order:

1. `BrowsersHonest`: the database browser's marks and the migration command's package,
   each for itself, as the pages were; the limits of the project's files and the
   merged scan stay with TLC.
2. An INSTANCE of `ProjectLock` in `DeployPipeline`, so that the abstract lock there is a
   refinement by proof.
