\* Two job queues contend for the lock (deploy, tasks) and a third caller
\* stands for a job re-delivered after a restart.  MaxWait = TTL as in the
\* defaults.
CONSTANTS
  Callers = {deploy, tasks, redelivered}
  Token = {t1, t2, t3, t4}
  NoToken = NoToken
  TTL = 2
  MaxWait = 2
  MainPush = MainPush
  None = None
  \* One push, delivered once; a hook whose filter lets it pass or not.
  Pushes <- Deliveries
  HookFilters <- EveryFilter
  MaxReplays = 0
  Processors = {"p1", "p2"}
  HookAdmins = {"a1"}
  MaxHooks = 1
  \* One import of two items and one migration of two tables.
  Item = {"i1", "i2"}
  Key = {"k1", "k2"}
  KeyOf <- KeyOfItem
  Sources = {"REMOTE", "FILES", "ARCHIVE", "URL"}
  Strategies = {"SKIP", "OVERWRITE", "ERROR"}
  MaxImports = 1
  Importers = {"h1"}
  ImportFaults = {"crash", "deprovision", "delete", "clean", "upload"}
  MaxMigrations = 1
  Table = {"t1", "t2"}
  Kinds <- EveryKind
  Migrators = {"h1"}
  MigrationFaults = {"crash", "deprovision", "delete"}
  \* Pages of each kind; two messages are lost and the page asks twice.
  Hooks <- EveryHook
  MaxDrops = 2
  MaxPolls = 2
  \* An ended row is written again once.
  MaxRestarts = 1
SPECIFICATION AllFairSpec
INVARIANTS
  AllTypeOK
  LeaseHeld
  OverlapNeedsOverrun
  SettledOnce
PROPERTIES
  TimeoutMeansContention
  EndsHonest
  WaitEnds
  JobsSettle
  CancelsHonoured
CHECK_DEADLOCK FALSE
