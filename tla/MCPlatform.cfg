\* Ports 2 and 3 stand for 3001..3999; 4 is a request out of range.
CONSTANTS
  Project = {p1, p2, p3}
  MinPort = 2
  MaxPort = 3
  Requested = {3, 4}
  Handlers = {h1, h2}
  Free = Free
  NoEntry = NoEntry
  MainPush = MainPush
  None = None
  Viewers = {"c1", "c2", "c3"}
  MaxJoins = 5
  Queriers = {"u1", "u2"}
  Editors = {"e1"}
  MaxVersion = 3
  MaxClient = 3
  Files = 2
  MaxEdits = 2
  MaxUploads = 2
  MaxDeploys = 3
  Requests = {"h1", "h2"}
  MaxRequests = 3
  AppDeploys = 2
  Sites = {"s1", "s2"}
  Static = {"s2"}
  Settings <- NginxSettings
  MaxUpdates = 2
  SiteDeploys = 1
  Apps = {"p1", "p2"}
  Slugs = {"s1", "s2"}
  ResourceKinds = {"db", "redis"}
  MaxIndex = 2
  MaxHash = 1
  AppUpdates = 1
  Emails = {"e1", "e2"}
  MaxUsers = 3
  MaxInvites = 1
  HookFilters <- HooksFilters
  HookAdmins = {"a1", "a2"}
  MaxHooks = 3
  Pushes <- Deliveries
  PushFilters <- PushOnly
  MaxReplays = 1
  Processors = {"p1", "p2"}
  PushAdmins = {"a1"}
  MaxDeployments = 2
  Pipelines <- EditedPipelines
  Faults = {"edit", "delete", "timeout", "overrun"}
  ApiHandlers = {"h1"}
  MaxRelease = 2
  MaxUpgrades = 3
  UpgradeFaults = {"kill", "dump"}
  MaxSource = 2
  MaxRuns = 2
  MaxInstalls = 2
  MaxSilent = 1
  Unset = Unset
  PageFiles = 2
  FileEdits = 2
  MaxSent = 2
  FileCalls = 1
  ServiceKinds = {"db"}
  UserVariables = {"u1"}
  SettingEdits = 1
  MaxVisits = 1
  SettingCalls = 1
  Repos = {"r1", "r2"}
  TypedPorts = {"p1", "p2"}
  TakenPorts = {"p1"}
  ProjectEdits = 5
  StorageServers = {"s1", "s2"}
  StorageBuckets = {"b"}
  ObjectNames = {"o"}
  LocalFiles = {"f"}
  DownloadUrls = {"u"}
  ImportEdits = 2
  MaxImports = 2
  SourceDatabases = {"d1", "d2"}
  Dumps = {"sql"}
  CreatingDumps = {"sql"}
  TableNames = {1, 2}
  TooBig <- BigDumps
  MigrationEdits = 3
  MaxMigrations = 2
  Package <- ItemVariables
  MaxActs = 1
  Browsers = {"u1", "u2"}
  FolderNames = {"a"}
  FolderDepth = 2
  ListingSize = 3
  BrowserUploads = 2
  BrowserChanges = 2
  NoValue = NoValue
SPECIFICATION AllSpec
INVARIANTS
  AllTypeOK
  OneRowPerProject
  SerialRequestsExclusive
  ResourcesAccounted
  EditedStagesInOrder
  RunsAsConfigured
  TailsAndClients
  DeliveriesAccounted
  ServersWhole
  PagesKeepEdits
  BrowsersHonest
PROPERTIES
  StepsHonest
CHECK_DEADLOCK FALSE
