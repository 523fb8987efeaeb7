--------------------------------- MODULE Pages ---------------------------------
(***************************************************************************)
(* The disjoint sum of the frontend's pages that keep what their user does *)
(* (Ed: the editor of a static site, Sp: a project's settings, Np: a new   *)
(* project, Sw: the storage wizard, Mw: the migration wizard, Ip: the      *)
(* pages of the bulk import, Sb: the storage browser).  view says which of *)
(* them is open; what it does is what it does on its own.  Variables of    *)
(* one name are one variable, of whichever is open.                        *)
(***************************************************************************)
EXTENDS Naturals

CONSTANTS
  PageFiles, FileEdits, MaxSent, FileCalls,                      \* StaticEditor
  ServiceKinds, UserVariables, SettingEdits, MaxVisits, SettingCalls, \* SettingsPage
  Repos, TypedPorts, TakenPorts, ProjectEdits,                   \* NewProject
  StorageServers, StorageBuckets, ObjectNames, LocalFiles, DownloadUrls, ImportEdits,
  MaxImports,                                                    \* StorageWizard
  SourceDatabases, Dumps, CreatingDumps, TableNames, TooBig, MigrationEdits,
  MaxMigrations,                                                 \* MigrationWizard
  Package, MaxActs,                                              \* ImportPages
  Browsers, FolderNames, FolderDepth, ListingSize, BrowserUploads, BrowserChanges,
                                                                 \* StorageBrowser
  NoValue  \* no value; that of what is not open

VARIABLES
  view,
  text, timer, typed, hurried,
  details, variables, want, added, removed, renamed, calmly, fresh, visits,
  file, branchTimer, branchCalls, portStatus, portTimer, portCalls, patient,
  remote, chosen, urls, importId,
  connection, fileKey, tables, strategy, migrationId,
  uploading, job, page, started, service, submitted, early, cancelled, acts,
  stored, known, fetch, selected, standing, sent, shown, changes, calls, form,
  stage, meant, sourceMode, starts, unfinished, strayed, lost

Ed == INSTANCE StaticEditor WITH
  Files <- PageFiles, MaxEdits <- FileEdits, MaxCalls <- FileCalls,
  None <- NoValue, rows <- stored, cache <- known, status <- standing,
  open <- shown, edits <- changes
Sp == INSTANCE SettingsPage WITH
  Kinds <- ServiceKinds, User <- UserVariables, MaxEdits <- SettingEdits,
  MaxCalls <- SettingCalls, None <- NoValue, project <- details, env <- variables,
  cache <- known, open <- shown, calm <- calmly, edits <- changes
Np == INSTANCE NewProject WITH
  Repo <- Repos, Port <- TypedPorts, Taken <- TakenPorts,
  MaxEdits <- ProjectEdits, None <- NoValue, step <- stage, edits <- changes
Sw == INSTANCE StorageWizard WITH
  Servers <- StorageServers, Buckets <- StorageBuckets, Names <- ObjectNames,
  Files <- LocalFiles, Urls <- DownloadUrls, MaxEdits <- ImportEdits,
  None <- NoValue, step <- stage, files <- chosen, open <- shown,
  active <- unfinished, edits <- changes
Mw == INSTANCE MigrationWizard WITH
  Databases <- SourceDatabases, Created <- CreatingDumps, Names <- TableNames,
  MaxEdits <- MigrationEdits, None <- NoValue, step <- stage, open <- shown,
  active <- unfinished, edits <- changes
Ip == INSTANCE ImportPages WITH
  None <- NoValue, status <- standing, upload <- uploading, rows <- stored,
  cache <- known, saved <- submitted
Sb == INSTANCE StorageBrowser WITH
  Users <- Browsers, Folders <- FolderNames, MaxDepth <- FolderDepth,
  MaxKeys <- ListingSize, MaxUploads <- BrowserUploads, MaxChanges <- BrowserChanges,
  objects <- stored, prefix <- form, op <- calls, uploads <- starts, gone <- lost,
  raced <- strayed, onto <- unfinished

PagesAssumption ==
  /\ Ed!StaticEditorAssumption /\ Sp!SettingsPageAssumption /\ Np!NewProjectAssumption
  /\ Sw!StorageWizardAssumption /\ Mw!MigrationWizardAssumption /\ Ip!ImportPagesAssumption
  /\ Sb!StorageBrowserAssumption

\* The variables of one page only, and those that several have.
edited == <<text, timer, typed, hurried>>
configured == <<details, variables, want, added, removed, renamed, calmly, fresh,
                visits>>
entered == <<file, branchTimer, branchCalls, portStatus, portTimer, portCalls,
             patient>>
browsed == <<remote, chosen, urls, importId>>
listed == <<connection, fileKey, tables, strategy, migrationId>>
followed == <<uploading, job, page, started, service, submitted, early, cancelled,
              acts>>
several == <<stored, known, fetch, selected, standing, sent, shown, changes,
             calls, form, stage, meant, sourceMode, starts, unfinished, strayed,
             lost>>
pages == <<view, edited, configured, entered, browsed, listed, followed, several>>

NotEdited ==
  /\ text = NoValue /\ timer = NoValue /\ typed = NoValue /\ hurried = NoValue
NotConfigured ==
  /\ details = NoValue /\ variables = NoValue /\ want = NoValue /\ added = NoValue
  /\ removed = NoValue /\ renamed = NoValue /\ calmly = NoValue /\ fresh = NoValue
  /\ visits = NoValue
NotEntered ==
  /\ file = NoValue /\ branchTimer = NoValue /\ branchCalls = NoValue
  /\ portStatus = NoValue /\ portTimer = NoValue /\ portCalls = NoValue
  /\ patient = NoValue
NotBrowsed ==
  /\ remote = NoValue /\ chosen = NoValue /\ urls = NoValue /\ importId = NoValue
NotListed ==
  /\ connection = NoValue /\ fileKey = NoValue /\ tables = NoValue
  /\ strategy = NoValue /\ migrationId = NoValue
NotFollowed ==
  /\ uploading = NoValue /\ job = NoValue /\ page = NoValue /\ started = NoValue
  /\ service = NoValue /\ submitted = NoValue /\ early = NoValue /\ cancelled = NoValue
  /\ acts = NoValue

PagesInit ==
  \/ /\ view = "editor" /\ Ed!Init
     /\ NotConfigured /\ NotEntered /\ NotBrowsed /\ NotListed /\ NotFollowed
     /\ form = NoValue /\ stage = NoValue /\ meant = NoValue /\ sourceMode = NoValue
     /\ starts = NoValue /\ unfinished = NoValue /\ strayed = NoValue /\ lost = NoValue
  \/ /\ view = "settings" /\ Sp!Init
     /\ NotEdited /\ NotEntered /\ NotBrowsed /\ NotListed /\ NotFollowed
     /\ stored = NoValue /\ selected = NoValue /\ standing = NoValue /\ sent = NoValue
     /\ stage = NoValue /\ meant = NoValue /\ sourceMode = NoValue /\ starts = NoValue
     /\ unfinished = NoValue /\ strayed = NoValue /\ lost = NoValue
  \/ /\ view = "new" /\ Np!Init
     /\ NotEdited /\ NotConfigured /\ NotBrowsed /\ NotListed /\ NotFollowed
     /\ stored = NoValue /\ known = NoValue /\ fetch = NoValue /\ selected = NoValue
     /\ standing = NoValue /\ sent = NoValue /\ shown = NoValue /\ calls = NoValue
     /\ sourceMode = NoValue /\ starts = NoValue /\ unfinished = NoValue
     /\ strayed = NoValue /\ lost = NoValue
  \/ /\ view = "import" /\ Sw!Init
     /\ NotEdited /\ NotConfigured /\ NotEntered /\ NotListed /\ NotFollowed
     /\ stored = NoValue /\ known = NoValue /\ fetch = NoValue /\ standing = NoValue
     /\ form = NoValue /\ meant = NoValue
  \/ /\ view = "migration" /\ Mw!Init
     /\ NotEdited /\ NotConfigured /\ NotEntered /\ NotBrowsed /\ NotFollowed
     /\ stored = NoValue /\ known = NoValue /\ fetch = NoValue /\ standing = NoValue
     /\ form = NoValue
  \/ /\ view = "bulk" /\ Ip!Init
     /\ NotEdited /\ NotConfigured /\ NotEntered /\ NotBrowsed /\ NotListed
     /\ selected = NoValue /\ sent = NoValue /\ shown = NoValue /\ changes = NoValue
     /\ stage = NoValue /\ sourceMode = NoValue /\ starts = NoValue
     /\ unfinished = NoValue /\ lost = NoValue
  \/ /\ view = "storage" /\ Sb!Init
     /\ NotEdited /\ NotConfigured /\ NotEntered /\ NotBrowsed /\ NotListed /\ NotFollowed
     /\ known = NoValue /\ fetch = NoValue /\ standing = NoValue /\ sent = NoValue
     /\ stage = NoValue /\ meant = NoValue /\ sourceMode = NoValue

Shows(p) == view = p /\ UNCHANGED view

PagesNext ==
  \/ /\ Shows("editor") /\ Ed!Next
     /\ UNCHANGED <<configured, entered, browsed, listed, followed, form, stage,
                   meant, sourceMode, starts, unfinished, strayed, lost>>
  \/ /\ Shows("settings") /\ Sp!Next
     /\ UNCHANGED <<edited, entered, browsed, listed, followed, stored, selected,
                   standing, sent, stage, meant, sourceMode, starts, unfinished,
                   strayed, lost>>
  \/ /\ Shows("new") /\ Np!Next
     /\ UNCHANGED <<edited, configured, browsed, listed, followed, stored, known,
                   fetch, selected, standing, sent, shown, calls, sourceMode,
                   starts, unfinished, strayed, lost>>
  \/ /\ Shows("import") /\ Sw!Next
     /\ UNCHANGED <<edited, configured, entered, listed, followed, stored, known,
                   fetch, standing, form, meant>>
  \/ /\ Shows("migration") /\ Mw!Next
     /\ UNCHANGED <<edited, configured, entered, browsed, followed, stored, known,
                   fetch, standing, form>>
  \/ /\ Shows("bulk") /\ Ip!Next
     /\ UNCHANGED <<edited, configured, entered, browsed, listed, selected, sent,
                   shown, changes, stage, sourceMode, starts, unfinished, lost>>
  \/ /\ Shows("storage") /\ Sb!Next
     /\ UNCHANGED <<edited, configured, entered, browsed, listed, followed, known, fetch,
                   standing, sent, stage, meant, sourceMode>>

PagesSpec == PagesInit /\ [][PagesNext]_pages

\* Each page's variables keep their types.
PagesTypeOK ==
  CASE view = "editor" -> Ed!TypeOK
    [] view = "settings" -> Sp!TypeOK
    [] view = "new" -> Np!TypeOK
    [] view = "import" -> Sw!TypeOK
    [] view = "migration" -> Mw!TypeOK
    [] view = "bulk" -> Ip!TypeOK
    [] view = "storage" -> Sb!TypeOK

----------------------------------------------------------------------------
(***************************************************************************)
(* A patient user's work is kept: the edits of a static site's files, the  *)
(* saved settings with the variables services add, and of a new project    *)
(* the repository, branch, port and file that were chosen.  An import or a *)
(* migration is of what its dialog lists for the source that is sent, and  *)
(* the dialog follows it.  Objects survive moves that do not meet.         *)
(***************************************************************************)
PagesKeepEdits ==
  /\ view = "editor" => Ed!PatientEditsKept
  /\ view = "settings" => Sp!SavedKept
  /\ view = "new" => Np!SubmissionAsChosen
  /\ view = "import" => Sw!ImportFollowed /\ Sw!SubmissionAsShown
  /\ view = "migration" => Mw!MigrationAsListed /\ Mw!MigrationFollowed
  /\ view = "bulk" =>
       Ip!ConfiguredAsMeant /\ Ip!ImportedAsShown /\ Ip!StaysCancelled /\ Ip!BadgeHonest
  /\ view = "storage" => Sb!MovesKeepObjects
===============================================================================
