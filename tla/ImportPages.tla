------------------------------ MODULE ImportPages ------------------------------
(***************************************************************************)
(* The pages of ONE bulk import in one browser tab: the choice of its      *)
(* source, the command line's upload or the cloud page, the preview, the   *)
(* form that configures the items, and the page that starts the import,    *)
(* follows and cancels it; all of them on the polled answers of one query. *)
(*                                                                         *)
(* Of an item only its environment variables are told apart; those of the  *)
(* manifest have the value <<item, 0>>, the n-th edit makes <<0, n>>.  The *)
(* selection of the preview is never sent: it only enables the button.     *)
(* A submission and a start look at the status in a step of their own, as  *)
(* the backend does; the items of an upload are inserted one by one.       *)
(***************************************************************************)
EXTENDS Naturals, Sequences

CONSTANTS
  Package,  \* the names of the variables of each project of the package
  MaxActs,  \* bound: edits, and ways back
  None

VARIABLES
  status,   \* of the Import row, "none" before there is one
  upload,   \* handleUpload: "none", "inserting" or "done"; "never" in the cloud
  rows,     \* config.envVars of the ImportItem rows, None before it is set
  job,      \* jobs waiting, whether one runs, the items the last one took
  cache, fetch,  \* the query: the last answer, and the one under way
  page, form,    \* where the user is, and the form that configures
  calls,    \* the page's requests in flight
  started,  \* whether this visit has started the import
  service,  \* a service connection of the cloud page
  meant,    \* history: the variables as the user means them to be ...
  saved,    \* ... and meant them at the submission last accepted
  early,    \* ... the form was opened before the upload had ended, or on an
            \* answer from before
  strayed,  \* ... variables were edited that the form did not show, or the
            \* form was opened again after a submission
  cancelled,  \* ... a cancel came, with no start between its look and its write
  acts

server == <<status, upload, rows, job>>
query == <<cache, fetch>>
history == <<meant, saved, early, strayed, cancelled, acts>>
vars == <<server, query, page, form, calls, started, service, history>>

Items == DOMAIN Package
Vars == UNION {Package[i] : i \in Items}
Value == (Items \X {0}) \cup ({0} \X (1..MaxActs))
Env == UNION {[S -> Value] : S \in SUBSET Vars}

ImportPagesAssumption ==
  /\ Package # <<>> /\ Package \in Seq(SUBSET Vars) /\ MaxActs \in Nat
  /\ None \notin Env /\ None \notin BOOLEAN /\ None \notin {"sent", "checked"}

Status == {"none", "PENDING", "UPLOADED", "CONFIGURING", "RUNNING"}
Terminal == {"COMPLETED", "CANCELLED"}  \* the first for FAILED as well
Answer == [status : Status \cup Terminal, items : 0..Len(Package)]
Manifest == [i \in Items |-> [x \in Package[i] |-> <<i, 0>>]]
NoCalls == [submit |-> None, start |-> None, cancel |-> FALSE]
NoService == [config |-> 0, tested |-> None, asked |-> None, passed |-> {}, hasty |-> FALSE]

TypeOK ==
  /\ status \in Status \cup Terminal /\ upload \in {"none", "inserting", "done", "never"}
  /\ Len(rows) <= Len(Package) /\ \A i \in DOMAIN rows : rows[i] \in Env \cup {None}
  /\ job \in [waiting : 0..2, active : BOOLEAN, took : 0..Len(Package)]
  /\ cache \in Answer \cup {None} /\ fetch \in [got : Answer \cup {None}] \cup {None}
  /\ page \in {"choose", "cli", "cloud", "preview", "configure", "execute"}
  /\ form # None =>
       /\ \A i \in DOMAIN form.configs : form.configs[i] \in Env
       /\ form.index \in Items /\ form.mapper \in Env \cup {None}
  /\ calls.submit # None =>
       calls.submit.pc \in {"sent", "checked", "written", "accepted", "refused"}
  /\ calls.start \in {None, "sent", "checked"}
  /\ {calls.cancel, started, early, strayed, cancelled} \subseteq BOOLEAN
  /\ service \in [config : 0..MaxActs, tested : BOOLEAN \cup {None}, asked : 0..MaxActs \cup {None},
                  passed : SUBSET (0..MaxActs), hasty : BOOLEAN] \cup {None}
  /\ acts \in 0..MaxActs
  /\ \A i \in Items : meant[i] \in Env /\ saved[i] \in Env \cup {None}

Init ==
  /\ status = "none" /\ upload = "none" /\ rows = <<>>
  /\ job = [waiting |-> 0, active |-> FALSE, took |-> 0]
  /\ cache = None /\ fetch = None
  /\ page = "choose" /\ form = None /\ calls = NoCalls /\ started = FALSE /\ service = None
  /\ meant = Manifest /\ saved = [i \in Items |-> None]
  /\ early = FALSE /\ strayed = FALSE /\ cancelled = FALSE /\ acts = 0

Act == acts < MaxActs /\ acts' = acts + 1
Asked == [got |-> None]
Invalidate == fetch' = Asked /\ UNCHANGED cache

----------------------------------------------------------------------------
(* The import and its query.                                               *)

\* createImport, and its page.
Choose(sourceType) ==
  /\ page = "choose"
  /\ status' = "PENDING"
  /\ IF sourceType = "CLI_PACKAGE" THEN page' = "cli" /\ UNCHANGED upload
                                   ELSE page' = "cloud" /\ upload' = "never"
  /\ Invalidate
  /\ UNCHANGED <<rows, job, form, calls, started, service, history>>

\* A page opens, the polling timer fires, or the window gets the focus.
Ask ==
  /\ page # "choose" /\ fetch = None /\ fetch' = Asked
  /\ UNCHANGED <<server, cache, page, form, calls, started, service, history>>

FetchRead ==
  /\ fetch = Asked /\ fetch' = [got |-> [status |-> status, items |-> Len(rows)]]
  /\ UNCHANGED <<server, cache, page, form, calls, started, service, history>>

FetchAnswered ==
  /\ fetch \notin {None, Asked}
  /\ cache' = fetch.got /\ fetch' = None
  /\ UNCHANGED <<server, page, form, calls, started, service, history>>

\* handleUpload and parseAndCreateItems, whatever the status.
Uploaded ==
  /\ page # "choose" /\ upload = "none"
  /\ upload' = "inserting" /\ status' = "UPLOADED"
  /\ UNCHANGED <<rows, job, query, page, form, calls, started, service, history>>

InsertItem ==
  /\ upload = "inserting"
  /\ IF Len(rows) < Len(Package)
       THEN rows' = Append(rows, None) /\ UNCHANGED <<status, upload>>
       ELSE status' = "CONFIGURING" /\ upload' = "done" /\ UNCHANGED rows
  /\ UNCHANGED <<job, query, page, form, calls, started, service, history>>

\* The worker takes the items there are; after a cancel it may stop early.
TakeJob ==
  /\ job.waiting > 0 /\ ~job.active
  /\ job' = IF status = "CANCELLED" THEN [job EXCEPT !.waiting = @ - 1]
            ELSE [waiting |-> job.waiting - 1, active |-> TRUE, took |-> Len(rows)]
  /\ UNCHANGED <<status, upload, rows, query, page, form, calls, started, service, history>>

FinishJob ==
  /\ job.active /\ job' = [job EXCEPT !.active = FALSE]
  /\ status' = "COMPLETED" \/ (status = "CANCELLED" /\ UNCHANGED status)
  /\ UNCHANGED <<upload, rows, query, page, form, calls, started, service, history>>

----------------------------------------------------------------------------
(* The cloud page's service connections, one standing for all: its fields  *)
(* are the number of its last edit.                                        *)

CloudStep(new) ==
  /\ page = "cloud" /\ service' = new
  /\ UNCHANGED <<server, query, page, form, calls, started, meant, saved, early, strayed, cancelled>>

AddService == service = None /\ CloudStep(NoService) /\ UNCHANGED acts
RemoveService == service # None /\ CloudStep(None) /\ UNCHANGED acts

\* Mutant: the badge stays.
UpdateServiceConfig_kept ==
  /\ service # None /\ Act
  /\ CloudStep([service EXCEPT !.config = acts + 1, !.hasty = @ \/ service.asked # None])

UpdateServiceConfig ==
  /\ service # None /\ Act
  /\ CloudStep([service EXCEPT !.config = acts + 1, !.tested = None,
                               !.hasty = @ \/ service.asked # None])

HandleTestConnection ==
  /\ service # None /\ service.asked = None
  /\ CloudStep([service EXCEPT !.asked = service.config]) /\ UNCHANGED acts

\* The answer is of the fields as they were.
ConnectionTested(success) ==
  /\ service # None /\ service.asked # None
  /\ CloudStep([service EXCEPT !.asked = None, !.tested = success,
                  !.passed = IF success THEN @ \cup {service.asked} ELSE @])
  /\ UNCHANGED acts

----------------------------------------------------------------------------
(* From page to page.                                                      *)

GoTo(to) ==
  /\ page' = to /\ form' = None /\ service' = None
  /\ started' = (started /\ to = page)
  /\ UNCHANGED <<server, meant, saved, early, strayed, cancelled>>

\* The effect of the command line's page.
RedirectToPreview ==
  /\ page = "cli" /\ cache # None /\ (cache.status = "UPLOADED" \/ cache.items > 0)
  /\ GoTo("preview") /\ UNCHANGED <<query, calls, acts>>

PreviewContinue ==
  /\ page = "preview" /\ cache # None /\ cache.items > 0
  /\ GoTo("configure") /\ UNCHANGED <<query, calls, acts>>

\* No items, nothing to send.
CloudContinue ==
  /\ page = "cloud"
  /\ GoTo("configure") /\ UNCHANGED <<query, calls, acts>>

\* The form's Back, or the browser's.
Back ==
  /\ \/ page = "configure" /\ upload # "never" /\ GoTo("preview")
     \/ page = "configure" /\ upload = "never" /\ GoTo("cloud")
     \/ page = "execute" /\ GoTo("configure")
  /\ Act
  /\ UNCHANGED <<query, calls>>

----------------------------------------------------------------------------
(* The form.                                                               *)

\* Mutant: every answer fills the form.
Fill_always ==
  /\ page = "configure" /\ cache # None
  /\ form' = [configs |-> SubSeq(Manifest, 1, cache.items), index |-> 1,
              mapper |-> IF cache.items = 0 \/ Package[1] = {} THEN None ELSE Manifest[1],
              owner |-> 1]
  /\ meant' = IF form = None THEN Manifest ELSE meant
  /\ early' = (early \/ upload # "done" \/ cache.items < Len(Package))
  /\ strayed' = (strayed \/ (form = None /\ \E i \in Items : saved[i] # None))
  /\ UNCHANGED <<server, query, page, calls, started, service, saved, cancelled, acts>>

\* Filled once, with the items of the answer there is and the variables of the
\* manifest; the mapper of the first item keeps its own copy of them.
Fill ==
  /\ page = "configure" /\ form = None /\ cache # None
  /\ form' = [configs |-> SubSeq(Manifest, 1, cache.items), index |-> 1,
              mapper |-> IF cache.items = 0 \/ Package[1] = {} THEN None ELSE Manifest[1],
              owner |-> 1]
  /\ meant' = Manifest
  /\ early' = (early \/ upload # "done" \/ cache.items < Len(Package))
  /\ strayed' = (strayed \/ \E i \in Items : saved[i] # None)
  /\ UNCHANGED <<server, query, page, calls, started, service, saved, cancelled, acts>>

\* e, with value as that of x.
With(e, x, value) == [y \in DOMAIN e \cup {x} |-> IF y = x THEN value ELSE e[y]]

Editing == page = "configure" /\ form # None /\ form.configs # <<>>
InForm == UNCHANGED <<server, query, page, calls, started, service, saved, early, cancelled>>

\* The mapper stays mounted from item to item, unless one has no variables.
ShowItem(i) ==
  /\ Editing /\ i \in DOMAIN form.configs /\ i \in {form.index - 1, form.index + 1}
  /\ form' = IF DOMAIN form.configs[i] = {}
               THEN [form EXCEPT !.index = i, !.mapper = None]
             ELSE IF form.mapper = None
               THEN [form EXCEPT !.index = i, !.mapper = form.configs[i], !.owner = i]
             ELSE [form EXCEPT !.index = i]
  /\ InForm /\ UNCHANGED <<meant, strayed, acts>>

\* Mutant: only the edited variable is handed on.
HandleChange_single(x, value) ==
  /\ Editing /\ x \in DOMAIN form.configs[form.index] /\ Act
  /\ LET next == With(form.mapper, x, value) IN
       form' = [form EXCEPT !.mapper = next, !.configs[form.index] = [y \in {x} |-> value]]
  /\ meant' = [meant EXCEPT ![form.index] = With(@, x, value)]
  /\ strayed' = (strayed \/ form.owner # form.index)
  /\ InForm

\* All of the mapper's variables become the item's.
HandleChange(x, value) ==
  /\ Editing /\ x \in DOMAIN form.configs[form.index] /\ Act
  /\ LET next == With(form.mapper, x, value) IN
       form' = [form EXCEPT !.mapper = next, !.configs[form.index] = next]
  /\ meant' = [meant EXCEPT ![form.index] = With(@, x, value)]
  /\ strayed' = (strayed \/ form.owner # form.index)
  /\ InForm

Edit == \E x \in Vars : \E value \in {<<0, acts + 1>>} \cup
          (IF Editing /\ x \in DOMAIN form.configs[form.index]
             THEN {form.configs[form.index][x]} ELSE {}) : HandleChange(x, value)

HandleSubmit ==
  /\ Editing /\ form.index = Len(form.configs) /\ calls.submit = None
  /\ calls' = [calls EXCEPT !.submit = [pc |-> "sent", seen |-> None, configs |-> form.configs,
                                        meant |-> meant]]
  /\ UNCHANGED <<server, query, page, form, started, service, history>>

\* updateConfig looks at the status, ...
CheckConfig ==
  /\ calls.submit # None /\ calls.submit.pc = "sent"
  /\ LET allowed == status \in {"CONFIGURING", "UPLOADED"} IN
       calls' = [calls EXCEPT !.submit.seen = status,
                              !.submit.pc = IF allowed THEN "checked" ELSE "refused"]
  /\ UNCHANGED <<server, query, page, form, started, service, history>>

\* ... stores the items (one keeps the manifest's env next to what is set), ...
UpdateConfig ==
  /\ calls.submit # None /\ calls.submit.pc = "checked"
  /\ calls' = [calls EXCEPT !.submit.pc = "written"]
  /\ LET sent == DOMAIN calls.submit.configs IN
       /\ rows' = [i \in DOMAIN rows |->
                     IF i \in sent THEN calls.submit.configs[i] ELSE rows[i]]
       /\ saved' = [i \in Items |-> IF i \in sent THEN calls.submit.meant[i] ELSE saved[i]]
  /\ UNCHANGED <<status, upload, job, query, page, form, started, service, meant, early,
                 strayed, cancelled, acts>>

\* ... and goes by the status it saw, whatever it has become.
ConfigUpdated ==
  /\ calls.submit # None /\ calls.submit.pc = "written"
  /\ calls' = [calls EXCEPT !.submit.pc = "accepted"]
  /\ status' = IF calls.submit.seen = "UPLOADED" THEN "CONFIGURING" ELSE status
  /\ UNCHANGED <<upload, rows, job, query, page, form, started, service, history>>

\* The page goes on to the import wherever the user is by now.
SubmitAnswered ==
  /\ calls.submit # None /\ calls.submit.pc \in {"accepted", "refused"}
  /\ calls' = [calls EXCEPT !.submit = None]
  /\ IF calls.submit.pc = "accepted"
       THEN GoTo("execute") /\ Invalidate /\ UNCHANGED acts
       ELSE UNCHANGED <<server, query, page, form, started, service, history>>

----------------------------------------------------------------------------
(* The import.                                                             *)

\* The effect of the page, once a visit.
AutoStart ==
  /\ page = "execute" /\ ~started /\ cache # None /\ cache.status = "CONFIGURING"
  /\ calls.start = None  \* bound: one at a time
  /\ started' = TRUE /\ calls' = [calls EXCEPT !.start = "sent"]
  /\ UNCHANGED <<server, query, page, form, service, history>>

\* startImport looks at the status (that it refuses is not shown), ...
CheckStart ==
  /\ calls.start = "sent"
  /\ calls' = [calls EXCEPT !.start = IF status = "CONFIGURING" THEN "checked" ELSE None]
  /\ UNCHANGED <<server, query, page, form, started, service, history>>

\* ... and writes over whatever came between, a cancel too, and queues the job.
StartImport ==
  /\ calls.start = "checked" /\ calls' = [calls EXCEPT !.start = None]
  /\ job.waiting < 2  \* bound: two
  /\ status' = "RUNNING" /\ job' = [job EXCEPT !.waiting = @ + 1] /\ Invalidate
  /\ UNCHANGED <<upload, rows, page, form, started, service, history>>

Cancel ==
  /\ page = "execute" /\ ~calls.cancel /\ (cache = None \/ cache.status \notin Terminal)
  /\ calls' = [calls EXCEPT !.cancel = TRUE]
  /\ UNCHANGED <<server, query, page, form, started, service, history>>

CancelImport ==
  /\ calls.cancel /\ calls' = [calls EXCEPT !.cancel = FALSE]
  /\ status' = "CANCELLED" /\ cancelled' = (cancelled \/ calls.start # "checked")
  /\ Invalidate
  /\ UNCHANGED <<upload, rows, job, page, form, started, service, meant, saved, early, strayed, acts>>

Next ==
  \/ \E sourceType \in {"CLI_PACKAGE", "REMOTE"} : Choose(sourceType)
  \/ Ask \/ FetchRead \/ FetchAnswered
  \/ Uploaded \/ InsertItem \/ TakeJob \/ FinishJob
  \/ AddService \/ RemoveService \/ UpdateServiceConfig \/ HandleTestConnection
  \/ \E success \in BOOLEAN : ConnectionTested(success)
  \/ RedirectToPreview \/ PreviewContinue \/ CloudContinue \/ Back
  \/ Fill \/ (\E i \in Items : ShowItem(i)) \/ Edit \/ HandleSubmit
  \/ CheckConfig \/ UpdateConfig \/ ConfigUpdated \/ SubmitAnswered
  \/ AutoStart \/ CheckStart \/ StartImport \/ Cancel \/ CancelImport

Spec == Init /\ [][Next]_vars

----------------------------------------------------------------------------
(***************************************************************************)
(* While the import is polled every other second under the form, what is   *)
(* stored of an item is what the user meant when submitting it, unless     *)
(* variables were edited that the form did not show, or again.             *)
(***************************************************************************)
ConfiguredAsMeant ==
  ~strayed => \A i \in DOMAIN rows : rows[i] # None => rows[i] = saved[i]

(***************************************************************************)
(* If every form was opened on an answer from after the upload, then what  *)
(* the worker takes is all submitted: no item runs unconfigured.           *)
(***************************************************************************)
ImportedAsShown == ~early => \A i \in 1..job.took : rows[i] # None

(***************************************************************************)
(* An import the user cancelled does not run again by itself, however its  *)
(* starts, cancels and the answers to the page cross -- but for a cancel   *)
(* that comes between a start's look at the status and its write: that     *)
(* start overwrites it, and the next cancel holds (with forms as above:    *)
(* the end of an upload overwrites a cancel).                              *)
(***************************************************************************)
StaysCancelled == cancelled /\ ~early => status \in Terminal

(***************************************************************************)
(* "Connected" is said of the connection that was tested, unless it was    *)
(* edited under its test.                                                  *)
(***************************************************************************)
BadgeHonest ==
  service # None /\ service.tested = TRUE /\ ~service.hasty => service.config \in service.passed
=============================================================================
