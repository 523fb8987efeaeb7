----------------------------- MODULE StorageWizard -----------------------------
(***************************************************************************)
(* The dialog that starts a storage import (storage-import-wizard.tsx):    *)
(* the source (a bucket elsewhere, files, or URLs), the conflict strategy, *)
(* and the import it then follows.  Every answer may come late, when the   *)
(* form says something else, or not at all.                                *)
(*                                                                         *)
(* An object is <<server, bucket, name>>; a text is the set of its URLs.   *)
(* The strategy is a plain field and left out; what the import does is     *)
(* StorageImport, and how it is followed LiveView.                         *)
(***************************************************************************)
EXTENDS Naturals, FiniteSets, SequencesExt

CONSTANTS
  Servers, Buckets, Names,  \* what can be connected to, and is there
  Files, Urls,
  MaxEdits, MaxImports,     \* bounds: changes of the form, imports created
  None

StorageWizardAssumption ==
  /\ {MaxEdits, MaxImports} \subseteq Nat
  /\ None \notin Servers \cup Buckets /\ \A u \in SUBSET Urls : u # None

Object == Servers \X Buckets \X Names
Payload == [source : {"REMOTE"}, from : Servers \X Buckets, what : SUBSET Object]
             \cup [source : {"FILE"}, what : SUBSET Files]
             \cup [source : {"URL"}, what : SUBSET Urls]

VARIABLES
  step, sourceMode,
  remote,    \* connection, connected, bucket, browsed, and the listing shown
  selected,  \* the objects marked
  files,
  urls,      \* the text, and None or the URLs of it that were found valid
  calls,     \* what each mutation is waiting for, or None
  starts,    \* runs of handleStartImport
  open, importId,
  sent,      \* payloads of the imports that the server has created
  active,    \* ... of which one is not finished
  edits,
  strayed,   \* history: the form was changed under a call, or after a listing
  lost       \* ... the answer to a creation was lost

form == <<sourceMode, remote, selected, files, urls>>
server == <<sent, active>>
history == <<strayed, lost>>
vars == <<step, form, calls, starts, open, importId, server, edits, history>>

NoCalls == [test |-> None, browse |-> None, validate |-> None]

TypeOK ==
  /\ step \in {"source", "conflict", "execute"}
  /\ sourceMode \in {"REMOTE", "UPLOAD", "URL", None}
  /\ remote \in [connection : Servers \cup {None}, connected : BOOLEAN,
                 bucket : Buckets \cup {None}, browsed : BOOLEAN, objects : SUBSET Object]
  /\ selected \subseteq Object /\ files \subseteq Files
  /\ urls \in [text : SUBSET Urls, valid : (SUBSET Urls) \cup {None}]
  /\ calls.test \in Servers \cup {None}
  /\ calls.browse \in (Servers \X Buckets) \cup {None}
  /\ calls.validate \in (SUBSET Urls) \cup {None}
  /\ starts \in Seq([pc : {"upload", "create"}, payload : Payload])
  /\ open \in BOOLEAN /\ importId \in 0..MaxImports
  /\ sent \in Seq(Payload) /\ Len(sent) <= MaxImports /\ active \in BOOLEAN
  /\ edits \in 0..MaxEdits /\ strayed \in BOOLEAN /\ lost \in BOOLEAN

Init ==
  /\ step = "source" /\ sourceMode = None
  /\ remote = [connection |-> None, connected |-> FALSE, bucket |-> None,
               browsed |-> FALSE, objects |-> {}]
  /\ selected = {} /\ files = {} /\ urls = [text |-> {}, valid |-> None]
  /\ calls = NoCalls /\ starts = <<>>
  /\ open = TRUE /\ importId = 0
  /\ sent = <<>> /\ active = FALSE
  /\ edits = 0 /\ strayed = FALSE /\ lost = FALSE

Editing(mode) ==
  /\ open /\ step = "source" /\ sourceMode = mode
  /\ edits < MaxEdits /\ edits' = edits + 1
  /\ UNCHANGED <<step, sourceMode, calls, starts, open, importId, server, lost>>

Asks(mutation, what) ==
  /\ open /\ step = "source" /\ calls[mutation] = None
  /\ calls' = [calls EXCEPT ![mutation] = what]
  /\ UNCHANGED <<step, form, starts, open, importId, server, edits, history>>

\* After the dialog is closed, nobody sees the answer; a failure is a toast.
Answered(mutation) ==
  /\ calls[mutation] # None /\ calls' = [calls EXCEPT ![mutation] = None]
  /\ UNCHANGED <<step, sourceMode, files, starts, open, importId, server, edits, history>>

AnswerFails(mutation) == Answered(mutation) /\ UNCHANGED <<remote, selected, urls>>

----------------------------------------------------------------------------
(* The source.                                                             *)

ChooseSource(mode) ==
  /\ open /\ step = "source" /\ sourceMode' = mode
  /\ UNCHANGED <<step, remote, selected, files, urls, calls, starts, open, importId,
                 server, edits, history>>

\* Neither this nor the choice of a bucket forgets the listing's objects.
EditConnection(s) ==
  /\ Editing("REMOTE") /\ s # remote.connection
  /\ remote' = [remote EXCEPT !.connection = s]
  /\ strayed' = (strayed \/ calls.browse # None \/ remote.objects # {})
  /\ UNCHANGED <<selected, files, urls>>

TestConnection ==
  /\ sourceMode = "REMOTE" /\ ~remote.connected /\ remote.connection # None
  /\ Asks("test", remote.connection)

ConnectionTested ==
  /\ Answered("test") /\ remote' = [remote EXCEPT !.connected = TRUE]
  /\ UNCHANGED <<selected, urls>>

ChooseBucket(b) ==
  /\ Editing("REMOTE") /\ remote.connected /\ b # remote.bucket
  /\ remote' = [remote EXCEPT !.bucket = b, !.browsed = FALSE]
  /\ strayed' = (strayed \/ calls.browse # None \/ remote.objects # {})
  /\ UNCHANGED <<selected, files, urls>>

BrowseBucket ==
  /\ sourceMode = "REMOTE" /\ remote.connected /\ None \notin {remote.connection, remote.bucket}
  /\ Asks("browse", <<remote.connection, remote.bucket>>)

BucketBrowsed ==
  /\ Answered("browse")
  /\ \E found \in SUBSET ({calls.browse[1]} \X {calls.browse[2]} \X Names) :
       /\ remote' = [remote EXCEPT !.objects = found, !.browsed = TRUE]
       /\ selected' = found
  /\ UNCHANGED urls

ToggleObject(o) ==
  /\ Editing("REMOTE") /\ remote.connected /\ remote.browsed /\ o \in remote.objects
  /\ selected' = IF o \in selected THEN selected \ {o} ELSE selected \cup {o}
  /\ UNCHANGED <<remote, files, urls, strayed>>

ToggleAllObjects ==
  /\ Editing("REMOTE") /\ remote.connected /\ remote.browsed
  /\ selected' = IF Cardinality(selected) = Cardinality(remote.objects)
                   THEN {} ELSE remote.objects
  /\ UNCHANGED <<remote, files, urls, strayed>>

\* handleFilesSelected and removeFile.
SelectFiles(fs) ==
  /\ Editing("UPLOAD") /\ files' = fs /\ fs # files
  /\ UNCHANGED <<remote, selected, urls, strayed>>

EditUrls(text) ==
  /\ Editing("URL") /\ text # urls.text
  /\ urls' = [text |-> text, valid |-> None]
  /\ strayed' = (strayed \/ calls.validate # None \/ starts # <<>>)
  /\ UNCHANGED <<remote, selected, files>>

ValidateUrls ==
  sourceMode = "URL" /\ urls.text # {} /\ Asks("validate", urls.text)

UrlsValidated ==
  /\ Answered("validate")
  /\ \E valid \in SUBSET calls.validate : urls' = [urls EXCEPT !.valid = valid]
  /\ UNCHANGED <<remote, selected>>

----------------------------------------------------------------------------
(* The steps, and the import.                                              *)

canProceedFromSource ==
  \/ sourceMode = "REMOTE" /\ selected # {}
  \/ sourceMode = "UPLOAD" /\ files # {}
  \/ sourceMode = "URL" /\ urls.valid \notin {None, {}}

handleNext ==
  /\ open /\ step = "source" /\ canProceedFromSource /\ step' = "conflict"
  /\ UNCHANGED <<form, calls, starts, open, importId, server, edits, history>>

\* Not disabled while an import is being started.
handleBack ==
  /\ open /\ step = "conflict" /\ step' = "source"
  /\ UNCHANGED <<form, calls, starts, open, importId, server, edits, history>>

Submission ==
  CASE sourceMode = "REMOTE" ->
         [source |-> "REMOTE", from |-> <<remote.connection, remote.bucket>>,
          what |-> selected]
    [] sourceMode = "UPLOAD" -> [source |-> "FILE", what |-> files]
    [] sourceMode = "URL" -> [source |-> "URL", what |-> urls.valid]

\* The button is disabled meanwhile; what is sent was on the form at the click.
handleStartImport ==
  /\ open /\ step = "conflict" /\ starts = <<>>
  /\ starts' = Append(starts, [pc |-> IF sourceMode = "UPLOAD" THEN "upload" ELSE "create",
                               payload |-> Submission])
  /\ UNCHANGED <<step, form, calls, open, importId, server, edits, history>>

Uploaded(n) ==
  /\ starts[n].pc = "upload"
  /\ starts' = [starts EXCEPT ![n].pc = "create"]
  /\ UNCHANGED <<step, form, calls, open, importId, server, edits, history>>

\* The upload or the creation fails, or another import is active.
StartFails(n) ==
  /\ starts' = RemoveAt(starts, n)
  /\ UNCHANGED <<step, form, calls, open, importId, server, edits, history>>

\* The server creates it; its answer may be lost.
Create(n) ==
  /\ starts[n].pc = "create" /\ starts' = RemoveAt(starts, n)
  /\ ~active /\ active' = TRUE
  /\ Len(sent) < MaxImports /\ sent' = Append(sent, starts[n].payload)

ImportCreated(n) ==
  /\ Create(n)
  /\ IF open THEN importId' = Len(sent') /\ step' = "execute" ELSE UNCHANGED <<importId, step>>
  /\ UNCHANGED <<form, calls, open, edits, history>>

AnswerLost(n) ==
  /\ Create(n)
  /\ lost' = TRUE
  /\ UNCHANGED <<step, form, calls, open, importId, edits, strayed>>

ImportEnds ==
  /\ active /\ active' = FALSE
  /\ UNCHANGED <<step, form, calls, starts, open, importId, sent, edits, history>>

\* A start goes on without the dialog.
onClose ==
  /\ open /\ open' = FALSE
  /\ UNCHANGED <<step, form, calls, starts, importId, server, edits, history>>

Next ==
  \/ \E mode \in {"REMOTE", "UPLOAD", "URL"} : ChooseSource(mode)
  \/ \E s \in Servers : EditConnection(s)
  \/ \E b \in Buckets : ChooseBucket(b)
  \/ \E o \in Object : ToggleObject(o)
  \/ \E fs \in SUBSET Files : SelectFiles(fs)
  \/ \E text \in SUBSET Urls : EditUrls(text)
  \/ TestConnection \/ ConnectionTested \/ AnswerFails("test")
  \/ BrowseBucket \/ BucketBrowsed \/ AnswerFails("browse") \/ ToggleAllObjects
  \/ ValidateUrls \/ UrlsValidated \/ AnswerFails("validate")
  \/ handleNext \/ handleBack \/ handleStartImport \/ ImportEnds \/ onClose
  \/ \E n \in DOMAIN starts :
       Uploaded(n) \/ StartFails(n) \/ ImportCreated(n) \/ AnswerLost(n)

Spec == Init /\ [][Next]_vars
----------------------------------------------------------------------------
(***************************************************************************)
(* The import that runs is the one the dialog follows, and the only one it *)
(* started, unless an answer was lost: the button for another start is     *)
(* disabled until the answer is there, the way back is not.                *)
(***************************************************************************)
ImportFollowed == open /\ ~lost => Len(sent) = importId /\ importId <= 1

(***************************************************************************)
(* Unless the form was changed under a listing, a validation or a start,   *)
(* imported objects are of the bucket that is sent with them, and imported *)
(* URLs are in the text.                                                   *)
(***************************************************************************)
SubmissionAsShown ==
  ~strayed => \A n \in DOMAIN sent :
    /\ sent[n].source = "REMOTE" => \A o \in sent[n].what : <<o[1], o[2]>> = sent[n].from
    /\ sent[n].source = "URL" /\ open /\ n = importId => sent[n].what \subseteq urls.text
=============================================================================
