---------------------------- MODULE MigrationWizard ----------------------------
(***************************************************************************)
(* The dialog that starts a data migration (migration-wizard.tsx): the     *)
(* tables of a remote database or of an uploaded dump, the strategy, and   *)
(* the migration it then follows.  Two chains of two calls each list       *)
(* tables; neither is stopped by what the user does meanwhile.             *)
(*                                                                         *)
(* A table is <<source, name>>.  What the migration does is DataMigration, *)
(* and how it is followed LiveView.                                        *)
(***************************************************************************)
EXTENDS Naturals, FiniteSets, SequencesExt

CONSTANTS
  Databases, Dumps,  \* what can be connected to, and uploaded
  Created,           \* the dumps that contain CREATE TABLE
  Names,
  TooBig,            \* sets of tables of a database beyond 1 GB
  MaxEdits, MaxMigrations,  \* bounds: changes of the form, migrations created
  None

Source == Databases \cup Dumps
Table == Source \X Names

MigrationWizardAssumption ==
  /\ Created \subseteq Dumps /\ TooBig \subseteq SUBSET (Databases \X Names)
  /\ {MaxEdits, MaxMigrations} \subseteq Nat
  /\ None \notin Source

Strategy == {"ERROR", "OVERWRITE", "SKIP", "APPEND"}
Payload == [source : Source \cup {None}, tables : SUBSET Table, strategy : Strategy]

VARIABLES
  step, sourceMode,
  connection, fileKey,  \* the form's database, and the dump uploaded last
  tables, selected,     \* the tables listed, and those marked
  strategy,
  calls,        \* the two chains: [pc, what] or None
  starts,       \* creations under way
  open, migrationId,
  sent, active, \* what the server has created; one that is not finished
  edits,
  meant,        \* history: source and strategy of the latest listing and choice
  strayed,      \* ... the form was changed under a call
  lost          \* ... the answer to a creation was lost

form == <<sourceMode, connection, fileKey, tables, selected, strategy>>
server == <<sent, active>>
history == <<meant, strayed, lost>>
vars == <<step, form, calls, starts, open, migrationId, server, edits, history>>

Busy == (\E c \in DOMAIN calls : calls[c] # None) \/ starts # <<>>

TypeOK ==
  /\ step \in {"source", "tables", "execute"}
  /\ sourceMode \in {"REMOTE", "FILE", None}
  /\ connection \in Databases \cup {None} /\ fileKey \in Dumps \cup {None}
  /\ tables \subseteq Table /\ selected \subseteq Table /\ strategy \in Strategy
  /\ calls.remote \in [pc : {"test", "discover"}, what : Databases] \cup {None}
  /\ calls.file \in [pc : {"upload", "analyze"}, what : Dumps] \cup {None}
  /\ starts \in Seq(Payload)
  /\ open \in BOOLEAN /\ migrationId \in 0..MaxMigrations
  /\ sent \in Seq(Payload) /\ Len(sent) <= MaxMigrations /\ active \in BOOLEAN
  /\ edits \in 0..MaxEdits
  /\ meant \in [source : Source \cup {None}, strategy : Strategy]
  /\ strayed \in BOOLEAN /\ lost \in BOOLEAN

Init ==
  /\ step = "source" /\ sourceMode = None
  /\ connection = None /\ fileKey = None
  /\ tables = {} /\ selected = {} /\ strategy = "APPEND"
  /\ calls = [remote |-> None, file |-> None] /\ starts = <<>>
  /\ open = TRUE /\ migrationId = 0
  /\ sent = <<>> /\ active = FALSE
  /\ edits = 0
  /\ meant = [source |-> None, strategy |-> "APPEND"]
  /\ strayed = FALSE /\ lost = FALSE

Changes ==
  /\ open
  /\ edits < MaxEdits /\ edits' = edits + 1
  /\ strayed' = (strayed \/ Busy)
  /\ UNCHANGED <<calls, starts, open, migrationId, server, lost>>

----------------------------------------------------------------------------
(* The source.                                                             *)

ChooseSource(mode) ==
  /\ step = "source" /\ mode # sourceMode /\ sourceMode' = mode
  /\ Changes
  /\ UNCHANGED <<step, connection, fileKey, tables, selected, strategy, meant>>

EditConnection(d) ==
  /\ step = "source" /\ sourceMode = "REMOTE" /\ d # connection /\ connection' = d
  /\ Changes
  /\ UNCHANGED <<step, sourceMode, fileKey, tables, selected, strategy, meant>>

Asks(chain, call) ==
  /\ open /\ step = "source" /\ calls[chain] = None
  /\ calls' = [calls EXCEPT ![chain] = call]
  /\ strayed' = (strayed \/ Busy)
  /\ UNCHANGED <<step, form, starts, open, migrationId, server, edits, meant, lost>>

handleTestConnection ==
  /\ sourceMode = "REMOTE" /\ connection # None
  /\ Asks("remote", [pc |-> "test", what |-> connection])

handleFileUpload(d) ==
  sourceMode = "FILE" /\ Asks("file", [pc |-> "upload", what |-> d])

ConnectionTested ==
  /\ calls.remote # None /\ calls.remote.pc = "test"
  /\ calls' = [calls EXCEPT !.remote.pc = "discover"]
  /\ UNCHANGED <<step, form, starts, open, migrationId, server, edits, history>>

FileUploaded ==
  /\ calls.file # None /\ calls.file.pc = "upload"
  /\ fileKey' = calls.file.what
  /\ calls' = [calls EXCEPT !.file.pc = "analyze"]
  /\ UNCHANGED <<step, sourceMode, connection, tables, selected, strategy, starts, open,
                 migrationId, server, edits, history>>

CallFails(chain) ==
  /\ calls[chain] # None /\ calls' = [calls EXCEPT ![chain] = None]
  /\ UNCHANGED <<step, form, starts, open, migrationId, server, edits, history>>

\* Either chain ends with its tables, all marked, its strategy and the next
\* step, whatever the step is now.
Listed(chain, pc, default) ==
  /\ calls[chain] # None /\ calls[chain].pc = pc
  /\ calls' = [calls EXCEPT ![chain] = None]
  /\ tables' = {calls[chain].what} \X Names /\ selected' = tables'
  /\ strategy' = default
  /\ step' = "tables"
  /\ meant' = [source |-> calls[chain].what, strategy |-> default]
  /\ UNCHANGED <<sourceMode, connection, fileKey, starts, open, migrationId, server,
                 edits, strayed, lost>>

TablesDiscovered == Listed("remote", "discover", "OVERWRITE")

FileAnalyzed ==
  Listed("file", "analyze",
         IF calls.file # None /\ calls.file.what \in Created THEN "OVERWRITE" ELSE "APPEND")

----------------------------------------------------------------------------
(* The tables, the strategy, and the migration.                            *)

toggleTable(t) ==
  /\ step = "tables" /\ t \in tables
  /\ selected' = IF t \in selected THEN selected \ {t} ELSE selected \cup {t}
  /\ Changes
  /\ UNCHANGED <<step, sourceMode, connection, fileKey, tables, strategy, meant>>

toggleAll ==
  /\ step = "tables"
  /\ selected' = IF Cardinality(selected) = Cardinality(tables) THEN {} ELSE tables
  /\ Changes
  /\ UNCHANGED <<step, sourceMode, connection, fileKey, tables, strategy, meant>>

ChooseStrategy(s) ==
  /\ step = "tables" /\ s # strategy /\ strategy' = s
  /\ meant' = [meant EXCEPT !.strategy = s]
  /\ Changes
  /\ UNCHANGED <<step, sourceMode, connection, fileKey, tables, selected>>

\* Not disabled while a migration is being created.
Back ==
  /\ open /\ step = "tables" /\ step' = "source"
  /\ UNCHANGED <<form, calls, starts, open, migrationId, server, edits, history>>

\* The tables of a dump have no known size.
exceedsLimit == tables \cap selected \in TooBig

handleStartMigration ==
  /\ open /\ step = "tables"
  /\ selected # {} /\ ~exceedsLimit /\ starts = <<>>
  /\ starts' = Append(starts,
       [source |-> IF sourceMode = "REMOTE" THEN connection ELSE fileKey,
        tables |-> tables \cap selected, strategy |-> strategy])
  /\ UNCHANGED <<step, form, calls, open, migrationId, server, edits, history>>

\* Nobody catches it; the dialog stays as it is.
StartFails(n) ==
  /\ starts' = RemoveAt(starts, n)
  /\ UNCHANGED <<step, form, calls, open, migrationId, server, edits, history>>

Create(n) ==
  /\ starts' = RemoveAt(starts, n)
  /\ ~active /\ active' = TRUE
  /\ Len(sent) < MaxMigrations /\ sent' = Append(sent, starts[n])

MigrationCreated(n) ==
  /\ Create(n)
  /\ IF open THEN migrationId' = Len(sent') /\ step' = "execute"
             ELSE UNCHANGED <<migrationId, step>>
  /\ UNCHANGED <<form, calls, open, edits, history>>

AnswerLost(n) ==
  /\ Create(n)
  /\ lost' = TRUE
  /\ UNCHANGED <<step, form, calls, open, migrationId, edits, meant, strayed>>

MigrationEnds ==
  /\ active /\ active' = FALSE
  /\ UNCHANGED <<step, form, calls, starts, open, migrationId, sent, edits, history>>

\* Calls go on without the dialog.
onClose ==
  /\ open /\ open' = FALSE
  /\ UNCHANGED <<step, form, calls, starts, migrationId, server, edits, history>>

Next ==
  \/ \E mode \in {"REMOTE", "FILE"} : ChooseSource(mode)
  \/ \E d \in Databases : EditConnection(d)
  \/ \E d \in Dumps : handleFileUpload(d)
  \/ handleTestConnection \/ ConnectionTested \/ FileUploaded
  \/ \E chain \in {"remote", "file"} : CallFails(chain)
  \/ TablesDiscovered \/ FileAnalyzed
  \/ \E t \in tables : toggleTable(t)
  \/ \E s \in Strategy : ChooseStrategy(s)
  \/ toggleAll \/ Back \/ handleStartMigration \/ MigrationEnds \/ onClose
  \/ \E n \in DOMAIN starts : StartFails(n) \/ MigrationCreated(n) \/ AnswerLost(n)

Spec == Init /\ [][Next]_vars
----------------------------------------------------------------------------
(***************************************************************************)
(* Unless the form was changed or a call was sent under another call, a    *)
(* migration is of tables of the source that is sent with them (not of the *)
(* other mode's, whose fields the form keeps), with the strategy chosen or *)
(* the one this listing suggests; and the dialog follows the only one.     *)
(***************************************************************************)
MigrationAsListed ==
  ~strayed => \A n \in DOMAIN sent :
    /\ \A t \in sent[n].tables : t[1] = sent[n].source
    /\ open /\ n = migrationId => sent[n].strategy = meant.strategy
MigrationFollowed == open /\ ~strayed /\ ~lost => Len(sent) = migrationId /\ migrationId <= 1
=============================================================================
