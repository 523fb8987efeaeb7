----------------------------- MODULE SettingsPage -----------------------------
(***************************************************************************)
(* The settings page of a project (settings/page.tsx) and the rows behind  *)
(* it: a form whose variables are filled once, by whichever answer finds   *)
(* them empty, and saved as a whole, next to buttons that make the backend *)
(* add or remove the variables of a platform service.                      *)
(*                                                                         *)
(* A variable is its name.  One field (name) stands for name, slug, domain *)
(* and directory: every changed answer to the project query overwrites it, *)
(* and emptied it is not sent.  React Query keeps the answers across       *)
(* visits (30 s as fresh, 5 min at all).                                   *)
(***************************************************************************)
EXTENDS Naturals, FiniteSets

CONSTANTS
  Kinds, User,    \* variables of platform services, and of the user
  MaxEdits, MaxVisits, MaxCalls,  \* bounds: edits, visits, requests at once
  None

Key == Kinds \cup User
Env == SUBSET Key
Name == 0..MaxEdits
Field == Name \cup {None}   \* None: emptied
Details == [name : Name, has : SUBSET Kinds]

SettingsPageAssumption ==
  /\ Kinds \cap User = {} /\ None \notin Kinds \cup User \cup Details
  /\ \A e \in Env : e # None
  /\ {MaxEdits, MaxVisits, MaxCalls} \subseteq Nat

Call == [op : {"save", "provision", "deprovision"}, key : Kinds \cup {None},
         pc : {"sent", "read", "written", "asked", "answered"},
         env : Env, name : Field, here : BOOLEAN]

VARIABLES
  project, env,   \* the row, its variables apart
  cache, fetch,   \* the queries of the page: the last answers, and ...
                  \* ... for each "idle", "wanted" or "read" with what was read
  open, form,     \* the page
  calls,          \* its requests
  want,           \* history: what the user has saved and had added
  added, removed, renamed,  \* ... the edits not saved yet
  calm,           \* ... nothing overlapped, failed or was edited too early
  fresh,          \* ... no visit began with an old answer
  edits, visits

rows == <<project, env>>
queries == <<cache, fetch>>
unsaved == <<added, removed, renamed>>
history == <<want, calm, fresh, edits, visits>>
vars == <<rows, queries, open, form, calls, unsaved, history>>

Idle == [pc |-> "idle", env |-> {}, project |-> [name |-> 0, has |-> {}]]

TypeOK ==
  /\ project \in Details /\ env \in Env
  /\ cache.env \in Env \cup {None} /\ cache.project \in Details \cup {None}
  /\ fetch \in [{"env", "project"} ->
                  [pc : {"idle", "wanted", "read"}, env : Env, project : Details]]
  /\ open \in BOOLEAN /\ form \in [env : Env, name : Field]
  /\ calls \subseteq Call /\ Cardinality(calls) <= MaxCalls
  /\ want \in [env : Env, name : Name]
  /\ added \in Env /\ removed \in Env /\ renamed \in BOOLEAN
  /\ calm \in BOOLEAN /\ fresh \in BOOLEAN
  /\ edits \in 0..MaxEdits /\ visits \in 0..MaxVisits

\* A project with or without a variable of the user's, and no platform service.
Init ==
  /\ project = [name |-> 0, has |-> {}] /\ env \in {{}} \cup {{u} : u \in User}
  /\ cache = [env |-> None, project |-> None]
  /\ fetch = [q \in {"env", "project"} |-> Idle]
  /\ open = FALSE /\ form = [env |-> {}, name |-> 0]
  /\ calls = {}
  /\ want = [env |-> env, name |-> 0]
  /\ added = {} /\ removed = {} /\ renamed = FALSE
  /\ calm = TRUE /\ fresh = TRUE
  /\ edits = 0 /\ visits = 0

Unedited == added = {} /\ removed = {} /\ ~renamed
NoEdits == added' = {} /\ removed' = {} /\ renamed' = FALSE
Asks(queries_) == fetch' = [q \in DOMAIN fetch |->
                     IF q \in queries_ THEN [Idle EXCEPT !.pc = "wanted"] ELSE fetch[q]]

----------------------------------------------------------------------------
(* Visits and queries.                                                     *)

\* What the cache holds is shown at once; it is asked for again if it is old.
Open ==
  /\ ~open /\ open' = TRUE
  /\ visits < MaxVisits /\ visits' = visits + 1
  /\ form' = [env |-> IF cache.env = None THEN {} ELSE cache.env,
              name |-> IF cache.project = None THEN 0 ELSE cache.project.name]
  /\ NoEdits
  /\ \/ Asks({"env", "project"})  \* whatever was under way
     \/ cache.env # None /\ cache.project # None /\ UNCHANGED fetch
  /\ fresh' = (fresh /\ cache.env \in {None, env} /\ cache.project \in {None, project})
  /\ calm' = (calm /\ calls = {})
  /\ UNCHANGED <<rows, cache, calls, want, edits>>

\* Requests go on without the page; their answers change nothing.
Leave ==
  /\ open /\ open' = FALSE
  /\ calls' = {[c EXCEPT !.here = FALSE] : c \in calls}
  /\ NoEdits
  /\ UNCHANGED <<rows, queries, form, history>>

\* The window gets the focus back.
Refetch ==
  /\ open /\ \A q \in DOMAIN fetch : fetch[q].pc = "idle"
  /\ cache.env # None /\ cache.project # None
  /\ Asks({"env", "project"})
  /\ calm' = (calm /\ calls = {})
  /\ UNCHANGED <<rows, cache, open, form, calls, unsaved, want, fresh, edits, visits>>

FetchRead(q) ==
  /\ fetch[q].pc = "wanted"
  /\ fetch' = [fetch EXCEPT ![q] =
       IF q = "env" THEN [Idle EXCEPT !.pc = "read", !.env = env]
                    ELSE [Idle EXCEPT !.pc = "read", !.project = project]]
  /\ UNCHANGED <<rows, cache, open, form, calls, unsaved, history>>

\* The effect fills the variables only if the form has none, and (like the
\* next) only runs when the answer is not the one before.
EnvAnswered ==
  /\ fetch["env"].pc = "read" /\ fetch' = [fetch EXCEPT !["env"] = Idle]
  /\ LET answer == fetch["env"].env IN
       /\ cache' = [cache EXCEPT !.env = answer]
       /\ IF open /\ answer # cache.env /\ form.env = {}
            THEN /\ form' = [form EXCEPT !.env = answer]
                 /\ added' = {} /\ removed' = {}
                 /\ calm' = (calm /\ added = {} /\ removed = {})
            ELSE UNCHANGED <<form, added, removed, calm>>
  /\ UNCHANGED <<rows, open, calls, renamed, want, fresh, edits, visits>>

\* The other fields are overwritten, edited or not.
ProjectAnswered ==
  /\ fetch["project"].pc = "read" /\ fetch' = [fetch EXCEPT !["project"] = Idle]
  /\ LET answer == fetch["project"].project IN
       /\ cache' = [cache EXCEPT !.project = answer]
       /\ IF open /\ answer # cache.project
            THEN /\ form' = [form EXCEPT !.name = answer.name]
                 /\ renamed' = FALSE /\ calm' = (calm /\ ~renamed)
            ELSE UNCHANGED <<form, renamed, calm>>
  /\ UNCHANGED <<rows, open, calls, added, removed, want, fresh, edits, visits>>

----------------------------------------------------------------------------
(* The form.  (calm: the user waits for the first answers, and does not    *)
(* edit what a request or a query that is under way will overwrite.)       *)

Loaded == open /\ cache.project # None
Quiet == calls = {} /\ \A q \in DOMAIN fetch : fetch[q].pc = "idle"

AddVariable(k) ==
  /\ Loaded /\ k \notin form.env
  /\ edits < MaxEdits /\ edits' = edits + 1
  /\ form' = [form EXCEPT !.env = @ \cup {k}]
  /\ added' = added \cup {k} /\ removed' = removed \ {k}
  /\ calm' = (calm /\ Quiet)
  /\ UNCHANGED <<rows, queries, open, calls, renamed, want, fresh, visits>>

RemoveVariable(k) ==
  /\ Loaded /\ k \in form.env
  /\ edits < MaxEdits /\ edits' = edits + 1
  /\ form' = [form EXCEPT !.env = @ \ {k}]
  /\ added' = added \ {k} /\ removed' = removed \cup {k}
  /\ calm' = (calm /\ Quiet)
  /\ UNCHANGED <<rows, queries, open, calls, renamed, want, fresh, visits>>

EditName ==
  /\ Loaded
  /\ edits < MaxEdits /\ edits' = edits + 1
  /\ \E value \in {edits + 1, None} : form' = [form EXCEPT !.name = value]
  /\ renamed' = TRUE
  /\ calm' = (calm /\ Quiet)
  /\ UNCHANGED <<rows, queries, open, calls, added, removed, want, fresh, visits>>

Call_(op, k) ==
  /\ Cardinality(calls) < MaxCalls
  /\ calls' = calls \cup {[op |-> op, key |-> k, pc |-> "sent", env |-> form.env,
                           name |-> form.name, here |-> TRUE]}

\* handleSave: the whole form, but for a field that is empty (name || undefined).
\* (want: so emptying one is not saving it.)
HandleSave ==
  /\ Loaded /\ \A c \in calls : ~(c.here /\ c.op = "save")
  /\ Call_("save", None)
  /\ want' = [env |-> (want.env \ removed) \cup added,
              name |-> IF renamed /\ form.name # None THEN form.name ELSE want.name]
  /\ NoEdits
  /\ calm' = (calm /\ Quiet /\ (removed # {} => form.env # {}))
  /\ UNCHANGED <<rows, queries, open, form, fresh, edits, visits>>

\* Enable or Disable & Delete, by what the project query says.
Toggle(k) ==
  /\ Loaded /\ \A c \in calls : ~(c.here /\ c.key = k)
  /\ Call_(IF k \in cache.project.has THEN "deprovision" ELSE "provision", k)
  /\ calm' = (calm /\ Unedited /\ Quiet)
  /\ UNCHANGED <<rows, queries, open, form, unsaved, want, fresh, edits, visits>>

\* The answer of the backend: the project is asked for again, and, for a
\* service, the variables as well.
Succeeds(c) ==
  /\ c \in calls /\ c.pc = "written"
  /\ Asks({"project"})
  /\ calls' = IF c.op = "save" THEN calls \ {c}
              ELSE (calls \ {c}) \cup {[c EXCEPT !.pc = "asked"]}
  /\ UNCHANGED <<rows, cache, open, form, unsaved, history>>

SetEnvVars(c) ==
  /\ c \in calls /\ c.pc = "answered" /\ calls' = calls \ {c}
  /\ IF c.here
       THEN /\ form' = [form EXCEPT !.env = c.env]
            /\ added' = {} /\ removed' = {}
       ELSE UNCHANGED <<form, added, removed>>
  /\ UNCHANGED <<rows, queries, open, renamed, history>>

\* An error is shown; the form stays.
Fails(c) ==
  /\ c \in calls /\ c.pc \in {"sent", "asked"} /\ calls' = calls \ {c}
  /\ calm' = FALSE
  /\ UNCHANGED <<rows, queries, open, form, unsaved, want, fresh, edits, visits>>

----------------------------------------------------------------------------
(* The backend.                                                            *)

Becomes(c, d) == calls' = (calls \ {c}) \cup {d}
Outside == UNCHANGED <<queries, open, form, unsaved, calm, fresh, edits, visits>>

\* update: what is not in the request is left alone.
Update(c) ==
  /\ c \in calls /\ c.op = "save" /\ c.pc = "sent"
  /\ project' = [project EXCEPT !.name = IF c.name = None THEN @ ELSE c.name]
  /\ env' = IF c.env = {} THEN env ELSE c.env
  /\ Becomes(c, [c EXCEPT !.pc = "written"])
  /\ UNCHANGED want /\ Outside

\* provision* and deprovision* read the row first ...
ReadRow(c) ==
  /\ c \in calls /\ c.op # "save" /\ c.pc = "sent"
  /\ (c.op = "provision") = (c.key \notin project.has)
  /\ Becomes(c, [c EXCEPT !.pc = "read", !.env = env])
  /\ UNCHANGED <<rows, want>> /\ Outside

\* ... and write the variables of then, with theirs added or removed.
WriteRow(c) ==
  /\ c \in calls /\ c.pc = "read"
  /\ LET With(s) == IF c.op = "provision" THEN s \cup {c.key} ELSE s \ {c.key} IN
       /\ project' = [project EXCEPT !.has = With(@)]
       /\ env' = With(c.env)
       /\ want' = [want EXCEPT !.env = With(@)]
  /\ Becomes(c, [c EXCEPT !.pc = "written"])
  /\ Outside

GetEnv(c) ==
  /\ c \in calls /\ c.pc = "asked"
  /\ Becomes(c, [c EXCEPT !.pc = "answered", !.env = env])
  /\ UNCHANGED <<rows, want>> /\ Outside

----------------------------------------------------------------------------
Next ==
  \/ Open \/ Leave \/ Refetch \/ EnvAnswered \/ ProjectAnswered
  \/ \E q \in DOMAIN fetch : FetchRead(q)
  \/ EditName \/ HandleSave
  \/ \E k \in Key : AddVariable(k) \/ RemoveVariable(k)
  \/ \E k \in Kinds : Toggle(k)
  \/ \E c \in calls :
       \/ Succeeds(c) \/ SetEnvVars(c) \/ Fails(c)
       \/ Update(c) \/ ReadRow(c) \/ WriteRow(c) \/ GetEnv(c)

Spec == Init /\ [][Next]_vars

----------------------------------------------------------------------------
(***************************************************************************)
(* The row holds what the user has saved and what enabled services have    *)
(* added ("DATABASE_URL has been added to your environment variables",     *)
(* settings/page.tsx:468), and no variable that was removed: provided      *)
(* requests do not overlap or fail, nothing is edited while an answer is   *)
(* under way, the last variable is not removed, and no visit starts from   *)
(* old answers.  A field that was emptied keeps its last value in the row, *)
(* though the page reports it saved: emptied is not what want holds.       *)
(***************************************************************************)
SavedKept ==
  calm /\ fresh /\ calls = {} => env = want.env /\ project.name = want.name

(***************************************************************************)
(* The same, for visits that may start from the answers of earlier ones.   *)
(***************************************************************************)
RevisitedKept == calm /\ calls = {} => env = want.env /\ project.name = want.name
=============================================================================
