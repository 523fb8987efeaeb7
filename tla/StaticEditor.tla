---------------------------- MODULE StaticEditor ----------------------------
(***************************************************************************)
(* The page that edits the files of a static site (editor/page.tsx), with  *)
(* an autosave 500 ms after the last keystroke, and the StaticFile rows    *)
(* behind it.  A text is the set of edits it contains; file 1 is           *)
(* index.html.  Requests are answered in any order, or fail.  What a       *)
(* publication does with the rows is in StaticSite.                        *)
(***************************************************************************)
EXTENDS Naturals, Sequences, FiniteSets

CONSTANTS
  Files,    \* how many files there are, 1..Files
  MaxEdits, \* keystrokes (bound)
  MaxSent,  \* requests under way at once (bound)
  MaxCalls, \* files added and deleted (bound)
  None

File == 1..Files
Index == 1
Text == SUBSET (1..MaxEdits)
Rows == [File -> Text \cup {None}]

StaticEditorAssumption ==
  /\ Files \in Nat \ {0} /\ {MaxEdits, MaxSent, MaxCalls} \subseteq Nat
  /\ None \notin File \cup Rows \cup [file : File, text : Text]
  /\ \A t \in Text : t # None

Request == [kind : {"save", "add", "delete"}, file : File, text : Text, done : BOOLEAN]

NoFetch == [wanted |-> FALSE, data |-> None]
FetchWanted == [wanted |-> TRUE, data |-> None]

VARIABLES
  rows,          \* File -> Text, or None: the StaticFile table
  cache, fetch,  \* the page's query: its data, and the refetch
  selected, text, status, timer, sent, open, \* the page
  edits, calls,  \* keystrokes, and files added or deleted, so far
  typed, hurried \* history: edits the user made; whether in a hurry

page == <<cache, fetch, selected, text, status, timer, sent, open>>
history == <<edits, calls, typed, hurried>>
vars == <<rows, page, history>>

TypeOK ==
  /\ rows \in Rows /\ cache \in Rows /\ fetch \in [wanted : BOOLEAN, data : Rows \cup {None}]
  /\ selected \in File \cup {None} /\ text \in Text
  /\ status \in {"saved", "saving", "unsaved"}
  /\ timer \in [file : File, text : Text] \cup {None}
  /\ sent \subseteq Request /\ Cardinality(sent) <= MaxSent
  /\ open \in BOOLEAN /\ edits \in 0..MaxEdits /\ calls \in 0..MaxCalls
  /\ typed \in [File -> Text] /\ hurried \in BOOLEAN

\* create() seeds index.html; the page is opened on it.
Seed == [f \in File |-> IF f = Index THEN {} ELSE None]
Init ==
  /\ rows = Seed /\ cache = Seed /\ fetch = NoFetch /\ selected = Index /\ text = {} /\ status = "saved"
  /\ timer = None /\ sent = {} /\ open = TRUE
  /\ edits = 0 /\ calls = 0 /\ typed = [f \in File |-> {}] /\ hurried = FALSE
----------------------------------------------------------------------------
(***************************************************************************)
(* The page.                                                               *)
(***************************************************************************)
Present(r) == {f \in File : r[f] # None}
Settled == sent = {} /\ timer = None /\ fetch = NoFetch

\* The effect that opens the first file of the query's data when none is.
Show(data, f, t) ==
  IF f = None /\ Present(data) # {}
  THEN LET first == CHOOSE g \in Present(data) : \A h \in Present(data) : g <= h
       IN  selected' = first /\ text' = data[first]
  ELSE selected' = f /\ text' = t

SelectFile(f) ==
  /\ open /\ cache[f] # None
  /\ selected' = f /\ text' = cache[f] /\ status' = "saved"
  /\ hurried' = (hurried \/ ~Settled)
  /\ UNCHANGED <<rows, cache, fetch, timer, sent, open, edits, calls, typed>>

\* A keystroke starts the interval again, whichever file it was set for.
HandleChange ==
  /\ open /\ selected # None /\ edits < MaxEdits
  /\ edits' = edits + 1
  /\ text' = text \cup {edits'} /\ status' = "saving"
  /\ timer' = [file |-> selected, text |-> text']
  /\ typed' = [typed EXCEPT ![selected] = @ \cup {edits'}]
  /\ hurried' = (hurried \/ sent # {} \/ (timer # None /\ timer.file # selected))
  /\ UNCHANGED <<rows, cache, fetch, selected, sent, open, calls>>

Send(kind, f, t) ==
  /\ Cardinality(sent) < MaxSent
  /\ sent' = sent \cup {[kind |-> kind, file |-> f, text |-> t, done |-> FALSE]}

Autosave ==
  /\ timer # None /\ Send("save", timer.file, timer.text) /\ timer' = None
  /\ UNCHANGED <<rows, history, cache, fetch, selected, text, status, open>>

HandleAddFile(f) ==
  /\ open /\ calls < MaxCalls /\ calls' = calls + 1 /\ Send("add", f, {})
  /\ hurried' = (hurried \/ rows[f] # None \/ ~Settled)
  /\ UNCHANGED <<rows, cache, fetch, selected, text, status, timer, open, edits, typed>>

HandleDeleteFile(f) ==
  /\ open /\ cache[f] # None /\ Send("delete", f, {})
  /\ calls < MaxCalls /\ calls' = calls + 1
  /\ typed' = [typed EXCEPT ![f] = {}] /\ hurried' = (hurried \/ ~Settled)
  /\ UNCHANGED <<rows, cache, fetch, selected, text, status, timer, open, edits>>

\* The answer to a request that succeeded; the hook invalidates the query.
Answered(r) ==
  /\ r \in sent /\ r.done /\ sent' = sent \ {r}
  /\ fetch' = IF open THEN FetchWanted ELSE fetch
  /\ IF open
     THEN /\ status' = IF r.kind = "save" THEN "saved" ELSE status
          /\ CASE r.kind = "add" -> selected' = r.file /\ text' = {}
               [] r.kind = "delete" /\ selected = r.file -> Show(cache, None, {})
               [] OTHER -> UNCHANGED <<selected, text>>
     ELSE UNCHANGED <<selected, text, status>>
  /\ UNCHANGED <<rows, history, cache, timer, open>>

Failed(r) ==
  /\ r \in sent /\ ~r.done /\ sent' = sent \ {r}
  /\ status' = IF r.kind = "save" /\ open THEN "unsaved" ELSE status
  /\ hurried' = TRUE
  /\ UNCHANGED <<rows, cache, fetch, selected, text, timer, open, edits, calls, typed>>

FetchRead ==
  /\ fetch.wanted /\ fetch' = [wanted |-> FALSE, data |-> rows]
  /\ UNCHANGED <<rows, history, cache, selected, text, status, timer, sent, open>>

FetchAnswered ==
  /\ fetch.data # None /\ cache' = fetch.data /\ fetch' = NoFetch
  /\ Show(fetch.data, selected, text)
  /\ UNCHANGED <<rows, history, status, timer, sent, open>>

\* Unmounting clears the interval; handlePublish ends with it too.
Leave ==
  /\ open /\ open' = FALSE /\ timer' = None /\ fetch' = NoFetch
  /\ hurried' = (hurried \/ timer # None)
  /\ UNCHANGED <<rows, cache, selected, text, status, sent, edits, calls, typed>>
----------------------------------------------------------------------------
(***************************************************************************)
(* The backend.                                                            *)
(***************************************************************************)
Upsert(r) ==
  /\ r \in sent /\ ~r.done /\ r.kind \in {"save", "add"}
  /\ rows' = [rows EXCEPT ![r.file] = r.text]
  /\ sent' = (sent \ {r}) \cup {[r EXCEPT !.done = TRUE]}
  /\ UNCHANGED <<history, cache, fetch, selected, text, status, timer, open>>

Remove(r) ==
  /\ r \in sent /\ ~r.done /\ r.kind = "delete" /\ rows[r.file] # None
  /\ rows' = [rows EXCEPT ![r.file] = None]
  /\ sent' = (sent \ {r}) \cup {[r EXCEPT !.done = TRUE]}
  /\ UNCHANGED <<history, cache, fetch, selected, text, status, timer, open>>

----------------------------------------------------------------------------
Next ==
  \/ HandleChange \/ Autosave \/ FetchRead \/ FetchAnswered \/ Leave
  \/ \E f \in File : SelectFile(f) \/ HandleAddFile(f) \/ HandleDeleteFile(f)
  \/ \E r \in sent : Answered(r) \/ Failed(r) \/ Upsert(r) \/ Remove(r)

Spec == Init /\ [][Next]_vars
----------------------------------------------------------------------------
Edits(r, f) == IF r[f] = None THEN {} ELSE r[f]

(***************************************************************************)
(* Once nothing is under way, the rows hold every edit the user made,      *)
(* provided the user never typed while a save was under way, never changed *)
(* the file or left before the autosave and the refetch, never added a     *)
(* name that exists, and no request failed.                                *)
(***************************************************************************)
PatientEditsKept ==
  ~hurried /\ timer = None /\ sent = {} =>
    \A f \in File : typed[f] \subseteq Edits(rows, f)
=============================================================================
