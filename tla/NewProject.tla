------------------------------ MODULE NewProject ------------------------------
(***************************************************************************)
(* The wizard that creates a project (projects/new/page.tsx): what its     *)
(* form holds when Create is pressed, after going forward and back, with   *)
(* two effects that ask the backend for the branches of the repository     *)
(* (800 ms after the last keystroke) and whether the port is taken         *)
(* (500 ms), and whose late answers nobody calls back.                     *)
(*                                                                         *)
(* A branch is <<repository, name>>.  Texts that the page itself checks    *)
(* (slug, domain, variables) are left out.                                 *)
(***************************************************************************)
EXTENDS Naturals

CONSTANTS
  Repo,
  Port, Taken,  \* ports one can type; those other projects have
  MaxEdits,     \* bound: edits of the form
  None

Branch == Repo \X {"default", "other"}

NewProjectAssumption ==
  /\ Taken \subseteq Port /\ MaxEdits \in Nat
  /\ None \notin Repo \cup Port \cup Branch

Source == {"none", "GITHUB", "UPLOAD", "STATIC"}
Form == [source : Source, repo : Repo \cup {None}, branch : Branch \cup {None},
         port : Port \cup {None}, service : BOOLEAN]
BranchCall == [repo : Repo, blank : BOOLEAN]

VARIABLES
  step, form, file,
  branchTimer, branchCalls,  \* the interval of the first effect, its requests
  portStatus, portTimer, portCalls,
  edits,
  meant,    \* history: the branch the user chose last, or is given
  patient   \* ... waited for answers, kept to one repository and source

timers == <<branchTimer, portTimer>>
asked == <<branchCalls, portCalls>>
vars == <<step, form, file, timers, asked, portStatus, edits, meant, patient>>

TypeOK ==
  /\ step \in {"source", "basic", "env", "confirm", "created"}
  /\ form \in Form /\ file \in BOOLEAN
  /\ branchTimer \in BranchCall \cup {None} /\ branchCalls \subseteq BranchCall
  /\ portStatus \in {"idle", "checking", "available", "taken"}
  /\ portTimer \in Port \cup {None} /\ portCalls \subseteq Port
  /\ edits \in 0..MaxEdits
  /\ meant \in Branch \cup {None} /\ patient \in BOOLEAN

Init ==
  /\ step = "source"
  /\ form = [source |-> "none", repo |-> None, branch |-> None, port |-> None,
             service |-> FALSE]
  /\ file = FALSE
  /\ branchTimer = None /\ branchCalls = {}
  /\ portStatus = "idle" /\ portTimer = None /\ portCalls = {}
  /\ edits = 0
  /\ meant = None /\ patient = TRUE

At(s) == step = s
Edit == edits < MaxEdits /\ edits' = edits + 1

\* The first effect, for the form it runs with: it remembers whether there
\* was a branch.
BranchEffect(f) ==
  branchTimer' = IF f.source = "GITHUB" /\ f.repo # None
                   THEN [repo |-> f.repo, blank |-> f.branch = None] ELSE None

BranchAsked == branchTimer # None \/ branchCalls # {}

----------------------------------------------------------------------------
(* The source.                                                             *)

ChooseSource(s) ==
  /\ At("source") /\ s # form.source /\ Edit
  /\ form' = [form EXCEPT !.source = s]
  /\ BranchEffect(form')
  /\ file' = (file /\ s = "UPLOAD")
  /\ patient' = (patient /\ (s = "STATIC" => form.port = None))
  /\ UNCHANGED <<step, portTimer, asked, portStatus, meant>>

\* A repository is typed: the branch stays ...
TypeRepo(r) ==
  /\ At("source") /\ form.source = "GITHUB" /\ r # form.repo /\ Edit
  /\ form' = [form EXCEPT !.repo = r]
  /\ BranchEffect(form')
  /\ meant' = <<r, "default">>
  /\ patient' = (patient /\ form.branch = None /\ branchCalls = {})
  /\ UNCHANGED <<step, file, portTimer, asked, portStatus>>

\* ... or selected, with its default branch ...
SelectRepo(r) ==
  /\ At("source") /\ form.source = "GITHUB" /\ Edit
  /\ form' = [form EXCEPT !.repo = r, !.branch = <<r, "default">>]
  /\ IF r # form.repo THEN BranchEffect(form') ELSE UNCHANGED branchTimer
  /\ meant' = <<r, "default">>
  /\ patient' = (patient /\ \A c \in branchCalls : ~c.blank)
  /\ UNCHANGED <<step, file, portTimer, asked, portStatus>>

\* ... or both are cleared, on the way to the selector.
ClearRepo ==
  /\ At("source") /\ form.source = "GITHUB" /\ form.repo # None /\ Edit
  /\ form' = [form EXCEPT !.repo = None, !.branch = None]
  /\ BranchEffect(form')
  /\ meant' = None
  /\ patient' = (patient /\ branchCalls = {})
  /\ UNCHANGED <<step, file, portTimer, asked, portStatus>>

TypeBranch ==
  /\ At("source") /\ form.source = "GITHUB" /\ form.repo # None /\ Edit
  /\ form' = [form EXCEPT !.branch = <<form.repo, "other">>]
  /\ meant' = form'.branch
  /\ patient' = (patient /\ ~BranchAsked)
  /\ UNCHANGED <<step, file, timers, asked, portStatus>>

AskBranches ==
  /\ branchTimer # None /\ branchTimer' = None
  /\ branchCalls' = branchCalls \cup {branchTimer}
  /\ UNCHANGED <<step, form, file, portTimer, portCalls, portStatus, edits, meant, patient>>

\* The answer (or an error): the default branch, if there was none.
BranchesAnswered(c) ==
  /\ c \in branchCalls /\ branchCalls' = branchCalls \ {c}
  /\ \/ form' = IF c.blank THEN [form EXCEPT !.branch = <<c.repo, "default">>] ELSE form
     \/ UNCHANGED form
  /\ UNCHANGED <<step, file, timers, portCalls, portStatus, edits, meant, patient>>

\* handleFileSelect and removeFile.
ChooseFile ==
  /\ At("source") /\ form.source = "UPLOAD" /\ Edit
  /\ file' = ~file
  /\ UNCHANGED <<step, form, timers, asked, portStatus, meant, patient>>

----------------------------------------------------------------------------
(* The basic step.                                                         *)

TypePort(p) ==
  /\ At("basic") /\ form.source # "STATIC" /\ p # form.port /\ Edit
  /\ form' = [form EXCEPT !.port = p]
  /\ portTimer' = p
  /\ portStatus' = IF p = None THEN "idle" ELSE "checking"
  /\ patient' = (patient /\ portCalls = {})
  /\ UNCHANGED <<step, file, branchTimer, asked, meant>>

AskPort ==
  /\ portTimer # None /\ portTimer' = None
  /\ portCalls' = portCalls \cup {portTimer}
  /\ UNCHANGED <<step, form, file, branchTimer, branchCalls, portStatus, edits, meant, patient>>

\* The answer, for whichever port it was asked; an error counts as no check.
PortAnswered(p) ==
  /\ p \in portCalls /\ portCalls' = portCalls \ {p}
  /\ \/ portStatus' = (IF p \in Taken THEN "taken" ELSE "available") /\ UNCHANGED patient
     \/ portStatus' = "idle" /\ patient' = FALSE
  /\ UNCHANGED <<step, form, file, timers, branchCalls, edits, meant>>

\* A platform database, Redis or bucket (also of a static site, for which the
\* backend will refuse it).
ToggleService ==
  /\ At("basic") /\ Edit
  /\ form' = [form EXCEPT !.service = ~@]
  /\ UNCHANGED <<step, file, timers, asked, portStatus, meant, patient>>

----------------------------------------------------------------------------
(* Navigation.                                                             *)

CanContinueFromSource ==
  /\ form.source # "none"
  /\ form.source = "GITHUB" => form.repo # None /\ form.branch # None
  /\ form.source = "UPLOAD" => file

\* Mutant: does not wait for the answer.
CanContinueFromBasic_early == form.port # None => portStatus # "taken"

CanContinueFromBasic ==
  /\ form.port # None => portStatus # "taken"
  /\ form.source = "STATIC" \/ portStatus # "checking"

GoTo(s) == step' = s /\ UNCHANGED <<form, file, timers, asked, portStatus, edits, meant, patient>>

Continue ==
  \/ At("source") /\ CanContinueFromSource /\ GoTo("basic")
  \/ At("basic") /\ CanContinueFromBasic
       /\ GoTo(IF form.source = "STATIC" THEN "confirm" ELSE "env")
  \/ At("env") /\ GoTo("confirm")

\* The back buttons, and the indicator, which goes to any earlier step.
Back ==
  \/ At("basic") /\ GoTo("source")
  \/ At("env") /\ \E s \in {"source", "basic"} : GoTo(s)
  \/ At("confirm") /\ \E s \in {"source", "basic", "env"} : GoTo(s)

\* handleCreate.
HandleCreate == At("confirm") /\ GoTo("created")

Next ==
  \/ \E s \in Source \ {"none"} : ChooseSource(s)
  \/ \E r \in Repo : TypeRepo(r) \/ SelectRepo(r)
  \/ ClearRepo \/ TypeBranch \/ AskBranches \/ ChooseFile
  \/ \E c \in branchCalls : BranchesAnswered(c)
  \/ \E p \in Port \cup {None} : TypePort(p)
  \/ AskPort \/ ToggleService
  \/ \E p \in portCalls : PortAnswered(p)
  \/ Continue \/ Back \/ HandleCreate

Spec == Init /\ [][Next]_vars

----------------------------------------------------------------------------
(***************************************************************************)
(* Whatever the way through the steps, what is submitted is complete; and  *)
(* from a user who waits for the answers and does not change the           *)
(* repository or the source under a choice already made, it is what he     *)
(* chose, with a port that nobody has.                                     *)
(***************************************************************************)
SubmissionComplete ==
  /\ form.source = "GITHUB" => form.repo # None /\ form.branch # None
  /\ form.source = "UPLOAD" => file

SubmissionMeant ==
  /\ form.source = "GITHUB" => form.branch = meant
  /\ form.port \notin Taken

SubmissionAsChosen ==
  At("created") => SubmissionComplete /\ (patient => SubmissionMeant)
=============================================================================
