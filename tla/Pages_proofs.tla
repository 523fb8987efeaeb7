------------------------------ MODULE Pages_proofs ------------------------------
(***************************************************************************)
(* The safety of the frontend's pages (Pages), for every value of the      *)
(* constants: whatever is typed, chosen and clicked, in every number and   *)
(* every order of edits, calls and answers.  Each page has an inductive    *)
(* invariant of its own, a lemma per action says that the action keeps it, *)
(* and the last section adds the seven up.                                 *)
(***************************************************************************)
EXTENDS Pages, Integers, Sequences, FiniteSets, SequenceTheorems, FiniteSetTheorems,
        WellFoundedInduction, TLAPS

----------------------------------------------------------------------------
\* An element more adds at most one.
LEMMA OneMore ==
  ASSUME NEW S, NEW x, IsFiniteSet(S)
  PROVE  /\ IsFiniteSet(S \cup {x}) /\ Cardinality(S) \in Nat
         /\ Cardinality(S \cup {x}) \in Nat
         /\ Cardinality(S \cup {x}) <= Cardinality(S) + 1
<1>1. /\ IsFiniteSet(S \cup {x})
      /\ Cardinality(S \cup {x}) = IF x \in S THEN Cardinality(S) ELSE Cardinality(S) + 1
  BY FS_AddElement
<1>2. Cardinality(S) \in Nat /\ Cardinality(S \cup {x}) \in Nat
  BY <1>1, FS_CardinalityType
<1> QED
  BY <1>1, <1>2

----------------------------------------------------------------------------
(* The editor of a static site.                                            *)

EdTypes ==
  /\ stored \in Ed!Rows /\ known \in Ed!Rows
  /\ fetch \in [wanted : BOOLEAN, data : Ed!Rows \cup {NoValue}]
  /\ selected \in Ed!File \cup {NoValue} /\ text \in Ed!Text
  /\ standing \in {"saved", "saving", "unsaved"}
  /\ timer \in [file : Ed!File, text : Ed!Text] \cup {NoValue}
  /\ shown \in BOOLEAN /\ changes \in 0..FileEdits /\ calls \in 0..FileCalls
  /\ typed \in [Ed!File -> Ed!Text] /\ hurried \in BOOLEAN

EdRequests ==
  sent \subseteq Ed!Request /\ IsFiniteSet(sent) /\ Cardinality(sent) <= MaxSent

\* The open page's data is that of the table, or will be asked for.
EdAsked ==
  shown =>
    /\ \/ known = stored \/ fetch.wanted \/ fetch.data = stored
       \/ \E r \in sent : r.done
    /\ fetch.wanted => fetch.data = NoValue
    /\ fetch.data = NoValue \/ fetch.data = stored \/ \E r \in sent : r.done

\* Of a user in no hurry there is at most one request, with all he typed ...
EdSent ==
  /\ timer # NoValue => sent = {} /\ typed[timer.file] \subseteq timer.text
  /\ \A r \in sent : \A q \in sent : r = q
  /\ \A r \in sent : typed[r.file] \subseteq r.text
  /\ \A r \in sent : r.kind # "save" => r.text = {}

\* ... his edits are in the table or on the way, and the page shows them.
EdEdits ==
  \A f \in Ed!File : \/ typed[f] \subseteq Ed!Edits(stored, f)
                     \/ timer # NoValue /\ timer.file = f
                     \/ \E r \in sent : ~r.done /\ r.file = f
EdShown ==
  shown =>
    /\ selected # NoValue /\ typed[selected] \subseteq text
    /\ \A r \in sent : r.kind = "delete" =>
         /\ fetch = Ed!NoFetch /\ known[r.file] # NoValue
         /\ \A f \in Ed!File : typed[f] \subseteq Ed!Edits(known, f)

EdInv ==
  /\ EdTypes /\ EdRequests /\ EdAsked
  /\ ~hurried => EdSent /\ EdEdits /\ EdShown

LEMMA EdSizes == \A S : Ed!Cardinality(S) = Cardinality(S)
BY DEF Ed!Cardinality, Cardinality

LEMMA EdBounds ==
  ASSUME Ed!StaticEditorAssumption
  PROVE  /\ {FileEdits, MaxSent, FileCalls} \subseteq Nat
         /\ Ed!File \subseteq Nat /\ Ed!Index \in Ed!File
         /\ NoValue \notin Ed!File /\ NoValue \notin Ed!Text /\ NoValue \notin Ed!Rows
         /\ NoValue \notin [file : Ed!File, text : Ed!Text]
BY DEF Ed!StaticEditorAssumption, Ed!File, Ed!Index

\* One more request, one less, and one that is done.
LEMMA EdSend ==
  ASSUME EdRequests, NEW kind \in {"save", "add", "delete"}, NEW f \in Ed!File,
         NEW t \in Ed!Text, Ed!Send(kind, f, t), Ed!StaticEditorAssumption
  PROVE  /\ sent' = sent \cup {[kind |-> kind, file |-> f, text |-> t, done |-> FALSE]}
         /\ EdRequests'
<1> DEFINE r == [kind |-> kind, file |-> f, text |-> t, done |-> FALSE]
<1>1. sent' = sent \cup {r} /\ Cardinality(sent) < MaxSent
  BY EdSizes DEF Ed!Send
<1>2. r \in Ed!Request
  BY DEF Ed!Request
<1>3. /\ IsFiniteSet(sent') /\ Cardinality(sent) \in Nat /\ Cardinality(sent') \in Nat
      /\ Cardinality(sent') <= Cardinality(sent) + 1
  BY <1>1, OneMore DEF EdRequests
<1>4. Cardinality(sent') <= MaxSent
  BY <1>1, <1>3, EdBounds
<1> QED
  BY <1>1, <1>2, <1>3, <1>4 DEF EdRequests

LEMMA EdDrop ==
  ASSUME EdRequests, NEW r \in sent, sent' = sent \ {r}, Ed!StaticEditorAssumption
  PROVE  EdRequests'
<1>1. IsFiniteSet(sent') /\ Cardinality(sent') <= Cardinality(sent)
  BY FS_Subset DEF EdRequests
<1>2. Cardinality(sent) \in Nat /\ Cardinality(sent') \in Nat /\ MaxSent \in Nat
  BY <1>1, FS_CardinalityType, EdBounds DEF EdRequests
<1> QED
  BY <1>1, <1>2 DEF EdRequests

LEMMA EdDone ==
  ASSUME EdRequests, NEW r \in sent, Ed!StaticEditorAssumption,
         sent' = (sent \ {r}) \cup {[r EXCEPT !.done = TRUE]}
  PROVE  EdRequests'
<1> DEFINE q == [r EXCEPT !.done = TRUE]
           rest == sent \ {r}
<1>1. q \in Ed!Request
  BY DEF EdRequests, Ed!Request
<1>2. IsFiniteSet(rest) /\ Cardinality(rest) = Cardinality(sent) - 1
  BY FS_RemoveElement DEF EdRequests
<1>3. /\ IsFiniteSet(rest \cup {q}) /\ Cardinality(rest) \in Nat
      /\ Cardinality(rest \cup {q}) \in Nat
      /\ Cardinality(rest \cup {q}) <= Cardinality(rest) + 1
  BY <1>2, OneMore
<1>4. sent' = rest \cup {q} /\ Cardinality(sent) \in Nat /\ Cardinality(sent) <= MaxSent
  BY FS_CardinalityType DEF EdRequests
<1>5. Cardinality(sent') <= MaxSent
  <2>1. MaxSent \in Nat
    BY EdBounds
  <2>2. \A a, b, c, d \in Nat : b = a - 1 /\ a <= d /\ c <= b + 1 => c <= d
    OBVIOUS
  <2> HIDE DEF rest, q
  <2>3. Cardinality(rest \cup {q}) <= MaxSent
    BY <1>2, <1>3, <1>4, <2>1, <2>2
  <2> QED
    BY <1>4, <2>3
<1> QED
  BY <1>1, <1>3, <1>4, <1>5 DEF EdRequests

\* What is shown of some rows is a file of theirs.
LEMMA EdShow ==
  ASSUME Ed!StaticEditorAssumption, NEW data \in Ed!Rows,
         NEW f \in Ed!File \cup {NoValue}, NEW t \in Ed!Text, Ed!Show(data, f, t)
  PROVE  /\ selected' \in Ed!File \cup {NoValue} /\ text' \in Ed!Text
         /\ f # NoValue => selected' = f /\ text' = t
         /\ f = NoValue /\ Ed!Present(data) # {} =>
              selected' \in Ed!Present(data) /\ text' = data[selected']
<1>1. CASE f = NoValue /\ Ed!Present(data) # {}
  <2> DEFINE first == CHOOSE g \in Ed!Present(data) : \A h \in Ed!Present(data) : g <= h
  <2>1. Ed!Present(data) \subseteq Nat /\ Ed!Present(data) \subseteq Ed!File
    BY EdBounds DEF Ed!Present
  <2>2. PICK x \in Ed!Present(data) :
          \A y \in Ed!Present(data) : ~ (<<y, x>> \in OpToRel(<, Nat))
    BY <1>1, <2>1, NatLessThanWellFounded, WFMin
  <2>3. \A y \in Ed!Present(data) : x <= y
    <3> SUFFICES ASSUME NEW y \in Ed!Present(data), ~ (x <= y)  PROVE FALSE
      OBVIOUS
    <3>1. x \in Nat /\ y \in Nat /\ y < x
      BY <2>1
    <3> QED
      BY <2>2, <3>1 DEF OpToRel
  <2>4. first \in Ed!Present(data)
    BY <2>3
  <2>5. selected' = first /\ text' = data[first]
    BY <1>1 DEF Ed!Show
  <2>6. data[first] \in Ed!Text
    BY <2>4 DEF Ed!Present, Ed!Rows
  <2> HIDE DEF first
  <2> QED
    BY <1>1, <2>1, <2>4, <2>5, <2>6
<1>2. CASE ~(f = NoValue /\ Ed!Present(data) # {})
  BY <1>2 DEF Ed!Show
<1> QED
  BY <1>1, <1>2

LEMMA EdStart ==
  ASSUME Ed!StaticEditorAssumption, Ed!Init
  PROVE  EdInv
<1>1. /\ stored = Ed!Seed /\ known = Ed!Seed /\ Ed!Seed \in Ed!Rows
      /\ {} \in Ed!Text
  BY DEF Ed!Init, Ed!Seed, Ed!Rows, Ed!Text
<1>2. changes \in 0..FileEdits /\ calls \in 0..FileCalls
  BY EdBounds DEF Ed!Init
<1>3. fetch \in [wanted : BOOLEAN, data : Ed!Rows \cup {NoValue}]
  BY DEF Ed!Init, Ed!NoFetch
<1>4. EdTypes
  BY <1>1, <1>2, <1>3, EdBounds DEF Ed!Init, EdTypes
<1>5. EdRequests
  BY FS_EmptySet, EdBounds DEF Ed!Init, EdRequests
<1>6. EdAsked /\ EdSent /\ EdEdits /\ EdShown
  BY <1>1, EdBounds DEF Ed!Init, Ed!NoFetch, EdAsked, EdSent, EdEdits, EdShown
<1> QED
  BY <1>4, <1>5, <1>6 DEF EdInv

\* With nothing under way, the page has the table's data.
LEMMA EdSettled ==
  ASSUME Ed!StaticEditorAssumption, EdInv, shown, Ed!Settled
  PROVE  /\ known = stored
         /\ ~hurried => \A f \in Ed!File : typed[f] \subseteq Ed!Edits(known, f)
<1>1. sent = {} /\ timer = NoValue /\ fetch.wanted = FALSE /\ fetch.data = NoValue
  BY DEF Ed!Settled, Ed!NoFetch
<1>2. stored # NoValue
  BY EdBounds DEF EdInv, EdTypes
<1>3. known = stored
  BY <1>1, <1>2 DEF EdInv, EdAsked
<1> QED
  BY <1>1, <1>3 DEF EdInv, EdEdits

LEMMA EdSelectFile ==
  ASSUME Ed!StaticEditorAssumption, EdInv, NEW f \in Ed!File, Ed!SelectFile(f)
  PROVE  EdInv'
<1>1. /\ shown /\ known[f] # NoValue /\ selected' = f /\ text' = known[f]
      /\ standing' = "saved" /\ hurried' = (hurried \/ ~Ed!Settled)
      /\ UNCHANGED <<stored, known, fetch, timer, sent, shown, changes, calls, typed>>
  BY DEF Ed!SelectFile
<1>2. known[f] \in Ed!Text
  BY <1>1 DEF EdInv, EdTypes, Ed!Rows
<1>3. EdTypes'
  <2>1. hurried' \in BOOLEAN
    BY <1>1
  <2> QED
    BY <1>1, <1>2, <2>1 DEF EdInv, EdTypes
<1>4. ASSUME ~hurried'  PROVE EdSent' /\ EdEdits' /\ EdShown'
  <2>1. ~hurried /\ Ed!Settled
    BY <1>1, <1>4
  <2>2. sent = {} /\ \A g \in Ed!File : typed[g] \subseteq Ed!Edits(known, g)
    BY <1>1, <2>1, EdSettled DEF Ed!Settled
  <2>3. EdShown'
    BY <1>1, <2>2, EdBounds DEF EdShown, Ed!Edits
  <2> QED
    BY <1>1, <2>1, <2>3 DEF EdInv, EdSent, EdEdits, Ed!Edits
<1> QED
  BY <1>1, <1>3, <1>4 DEF EdInv, EdRequests, EdAsked

LEMMA EdHandleChange ==
  ASSUME Ed!StaticEditorAssumption, EdInv, Ed!HandleChange
  PROVE  EdInv'
<1> DEFINE e == changes + 1
<1>1. /\ shown /\ selected # NoValue /\ changes < FileEdits /\ changes' = e
      /\ text' = text \cup {e} /\ standing' = "saving"
      /\ timer' = [file |-> selected, text |-> text \cup {e}]
      /\ typed' = [typed EXCEPT ![selected] = typed[selected] \cup {e}]
      /\ hurried' = (hurried \/ sent # {} \/ (timer # NoValue /\ timer.file # selected))
      /\ UNCHANGED <<stored, known, fetch, selected, sent, shown, calls>>
  BY DEF Ed!HandleChange
<1>2. e \in 1..FileEdits /\ e \in 0..FileEdits
  BY <1>1, EdBounds DEF EdInv, EdTypes
<1>3. selected \in Ed!File /\ text \in Ed!Text /\ typed \in [Ed!File -> Ed!Text]
  BY <1>1 DEF EdInv, EdTypes
<1>4. /\ text' \in Ed!Text /\ typed' \in [Ed!File -> Ed!Text]
      /\ timer' \in [file : Ed!File, text : Ed!Text]
      /\ timer'.file = selected /\ timer'.text = text'
  BY <1>1, <1>2, <1>3 DEF Ed!Text
<1>5. EdTypes'
  <2>1. hurried' \in BOOLEAN
    BY <1>1
  <2> QED
    BY <1>1, <1>2, <1>3, <1>4, <2>1 DEF EdInv, EdTypes
<1>6. ASSUME ~hurried'  PROVE EdSent' /\ EdEdits' /\ EdShown'
  <2>1. ~hurried /\ sent = {} /\ (timer # NoValue => timer.file = selected)
    BY <1>1, <1>6
  <2>2. typed[selected] \subseteq text
    BY <1>1, <2>1 DEF EdInv, EdShown
  <2>3. typed'[selected] \subseteq text' /\ \A g \in Ed!File \ {selected} : typed'[g] = typed[g]
    BY <1>1, <1>3, <2>2
  <2>4. EdSent'
    BY <1>1, <1>4, <2>1, <2>3 DEF EdSent
  <2>5. timer' # NoValue
    BY <1>4, EdBounds
  <2>6. EdEdits'
    BY <1>1, <1>4, <2>1, <2>3, <2>5 DEF EdInv, EdEdits, Ed!Edits
  <2>7. EdShown'
    BY <1>1, <2>1, <2>3 DEF EdShown
  <2> QED
    BY <2>4, <2>6, <2>7
<1> QED
  BY <1>1, <1>5, <1>6 DEF EdInv, EdRequests, EdAsked

LEMMA EdAutosave ==
  ASSUME Ed!StaticEditorAssumption, EdInv, Ed!Autosave
  PROVE  EdInv'
<1> DEFINE r == [kind |-> "save", file |-> timer.file, text |-> timer.text, done |-> FALSE]
<1>1. /\ timer # NoValue /\ timer' = NoValue /\ Ed!Send("save", timer.file, timer.text)
      /\ UNCHANGED <<stored, changes, calls, typed, hurried, known, fetch, selected, text,
                     standing, shown>>
  BY DEF Ed!Autosave, Ed!history
<1>2. timer.file \in Ed!File /\ timer.text \in Ed!Text
  BY <1>1 DEF EdInv, EdTypes
<1>3. sent' = sent \cup {r} /\ EdRequests'
  BY <1>1, <1>2, EdSend DEF EdInv
<1>4. EdTypes' /\ EdAsked'
  BY <1>1, <1>3 DEF EdInv, EdTypes, EdAsked
<1>5. ASSUME ~hurried'  PROVE EdSent' /\ EdEdits' /\ EdShown'
  <2>1. ~hurried /\ sent = {} /\ typed[timer.file] \subseteq timer.text
    BY <1>1, <1>5 DEF EdInv, EdSent
  <2>2. sent' = {r}
    BY <1>3, <2>1
  <2>3. EdSent'
    BY <1>1, <2>1, <2>2 DEF EdSent
  <2>4. EdEdits'
    BY <1>1, <2>1, <2>2 DEF EdInv, EdEdits, Ed!Edits
  <2>5. EdShown'
    BY <1>1, <2>1, <2>2 DEF EdInv, EdShown
  <2> QED
    BY <2>3, <2>4, <2>5
<1> QED
  BY <1>3, <1>4, <1>5 DEF EdInv

LEMMA EdHandleAddFile ==
  ASSUME Ed!StaticEditorAssumption, EdInv, NEW f \in Ed!File, Ed!HandleAddFile(f)
  PROVE  EdInv'
<1> DEFINE r == [kind |-> "add", file |-> f, text |-> {}, done |-> FALSE]
<1>1. /\ shown /\ calls < FileCalls /\ calls' = calls + 1 /\ Ed!Send("add", f, {})
      /\ hurried' = (hurried \/ stored[f] # NoValue \/ ~Ed!Settled)
      /\ UNCHANGED <<stored, known, fetch, selected, text, standing, timer, shown, changes,
                     typed>>
  BY DEF Ed!HandleAddFile
<1>2. sent' = sent \cup {r} /\ EdRequests'
  <2>1. {} \in Ed!Text
    BY DEF Ed!Text
  <2> QED
    BY <1>1, <2>1, EdSend DEF EdInv
<1>3. EdTypes'
  <2>1. calls' \in 0..FileCalls
    BY <1>1, EdBounds DEF EdInv, EdTypes
  <2>2. hurried' \in BOOLEAN
    BY <1>1
  <2> QED
    BY <1>1, <2>1, <2>2 DEF EdInv, EdTypes
<1>4. EdAsked'
  BY <1>1, <1>2 DEF EdInv, EdAsked
<1>5. ASSUME ~hurried'  PROVE EdSent' /\ EdEdits' /\ EdShown'
  <2>1. ~hurried /\ stored[f] = NoValue /\ Ed!Settled /\ sent' = {r}
    BY <1>1, <1>2, <1>5 DEF Ed!Settled
  <2>2. timer = NoValue /\ \A g \in Ed!File : typed[g] \subseteq Ed!Edits(stored, g)
    BY <1>1, <2>1, EdSettled DEF Ed!Settled
  <2>3. typed[f] = {}
    BY <2>1, <2>2 DEF Ed!Edits
  <2>4. EdSent'
    BY <1>1, <2>1, <2>2, <2>3 DEF EdSent
  <2>5. EdEdits'
    BY <1>1, <2>2 DEF EdEdits, Ed!Edits
  <2>6. EdShown'
    BY <1>1, <2>1 DEF EdInv, EdShown
  <2> QED
    BY <2>4, <2>5, <2>6
<1> QED
  BY <1>2, <1>3, <1>4, <1>5 DEF EdInv

LEMMA EdHandleDeleteFile ==
  ASSUME Ed!StaticEditorAssumption, EdInv, NEW f \in Ed!File, Ed!HandleDeleteFile(f)
  PROVE  EdInv'
<1> DEFINE r == [kind |-> "delete", file |-> f, text |-> {}, done |-> FALSE]
<1>1. /\ shown /\ known[f] # NoValue /\ calls < FileCalls /\ calls' = calls + 1
      /\ Ed!Send("delete", f, {})
      /\ typed' = [typed EXCEPT ![f] = {}] /\ hurried' = (hurried \/ ~Ed!Settled)
      /\ UNCHANGED <<stored, known, fetch, selected, text, standing, timer, shown, changes>>
  BY DEF Ed!HandleDeleteFile
<1>2. {} \in Ed!Text
  BY DEF Ed!Text
<1>3. sent' = sent \cup {r} /\ EdRequests'
  BY <1>1, <1>2, EdSend DEF EdInv
<1>4. typed \in [Ed!File -> Ed!Text] /\ typed' \in [Ed!File -> Ed!Text]
  BY <1>1, <1>2 DEF EdInv, EdTypes
<1>5. EdTypes'
  <2>1. calls' \in 0..FileCalls
    BY <1>1, EdBounds DEF EdInv, EdTypes
  <2>2. hurried' \in BOOLEAN
    BY <1>1
  <2> QED
    BY <1>1, <1>4, <2>1, <2>2 DEF EdInv, EdTypes
<1>6. EdAsked'
  BY <1>1, <1>3 DEF EdInv, EdAsked
<1>7. ASSUME ~hurried'  PROVE EdSent' /\ EdEdits' /\ EdShown'
  <2>1. ~hurried /\ Ed!Settled
    BY <1>1, <1>7
  <2>2. sent' = {r} /\ timer = NoValue /\ fetch = Ed!NoFetch
    BY <1>3, <2>1 DEF Ed!Settled
  <2>3. known = stored /\ \A g \in Ed!File : typed[g] \subseteq Ed!Edits(known, g)
    BY <1>1, <2>1, EdSettled
  <2>4. typed'[f] = {} /\ \A g \in Ed!File : typed'[g] \subseteq typed[g]
    BY <1>1, <1>4
  <2>5. EdSent'
    BY <1>1, <2>2, <2>4 DEF EdSent
  <2>6. EdEdits'
    BY <1>1, <2>3, <2>4 DEF EdEdits, Ed!Edits
  <2>7. EdShown'
    <3>1. selected # NoValue /\ typed[selected] \subseteq text /\ selected \in Ed!File
      BY <1>1, <2>1 DEF EdInv, EdShown, EdTypes
    <3>2. \A g \in Ed!File : typed'[g] \subseteq Ed!Edits(known, g)
      BY <2>3, <2>4
    <3> QED
      BY <1>1, <2>2, <2>4, <3>1, <3>2 DEF EdShown, Ed!Edits
  <2> QED
    BY <2>5, <2>6, <2>7
<1> QED
  BY <1>3, <1>5, <1>6, <1>7 DEF EdInv

LEMMA EdAnswered ==
  ASSUME Ed!StaticEditorAssumption, EdInv, NEW r \in sent, Ed!Answered(r)
  PROVE  EdInv'
<1>1. /\ r.done /\ sent' = sent \ {r}
      /\ fetch' = IF shown THEN Ed!FetchWanted ELSE fetch
      /\ standing' = IF shown /\ r.kind = "save" THEN "saved" ELSE standing
      /\ UNCHANGED <<stored, changes, calls, typed, hurried, known, timer, shown>>
  BY DEF Ed!Answered, Ed!history
<1>2. r \in Ed!Request /\ r.kind \in {"save", "add", "delete"} /\ r.file \in Ed!File
  BY DEF EdInv, EdRequests, Ed!Request
<1>3. {} \in Ed!Text
  BY DEF Ed!Text
<1>4. known \in Ed!Rows
  BY DEF EdInv, EdTypes
<1>5. /\ selected' \in Ed!File \cup {NoValue} /\ text' \in Ed!Text
      /\ ~shown => UNCHANGED <<selected, text>>
      /\ shown /\ r.kind = "add" => selected' = r.file /\ text' = {}
      /\ shown /\ r.kind = "delete" /\ selected = r.file => Ed!Show(known, NoValue, {})
      /\ shown /\ r.kind # "add" /\ ~(r.kind = "delete" /\ selected = r.file) =>
           UNCHANGED <<selected, text>>
  <2>1. selected \in Ed!File \cup {NoValue} /\ text \in Ed!Text
    BY DEF EdInv, EdTypes
  <2>2. CASE ~shown
    BY <2>1, <2>2 DEF Ed!Answered
  <2>3. CASE shown /\ r.kind = "add"
    BY <1>2, <1>3, <2>3 DEF Ed!Answered
  <2>4. CASE shown /\ r.kind = "delete" /\ selected = r.file
    <3>1. Ed!Show(known, NoValue, {})
      BY <2>4 DEF Ed!Answered
    <3>2. selected' \in Ed!File \cup {NoValue} /\ text' \in Ed!Text
      BY <1>3, <1>4, <3>1, EdShow
    <3> QED
      BY <2>4, <3>1, <3>2
  <2>5. CASE shown /\ r.kind # "add" /\ ~(r.kind = "delete" /\ selected = r.file)
    <3>1. UNCHANGED <<selected, text>>
      BY <2>5 DEF Ed!Answered
    <3> QED
      BY <2>1, <2>5, <3>1
  <2> QED
    BY <2>2, <2>3, <2>4, <2>5
<1>6. EdTypes'
  <2>1. fetch' \in [wanted : BOOLEAN, data : Ed!Rows \cup {NoValue}]
    BY <1>1 DEF EdInv, EdTypes, Ed!FetchWanted
  <2>2. standing' \in {"saved", "saving", "unsaved"}
    BY <1>1 DEF EdInv, EdTypes
  <2> QED
    BY <1>1, <1>5, <2>1, <2>2 DEF EdInv, EdTypes
<1>7. EdRequests'
  BY <1>1, EdDrop DEF EdInv
<1>8. EdAsked'
  BY <1>1 DEF EdAsked, Ed!FetchWanted
<1>9. ASSUME ~hurried'  PROVE EdSent' /\ EdEdits' /\ EdShown'
  <2>1. /\ ~hurried /\ sent' = {} /\ timer = NoValue
        /\ typed[r.file] \subseteq r.text /\ (r.kind # "save" => r.text = {})
    BY <1>1, <1>9 DEF EdInv, EdSent
  <2>2. EdSent' /\ EdEdits'
    BY <1>1, <2>1 DEF EdInv, EdSent, EdEdits, Ed!Edits
  <2>3. ASSUME shown  PROVE selected' # NoValue /\ typed[selected'] \subseteq text'
    <3>1. CASE r.kind = "add"
      BY <1>2, <1>5, <2>1, <2>3, <3>1, EdBounds
    <3>2. CASE r.kind = "delete" /\ selected = r.file
      <4>1. /\ known[r.file] # NoValue
            /\ \A f \in Ed!File : typed[f] \subseteq Ed!Edits(known, f)
        BY <2>1, <2>3, <3>2 DEF EdInv, EdShown
      <4>2. Ed!Show(known, NoValue, {}) /\ Ed!Present(known) # {}
        BY <1>2, <1>5, <2>3, <3>2, <4>1 DEF Ed!Present
      <4>3. selected' \in Ed!Present(known) /\ text' = known[selected']
        BY <1>3, <1>4, <4>2, EdShow
      <4> QED
        BY <4>1, <4>3, EdBounds DEF Ed!Present, Ed!Edits
    <3>3. CASE r.kind # "add" /\ ~(r.kind = "delete" /\ selected = r.file)
      BY <1>5, <2>1, <2>3, <3>3 DEF EdInv, EdShown
    <3> QED
      BY <3>1, <3>2, <3>3
  <2> QED
    BY <1>1, <2>1, <2>2, <2>3 DEF EdShown
<1> QED
  BY <1>6, <1>7, <1>8, <1>9 DEF EdInv

LEMMA EdFailed ==
  ASSUME Ed!StaticEditorAssumption, EdInv, NEW r \in sent, Ed!Failed(r)
  PROVE  EdInv'
<1>1. /\ ~r.done /\ sent' = sent \ {r}
      /\ standing' = IF r.kind = "save" /\ shown THEN "unsaved" ELSE standing
      /\ hurried' = TRUE
      /\ UNCHANGED <<stored, known, fetch, selected, text, timer, shown, changes, calls,
                     typed>>
  BY DEF Ed!Failed
<1>2. standing' \in {"saved", "saving", "unsaved"}
  BY <1>1 DEF EdInv, EdTypes
<1>3. EdTypes'
  BY <1>1, <1>2 DEF EdInv, EdTypes
<1>4. EdRequests'
  BY <1>1, EdDrop DEF EdInv
<1>5. EdAsked'
  BY <1>1 DEF EdInv, EdAsked
<1> QED
  BY <1>1, <1>3, <1>4, <1>5 DEF EdInv

LEMMA EdFetchRead ==
  ASSUME Ed!StaticEditorAssumption, EdInv, Ed!FetchRead
  PROVE  EdInv'
<1>1. /\ fetch.wanted /\ fetch' = [wanted |-> FALSE, data |-> stored]
      /\ UNCHANGED <<stored, changes, calls, typed, hurried, known, selected, text, standing,
                     timer, sent, shown>>
  BY DEF Ed!FetchRead, Ed!history
<1>2. EdTypes' /\ EdRequests'
  BY <1>1 DEF EdInv, EdTypes, EdRequests
<1>3. EdAsked'
  BY <1>1 DEF EdAsked
<1>4. ASSUME ~hurried'  PROVE EdSent' /\ EdEdits' /\ EdShown'
  <2>1. fetch # Ed!NoFetch
    BY <1>1 DEF Ed!NoFetch
  <2> QED
    BY <1>1, <1>4, <2>1 DEF EdInv, EdSent, EdEdits, EdShown, Ed!Edits
<1> QED
  BY <1>2, <1>3, <1>4 DEF EdInv

LEMMA EdFetchAnswered ==
  ASSUME Ed!StaticEditorAssumption, EdInv, Ed!FetchAnswered
  PROVE  EdInv'
<1>1. /\ fetch.data # NoValue /\ known' = fetch.data /\ fetch' = Ed!NoFetch
      /\ Ed!Show(fetch.data, selected, text)
      /\ UNCHANGED <<stored, changes, calls, typed, hurried, standing, timer, sent, shown>>
  BY DEF Ed!FetchAnswered, Ed!history
<1>2. /\ fetch.data \in Ed!Rows /\ selected \in Ed!File \cup {NoValue} /\ text \in Ed!Text
  BY <1>1 DEF EdInv, EdTypes
<1>3. /\ selected' \in Ed!File \cup {NoValue} /\ text' \in Ed!Text
      /\ selected # NoValue => selected' = selected /\ text' = text
  BY <1>1, <1>2, EdShow
<1>4. EdTypes' /\ EdRequests'
  <2>1. fetch' \in [wanted : BOOLEAN, data : Ed!Rows \cup {NoValue}]
    BY <1>1 DEF Ed!NoFetch
  <2> QED
    BY <1>1, <1>2, <1>3, <2>1 DEF EdInv, EdTypes, EdRequests
<1>5. ASSUME ~hurried'  PROVE EdSent' /\ EdEdits' /\ EdShown'
  <2>1. fetch # Ed!NoFetch
    BY <1>1 DEF Ed!NoFetch
  <2>2. EdShown'
    BY <1>1, <1>3, <1>5, <2>1 DEF EdInv, EdShown
  <2> QED
    BY <1>1, <1>5, <2>2 DEF EdInv, EdSent, EdEdits, Ed!Edits
<1>6. EdAsked'
  BY <1>1 DEF EdInv, EdAsked, Ed!NoFetch
<1> QED
  BY <1>4, <1>5, <1>6 DEF EdInv

LEMMA EdLeave ==
  ASSUME Ed!StaticEditorAssumption, EdInv, Ed!Leave
  PROVE  EdInv'
<1>1. /\ shown /\ shown' = FALSE /\ timer' = NoValue /\ fetch' = Ed!NoFetch
      /\ hurried' = (hurried \/ timer # NoValue)
      /\ UNCHANGED <<stored, known, selected, text, standing, sent, changes, calls, typed>>
  BY DEF Ed!Leave
<1>2. EdTypes'
  <2>1. fetch' \in [wanted : BOOLEAN, data : Ed!Rows \cup {NoValue}]
    BY <1>1 DEF Ed!NoFetch
  <2>2. hurried' \in BOOLEAN
    BY <1>1
  <2> QED
    BY <1>1, <2>1, <2>2 DEF EdInv, EdTypes
<1>3. ASSUME ~hurried'  PROVE EdSent' /\ EdEdits'
  <2>1. ~hurried /\ timer = NoValue
    BY <1>1, <1>3
  <2> QED
    BY <1>1, <2>1 DEF EdInv, EdSent, EdEdits, Ed!Edits
<1> QED
  BY <1>1, <1>2, <1>3 DEF EdInv, EdRequests, EdAsked, EdShown

\* A request that is carried out: of a patient user, the only one.
LEMMA EdCarriedOut ==
  ASSUME Ed!StaticEditorAssumption, EdInv, NEW r \in sent, ~r.done,
         NEW new \in Ed!Text \cup {NoValue}, stored' = [stored EXCEPT ![r.file] = new],
         ~hurried => r.text \subseteq (IF new = NoValue THEN {} ELSE new),
         sent' = (sent \ {r}) \cup {[r EXCEPT !.done = TRUE]},
         UNCHANGED <<changes, calls, typed, hurried, known, fetch, selected, text, standing,
                     timer, shown>>
  PROVE  EdInv'
<1> DEFINE q == [r EXCEPT !.done = TRUE]
<1>1. /\ r \in Ed!Request /\ q.done /\ q.file = r.file /\ q.text = r.text
      /\ q.kind = r.kind /\ r.file \in Ed!File
  BY DEF EdInv, EdRequests, Ed!Request
<1>2. stored \in Ed!Rows /\ stored' \in Ed!Rows
  BY <1>1 DEF EdInv, EdTypes, Ed!Rows
<1>3. EdTypes'
  BY <1>2 DEF EdInv, EdTypes
<1>4. EdRequests'
  BY EdDone DEF EdInv
<1>5. q \in sent'
  OBVIOUS
<1>6. EdAsked'
  BY <1>1, <1>5 DEF EdInv, EdAsked
<1>7. ASSUME ~hurried'  PROVE EdSent' /\ EdEdits' /\ EdShown'
  <2>1. /\ ~hurried /\ sent = {r} /\ timer = NoValue /\ typed[r.file] \subseteq r.text
        /\ r.kind # "save" => r.text = {}
    BY <1>7 DEF EdInv, EdSent
  <2>2. sent' = {q}
    BY <2>1
  <2> HIDE DEF q
  <2>3. EdSent'
    BY <1>1, <2>1, <2>2 DEF EdSent
  <2>4. typed[r.file] \subseteq Ed!Edits(stored', r.file)
    BY <1>1, <1>2, <2>1 DEF Ed!Edits, Ed!Rows
  <2>5. ASSUME NEW f \in Ed!File  PROVE typed[f] \subseteq Ed!Edits(stored', f)
    <3>1. CASE f = r.file
      BY <2>4, <3>1
    <3>2. CASE f # r.file
      <4>1. typed[f] \subseteq Ed!Edits(stored, f)
        BY <2>1, <3>2 DEF EdInv, EdEdits
      <4>2. stored'[f] = stored[f]
        BY <1>2, <3>2 DEF Ed!Rows
      <4> QED
        BY <4>1, <4>2 DEF Ed!Edits
    <3> QED
      BY <3>1, <3>2
  <2>6. EdEdits'
    BY <2>5 DEF EdEdits, Ed!Edits
  <2>7. EdShown'
    BY <1>1, <2>1, <2>2 DEF EdInv, EdShown, Ed!Edits
  <2> QED
    BY <2>3, <2>6, <2>7
<1> QED
  BY <1>3, <1>4, <1>6, <1>7 DEF EdInv

LEMMA EdUpsert ==
  ASSUME Ed!StaticEditorAssumption, EdInv, NEW r \in sent, Ed!Upsert(r)
  PROVE  EdInv'
<1>1. /\ ~r.done /\ stored' = [stored EXCEPT ![r.file] = r.text]
      /\ sent' = (sent \ {r}) \cup {[r EXCEPT !.done = TRUE]}
      /\ UNCHANGED <<changes, calls, typed, hurried, known, fetch, selected, text, standing,
                     timer, shown>>
  BY DEF Ed!Upsert, Ed!history
<1>2. r.text \in Ed!Text
  BY DEF EdInv, EdRequests, Ed!Request
<1>3. r.text # NoValue
  BY <1>2, EdBounds
<1> QED
  BY <1>1, <1>2, <1>3, EdCarriedOut

LEMMA EdRemove ==
  ASSUME Ed!StaticEditorAssumption, EdInv, NEW r \in sent, Ed!Remove(r)
  PROVE  EdInv'
<1>1. /\ ~r.done /\ r.kind = "delete" /\ stored' = [stored EXCEPT ![r.file] = NoValue]
      /\ sent' = (sent \ {r}) \cup {[r EXCEPT !.done = TRUE]}
      /\ UNCHANGED <<changes, calls, typed, hurried, known, fetch, selected, text, standing,
                     timer, shown>>
  BY DEF Ed!Remove, Ed!history
<1>2. ~hurried => r.text = {}
  BY <1>1 DEF EdInv, EdSent
<1> QED
  BY <1>1, <1>2, EdCarriedOut

LEMMA EdSteps ==
  ASSUME Ed!StaticEditorAssumption, EdInv, Ed!Next
  PROVE  EdInv'
<1>1. CASE Ed!HandleChange \/ Ed!Autosave \/ Ed!FetchRead \/ Ed!FetchAnswered \/ Ed!Leave
  BY <1>1, EdHandleChange, EdAutosave, EdFetchRead, EdFetchAnswered, EdLeave
<1>2. CASE \E f \in Ed!File :
             Ed!SelectFile(f) \/ Ed!HandleAddFile(f) \/ Ed!HandleDeleteFile(f)
  BY <1>2, EdSelectFile, EdHandleAddFile, EdHandleDeleteFile
<1>3. CASE \E r \in sent : Ed!Answered(r) \/ Ed!Failed(r) \/ Ed!Upsert(r) \/ Ed!Remove(r)
  BY <1>3, EdAnswered, EdFailed, EdUpsert, EdRemove
<1> QED
  BY <1>1, <1>2, <1>3 DEF Ed!Next

LEMMA EdStays ==
  ASSUME EdInv, UNCHANGED Ed!vars
  PROVE  EdInv'
BY DEF EdInv, EdTypes, EdRequests, EdAsked, EdSent, EdEdits, EdShown, Ed!Edits, Ed!vars,
       Ed!page, Ed!history

LEMMA EdHolds ==
  ASSUME EdInv
  PROVE  Ed!TypeOK /\ Ed!PatientEditsKept
<1>1. Ed!TypeOK
  BY EdSizes DEF EdInv, EdTypes, EdRequests, Ed!TypeOK
<1>2. Ed!PatientEditsKept
  BY DEF EdInv, EdEdits, Ed!PatientEditsKept
<1> QED
  BY <1>1, <1>2

\* Once nothing is under way, the rows of a patient user hold his edits.
THEOREM PatientEditsAreKept ==
  Ed!StaticEditorAssumption /\ Ed!Spec => [](Ed!TypeOK /\ Ed!PatientEditsKept)
<1> SUFFICES ASSUME Ed!StaticEditorAssumption
             PROVE  Ed!Spec => [](Ed!TypeOK /\ Ed!PatientEditsKept)
  OBVIOUS
<1>1. Ed!Init => EdInv
  BY EdStart
<1>2. EdInv /\ [Ed!Next]_Ed!vars => EdInv'
  BY EdSteps, EdStays
<1>3. EdInv => Ed!TypeOK /\ Ed!PatientEditsKept
  BY EdHolds
<1> QED
  BY <1>1, <1>2, <1>3, PTL DEF Ed!Spec

----------------------------------------------------------------------------
(* The settings of a project.                                              *)

SpQuery == [pc : {"idle", "wanted", "read"}, env : Sp!Env, project : Sp!Details]
SpAnswers == [env : Sp!Env \cup {NoValue}, project : Sp!Details \cup {NoValue}]

SpTypes ==
  /\ details \in Sp!Details /\ variables \in Sp!Env
  /\ known \in SpAnswers /\ fetch \in [{"env", "project"} -> SpQuery]
  /\ shown \in BOOLEAN /\ form \in [env : Sp!Env, name : Sp!Field]
  /\ want \in [env : Sp!Env, name : Sp!Name]
  /\ added \in Sp!Env /\ removed \in Sp!Env /\ renamed \in BOOLEAN
  /\ calmly \in BOOLEAN /\ fresh \in BOOLEAN
  /\ changes \in 0..SettingEdits /\ visits \in 0..MaxVisits

SpRequests ==
  /\ calls \subseteq Sp!Call /\ IsFiniteSet(calls) /\ Cardinality(calls) <= SettingCalls
  /\ \A c \in calls : IF c.op = "save" THEN c.pc \in {"sent", "written"}
                                       ELSE c.key \in ServiceKinds

\* Of a calm user there is one request, and no row is written while it is
\* read for the page.
SpCalls ==
  /\ \A c \in calls : \A d \in calls : c = d
  /\ calls # {} => fetch["env"].pc = "idle"
  /\ shown => \A c \in calls : c.here
  /\ fetch["project"].pc # "idle" => \A c \in calls : c.pc \in {"asked", "answered"}
SpRead ==
  /\ fetch["env"].pc = "read" => fetch["env"].env = variables
  /\ fetch["project"].pc = "read" => fetch["project"].project = details

\* The rows are as the user wants, but for what is being saved; ...
SpSaving(c) == c.op = "save" /\ c.pc = "sent"
SpRows ==
  /\ (\A c \in calls : ~SpSaving(c)) => variables = want.env /\ details.name = want.name
  /\ \A c \in calls : c.pc \in {"read", "answered"} => c.env = variables
  /\ \A c \in calls : SpSaving(c) =>
       /\ (IF c.name = NoValue THEN details.name ELSE c.name) = want.name
       /\ (IF c.env = {} THEN variables ELSE c.env) = want.env

\* ... so is the form, but for what is edited or was emptied, and what a
\* service adds.
SpFilled ==
  known.env # NoValue /\ (\A c \in calls : c.op = "save" \/ c.pc \in {"sent", "read"}) =>
    form.env = (want.env \ removed) \cup added
SpEmpty ==
  known.env = NoValue =>
    form.env = {} /\ added = {} /\ removed = {} /\ calls = {} /\ fetch["env"].pc # "idle"
SpNamed == known.project # NoValue => renamed \/ form.name \in {want.name, NoValue}
SpForm == shown => SpFilled /\ SpEmpty /\ SpNamed

SpInv ==
  /\ SpTypes /\ SpRequests
  /\ calmly /\ fresh => SpCalls /\ SpRead /\ SpRows /\ SpForm

LEMMA SpSizes == \A S : Sp!Cardinality(S) = Cardinality(S)
BY DEF Sp!Cardinality, Cardinality

LEMMA SpBounds ==
  ASSUME Sp!SettingsPageAssumption
  PROVE  /\ SettingEdits \in Nat /\ MaxVisits \in Nat /\ SettingCalls \in Nat
         /\ NoValue \notin ServiceKinds /\ NoValue \notin Sp!Env /\ NoValue \notin Sp!Details
BY DEF Sp!SettingsPageAssumption

LEMMA SpIdle ==
  ASSUME Sp!SettingsPageAssumption
  PROVE  /\ Sp!Idle \in SpQuery /\ Sp!Idle.pc = "idle"
         /\ [Sp!Idle EXCEPT !.pc = "wanted"] \in SpQuery
         /\ [Sp!Idle EXCEPT !.pc = "wanted"].pc = "wanted"
<1>1. {} \in Sp!Env /\ [name |-> 0, has |-> {}] \in Sp!Details
  BY SpBounds DEF Sp!Env, Sp!Details, Sp!Name
<1> QED
  BY <1>1 DEF Sp!Idle, SpQuery

LEMMA SpAsks ==
  ASSUME Sp!SettingsPageAssumption, SpTypes, NEW S, Sp!Asks(S)
  PROVE  /\ fetch' \in [{"env", "project"} -> SpQuery]
         /\ \A q \in {"env", "project"} :
              IF q \in S THEN fetch'[q].pc = "wanted" ELSE fetch'[q] = fetch[q]
<1>1. fetch \in [{"env", "project"} -> SpQuery]
  BY DEF SpTypes
<1>2. fetch' = [q \in {"env", "project"} |->
                  IF q \in S THEN [Sp!Idle EXCEPT !.pc = "wanted"] ELSE fetch[q]]
  BY <1>1 DEF Sp!Asks
<1> HIDE DEF Sp!Idle
<1> QED
  BY <1>1, <1>2, SpIdle

LEMMA SpQuiet ==
  ASSUME SpTypes, Sp!Quiet
  PROVE  calls = {} /\ fetch["env"].pc = "idle" /\ fetch["project"].pc = "idle"
BY DEF SpTypes, Sp!Quiet

LEMMA SpStart ==
  ASSUME Sp!SettingsPageAssumption, Sp!Init
  PROVE  SpInv
<1> USE DEF Sp!Init
<1>1. {} \in Sp!Env /\ 0 \in Sp!Name /\ 0 \in Sp!Field /\ [name |-> 0, has |-> {}] \in Sp!Details
  BY SpBounds DEF Sp!Env, Sp!Name, Sp!Field, Sp!Details
<1>2. variables \in Sp!Env
  BY DEF Sp!Env, Sp!Key
<1>3. fetch = [q \in {"env", "project"} |-> Sp!Idle]
  OBVIOUS
<1>4. fetch \in [{"env", "project"} -> SpQuery] /\ fetch["env"].pc = "idle" /\ fetch["project"].pc = "idle"
  BY <1>3, SpIdle
<1>5. SpTypes
  <2>1. 0 \in 0..SettingEdits /\ 0 \in 0..MaxVisits
    BY SpBounds
  <2>2. known \in SpAnswers
    BY DEF SpAnswers
  <2> QED
    BY <1>1, <1>2, <1>4, <2>1, <2>2 DEF SpTypes
<1>6. SpRequests
  BY FS_EmptySet, SpBounds DEF SpRequests
<1>7. SpCalls /\ SpRead /\ SpRows /\ SpForm
  BY <1>4 DEF SpCalls, SpRead, SpRows, SpForm
<1> QED
  BY <1>5, <1>6, <1>7 DEF SpInv

----------------------------------------------------------------------------
LEMMA SpOpen ==
  ASSUME Sp!SettingsPageAssumption, SpInv, Sp!Open
  PROVE  SpInv'
<1>1. /\ ~shown /\ shown' = TRUE /\ visits < MaxVisits /\ visits' = visits + 1
      /\ form' = [env |-> IF known.env = NoValue THEN {} ELSE known.env,
                  name |-> IF known.project = NoValue THEN 0 ELSE known.project.name]
      /\ added' = {} /\ removed' = {} /\ renamed' = FALSE
      /\ \/ Sp!Asks({"env", "project"})
         \/ known.env # NoValue /\ known.project # NoValue /\ fetch' = fetch
      /\ fresh' = (fresh /\ known.env \in {NoValue, variables}
                         /\ known.project \in {NoValue, details})
      /\ calmly' = (calmly /\ calls = {})
      /\ UNCHANGED <<details, variables, known, calls, want, changes>>
  BY DEF Sp!Open, Sp!NoEdits, Sp!rows
<1>2. known \in SpAnswers /\ {} \in Sp!Env /\ 0 \in Sp!Name
  BY SpBounds DEF SpInv, SpTypes, Sp!Env, Sp!Name
<1>3. /\ fetch' \in [{"env", "project"} -> SpQuery]
      /\ \/ fetch'["env"].pc = "wanted" /\ fetch'["project"].pc = "wanted"
         \/ known.env # NoValue /\ known.project # NoValue /\ fetch' = fetch
  <2>1. CASE Sp!Asks({"env", "project"})
    BY <2>1, SpAsks DEF SpInv
  <2>2. CASE known.env # NoValue /\ known.project # NoValue /\ fetch' = fetch
    BY <2>2 DEF SpInv, SpTypes
  <2> QED
    BY <1>1, <2>1, <2>2
<1>4. /\ form' \in [env : Sp!Env, name : Sp!Field]
      /\ form'.env = IF known.env = NoValue THEN {} ELSE known.env
      /\ known.project # NoValue => form'.name = known.project.name
  <2>1. known.project # NoValue => known.project.name \in Sp!Name
    BY <1>2 DEF SpAnswers, Sp!Details
  <2>2. known.env # NoValue => known.env \in Sp!Env
    BY <1>2 DEF SpAnswers
  <2> QED
    BY <1>1, <1>2, <2>1, <2>2 DEF Sp!Field
<1>5. SpTypes'
  <2>1. fresh' \in BOOLEAN /\ calmly' \in BOOLEAN /\ renamed' \in BOOLEAN /\ shown' \in BOOLEAN
    BY <1>1
  <2>2. visits' \in 0..MaxVisits
    BY <1>1, SpBounds DEF SpInv, SpTypes
  <2> QED
    BY <1>1, <1>2, <1>3, <1>4, <2>1, <2>2 DEF SpInv, SpTypes
<1>6. SpRequests'
  BY <1>1 DEF SpInv, SpRequests
<1>7. ASSUME calmly' /\ fresh'  PROVE SpCalls' /\ SpRead' /\ SpRows' /\ SpForm'
  <2>1. /\ calmly /\ fresh /\ calls = {}
        /\ known.env \in {NoValue, variables} /\ known.project \in {NoValue, details}
    BY <1>1, <1>7
  <2>2. SpRead /\ variables = want.env /\ details.name = want.name
    BY <2>1 DEF SpInv, SpRows
  <2>3. SpCalls' /\ SpRows'
    BY <1>1, <2>1, <2>2 DEF SpCalls, SpRows
  <2>4. SpRead'
    BY <1>1, <1>3, <2>2 DEF SpRead
  <2>5. SpFilled' /\ SpEmpty' /\ SpNamed'
    BY <1>1, <1>3, <1>4, <2>1, <2>2 DEF SpFilled, SpEmpty, SpNamed
  <2> QED
    BY <2>3, <2>4, <2>5 DEF SpForm
<1> QED
  BY <1>5, <1>6, <1>7 DEF SpInv

\* A page that is left has the same requests, of which it sees no answer.
LEMMA SpLeave ==
  ASSUME Sp!SettingsPageAssumption, SpInv, Sp!Leave
  PROVE  SpInv'
<1> DEFINE Gone(c) == [c EXCEPT !.here = FALSE]
<1>1. /\ shown /\ shown' = FALSE /\ calls' = {Gone(c) : c \in calls}
      /\ added' = {} /\ removed' = {} /\ renamed' = FALSE
      /\ UNCHANGED <<details, variables, known, fetch, form, want, calmly, fresh, changes, visits>>
  BY DEF Sp!Leave, Sp!NoEdits, Sp!rows, Sp!queries, Sp!history
<1>2. ASSUME NEW c \in calls
      PROVE  /\ Gone(c) \in Sp!Call /\ Gone(c).op = c.op /\ Gone(c).pc = c.pc
             /\ Gone(c).key = c.key /\ Gone(c).env = c.env /\ Gone(c).name = c.name
  BY DEF SpInv, SpRequests, Sp!Call
<1>3. SpTypes'
  <2>1. {} \in Sp!Env
    BY DEF Sp!Env
  <2> QED
    BY <1>1, <2>1 DEF SpInv, SpTypes
<1>4. SpRequests'
  <2> DEFINE f == [c \in calls |-> Gone(c)]
  <2>1. f \in Surjection(calls, calls')
    BY <1>1 DEF Surjection
  <2>2. IsFiniteSet(calls') /\ Cardinality(calls') <= Cardinality(calls)
    <3> HIDE DEF f
    <3> QED
      BY <2>1, FS_Surjection DEF SpInv, SpRequests
  <2>3. Cardinality(calls') \in Nat /\ Cardinality(calls) \in Nat /\ SettingCalls \in Nat
    BY <2>2, FS_CardinalityType, SpBounds DEF SpInv, SpRequests
  <2>4. \A d \in calls' : \E c \in calls : d = Gone(c)
    BY <1>1
  <2>5. calls' \subseteq Sp!Call
    BY <1>2, <2>4
  <2>6. \A d \in calls' : IF d.op = "save" THEN d.pc \in {"sent", "written"}
                                           ELSE d.key \in ServiceKinds
    <3> HIDE DEF Gone
    <3> QED
      BY <1>2, <2>4 DEF SpInv, SpRequests
  <2> QED
    BY <2>2, <2>3, <2>5, <2>6 DEF SpInv, SpRequests
<1>5. ASSUME calmly' /\ fresh'  PROVE SpCalls' /\ SpRead' /\ SpRows' /\ SpForm'
  <2>1. SpCalls /\ SpRead /\ SpRows
    BY <1>1, <1>5 DEF SpInv
  <2>2. \A d \in calls' : \E c \in calls : d = Gone(c)
    BY <1>1
  <2>3. \A c \in calls : Gone(c) \in calls'
    BY <1>1
  <2> HIDE DEF Gone
  <2>4. SpCalls'
    <3>1. \A c \in calls' : \A d \in calls' : c = d
      BY <2>1, <2>2 DEF SpCalls
    <3>2. calls' # {} => fetch'["env"].pc = "idle"
      BY <1>1, <2>1, <2>2 DEF SpCalls
    <3>3. fetch'["project"].pc # "idle" => \A c \in calls' : c.pc \in {"asked", "answered"}
      BY <1>1, <1>2, <2>1, <2>2 DEF SpCalls
    <3> QED
      BY <1>1, <3>1, <3>2, <3>3 DEF SpCalls
  <2>5. SpRead'
    BY <1>1, <2>1 DEF SpRead
  <2>6. SpRows'
    <3>1. ASSUME \A c \in calls' : ~SpSaving(c)
          PROVE  variables' = want'.env /\ details'.name = want'.name
      <4>1. \A c \in calls : ~SpSaving(c)
        BY <1>2, <2>3, <3>1 DEF SpSaving
      <4> QED
        BY <1>1, <2>1, <4>1 DEF SpRows
    <3>2. \A c \in calls' : c.pc \in {"read", "answered"} => c.env = variables
      BY <1>2, <2>1, <2>2 DEF SpRows
    <3>3. \A c \in calls' : SpSaving(c) =>
            /\ (IF c.name = NoValue THEN details.name ELSE c.name) = want.name
            /\ (IF c.env = {} THEN variables ELSE c.env) = want.env
      BY <1>2, <2>1, <2>2 DEF SpRows, SpSaving
    <3> QED
      BY <1>1, <3>1, <3>2, <3>3 DEF SpRows, SpSaving
  <2>7. SpForm'
    BY <1>1 DEF SpForm
  <2> QED
    BY <2>4, <2>5, <2>6, <2>7
<1> QED
  BY <1>3, <1>4, <1>5 DEF SpInv

LEMMA SpRefetch ==
  ASSUME Sp!SettingsPageAssumption, SpInv, Sp!Refetch
  PROVE  SpInv'
<1>1. /\ shown /\ known.env # NoValue /\ known.project # NoValue
      /\ Sp!Asks({"env", "project"}) /\ calmly' = (calmly /\ calls = {})
      /\ UNCHANGED <<details, variables, known, shown, form, calls, added, removed, renamed,
                     want, fresh, changes, visits>>
  BY DEF Sp!Refetch, Sp!rows, Sp!unsaved
<1>2. /\ fetch' \in [{"env", "project"} -> SpQuery]
      /\ fetch'["env"].pc = "wanted" /\ fetch'["project"].pc = "wanted"
  BY <1>1, SpAsks DEF SpInv
<1>3. SpTypes'
  <2>1. calmly' \in BOOLEAN
    BY <1>1
  <2> QED
    BY <1>1, <1>2, <2>1 DEF SpInv, SpTypes
<1>4. SpRequests'
  BY <1>1 DEF SpInv, SpRequests
<1>5. ASSUME calmly' /\ fresh'  PROVE SpCalls' /\ SpRead' /\ SpRows' /\ SpForm'
  <2>1. calmly /\ fresh /\ calls = {}
    BY <1>1, <1>5
  <2>2. SpRows /\ SpForm
    BY <2>1 DEF SpInv
  <2>3. SpCalls' /\ SpRead' /\ SpRows'
    BY <1>1, <1>2, <2>1, <2>2 DEF SpCalls, SpRead, SpRows
  <2>4. SpForm'
    BY <1>1, <2>1, <2>2 DEF SpForm, SpFilled, SpEmpty, SpNamed
  <2> QED
    BY <2>3, <2>4
<1> QED
  BY <1>3, <1>4, <1>5 DEF SpInv

LEMMA SpFetchRead ==
  ASSUME Sp!SettingsPageAssumption, SpInv, NEW q \in {"env", "project"}, Sp!FetchRead(q)
  PROVE  SpInv'
<1> DEFINE answer == IF q = "env" THEN [Sp!Idle EXCEPT !.pc = "read", !.env = variables]
                     ELSE [Sp!Idle EXCEPT !.pc = "read", !.project = details]
<1>1. /\ fetch[q].pc = "wanted" /\ fetch' = [fetch EXCEPT ![q] = answer]
      /\ UNCHANGED <<details, variables, known, shown, form, calls, added, removed, renamed, want,
                     calmly, fresh, changes, visits>>
  BY DEF Sp!FetchRead, Sp!rows, Sp!unsaved, Sp!history
<1>2. /\ answer \in SpQuery /\ answer.pc = "read"
      /\ (q = "env" => answer.env = variables) /\ (q = "project" => answer.project = details)
  <2>1. Sp!Idle \in SpQuery /\ variables \in Sp!Env /\ details \in Sp!Details
    BY SpIdle DEF SpInv, SpTypes
  <2> HIDE DEF Sp!Idle
  <2> QED
    BY <2>1 DEF SpQuery
<1> HIDE DEF answer
<1>3. /\ fetch' \in [{"env", "project"} -> SpQuery] /\ fetch'[q] = answer
      /\ \A p \in {"env", "project"} \ {q} : fetch'[p] = fetch[p]
  BY <1>1, <1>2 DEF SpInv, SpTypes
<1>4. SpTypes' /\ SpRequests'
  BY <1>1, <1>3 DEF SpInv, SpTypes, SpRequests
<1>5. ASSUME calmly' /\ fresh'  PROVE SpCalls' /\ SpRead' /\ SpRows' /\ SpForm'
  <2>1. SpCalls /\ SpRead /\ SpRows /\ SpForm
    BY <1>1, <1>5 DEF SpInv
  <2>2. /\ fetch'["env"].pc = "idle" <=> fetch["env"].pc = "idle"
        /\ fetch'["project"].pc = "idle" <=> fetch["project"].pc = "idle"
    BY <1>1, <1>2, <1>3
  <2>3. SpCalls'
    BY <1>1, <2>1, <2>2 DEF SpCalls
  <2>4. SpRead'
    BY <1>1, <1>2, <1>3, <2>1 DEF SpRead
  <2>5. SpRows'
    BY <1>1, <2>1 DEF SpRows
  <2>6. SpForm'
    BY <1>1, <2>1, <2>2 DEF SpForm, SpFilled, SpEmpty, SpNamed
  <2> QED
    BY <2>3, <2>4, <2>5, <2>6
<1> QED
  BY <1>4, <1>5 DEF SpInv

LEMMA SpEnvAnswered ==
  ASSUME Sp!SettingsPageAssumption, SpInv, Sp!EnvAnswered
  PROVE  SpInv'
<1> DEFINE answer == fetch["env"].env
           fills == shown /\ answer # known.env /\ form.env = {}
<1>1. /\ fetch["env"].pc = "read" /\ fetch' = [fetch EXCEPT !["env"] = Sp!Idle]
      /\ known' = [known EXCEPT !.env = answer]
      /\ fills => /\ form' = [form EXCEPT !.env = answer] /\ added' = {} /\ removed' = {}
                  /\ calmly' = (calmly /\ added = {} /\ removed = {})
      /\ ~fills => UNCHANGED <<form, added, removed, calmly>>
      /\ UNCHANGED <<details, variables, shown, calls, renamed, want, fresh, changes, visits>>
  BY DEF Sp!EnvAnswered, Sp!rows
<1>2. answer \in Sp!Env /\ {} \in Sp!Env /\ answer # NoValue
  BY SpBounds DEF SpInv, SpTypes, SpQuery, Sp!Env
<1> HIDE DEF answer
<1>3. /\ fetch' \in [{"env", "project"} -> SpQuery] /\ fetch'["env"].pc = "idle"
      /\ fetch'["project"] = fetch["project"]
  <2> HIDE DEF Sp!Idle
  <2> QED
    BY <1>1, SpIdle DEF SpInv, SpTypes
<1>4. known' \in SpAnswers /\ known'.env = answer /\ known'.project = known.project
  BY <1>1, <1>2 DEF SpInv, SpTypes, SpAnswers
<1>5. /\ form' \in [env : Sp!Env, name : Sp!Field] /\ form'.name = form.name
      /\ form'.env = IF fills THEN answer ELSE form.env
  BY <1>1, <1>2 DEF SpInv, SpTypes
<1>6. SpTypes'
  <2>1. calmly' \in BOOLEAN
    BY <1>1 DEF SpInv, SpTypes
  <2>2. added' \in Sp!Env /\ removed' \in Sp!Env
    BY <1>1, <1>2 DEF SpInv, SpTypes
  <2> QED
    BY <1>1, <1>3, <1>4, <1>5, <2>1, <2>2 DEF SpInv, SpTypes
<1>7. SpRequests'
  BY <1>1 DEF SpInv, SpRequests
<1>8. ASSUME calmly' /\ fresh'  PROVE SpCalls' /\ SpRead' /\ SpRows' /\ SpForm'
  <2>1. calmly /\ fresh
    BY <1>1, <1>8
  <2>2. SpCalls /\ SpRead /\ SpRows /\ SpForm
    BY <2>1 DEF SpInv
  <2>3. calls = {} /\ answer = variables /\ variables = want.env
    BY <1>1, <2>2 DEF SpCalls, SpRead, SpRows, answer
  <2>4. SpCalls' /\ SpRead' /\ SpRows'
    BY <1>1, <1>3, <2>2, <2>3 DEF SpCalls, SpRead, SpRows
  <2>5. ASSUME shown  PROVE SpFilled' /\ SpEmpty' /\ SpNamed'
    <3>1. SpFilled /\ SpEmpty /\ SpNamed
      BY <2>2, <2>5 DEF SpForm
    <3>2. SpEmpty' /\ SpNamed'
      BY <1>1, <1>2, <1>4, <1>5, <3>1 DEF SpEmpty, SpNamed
    <3>3. CASE fills
      <4>1. form'.env = want'.env /\ added' = {} /\ removed' = {}
        BY <1>1, <1>5, <2>3, <3>3
      <4> QED
        BY <3>2, <4>1 DEF SpFilled
    <3>4. CASE ~fills
      <4>1. known.env # NoValue
        BY <1>2, <2>5, <3>1, <3>4 DEF SpEmpty
      <4> QED
        BY <1>1, <1>5, <2>3, <3>1, <3>2, <3>4, <4>1 DEF SpFilled
    <3> QED
      BY <3>3, <3>4
  <2> QED
    BY <1>1, <2>4, <2>5 DEF SpForm
<1> QED
  BY <1>6, <1>7, <1>8 DEF SpInv

LEMMA SpProjectAnswered ==
  ASSUME Sp!SettingsPageAssumption, SpInv, Sp!ProjectAnswered
  PROVE  SpInv'
<1> DEFINE answer == fetch["project"].project
           fills == shown /\ answer # known.project
<1>1. /\ fetch["project"].pc = "read" /\ fetch' = [fetch EXCEPT !["project"] = Sp!Idle]
      /\ known' = [known EXCEPT !.project = answer]
      /\ fills => /\ form' = [form EXCEPT !.name = answer.name] /\ renamed' = FALSE
                  /\ calmly' = (calmly /\ ~renamed)
      /\ ~fills => UNCHANGED <<form, renamed, calmly>>
      /\ UNCHANGED <<details, variables, shown, calls, added, removed, want, fresh, changes,
                     visits>>
  BY DEF Sp!ProjectAnswered, Sp!rows
<1>2. answer \in Sp!Details /\ answer.name \in Sp!Name /\ answer # NoValue
  BY SpBounds DEF SpInv, SpTypes, SpQuery, Sp!Details
<1> HIDE DEF answer
<1>3. /\ fetch' \in [{"env", "project"} -> SpQuery] /\ fetch'["project"].pc = "idle"
      /\ fetch'["env"] = fetch["env"]
  <2> HIDE DEF Sp!Idle
  <2> QED
    BY <1>1, SpIdle DEF SpInv, SpTypes
<1>4. known' \in SpAnswers /\ known'.project = answer /\ known'.env = known.env
  BY <1>1, <1>2 DEF SpInv, SpTypes, SpAnswers
<1>5. /\ form' \in [env : Sp!Env, name : Sp!Field] /\ form'.env = form.env
      /\ form'.name = IF fills THEN answer.name ELSE form.name
  BY <1>1, <1>2 DEF SpInv, SpTypes, Sp!Field
<1>6. SpTypes'
  <2>1. calmly' \in BOOLEAN /\ renamed' \in BOOLEAN
    BY <1>1 DEF SpInv, SpTypes
  <2> QED
    BY <1>1, <1>3, <1>4, <1>5, <2>1 DEF SpInv, SpTypes
<1>7. SpRequests'
  BY <1>1 DEF SpInv, SpRequests
<1>8. ASSUME calmly' /\ fresh'  PROVE SpCalls' /\ SpRead' /\ SpRows' /\ SpForm'
  <2>1. calmly /\ fresh
    BY <1>1, <1>8
  <2>2. SpCalls /\ SpRead /\ SpRows /\ SpForm
    BY <2>1 DEF SpInv
  <2>3. \A c \in calls : ~SpSaving(c)
    BY <1>1, <2>2 DEF SpCalls, SpSaving
  <2>4. answer = details /\ details.name = want.name
    BY <1>1, <2>2, <2>3 DEF SpRead, SpRows, answer
  <2>5. SpCalls' /\ SpRead' /\ SpRows'
    BY <1>1, <1>3, <2>2 DEF SpCalls, SpRead, SpRows
  <2>6. ASSUME shown  PROVE SpFilled' /\ SpEmpty' /\ SpNamed'
    <3>1. SpFilled /\ SpEmpty /\ SpNamed
      BY <2>2, <2>6 DEF SpForm
    <3>2. SpFilled' /\ SpEmpty'
      BY <1>1, <1>3, <1>4, <1>5, <3>1 DEF SpFilled, SpEmpty
    <3>3. SpNamed'
      <4>1. CASE fills
        BY <1>1, <1>5, <2>4, <4>1 DEF SpNamed
      <4>2. CASE ~fills
        <5>1. known.project # NoValue
          BY <1>2, <2>6, <4>2
        <5> QED
          BY <1>1, <3>1, <4>2, <5>1 DEF SpNamed
      <4> QED
        BY <4>1, <4>2
    <3> QED
      BY <3>2, <3>3
  <2> QED
    BY <1>1, <2>5, <2>6 DEF SpForm
<1> QED
  BY <1>6, <1>7, <1>8 DEF SpInv

\* A calm user edits what is loaded, under no call.
LEMMA SpAddRemove ==
  ASSUME Sp!SettingsPageAssumption, SpInv, NEW k \in Sp!Key,
         Sp!AddVariable(k) \/ Sp!RemoveVariable(k)
  PROVE  SpInv'
<1>1. /\ shown /\ changes < SettingEdits /\ changes' = changes + 1
      /\ calmly' = (calmly /\ Sp!Quiet)
      /\ UNCHANGED <<details, variables, known, fetch, shown, calls, renamed, want, fresh, visits>>
  BY DEF Sp!AddVariable, Sp!RemoveVariable, Sp!Loaded, Sp!rows, Sp!queries
<1>2. /\ form' \in [env : Sp!Env, name : Sp!Field] /\ form'.name = form.name
      /\ added' \in Sp!Env /\ removed' \in Sp!Env
      /\ form.env = (want.env \ removed) \cup added =>
           form'.env = (want.env \ removed') \cup added'
  <2>1. form \in [env : Sp!Env, name : Sp!Field] /\ added \in Sp!Env /\ removed \in Sp!Env
    BY DEF SpInv, SpTypes
  <2>2. CASE Sp!AddVariable(k)
    <3>1. /\ k \notin form.env /\ form' = [form EXCEPT !.env = form.env \cup {k}]
          /\ added' = added \cup {k} /\ removed' = removed \ {k}
      BY <2>2 DEF Sp!AddVariable
    <3>2. form'.env = form.env \cup {k} /\ form'.env \in Sp!Env /\ form'.name = form.name
      BY <2>1, <3>1 DEF Sp!Env
    <3>3. form' \in [env : Sp!Env, name : Sp!Field]
      BY <2>1, <3>1, <3>2
    <3> QED
      BY <2>1, <3>1, <3>2, <3>3 DEF Sp!Env
  <2>3. CASE Sp!RemoveVariable(k)
    <3>1. /\ form' = [form EXCEPT !.env = form.env \ {k}]
          /\ added' = added \ {k} /\ removed' = removed \cup {k}
      BY <2>3 DEF Sp!RemoveVariable
    <3>2. form'.env = form.env \ {k} /\ form'.env \in Sp!Env /\ form'.name = form.name
      BY <2>1, <3>1 DEF Sp!Env
    <3>3. form' \in [env : Sp!Env, name : Sp!Field]
      BY <2>1, <3>1, <3>2
    <3> QED
      BY <2>1, <3>1, <3>2, <3>3 DEF Sp!Env
  <2> QED
    BY <2>2, <2>3
<1>3. SpTypes'
  <2>1. calmly' \in BOOLEAN
    BY <1>1
  <2>2. changes' \in 0..SettingEdits
    BY <1>1, SpBounds DEF SpInv, SpTypes
  <2> QED
    BY <1>1, <1>2, <2>1, <2>2 DEF SpInv, SpTypes
<1>4. SpRequests'
  BY <1>1 DEF SpInv, SpRequests
<1>5. ASSUME calmly' /\ fresh'  PROVE SpCalls' /\ SpRead' /\ SpRows' /\ SpForm'
  <2>1. calmly /\ fresh /\ calls = {} /\ fetch["env"].pc = "idle"
    BY <1>1, <1>5, SpQuiet DEF SpInv
  <2>2. SpCalls /\ SpRead /\ SpRows /\ SpFilled /\ SpEmpty /\ SpNamed
    BY <1>1, <2>1 DEF SpInv, SpForm
  <2>3. SpCalls' /\ SpRead' /\ SpRows'
    BY <1>1, <2>2 DEF SpCalls, SpRead, SpRows
  <2>4. known.env # NoValue
    BY <2>1, <2>2 DEF SpEmpty
  <2>5. SpFilled' /\ SpEmpty' /\ SpNamed'
    BY <1>1, <1>2, <2>1, <2>2, <2>4 DEF SpFilled, SpEmpty, SpNamed
  <2> QED
    BY <2>3, <2>5 DEF SpForm
<1> QED
  BY <1>3, <1>4, <1>5 DEF SpInv

LEMMA SpEditName ==
  ASSUME Sp!SettingsPageAssumption, SpInv, Sp!EditName
  PROVE  SpInv'
<1>1. /\ changes < SettingEdits /\ changes' = changes + 1
      /\ \E value \in {changes + 1, NoValue} : form' = [form EXCEPT !.name = value]
      /\ renamed' = TRUE
      /\ calmly' = (calmly /\ Sp!Quiet)
      /\ UNCHANGED <<details, variables, known, fetch, shown, calls, added, removed, want, fresh,
                     visits>>
  BY DEF Sp!EditName, Sp!rows, Sp!queries
<1>2. changes + 1 \in 0..SettingEdits
  BY <1>1, SpBounds DEF SpInv, SpTypes
<1>3. form' \in [env : Sp!Env, name : Sp!Field] /\ form'.env = form.env
  BY <1>1, <1>2 DEF SpInv, SpTypes, Sp!Name, Sp!Field
<1>4. SpTypes'
  <2>1. calmly' \in BOOLEAN /\ renamed' \in BOOLEAN
    BY <1>1
  <2> QED
    BY <1>1, <1>2, <1>3, <2>1 DEF SpInv, SpTypes
<1>5. SpRequests'
  BY <1>1 DEF SpInv, SpRequests
<1>6. ASSUME calmly' /\ fresh'  PROVE SpCalls' /\ SpRead' /\ SpRows' /\ SpForm'
  <2>1. SpCalls /\ SpRead /\ SpRows /\ SpForm
    BY <1>1, <1>6 DEF SpInv
  <2>2. SpCalls' /\ SpRead' /\ SpRows'
    BY <1>1, <2>1 DEF SpCalls, SpRead, SpRows
  <2>3. SpForm'
    BY <1>1, <1>3, <2>1 DEF SpForm, SpFilled, SpEmpty, SpNamed
  <2> QED
    BY <2>2, <2>3
<1> QED
  BY <1>4, <1>5, <1>6 DEF SpInv

----------------------------------------------------------------------------
(* Requests.                                                               *)

LEMMA SpSend ==
  ASSUME Sp!SettingsPageAssumption, SpTypes, SpRequests,
         NEW op \in {"save", "provision", "deprovision"}, NEW k \in ServiceKinds \cup {NoValue},
         op = "save" \/ k \in ServiceKinds, Sp!Call_(op, k)
  PROVE  /\ calls' = calls \cup {[op |-> op, key |-> k, pc |-> "sent", env |-> form.env,
                                  name |-> form.name, here |-> TRUE]}
         /\ SpRequests'
<1> DEFINE c == [op |-> op, key |-> k, pc |-> "sent", env |-> form.env,
                 name |-> form.name, here |-> TRUE]
<1>1. calls' = calls \cup {c} /\ Cardinality(calls) < SettingCalls
  BY SpSizes DEF Sp!Call_
<1>2. c \in Sp!Call
  BY DEF SpTypes, Sp!Call
<1>3. /\ IsFiniteSet(calls') /\ Cardinality(calls) \in Nat /\ Cardinality(calls') \in Nat
      /\ Cardinality(calls') <= Cardinality(calls) + 1
  BY <1>1, OneMore DEF SpRequests
<1>4. Cardinality(calls') <= SettingCalls
  BY <1>1, <1>3, SpBounds
<1>5. IF c.op = "save" THEN c.pc \in {"sent", "written"} ELSE c.key \in ServiceKinds
  OBVIOUS
<1> HIDE DEF c
<1>6. SpRequests'
  BY <1>1, <1>2, <1>3, <1>4, <1>5 DEF SpRequests
<1> QED
  BY <1>1, <1>6 DEF c

LEMMA SpDrop ==
  ASSUME Sp!SettingsPageAssumption, SpRequests, NEW c \in calls, calls' = calls \ {c}
  PROVE  SpRequests'
<1>1. IsFiniteSet(calls') /\ Cardinality(calls') <= Cardinality(calls)
  BY FS_Subset DEF SpRequests
<1>2. Cardinality(calls) \in Nat /\ Cardinality(calls') \in Nat /\ SettingCalls \in Nat
  BY <1>1, FS_CardinalityType, SpBounds DEF SpRequests
<1> QED
  BY <1>1, <1>2 DEF SpRequests

LEMMA SpBecomes ==
  ASSUME Sp!SettingsPageAssumption, SpRequests, NEW c \in calls, NEW d \in Sp!Call,
         IF d.op = "save" THEN d.pc \in {"sent", "written"} ELSE d.key \in ServiceKinds,
         calls' = (calls \ {c}) \cup {d}
  PROVE  SpRequests'
<1> DEFINE rest == calls \ {c}
<1>1. IsFiniteSet(rest) /\ Cardinality(rest) = Cardinality(calls) - 1
  BY FS_RemoveElement DEF SpRequests
<1>2. /\ IsFiniteSet(rest \cup {d}) /\ Cardinality(rest) \in Nat
      /\ Cardinality(rest \cup {d}) \in Nat
      /\ Cardinality(rest \cup {d}) <= Cardinality(rest) + 1
  BY <1>1, OneMore
<1>3. Cardinality(calls) \in Nat /\ Cardinality(calls) <= SettingCalls
  BY FS_CardinalityType DEF SpRequests
<1>4. Cardinality(calls') <= SettingCalls
  <2>1. SettingCalls \in Nat
    BY SpBounds
  <2>2. \A m, n, o, p \in Nat : n = m - 1 /\ m <= p /\ o <= n + 1 => o <= p
    OBVIOUS
  <2> HIDE DEF rest
  <2>3. Cardinality(rest \cup {d}) <= SettingCalls
    BY <1>1, <1>2, <1>3, <2>1, <2>2
  <2> QED
    BY <2>3 DEF rest
<1> QED
  BY <1>2, <1>4 DEF SpRequests

\* A calm user saves what he wants, and nothing else is under way.
LEMMA SpHandleSave ==
  ASSUME Sp!SettingsPageAssumption, SpInv, Sp!HandleSave
  PROVE  SpInv'
<1> DEFINE c == [op |-> "save", key |-> NoValue, pc |-> "sent", env |-> form.env,
                 name |-> form.name, here |-> TRUE]
           name == IF renamed /\ form.name # NoValue THEN form.name ELSE want.name
<1>1. /\ shown /\ known.project # NoValue /\ Sp!Call_("save", NoValue)
      /\ want' = [env |-> (want.env \ removed) \cup added, name |-> name]
      /\ added' = {} /\ removed' = {} /\ renamed' = FALSE
      /\ calmly' = (calmly /\ Sp!Quiet /\ (removed # {} => form.env # {}))
      /\ UNCHANGED <<details, variables, known, fetch, shown, form, fresh, changes, visits>>
  BY DEF Sp!HandleSave, Sp!Loaded, Sp!NoEdits, Sp!rows, Sp!queries
<1>2. calls' = calls \cup {c} /\ SpRequests'
  BY <1>1, SpSend DEF SpInv
<1>3. /\ c.op = "save" /\ c.pc = "sent" /\ c.env = form.env /\ c.name = form.name /\ c.here
  OBVIOUS
<1>4. /\ want' \in [env : Sp!Env, name : Sp!Name]
      /\ want'.env = (want.env \ removed) \cup added /\ want'.name = name
  BY <1>1 DEF SpInv, SpTypes, Sp!Env, Sp!Field
<1>5. SpTypes'
  <2>1. calmly' \in BOOLEAN /\ renamed' \in BOOLEAN
    BY <1>1
  <2>2. {} \in Sp!Env
    BY DEF Sp!Env
  <2> QED
    BY <1>1, <1>4, <2>1, <2>2 DEF SpInv, SpTypes
<1> HIDE DEF c
<1>6. ASSUME calmly' /\ fresh'  PROVE SpCalls' /\ SpRead' /\ SpRows' /\ SpForm'
  <2>1. calmly /\ fresh /\ Sp!Quiet /\ (removed # {} => form.env # {})
    BY <1>1, <1>6
  <2>2. calls = {} /\ fetch["env"].pc = "idle" /\ fetch["project"].pc = "idle"
    BY <2>1, SpQuiet DEF SpInv
  <2>3. SpRows /\ SpFilled /\ SpEmpty /\ SpNamed
    BY <1>1, <2>1 DEF SpInv, SpForm
  <2>4. calls' = {c}
    BY <1>2, <2>2
  <2>5. known.env # NoValue
    BY <2>2, <2>3 DEF SpEmpty
  <2>6. form.env = want'.env
    BY <1>4, <2>2, <2>3, <2>5 DEF SpFilled
  <2>7. /\ form.name \in {want'.name, NoValue}
        /\ form.name = NoValue => details.name = want'.name
    BY <1>1, <1>4, <2>2, <2>3 DEF SpNamed, SpRows
  <2>8. form.env = {} => variables = want'.env
    <3> SUFFICES ASSUME form.env = {}  PROVE variables = want'.env
      OBVIOUS
    <3>1. removed = {} /\ want'.env = {}
      BY <2>1, <2>6
    <3>2. want.env = {}
      BY <1>4, <3>1
    <3> QED
      BY <2>2, <2>3, <3>1, <3>2 DEF SpRows
  <2>9. SpCalls' /\ SpRead'
    BY <1>1, <1>3, <2>2, <2>4 DEF SpCalls, SpRead
  <2>10. SpRows'
    BY <1>1, <1>3, <2>4, <2>6, <2>7, <2>8 DEF SpRows, SpSaving
  <2>11. SpFilled' /\ SpEmpty' /\ SpNamed'
    BY <1>1, <2>5, <2>6, <2>7 DEF SpFilled, SpEmpty, SpNamed
  <2> QED
    BY <2>9, <2>10, <2>11 DEF SpForm
<1> QED
  BY <1>2, <1>5, <1>6 DEF SpInv

LEMMA SpToggle ==
  ASSUME Sp!SettingsPageAssumption, SpInv, NEW k \in ServiceKinds, Sp!Toggle(k)
  PROVE  SpInv'
<1> DEFINE op == IF k \in known.project.has THEN "deprovision" ELSE "provision"
           c == [op |-> op, key |-> k, pc |-> "sent", env |-> form.env,
                 name |-> form.name, here |-> TRUE]
<1>1. /\ shown /\ Sp!Call_(op, k)
      /\ calmly' = (calmly /\ Sp!Unedited /\ Sp!Quiet)
      /\ UNCHANGED <<details, variables, known, fetch, shown, form, added, removed, renamed, want,
                     fresh, changes, visits>>
  BY DEF Sp!Toggle, Sp!Loaded, Sp!rows, Sp!queries, Sp!unsaved
<1>2. calls' = calls \cup {c} /\ SpRequests'
  <2>1. op \in {"save", "provision", "deprovision"}
    OBVIOUS
  <2> HIDE DEF op
  <2> QED
    BY <1>1, <2>1, SpSend DEF SpInv
<1>3. c.op # "save" /\ c.pc = "sent" /\ c.here
  OBVIOUS
<1>4. SpTypes'
  <2>1. calmly' \in BOOLEAN
    BY <1>1
  <2> QED
    BY <1>1, <2>1 DEF SpInv, SpTypes
<1> HIDE DEF c
<1>5. ASSUME calmly' /\ fresh'  PROVE SpCalls' /\ SpRead' /\ SpRows' /\ SpForm'
  <2>1. calmly /\ fresh /\ Sp!Quiet
    BY <1>1, <1>5
  <2>2. calls = {} /\ fetch["env"].pc = "idle" /\ fetch["project"].pc = "idle"
    BY <2>1, SpQuiet DEF SpInv
  <2>3. SpRows /\ SpFilled /\ SpEmpty /\ SpNamed
    BY <1>1, <2>1 DEF SpInv, SpForm
  <2>4. calls' = {c}
    BY <1>2, <2>2
  <2>5. known.env # NoValue
    BY <2>2, <2>3 DEF SpEmpty
  <2>6. SpCalls' /\ SpRead'
    BY <1>1, <1>3, <2>2, <2>4 DEF SpCalls, SpRead
  <2>7. SpRows'
    BY <1>1, <1>3, <2>2, <2>3, <2>4 DEF SpRows, SpSaving
  <2>8. SpFilled' /\ SpEmpty' /\ SpNamed'
    BY <1>1, <2>2, <2>3, <2>5 DEF SpFilled, SpEmpty, SpNamed
  <2> QED
    BY <2>6, <2>7, <2>8 DEF SpForm
<1> QED
  BY <1>2, <1>4, <1>5 DEF SpInv

\* An error: the user's calm is over.
LEMMA SpFails ==
  ASSUME Sp!SettingsPageAssumption, SpInv, NEW c \in calls, Sp!Fails(c)
  PROVE  SpInv'
<1>1. /\ calls' = calls \ {c} /\ calmly' = FALSE
      /\ UNCHANGED <<details, variables, known, fetch, shown, form, added, removed, renamed, want,
                     fresh, changes, visits>>
  BY DEF Sp!Fails, Sp!rows, Sp!queries, Sp!unsaved
<1>2. SpRequests'
  BY <1>1, SpDrop DEF SpInv
<1>3. SpTypes'
  BY <1>1 DEF SpInv, SpTypes
<1> QED
  BY <1>1, <1>2, <1>3 DEF SpInv

\* A calm user's request is the only one, and so is what becomes of it.
LEMMA SpOnly ==
  ASSUME SpCalls, NEW c \in calls
  PROVE  /\ calls = {c} /\ calls \ {c} = {}
         /\ \A d : calls' = (calls \ {c}) \cup {d} => calls' = {d}
BY DEF SpCalls

LEMMA SpSucceeds ==
  ASSUME Sp!SettingsPageAssumption, SpInv, NEW c \in calls, Sp!Succeeds(c)
  PROVE  SpInv'
<1> DEFINE d == [c EXCEPT !.pc = "asked"]
<1>1. /\ c.pc = "written" /\ Sp!Asks({"project"})
      /\ calls' = IF c.op = "save" THEN calls \ {c} ELSE (calls \ {c}) \cup {d}
      /\ UNCHANGED <<details, variables, known, shown, form, added, removed, renamed, want,
                     calmly, fresh, changes, visits>>
  BY DEF Sp!Succeeds, Sp!rows, Sp!unsaved, Sp!history
<1>2. /\ d \in Sp!Call /\ d.op = c.op /\ d.pc = "asked" /\ d.key = c.key /\ d.here = c.here
  BY DEF SpInv, SpRequests, Sp!Call
<1> HIDE DEF d
<1>3. SpRequests'
  <2>1. CASE c.op = "save"
    BY <1>1, <2>1, SpDrop DEF SpInv
  <2>2. CASE c.op # "save"
    <3>1. d.key \in ServiceKinds
      BY <1>2, <2>2 DEF SpInv, SpRequests
    <3> QED
      BY <1>1, <1>2, <2>2, <3>1, SpBecomes DEF SpInv
  <2> QED
    BY <2>1, <2>2
<1>4. /\ fetch' \in [{"env", "project"} -> SpQuery] /\ fetch'["project"].pc = "wanted"
      /\ fetch'["env"] = fetch["env"]
  BY <1>1, SpAsks DEF SpInv
<1>5. SpTypes'
  BY <1>1, <1>4 DEF SpInv, SpTypes
<1>6. ASSUME calmly' /\ fresh'  PROVE SpCalls' /\ SpRead' /\ SpRows' /\ SpForm'
  <2>1. SpCalls /\ SpRead /\ SpRows /\ SpForm
    BY <1>1, <1>6 DEF SpInv
  <2>2. /\ calls = {c}
        /\ c.op = "save" => calls' = {}
        /\ c.op # "save" => calls' = {d}
    BY <1>1, <2>1, SpOnly
  <2>3. ~SpSaving(c)
    BY <1>1 DEF SpSaving
  <2>4. variables = want.env /\ details.name = want.name
    BY <2>1, <2>2, <2>3 DEF SpRows
  <2>5. SpCalls'
    BY <1>1, <1>2, <1>4, <2>1, <2>2 DEF SpCalls
  <2>6. SpRead'
    BY <1>1, <1>4, <2>1 DEF SpRead
  <2>7. SpRows'
    BY <1>1, <1>2, <2>2, <2>4 DEF SpRows, SpSaving
  <2>8. ASSUME shown  PROVE SpFilled' /\ SpEmpty' /\ SpNamed'
    <3>1. SpFilled /\ SpEmpty /\ SpNamed
      BY <2>1, <2>8 DEF SpForm
    <3>2. SpFilled'
      BY <1>1, <1>2, <2>2, <3>1 DEF SpFilled
    <3>3. SpEmpty' /\ SpNamed'
      BY <1>1, <3>1 DEF SpEmpty, SpNamed
    <3> QED
      BY <3>2, <3>3
  <2> QED
    BY <1>1, <2>5, <2>6, <2>7, <2>8 DEF SpForm
<1> QED
  BY <1>3, <1>5, <1>6 DEF SpInv

LEMMA SpSetEnvVars ==
  ASSUME Sp!SettingsPageAssumption, SpInv, NEW c \in calls, Sp!SetEnvVars(c)
  PROVE  SpInv'
<1>1. /\ c.pc = "answered" /\ calls' = calls \ {c}
      /\ c.here => form' = [form EXCEPT !.env = c.env] /\ added' = {} /\ removed' = {}
      /\ ~c.here => UNCHANGED <<form, added, removed>>
      /\ UNCHANGED <<details, variables, known, fetch, shown, renamed, want, calmly, fresh,
                     changes, visits>>
  BY DEF Sp!SetEnvVars, Sp!rows, Sp!queries, Sp!history
<1>2. c.env \in Sp!Env /\ {} \in Sp!Env
  BY DEF SpInv, SpRequests, Sp!Call, Sp!Env
<1>3. SpRequests'
  BY <1>1, SpDrop DEF SpInv
<1>4. /\ form' \in [env : Sp!Env, name : Sp!Field] /\ form'.name = form.name
      /\ added' \in Sp!Env /\ removed' \in Sp!Env
      /\ c.here => form'.env = c.env
  BY <1>1, <1>2 DEF SpInv, SpTypes
<1>5. SpTypes'
  BY <1>1, <1>4 DEF SpInv, SpTypes
<1>6. ASSUME calmly' /\ fresh'  PROVE SpCalls' /\ SpRead' /\ SpRows' /\ SpForm'
  <2>1. SpCalls /\ SpRead /\ SpRows /\ SpForm
    BY <1>1, <1>6 DEF SpInv
  <2>2. calls = {c} /\ calls' = {}
    BY <1>1, <2>1, SpOnly
  <2>3. variables = want.env /\ details.name = want.name /\ c.env = variables
    BY <1>1, <2>1, <2>2 DEF SpRows, SpSaving
  <2>4. SpCalls' /\ SpRead' /\ SpRows'
    BY <1>1, <2>1, <2>2, <2>3 DEF SpCalls, SpRead, SpRows
  <2>5. ASSUME shown  PROVE SpFilled' /\ SpEmpty' /\ SpNamed'
    <3>1. c.here /\ SpFilled /\ SpEmpty /\ SpNamed
      BY <2>1, <2>5 DEF SpCalls, SpForm
    <3>2. known.env # NoValue
      BY <2>2, <3>1 DEF SpEmpty
    <3>3. form'.env = want.env /\ added' = {} /\ removed' = {}
      BY <1>1, <1>4, <2>3, <3>1
    <3> QED
      BY <1>1, <1>4, <3>1, <3>2, <3>3 DEF SpFilled, SpEmpty, SpNamed
  <2> QED
    BY <1>1, <2>4, <2>5 DEF SpForm
<1> QED
  BY <1>3, <1>5, <1>6 DEF SpInv

----------------------------------------------------------------------------
(* The backend.                                                            *)

LEMMA SpUpdate ==
  ASSUME Sp!SettingsPageAssumption, SpInv, NEW c \in calls, Sp!Update(c)
  PROVE  SpInv'
<1> DEFINE d == [c EXCEPT !.pc = "written"]
<1>1. /\ c.op = "save" /\ c.pc = "sent"
      /\ details' = [details EXCEPT !.name = IF c.name = NoValue THEN details.name ELSE c.name]
      /\ variables' = IF c.env = {} THEN variables ELSE c.env
      /\ calls' = (calls \ {c}) \cup {d}
      /\ UNCHANGED <<want, known, fetch, shown, form, added, removed, renamed, calmly, fresh,
                     changes, visits>>
  BY DEF Sp!Update, Sp!Becomes, Sp!Outside, Sp!queries, Sp!unsaved
<1>2. /\ d \in Sp!Call /\ d.op = c.op /\ d.pc = "written" /\ d.here = c.here
      /\ c.env \in Sp!Env /\ (c.name # NoValue => c.name \in Sp!Name)
  BY DEF SpInv, SpRequests, Sp!Call, Sp!Field
<1> HIDE DEF d
<1>3. SpRequests'
  BY <1>1, <1>2, SpBecomes DEF SpInv
<1>4. details' \in Sp!Details /\ details'.name = IF c.name = NoValue THEN details.name ELSE c.name
  BY <1>1, <1>2 DEF SpInv, SpTypes, Sp!Details
<1>5. SpTypes'
  BY <1>1, <1>2, <1>4 DEF SpInv, SpTypes
<1>6. ASSUME calmly' /\ fresh'  PROVE SpCalls' /\ SpRead' /\ SpRows' /\ SpForm'
  <2>1. SpCalls /\ SpRead /\ SpRows /\ SpForm
    BY <1>1, <1>6 DEF SpInv
  <2>2. calls = {c} /\ calls' = {d}
    BY <1>1, <2>1, SpOnly
  <2>3. details'.name = want.name /\ variables' = want.env
    BY <1>1, <1>4, <2>1 DEF SpRows, SpSaving
  <2>4. fetch["env"].pc = "idle" /\ fetch["project"].pc = "idle"
    BY <1>1, <2>1 DEF SpCalls
  <2>5. SpCalls' /\ SpRead'
    BY <1>1, <1>2, <2>1, <2>2, <2>4 DEF SpCalls, SpRead
  <2>6. SpRows'
    BY <1>1, <1>2, <1>4, <2>2, <2>3 DEF SpRows, SpSaving
  <2>7. ASSUME shown  PROVE SpFilled' /\ SpEmpty' /\ SpNamed'
    <3>1. SpFilled /\ SpEmpty /\ SpNamed
      BY <2>1, <2>7 DEF SpForm
    <3>2. SpFilled'
      BY <1>1, <1>2, <2>2, <3>1 DEF SpFilled
    <3>3. SpEmpty' /\ SpNamed'
      BY <1>1, <2>2, <3>1 DEF SpEmpty, SpNamed
    <3> QED
      BY <3>2, <3>3
  <2> QED
    BY <1>1, <2>5, <2>6, <2>7 DEF SpForm
<1> QED
  BY <1>3, <1>5, <1>6 DEF SpInv

\* Reading the row, or the variables, changes no row.
LEMMA SpReadRow ==
  ASSUME Sp!SettingsPageAssumption, SpInv, NEW c \in calls, Sp!ReadRow(c) \/ Sp!GetEnv(c)
  PROVE  SpInv'
<1> DEFINE d(p) == [c EXCEPT !.pc = p, !.env = variables]
<1>1. PICK p \in {"read", "answered"} :
        /\ p = "read" => c.op # "save" /\ c.pc = "sent"
        /\ p = "answered" => c.pc = "asked"
        /\ calls' = (calls \ {c}) \cup {d(p)}
        /\ UNCHANGED <<details, variables, want, known, fetch, shown, form, added, removed,
                       renamed, calmly, fresh, changes, visits>>
  BY DEF Sp!ReadRow, Sp!GetEnv, Sp!Becomes, Sp!Outside, Sp!rows, Sp!queries, Sp!unsaved
<1>2. c.op # "save"
  BY <1>1 DEF SpInv, SpRequests
<1>3. /\ d(p) \in Sp!Call /\ d(p).op = c.op /\ d(p).pc = p /\ d(p).here = c.here
      /\ d(p).key = c.key /\ d(p).env = variables
  BY DEF SpInv, SpTypes, SpRequests, Sp!Call
<1> HIDE DEF d
<1>4. d(p).key \in ServiceKinds
  BY <1>2, <1>3 DEF SpInv, SpRequests
<1>5. SpRequests'
  BY <1>1, <1>2, <1>3, <1>4, SpBecomes DEF SpInv
<1>6. SpTypes'
  BY <1>1 DEF SpInv, SpTypes
<1>7. ASSUME calmly' /\ fresh'  PROVE SpCalls' /\ SpRead' /\ SpRows' /\ SpForm'
  <2>1. SpCalls /\ SpRead /\ SpRows /\ SpForm
    BY <1>1, <1>7 DEF SpInv
  <2>2. calls = {c} /\ calls' = {d(p)}
    BY <1>1, <2>1, SpOnly
  <2>3. variables = want.env /\ details.name = want.name
    BY <1>2, <2>1, <2>2 DEF SpRows, SpSaving
  <2>4. SpCalls' /\ SpRead'
    BY <1>1, <1>3, <2>1, <2>2 DEF SpCalls, SpRead
  <2>5. SpRows'
    BY <1>1, <1>2, <1>3, <2>2, <2>3 DEF SpRows, SpSaving
  <2>6. ASSUME shown  PROVE SpFilled' /\ SpEmpty' /\ SpNamed'
    <3>1. SpFilled /\ SpEmpty /\ SpNamed
      BY <2>1, <2>6 DEF SpForm
    <3>2. SpFilled'
      BY <1>1, <1>2, <1>3, <2>2, <3>1 DEF SpFilled
    <3>3. SpEmpty' /\ SpNamed'
      BY <1>1, <2>2, <3>1 DEF SpEmpty, SpNamed
    <3> QED
      BY <3>2, <3>3
  <2> QED
    BY <1>1, <2>4, <2>5, <2>6 DEF SpForm
<1> QED
  BY <1>5, <1>6, <1>7 DEF SpInv

LEMMA SpWriteRow ==
  ASSUME Sp!SettingsPageAssumption, SpInv, NEW c \in calls, Sp!WriteRow(c)
  PROVE  SpInv'
<1> DEFINE With(s) == IF c.op = "provision" THEN s \cup {c.key} ELSE s \ {c.key}
           d == [c EXCEPT !.pc = "written"]
<1>1. /\ c.pc = "read"
      /\ details' = [details EXCEPT !.has = With(details.has)]
      /\ variables' = With(c.env) /\ want' = [want EXCEPT !.env = With(want.env)]
      /\ calls' = (calls \ {c}) \cup {d}
      /\ UNCHANGED <<known, fetch, shown, form, added, removed, renamed, calmly, fresh, changes,
                     visits>>
  BY DEF Sp!WriteRow, Sp!Becomes, Sp!Outside, Sp!queries, Sp!unsaved
<1>2. c.op # "save" /\ c.key \in ServiceKinds
  BY <1>1 DEF SpInv, SpRequests
<1>3. /\ d \in Sp!Call /\ d.op = c.op /\ d.pc = "written" /\ d.here = c.here /\ d.key = c.key
      /\ c.env \in Sp!Env
  BY DEF SpInv, SpRequests, Sp!Call
<1> HIDE DEF d
<1>4. SpRequests'
  BY <1>1, <1>2, <1>3, SpBecomes DEF SpInv
<1>5. /\ \A s \in SUBSET ServiceKinds : With(s) \in SUBSET ServiceKinds
      /\ \A s \in Sp!Env : With(s) \in Sp!Env
  BY <1>2 DEF Sp!Env, Sp!Key
<1> HIDE DEF With
<1>6. details' \in Sp!Details /\ details'.name = details.name
  BY <1>1, <1>5 DEF SpInv, SpTypes, Sp!Details
<1>7. /\ want' \in [env : Sp!Env, name : Sp!Name]
      /\ want'.env = With(want.env) /\ want'.name = want.name
  BY <1>1, <1>5 DEF SpInv, SpTypes
<1>8. SpTypes'
  BY <1>1, <1>3, <1>5, <1>6, <1>7 DEF SpInv, SpTypes
<1>9. ASSUME calmly' /\ fresh'  PROVE SpCalls' /\ SpRead' /\ SpRows' /\ SpForm'
  <2>1. SpCalls /\ SpRead /\ SpRows /\ SpForm
    BY <1>1, <1>9 DEF SpInv
  <2>2. calls = {c} /\ calls' = {d}
    BY <1>1, <2>1, SpOnly
  <2>3. variables = want.env /\ details.name = want.name /\ c.env = variables
    BY <1>1, <1>2, <2>1, <2>2 DEF SpRows, SpSaving
  <2>4. fetch["env"].pc = "idle" /\ fetch["project"].pc = "idle"
    BY <1>1, <2>1 DEF SpCalls
  <2>5. SpCalls' /\ SpRead'
    BY <1>1, <1>3, <2>1, <2>2, <2>4 DEF SpCalls, SpRead
  <2>6. SpRows'
    BY <1>1, <1>2, <1>3, <1>6, <1>7, <2>2, <2>3 DEF SpRows, SpSaving
  <2>7. ASSUME shown  PROVE SpFilled' /\ SpEmpty' /\ SpNamed'
    <3>1. SpFilled /\ SpEmpty /\ SpNamed
      BY <2>1, <2>7 DEF SpForm
    <3>2. SpFilled'
      BY <1>1, <1>2, <1>3, <2>2 DEF SpFilled
    <3>3. SpEmpty' /\ SpNamed'
      BY <1>1, <1>7, <2>2, <3>1 DEF SpEmpty, SpNamed
    <3> QED
      BY <3>2, <3>3
  <2> QED
    BY <1>1, <2>5, <2>6, <2>7 DEF SpForm
<1> QED
  BY <1>4, <1>8, <1>9 DEF SpInv

----------------------------------------------------------------------------
LEMMA SpSteps ==
  ASSUME Sp!SettingsPageAssumption, SpInv, Sp!Next
  PROVE  SpInv'
<1>1. CASE Sp!Open \/ Sp!Leave \/ Sp!Refetch \/ Sp!EnvAnswered \/ Sp!ProjectAnswered
  BY <1>1, SpOpen, SpLeave, SpRefetch, SpEnvAnswered, SpProjectAnswered
<1>2. CASE \E q \in DOMAIN fetch : Sp!FetchRead(q)
  <2>1. DOMAIN fetch = {"env", "project"}
    BY DEF SpInv, SpTypes
  <2> QED
    BY <1>2, <2>1, SpFetchRead
<1>3. CASE Sp!EditName \/ Sp!HandleSave
  BY <1>3, SpEditName, SpHandleSave
<1>4. CASE \E k \in Sp!Key : Sp!AddVariable(k) \/ Sp!RemoveVariable(k)
  BY <1>4, SpAddRemove
<1>5. CASE \E k \in ServiceKinds : Sp!Toggle(k)
  BY <1>5, SpToggle
<1>6. CASE \E c \in calls :
             \/ Sp!Succeeds(c) \/ Sp!SetEnvVars(c) \/ Sp!Fails(c)
             \/ Sp!Update(c) \/ Sp!ReadRow(c) \/ Sp!WriteRow(c) \/ Sp!GetEnv(c)
  BY <1>6, SpSucceeds, SpSetEnvVars, SpFails, SpUpdate, SpReadRow, SpWriteRow
<1> QED
  BY <1>1, <1>2, <1>3, <1>4, <1>5, <1>6 DEF Sp!Next

LEMMA SpStays ==
  ASSUME SpInv, UNCHANGED Sp!vars
  PROVE  SpInv'
BY DEF SpInv, SpTypes, SpRequests, SpCalls, SpRead, SpRows, SpForm, SpFilled, SpEmpty, SpNamed,
       Sp!vars, Sp!rows, Sp!queries, Sp!unsaved, Sp!history

LEMMA SpHolds ==
  ASSUME SpInv
  PROVE  Sp!TypeOK /\ Sp!SavedKept
<1>1. Sp!TypeOK
  BY SpSizes DEF SpInv, SpTypes, SpRequests, SpAnswers, SpQuery, Sp!TypeOK
<1>2. Sp!SavedKept
  BY DEF SpInv, SpRows, Sp!SavedKept
<1> QED
  BY <1>1, <1>2

\* A calm user's settings are kept, with the variables of services.
THEOREM SavedSettingsAreKept ==
  Sp!SettingsPageAssumption /\ Sp!Spec => [](Sp!TypeOK /\ Sp!SavedKept)
<1> SUFFICES ASSUME Sp!SettingsPageAssumption
             PROVE  Sp!Spec => [](Sp!TypeOK /\ Sp!SavedKept)
  OBVIOUS
<1>1. Sp!Init => SpInv
  BY SpStart
<1>2. SpInv /\ [Sp!Next]_Sp!vars => SpInv'
  BY SpSteps, SpStays
<1>3. SpInv => Sp!TypeOK /\ Sp!SavedKept
  BY SpHolds
<1> QED
  BY <1>1, <1>2, <1>3, PTL DEF Sp!Spec

----------------------------------------------------------------------------
(* The wizard of a new project.                                            *)

\* For a user who waits, there is no branch but the one meant, and every
\* question that will fill a blank one asks for that.
NpBranch ==
  /\ form.branch \in {NoValue, meant}
  /\ form.repo # NoValue /\ form.branch = NoValue => meant = <<form.repo, "default">>
  /\ \A c \in branchCalls : c.blank => <<c.repo, "default">> = meant
  /\ branchTimer # NoValue /\ branchTimer.blank => <<branchTimer.repo, "default">> = meant

\* ... and the port's check is of the port typed; it was passed to get on.
NpPort ==
  /\ portCalls \subseteq {form.port} /\ portTimer \in {NoValue, form.port}
  /\ portStatus = "available" => form.port \notin TakenPorts
  /\ portStatus = "idle" => form.port = NoValue
  /\ form.source = "STATIC" => form.port = NoValue
  /\ stage \in {"env", "confirm", "created"} => form.port \notin TakenPorts

NpInv ==
  /\ Np!TypeOK
  /\ stage # "source" => Np!SubmissionComplete
  /\ branchTimer # NoValue => branchTimer.repo = form.repo
  /\ patient => NpBranch
  /\ patient => NpPort

LEMMA NpStart ==
  ASSUME Np!NewProjectAssumption, Np!Init
  PROVE  NpInv
<1>1. form \in Np!Form
  BY DEF Np!Init, Np!Form, Np!Source
<1>2. Np!TypeOK
  <2>1. stage \in {"source", "basic", "env", "confirm", "created"} /\ file \in BOOLEAN
    BY DEF Np!Init
  <2>2. branchTimer \in Np!BranchCall \cup {NoValue} /\ branchCalls \subseteq Np!BranchCall
    BY DEF Np!Init
  <2>3. /\ portStatus \in {"idle", "checking", "available", "taken"}
        /\ portTimer \in TypedPorts \cup {NoValue} /\ portCalls \subseteq TypedPorts
    BY DEF Np!Init
  <2>4. changes \in 0..ProjectEdits
    BY DEF Np!Init, Np!NewProjectAssumption
  <2>5. meant \in Np!Branch \cup {NoValue} /\ patient \in BOOLEAN
    BY DEF Np!Init
  <2> QED
    BY <1>1, <2>1, <2>2, <2>3, <2>4, <2>5 DEF Np!TypeOK
<1>3. form.branch = NoValue /\ form.repo = NoValue /\ form.port = NoValue
  BY DEF Np!Init
<1> QED
  BY <1>2, <1>3 DEF NpInv, NpBranch, NpPort, Np!Init, Np!NewProjectAssumption

LEMMA NpChooseSource ==
  ASSUME Np!NewProjectAssumption, NpInv, NEW s \in Np!Source \ {"none"}, Np!ChooseSource(s)
  PROVE  NpInv'
<1> USE DEF Np!ChooseSource, Np!At, Np!Edit, Np!BranchEffect
<1>1. Np!TypeOK'
  BY DEF NpInv, Np!NewProjectAssumption, Np!TypeOK, Np!Form, Np!Source, Np!BranchCall, Np!asked
<1>2. form' = [form EXCEPT !.source = s] /\ form \in Np!Form
  BY DEF NpInv, Np!TypeOK
<1>3. /\ form'.source = s /\ form'.repo = form.repo /\ form'.branch = form.branch
      /\ form'.port = form.port
  BY <1>2 DEF Np!Form
<1>4. (stage # "source" => Np!SubmissionComplete)'
  BY DEF NpInv
<1>5. (branchTimer # NoValue => branchTimer.repo = form.repo)'
  BY <1>3
<1>6. ASSUME patient'  PROVE NpBranch'
  BY <1>3, <1>6 DEF NpInv, NpBranch, Np!asked, Np!TypeOK
<1>7. ASSUME patient'  PROVE NpPort'
  BY <1>3, <1>7 DEF NpInv, NpPort, Np!asked, Np!TypeOK
<1> QED
  BY <1>1, <1>4, <1>5, <1>6, <1>7 DEF NpInv

LEMMA NpTypeRepo ==
  ASSUME Np!NewProjectAssumption, NpInv, NEW r \in Repos, Np!TypeRepo(r)
  PROVE  NpInv'
<1> USE DEF Np!TypeRepo, Np!At, Np!Edit, Np!BranchEffect
<1>1. Np!TypeOK'
  BY DEF NpInv, Np!NewProjectAssumption, Np!TypeOK, Np!Form, Np!BranchCall, Np!Branch, Np!asked
<1>2. form' = [form EXCEPT !.repo = r] /\ form \in Np!Form
  BY DEF NpInv, Np!TypeOK
<1>3. /\ form'.source = form.source /\ form'.repo = r /\ form'.branch = form.branch
      /\ form'.port = form.port
  BY <1>2 DEF Np!Form
<1>4. (stage # "source" => Np!SubmissionComplete)'
  BY DEF NpInv
<1>5. (branchTimer # NoValue => branchTimer.repo = form.repo)'
  BY <1>3
<1>6. ASSUME patient'  PROVE NpBranch'
  BY <1>3, <1>6 DEF NpInv, NpBranch, Np!asked, Np!TypeOK
<1>7. ASSUME patient'  PROVE NpPort'
  BY <1>3, <1>7 DEF NpInv, NpPort, Np!asked, Np!TypeOK
<1> QED
  BY <1>1, <1>4, <1>5, <1>6, <1>7 DEF NpInv

LEMMA NpSelectRepo ==
  ASSUME Np!NewProjectAssumption, NpInv, NEW r \in Repos, Np!SelectRepo(r)
  PROVE  NpInv'
<1> USE DEF Np!SelectRepo, Np!At, Np!Edit, Np!BranchEffect
<1>2. form' = [form EXCEPT !.repo = r, !.branch = <<r, "default">>] /\ form \in Np!Form
  BY DEF NpInv, Np!TypeOK
<1>3. /\ form'.source = form.source /\ form'.repo = r /\ form'.branch = <<r, "default">>
      /\ form'.port = form.port
  BY <1>2 DEF Np!Form
<1>8. <<r, "default">> \in Np!Branch
  BY DEF Np!Branch
<1>9. form' \in Np!Form
  BY <1>2, <1>8 DEF Np!Form
<1>10. branchTimer' \in Np!BranchCall \cup {NoValue}
  <2>1. CASE r # form.repo
    <3>1. branchTimer' = [repo |-> form'.repo, blank |-> form'.branch = NoValue]
      BY <2>1, <1>2, <1>3 DEF Np!NewProjectAssumption
    <3>2. branchTimer' = [repo |-> r, blank |-> FALSE]
      BY Zenon, <3>1, <1>3, <1>8 DEF Np!NewProjectAssumption
    <3> QED
      BY <3>2 DEF Np!BranchCall
  <2>2. CASE r = form.repo
    BY <2>2 DEF NpInv, Np!TypeOK
  <2> QED
    BY <2>1, <2>2
<1>11. changes' \in 0..ProjectEdits
  BY DEF NpInv, Np!NewProjectAssumption, Np!TypeOK
<1>12. patient' \in BOOLEAN
  OBVIOUS
<1>1. Np!TypeOK'
  BY <1>8, <1>9, <1>10, <1>11, <1>12 DEF NpInv, Np!TypeOK, Np!asked
<1>4. (stage # "source" => Np!SubmissionComplete)'
  BY DEF NpInv
<1>5. (branchTimer # NoValue => branchTimer.repo = form.repo)'
  BY <1>3 DEF NpInv
<1>6. ASSUME patient'  PROVE NpBranch'
  <2>1. <<r, "default">> # NoValue
    BY DEF Np!NewProjectAssumption, Np!Branch
  <2>2. branchTimer' # NoValue /\ branchTimer'.blank => branchTimer'.repo = r
    BY <1>3, <1>5
  <2> QED
    BY <1>3, <1>6, <2>1, <2>2 DEF NpInv, NpBranch, Np!asked, Np!TypeOK
<1>7. ASSUME patient'  PROVE NpPort'
  BY <1>3, <1>7 DEF NpInv, NpPort, Np!asked, Np!TypeOK
<1> QED
  BY <1>1, <1>4, <1>5, <1>6, <1>7 DEF NpInv

LEMMA NpClearRepo ==
  ASSUME Np!NewProjectAssumption, NpInv, Np!ClearRepo
  PROVE  NpInv'
<1> USE DEF Np!ClearRepo, Np!At, Np!Edit, Np!BranchEffect
<1>2. form' = [form EXCEPT !.repo = NoValue, !.branch = NoValue] /\ form \in Np!Form
  BY DEF NpInv, Np!TypeOK
<1>3. /\ form'.source = form.source /\ form'.repo = NoValue /\ form'.branch = NoValue
      /\ form'.port = form.port /\ form' \in Np!Form
  BY <1>2 DEF Np!Form
<1>1. Np!TypeOK'
  BY <1>3 DEF NpInv, Np!NewProjectAssumption, Np!TypeOK, Np!asked
<1>4. (stage # "source" => Np!SubmissionComplete)'
  BY DEF NpInv
<1>5. branchTimer' = NoValue
  BY <1>3
<1>6. ASSUME patient'  PROVE NpBranch'
  BY <1>3, <1>5, <1>6 DEF NpInv, NpBranch, Np!asked, Np!TypeOK
<1>7. ASSUME patient'  PROVE NpPort'
  BY <1>3, <1>7 DEF NpInv, NpPort, Np!asked, Np!TypeOK
<1> QED
  BY <1>1, <1>4, <1>5, <1>6, <1>7 DEF NpInv

LEMMA NpTypeBranch ==
  ASSUME Np!NewProjectAssumption, NpInv, Np!TypeBranch
  PROVE  NpInv'
<1> USE DEF Np!TypeBranch, Np!At, Np!Edit
<1>1. form' = [form EXCEPT !.branch = <<form.repo, "other">>] /\ form \in Np!Form
  BY DEF NpInv, Np!TypeOK
<1>2. /\ form'.source = form.source /\ form'.repo = form.repo /\ form'.port = form.port
      /\ form'.branch = <<form.repo, "other">> /\ form.repo \in Repos
  BY <1>1 DEF Np!Form
<1>3. <<form.repo, "other">> \in Np!Branch
  BY <1>2 DEF Np!Branch
<1>4. Np!TypeOK'
  BY <1>3 DEF NpInv, Np!NewProjectAssumption, Np!TypeOK, Np!Form, Np!asked, Np!timers
<1>5. (stage # "source" => Np!SubmissionComplete)'
  BY DEF NpInv
<1>6. (branchTimer # NoValue => branchTimer.repo = form.repo)'
  BY <1>2 DEF NpInv, Np!timers
<1>7. ASSUME patient'  PROVE NpBranch'
  BY <1>2, <1>3, <1>7 DEF NpInv, NpBranch, Np!asked, Np!timers, Np!TypeOK, Np!BranchAsked,
                          Np!NewProjectAssumption
<1>8. ASSUME patient'  PROVE NpPort'
  BY <1>2, <1>8 DEF NpInv, NpPort, Np!asked, Np!timers, Np!TypeOK
<1> QED
  BY <1>4, <1>5, <1>6, <1>7, <1>8 DEF NpInv

LEMMA NpAskBranches ==
  ASSUME NpInv, Np!AskBranches
  PROVE  NpInv'
<1> USE DEF Np!AskBranches
<1>1. Np!TypeOK'
  BY DEF NpInv, Np!TypeOK
<1> QED
  BY <1>1 DEF NpInv, Np!SubmissionComplete, NpBranch, NpPort

LEMMA NpBranchesAnswered ==
  ASSUME Np!NewProjectAssumption, NpInv, NEW c \in branchCalls, Np!BranchesAnswered(c)
  PROVE  NpInv'
<1> USE DEF Np!BranchesAnswered
<1>1. form \in Np!Form /\ c \in Np!BranchCall
  BY DEF NpInv, Np!TypeOK
<1>9. <<c.repo, "default">> \in Np!Branch
  BY <1>1 DEF Np!BranchCall, Np!Branch
<1>2. /\ form' \in Np!Form /\ form'.source = form.source /\ form'.repo = form.repo
      /\ form'.port = form.port
      /\ form'.branch = form.branch \/ (c.blank /\ form'.branch = <<c.repo, "default">>)
  BY <1>1, <1>9 DEF Np!Form
<1>3. <<c.repo, "default">> # NoValue
  BY <1>1 DEF Np!NewProjectAssumption, Np!Branch, Np!BranchCall
<1>4. Np!TypeOK'
  BY <1>2 DEF NpInv, Np!TypeOK, Np!timers
<1>5. (stage # "source" => Np!SubmissionComplete)'
  BY <1>2, <1>3 DEF NpInv, Np!SubmissionComplete
<1>6. (branchTimer # NoValue => branchTimer.repo = form.repo)'
  BY <1>2 DEF NpInv, Np!timers
<1>7. ASSUME patient'  PROVE NpBranch'
  BY <1>2, <1>3, <1>7 DEF NpInv, NpBranch, Np!timers
<1>8. ASSUME patient'  PROVE NpPort'
  BY <1>2, <1>8 DEF NpInv, NpPort, Np!timers
<1> QED
  BY <1>4, <1>5, <1>6, <1>7, <1>8 DEF NpInv

LEMMA NpTypePort ==
  ASSUME Np!NewProjectAssumption, NpInv, NEW p \in TypedPorts \cup {NoValue}, Np!TypePort(p)
  PROVE  NpInv'
<1> USE DEF Np!TypePort, Np!At, Np!Edit
<1>1. form' = [form EXCEPT !.port = p] /\ form \in Np!Form
  BY DEF NpInv, Np!TypeOK
<1>2. /\ form'.source = form.source /\ form'.repo = form.repo /\ form'.branch = form.branch
      /\ form'.port = p
  BY <1>1 DEF Np!Form
<1>3. Np!TypeOK'
  BY <1>1 DEF NpInv, Np!NewProjectAssumption, Np!TypeOK, Np!Form, Np!asked
<1>4. (stage # "source" => Np!SubmissionComplete)'
  BY <1>2 DEF NpInv, Np!SubmissionComplete
<1>5. (branchTimer # NoValue => branchTimer.repo = form.repo)'
  BY <1>2 DEF NpInv
<1>6. ASSUME patient'  PROVE NpBranch'
  BY <1>2, <1>6 DEF NpInv, NpBranch, Np!asked, Np!TypeOK
<1>7. ASSUME patient'  PROVE NpPort'
  BY <1>2, <1>7 DEF NpInv, NpPort, Np!asked, Np!TypeOK, Np!NewProjectAssumption
<1> QED
  BY <1>3, <1>4, <1>5, <1>6, <1>7 DEF NpInv

LEMMA NpAskPort ==
  ASSUME NpInv, Np!AskPort
  PROVE  NpInv'
<1> USE DEF Np!AskPort
<1>1. Np!TypeOK'
  BY DEF NpInv, Np!TypeOK
<1> QED
  BY <1>1 DEF NpInv, Np!SubmissionComplete, NpBranch, NpPort

LEMMA NpPortAnswered ==
  ASSUME NpInv, NEW p \in portCalls, Np!PortAnswered(p)
  PROVE  NpInv'
<1> USE DEF Np!PortAnswered
<1>1. Np!TypeOK'
  BY DEF NpInv, Np!TypeOK, Np!timers
<1>2. ASSUME patient'  PROVE NpPort'
  BY <1>2 DEF NpInv, NpPort, Np!timers, Np!TypeOK
<1> QED
  BY <1>1, <1>2 DEF NpInv, Np!SubmissionComplete, NpBranch, Np!timers, Np!TypeOK

\* The steps that only touch the file, the service or the stage.
LEMMA NpOthers ==
  ASSUME Np!NewProjectAssumption, NpInv,
         Np!ChooseFile \/ Np!ToggleService \/ Np!Continue \/ Np!Back \/ Np!HandleCreate
  PROVE  NpInv'
<1>1. CASE Np!ChooseFile
  <2>1. Np!TypeOK'
    BY <1>1 DEF NpInv, Np!TypeOK, Np!ChooseFile, Np!Edit, Np!timers, Np!asked,
                Np!NewProjectAssumption
  <2> QED
    BY <1>1, <2>1 DEF NpInv, Np!ChooseFile, Np!At, Np!timers, Np!asked, NpBranch, NpPort
<1>2. CASE Np!ToggleService
  <2>1. form' = [form EXCEPT !.service = ~@] /\ form \in Np!Form
    BY <1>2 DEF NpInv, Np!TypeOK, Np!ToggleService
  <2>2. /\ form' \in Np!Form /\ form'.source = form.source /\ form'.repo = form.repo
        /\ form'.branch = form.branch /\ form'.port = form.port
    BY <2>1 DEF Np!Form
  <2>3. Np!TypeOK'
    BY <1>2, <2>2 DEF NpInv, Np!TypeOK, Np!ToggleService, Np!Edit, Np!timers, Np!asked,
                      Np!NewProjectAssumption
  <2> QED
    BY <1>2, <2>2, <2>3 DEF NpInv, Np!ToggleService, Np!timers, Np!asked, NpBranch, NpPort,
                            Np!SubmissionComplete
<1>3. CASE Np!Continue \/ Np!Back \/ Np!HandleCreate
  <2>1. UNCHANGED <<form, file, branchTimer, portTimer, branchCalls, portCalls, portStatus,
                    changes, meant, patient>>
    BY <1>3 DEF Np!Continue, Np!Back, Np!HandleCreate, Np!GoTo, Np!timers, Np!asked
  <2>2. stage' \in {"source", "basic", "env", "confirm", "created"}
    BY <1>3 DEF Np!Continue, Np!Back, Np!HandleCreate, Np!GoTo
  <2>3. stage # "source" \/ stage' = "source" \/ Np!CanContinueFromSource
    BY <1>3 DEF Np!Continue, Np!Back, Np!HandleCreate, Np!GoTo, Np!At
  <2>4. (stage # "source" => Np!SubmissionComplete)'
    BY <2>1, <2>3 DEF NpInv, Np!SubmissionComplete, Np!CanContinueFromSource
  <2>5. \/ stage \in {"env", "confirm", "created"} \/ stage' \in {"source", "basic"}
        \/ Np!CanContinueFromBasic
    BY <1>3 DEF Np!Continue, Np!Back, Np!HandleCreate, Np!GoTo, Np!At
  <2>6. ASSUME patient'  PROVE NpPort'
    <3>1. patient /\ NpPort
      BY <2>1, <2>6 DEF NpInv
    <3>2. Np!CanContinueFromBasic => form.port \notin TakenPorts
      BY <3>1 DEF NpInv, NpPort, Np!CanContinueFromBasic, Np!TypeOK, Np!NewProjectAssumption
    <3> QED
      BY <2>1, <2>2, <2>5, <3>1, <3>2 DEF NpPort
  <2>7. Np!TypeOK'
    BY <2>1, <2>2 DEF NpInv, Np!TypeOK
  <2> QED
    BY <2>1, <2>4, <2>6, <2>7 DEF NpInv, NpBranch
<1> QED
  BY <1>1, <1>2, <1>3

LEMMA NpSteps ==
  ASSUME Np!NewProjectAssumption, NpInv, [Np!Next]_(Np!vars)
  PROVE  NpInv'
<1>1. CASE UNCHANGED Np!vars
  BY <1>1 DEF NpInv, NpBranch, NpPort, Np!vars, Np!timers, Np!asked, Np!TypeOK,
              Np!SubmissionComplete
<1>2. CASE Np!Next
  BY Zenon, <1>2, NpChooseSource, NpTypeRepo, NpSelectRepo, NpClearRepo, NpTypeBranch,
     NpAskBranches, NpBranchesAnswered, NpTypePort, NpAskPort, NpPortAnswered, NpOthers
     DEF Np!Next
<1> QED
  BY <1>1, <1>2

(***************************************************************************)
(* For every set of repositories and ports, and any way through the steps  *)
(* of the wizard: what is submitted is complete, and from a patient user   *)
(* it is what he chose, with a port nobody has.                            *)
(***************************************************************************)
THEOREM SubmittedAsChosen ==
  Np!NewProjectAssumption /\ Np!Spec => [](Np!TypeOK /\ Np!SubmissionAsChosen)
<1> SUFFICES ASSUME Np!NewProjectAssumption
             PROVE  Np!Spec => [](Np!TypeOK /\ Np!SubmissionAsChosen)
  OBVIOUS
<1>1. Np!Init => NpInv
  BY NpStart
<1>2. NpInv /\ [Np!Next]_(Np!vars) => NpInv'
  BY NpSteps
<1>3. NpInv => Np!TypeOK /\ Np!SubmissionAsChosen
  BY DEF NpInv, NpBranch, NpPort, Np!SubmissionAsChosen, Np!SubmissionComplete,
         Np!SubmissionMeant, Np!At
<1> QED
  BY <1>1, <1>2, <1>3, PTL DEF Np!Spec

----------------------------------------------------------------------------
(* The storage wizard.                                                     *)

SwCalls ==
  [test : StorageServers \cup {NoValue},
   browse : (StorageServers \X StorageBuckets) \cup {NoValue},
   validate : (SUBSET DownloadUrls) \cup {NoValue}]
SwStarts == [pc : {"upload", "create"}, payload : Sw!Payload]

SwTypes ==
  /\ stage \in {"source", "conflict", "execute"}
  /\ sourceMode \in {"REMOTE", "UPLOAD", "URL", NoValue}
  /\ remote \in [connection : StorageServers \cup {NoValue}, connected : BOOLEAN,
                 bucket : StorageBuckets \cup {NoValue}, browsed : BOOLEAN,
                 objects : SUBSET Sw!Object]
  /\ selected \subseteq remote.objects /\ chosen \subseteq LocalFiles
  /\ urls \in [text : SUBSET DownloadUrls, valid : (SUBSET DownloadUrls) \cup {NoValue}]
  /\ calls \in SwCalls
  /\ shown \in BOOLEAN /\ importId \in 0..MaxImports
  /\ unfinished \in BOOLEAN /\ changes \in 0..ImportEdits
  /\ strayed \in BOOLEAN /\ lost \in BOOLEAN

\* One start at a time.
SwOrders ==
  /\ starts = <<>> \/ \E p \in SwStarts : starts = <<p>>
  /\ sent \in Seq(Sw!Payload) /\ Len(sent) <= MaxImports
  /\ importId <= Len(sent)

\* What is listed was listed for a bucket; the second step has a source.
SwSource ==
  /\ selected # {} \/ remote.objects # {} \/ calls.browse # NoValue =>
       remote.connection # NoValue /\ remote.bucket # NoValue
  /\ stage = "conflict" =>
       /\ sourceMode \in {"REMOTE", "UPLOAD", "URL"}
       /\ sourceMode = "REMOTE" => remote.connection # NoValue /\ remote.bucket # NoValue
       /\ sourceMode = "URL" => urls.valid \in SUBSET DownloadUrls

SwFollowed ==
  /\ shown /\ importId > 0 => stage = "execute" /\ starts = <<>>
  /\ shown /\ ~lost => Len(sent) = importId /\ importId <= 1

\* What is listed, valid, started and created is of the form as it is.
SwListed ==
  /\ \A o \in remote.objects : <<o[1], o[2]>> = <<remote.connection, remote.bucket>>
  /\ calls.browse # NoValue => calls.browse = <<remote.connection, remote.bucket>>
  /\ calls.validate # NoValue => calls.validate \subseteq urls.text
  /\ urls.valid # NoValue => urls.valid \subseteq urls.text
SwOrdered ==
  /\ starts # <<>> =>
       /\ starts[1].payload.source = "REMOTE" =>
            \A o \in starts[1].payload.what : <<o[1], o[2]>> = starts[1].payload.from
       /\ starts[1].payload.source = "URL" => starts[1].payload.what \subseteq urls.text
  /\ \A n \in DOMAIN sent : sent[n].source = "REMOTE" =>
       \A o \in sent[n].what : <<o[1], o[2]>> = sent[n].from
  /\ shown /\ importId > 0 /\ sent[importId].source = "URL" =>
       sent[importId].what \subseteq urls.text

SwInv ==
  /\ SwTypes /\ SwOrders /\ SwSource /\ SwFollowed
  /\ ~strayed => SwListed /\ SwOrdered

LEMMA SwBounds ==
  ASSUME Sw!StorageWizardAssumption
  PROVE  ImportEdits \in Nat /\ MaxImports \in Nat
         /\ NoValue \notin StorageServers /\ NoValue \notin StorageBuckets
         /\ NoValue \notin SUBSET DownloadUrls
BY DEF Sw!StorageWizardAssumption

LEMMA SwRemoveAt ==
  ASSUME NEW S, NEW p \in S
  PROVE  Sw!RemoveAt(<<p>>, 1) = <<>>
<1>1. SubSeq(<<p>>, 1, 0) = <<>> /\ SubSeq(<<p>>, 2, 1) = <<>> /\ Len(<<p>>) = 1
  BY SubSeqEmpty
<1>2. <<>> \o <<>> = <<>>
  OBVIOUS
<1> QED
  BY <1>1, <1>2 DEF Sw!RemoveAt

\* The only start under way.
LEMMA SwOne ==
  ASSUME SwOrders, NEW n \in DOMAIN starts
  PROVE  /\ n = 1 /\ starts[1] \in SwStarts /\ starts # <<>> /\ starts = <<starts[1]>>
         /\ Sw!RemoveAt(starts, n) = <<>>
<1>1. starts # <<>>
  OBVIOUS
<1>2. PICK p \in SwStarts : starts = <<p>>
  BY <1>1 DEF SwOrders
<1>3. DOMAIN starts = {1} /\ starts[1] = p
  BY <1>2
<1> QED
  BY <1>1, <1>2, <1>3, SwRemoveAt

LEMMA SwStart ==
  ASSUME Sw!StorageWizardAssumption, Sw!Init
  PROVE  SwInv
<1> USE DEF Sw!Init
<1>1. SwTypes
  <2>1. 0 \in 0..MaxImports /\ 0 \in 0..ImportEdits
    BY SwBounds
  <2>2. calls \in SwCalls
    BY DEF SwCalls, Sw!NoCalls
  <2>3. /\ remote \in [connection : StorageServers \cup {NoValue}, connected : BOOLEAN,
                       bucket : StorageBuckets \cup {NoValue}, browsed : BOOLEAN,
                       objects : SUBSET Sw!Object]
        /\ urls \in [text : SUBSET DownloadUrls, valid : (SUBSET DownloadUrls) \cup {NoValue}]
    OBVIOUS
  <2> QED
    BY <2>1, <2>2, <2>3 DEF SwTypes
<1>2. SwOrders /\ SwSource /\ SwFollowed
  BY SwBounds DEF SwOrders, SwSource, SwFollowed, Sw!NoCalls
<1>3. SwListed /\ SwOrdered
  BY DEF SwListed, SwOrdered, Sw!NoCalls
<1> QED
  BY <1>1, <1>2, <1>3 DEF SwInv

\* The user changes the form.
LEMMA SwEditing ==
  ASSUME Sw!StorageWizardAssumption, SwInv, NEW mode, Sw!Editing(mode)
  PROVE  /\ UNCHANGED <<stage, sourceMode, calls, starts, shown, importId, sent, unfinished, lost>>
         /\ shown /\ stage = "source" /\ ~(importId > 0) /\ changes' \in 0..ImportEdits
<1>1. /\ UNCHANGED <<stage, sourceMode, calls, starts, shown, importId, sent, unfinished, lost>>
      /\ shown /\ stage = "source" /\ changes < ImportEdits /\ changes' = changes + 1
  BY DEF Sw!Editing, Sw!server
<1>2. changes' \in 0..ImportEdits
  BY <1>1, SwBounds DEF SwInv, SwTypes
<1>3. ~(importId > 0)
  BY <1>1 DEF SwInv, SwFollowed
<1> QED
  BY <1>1, <1>2, <1>3

LEMMA SwEditRemote ==
  ASSUME Sw!StorageWizardAssumption, SwInv,
         \/ \E s \in StorageServers : Sw!EditConnection(s)
         \/ \E b \in StorageBuckets : Sw!ChooseBucket(b)
  PROVE  SwInv'
<1>1. PICK mode \in {"REMOTE"} : Sw!Editing(mode)
  BY DEF Sw!EditConnection, Sw!ChooseBucket
<1>2. /\ UNCHANGED <<stage, sourceMode, calls, starts, shown, importId, sent, unfinished, lost>>
      /\ shown /\ stage = "source" /\ ~(importId > 0) /\ changes' \in 0..ImportEdits
  BY <1>1, SwEditing
<1>3. /\ strayed' = (strayed \/ calls.browse # NoValue \/ remote.objects # {})
      /\ UNCHANGED <<selected, chosen, urls>>
  BY DEF Sw!EditConnection, Sw!ChooseBucket
<1>4. /\ remote' \in [connection : StorageServers \cup {NoValue}, connected : BOOLEAN,
                      bucket : StorageBuckets \cup {NoValue}, browsed : BOOLEAN,
                      objects : SUBSET Sw!Object]
      /\ remote'.objects = remote.objects
      /\ remote.connection # NoValue => remote'.connection # NoValue
      /\ remote.bucket # NoValue => remote'.bucket # NoValue
  <2>1. CASE \E s \in StorageServers : Sw!EditConnection(s)
    <3>1. PICK s \in StorageServers : remote' = [remote EXCEPT !.connection = s]
      BY <2>1 DEF Sw!EditConnection
    <3> QED
      BY <3>1, SwBounds DEF SwInv, SwTypes
  <2>2. CASE \E b \in StorageBuckets : Sw!ChooseBucket(b)
    <3>1. PICK b \in StorageBuckets : remote' = [remote EXCEPT !.bucket = b, !.browsed = FALSE]
      BY <2>2 DEF Sw!ChooseBucket
    <3> QED
      BY <3>1, SwBounds DEF SwInv, SwTypes
  <2> QED
    BY <2>1, <2>2
<1>5. SwTypes'
  <2>1. strayed' \in BOOLEAN
    BY <1>3
  <2> QED
    BY <1>2, <1>3, <1>4, <2>1 DEF SwInv, SwTypes
<1>6. SwOrders' /\ SwFollowed'
  BY <1>2 DEF SwInv, SwOrders, SwFollowed
<1>7. SwSource'
  BY <1>2, <1>3, <1>4 DEF SwInv, SwSource
<1>8. ASSUME ~strayed'  PROVE SwListed' /\ SwOrdered'
  <2>1. ~strayed /\ calls.browse = NoValue /\ remote.objects = {}
    BY <1>3, <1>8
  <2>2. SwListed'
    BY <1>2, <1>3, <1>4, <2>1 DEF SwInv, SwListed
  <2>3. SwOrdered'
    BY <1>2, <1>3, <2>1 DEF SwInv, SwOrdered
  <2> QED
    BY <2>2, <2>3
<1> QED
  BY <1>5, <1>6, <1>7, <1>8 DEF SwInv

\* Marks among what is listed, and files.
LEMMA SwMark ==
  ASSUME Sw!StorageWizardAssumption, SwInv,
         \/ \E o \in Sw!Object : Sw!ToggleObject(o)
         \/ Sw!ToggleAllObjects \/ \E fs \in SUBSET LocalFiles : Sw!SelectFiles(fs)
  PROVE  SwInv'
<1>1. PICK mode \in {"REMOTE", "UPLOAD"} : Sw!Editing(mode)
  BY DEF Sw!ToggleObject, Sw!ToggleAllObjects, Sw!SelectFiles
<1>2. /\ UNCHANGED <<stage, sourceMode, calls, starts, shown, importId, sent, unfinished, lost>>
      /\ changes' \in 0..ImportEdits
  BY <1>1, SwEditing
<1>3. UNCHANGED <<remote, urls, strayed>>
  BY DEF Sw!ToggleObject, Sw!ToggleAllObjects, Sw!SelectFiles
<1>4. selected' \subseteq remote.objects /\ chosen' \subseteq LocalFiles
  BY DEF Sw!ToggleObject, Sw!ToggleAllObjects, Sw!SelectFiles, SwInv, SwTypes
<1>5. SwTypes'
  BY <1>2, <1>3, <1>4 DEF SwInv, SwTypes
<1>6. SwOrders' /\ SwFollowed' /\ SwSource'
  BY <1>2, <1>3, <1>4 DEF SwInv, SwOrders, SwFollowed, SwSource
<1>7. ~strayed' => SwListed' /\ SwOrdered'
  BY <1>2, <1>3 DEF SwInv, SwListed, SwOrdered
<1> QED
  BY <1>5, <1>6, <1>7 DEF SwInv

LEMMA SwEditUrls ==
  ASSUME Sw!StorageWizardAssumption, SwInv, NEW t \in SUBSET DownloadUrls, Sw!EditUrls(t)
  PROVE  SwInv'
<1>1. Sw!Editing("URL")
  BY DEF Sw!EditUrls
<1>2. /\ UNCHANGED <<stage, sourceMode, calls, starts, shown, importId, sent, unfinished, lost>>
      /\ shown /\ stage = "source" /\ ~(importId > 0) /\ changes' \in 0..ImportEdits
  BY <1>1, SwEditing
<1>3. /\ urls' = [text |-> t, valid |-> NoValue]
      /\ strayed' = (strayed \/ calls.validate # NoValue \/ starts # <<>>)
      /\ UNCHANGED <<remote, selected, chosen>>
  BY DEF Sw!EditUrls
<1>4. /\ urls' \in [text : SUBSET DownloadUrls, valid : (SUBSET DownloadUrls) \cup {NoValue}]
      /\ urls'.valid = NoValue
  BY <1>3
<1>5. SwTypes'
  <2>1. strayed' \in BOOLEAN
    BY <1>3
  <2> QED
    BY <1>2, <1>3, <1>4, <2>1 DEF SwInv, SwTypes
<1>6. SwOrders' /\ SwFollowed' /\ SwSource'
  BY <1>2, <1>3 DEF SwInv, SwOrders, SwFollowed, SwSource
<1>7. ASSUME ~strayed'  PROVE SwListed' /\ SwOrdered'
  <2>1. ~strayed /\ calls.validate = NoValue /\ starts = <<>>
    BY <1>3, <1>7
  <2>2. SwListed'
    BY <1>2, <1>3, <1>4, <2>1 DEF SwInv, SwListed
  <2>3. SwOrdered'
    BY <1>2, <2>1 DEF SwInv, SwOrdered
  <2> QED
    BY <2>2, <2>3
<1> QED
  BY <1>5, <1>6, <1>7 DEF SwInv

\* A call is sent for the form as it is.
LEMMA SwAsks ==
  ASSUME Sw!StorageWizardAssumption, SwInv,
         Sw!TestConnection \/ Sw!BrowseBucket \/ Sw!ValidateUrls
  PROVE  SwInv'
<1>1. UNCHANGED <<stage, sourceMode, remote, selected, chosen, urls, starts, shown, importId,
                  sent, unfinished, changes, strayed, lost>>
  BY DEF Sw!TestConnection, Sw!BrowseBucket, Sw!ValidateUrls, Sw!Asks, Sw!form, Sw!server,
         Sw!history
<1>2. /\ calls' \in SwCalls
      /\ \/ calls'.browse = calls.browse
         \/ /\ calls'.browse = <<remote.connection, remote.bucket>>
            /\ remote.connection # NoValue /\ remote.bucket # NoValue
      /\ calls'.validate \in {calls.validate, urls.text}
  <2>1. CASE Sw!TestConnection
    <3>1. /\ remote.connection # NoValue
          /\ calls' = [calls EXCEPT !["test"] = remote.connection]
      BY <2>1 DEF Sw!TestConnection, Sw!Asks
    <3> QED
      BY <3>1 DEF SwInv, SwTypes, SwCalls
  <2>2. CASE Sw!BrowseBucket
    <3>1. /\ remote.connection # NoValue /\ remote.bucket # NoValue
          /\ calls' = [calls EXCEPT !["browse"] = <<remote.connection, remote.bucket>>]
      BY <2>2 DEF Sw!BrowseBucket, Sw!Asks
    <3>2. <<remote.connection, remote.bucket>> \in StorageServers \X StorageBuckets
      BY <3>1 DEF SwInv, SwTypes
    <3> QED
      BY <3>1, <3>2 DEF SwInv, SwTypes, SwCalls
  <2>3. CASE Sw!ValidateUrls
    <3>1. calls' = [calls EXCEPT !["validate"] = urls.text]
      BY <2>3 DEF Sw!ValidateUrls, Sw!Asks
    <3> QED
      BY <3>1 DEF SwInv, SwTypes, SwCalls
  <2> QED
    BY <2>1, <2>2, <2>3
<1>3. SwTypes' /\ SwOrders' /\ SwFollowed' /\ SwSource'
  BY <1>1, <1>2 DEF SwInv, SwTypes, SwOrders, SwFollowed, SwSource
<1>4. ~strayed' => SwListed' /\ SwOrdered'
  BY <1>1, <1>2 DEF SwInv, SwListed, SwOrdered
<1> QED
  BY <1>3, <1>4 DEF SwInv

\* An answer, which may be a failure.
LEMMA SwAnswered ==
  ASSUME Sw!StorageWizardAssumption, SwInv,
         \/ Sw!ConnectionTested \/ Sw!BucketBrowsed \/ Sw!UrlsValidated
         \/ \E m \in {"test", "browse", "validate"} : Sw!AnswerFails(m)
  PROVE  SwInv'
<1>1. PICK m \in {"test", "browse", "validate"} :
        calls[m] # NoValue /\ calls' = [calls EXCEPT ![m] = NoValue]
  BY DEF Sw!ConnectionTested, Sw!BucketBrowsed, Sw!UrlsValidated, Sw!AnswerFails, Sw!Answered
<1>2. UNCHANGED <<stage, sourceMode, chosen, starts, shown, importId, sent, unfinished,
                  changes, strayed, lost>>
  BY DEF Sw!ConnectionTested, Sw!BucketBrowsed, Sw!UrlsValidated, Sw!AnswerFails, Sw!Answered,
         Sw!server, Sw!history
<1>3. /\ calls' \in SwCalls /\ calls'.browse \in {calls.browse, NoValue}
      /\ calls'.validate \in {calls.validate, NoValue}
  <2>1. CASE m = "test"
    BY <1>1, <2>1 DEF SwInv, SwTypes, SwCalls
  <2>2. CASE m = "browse"
    BY <1>1, <2>2 DEF SwInv, SwTypes, SwCalls
  <2>3. CASE m = "validate"
    BY <1>1, <2>3 DEF SwInv, SwTypes, SwCalls
  <2> QED
    BY <2>1, <2>2, <2>3
<1>4. /\ remote' \in [connection : StorageServers \cup {NoValue}, connected : BOOLEAN,
                      bucket : StorageBuckets \cup {NoValue}, browsed : BOOLEAN,
                      objects : SUBSET Sw!Object]
      /\ remote'.connection = remote.connection /\ remote'.bucket = remote.bucket
      /\ selected' \subseteq remote'.objects
      /\ \/ remote'.objects = remote.objects /\ selected' = selected
         \/ /\ calls.browse # NoValue
            /\ \A o \in remote'.objects : <<o[1], o[2]>> = calls.browse
  <2>1. CASE Sw!ConnectionTested
    <3>1. remote' = [remote EXCEPT !.connected = TRUE] /\ selected' = selected
      BY <2>1 DEF Sw!ConnectionTested
    <3> QED
      BY <3>1 DEF SwInv, SwTypes
  <2>2. CASE Sw!BucketBrowsed
    <3>1. calls.browse # NoValue /\ calls.browse \in StorageServers \X StorageBuckets
      BY <2>2 DEF Sw!BucketBrowsed, Sw!Answered, SwInv, SwTypes, SwCalls
    <3>2. PICK found \in SUBSET ({calls.browse[1]} \X {calls.browse[2]} \X ObjectNames) :
            /\ remote' = [remote EXCEPT !.objects = found, !.browsed = TRUE]
            /\ selected' = found
      BY <2>2 DEF Sw!BucketBrowsed
    <3>3. \A o \in found : <<o[1], o[2]>> = calls.browse /\ o \in Sw!Object
      BY <3>1 DEF Sw!Object
    <3> QED
      BY <3>1, <3>2, <3>3 DEF SwInv, SwTypes
  <2>3. CASE Sw!UrlsValidated \/ \E c \in {"test", "browse", "validate"} : Sw!AnswerFails(c)
    <3>1. remote' = remote /\ selected' = selected
      BY <2>3 DEF Sw!UrlsValidated, Sw!AnswerFails
    <3> QED
      BY <3>1 DEF SwInv, SwTypes
  <2> QED
    BY <2>1, <2>2, <2>3
<1>5. /\ urls' \in [text : SUBSET DownloadUrls, valid : (SUBSET DownloadUrls) \cup {NoValue}]
      /\ urls'.text = urls.text
      /\ \/ urls'.valid = urls.valid
         \/ /\ calls.validate # NoValue /\ urls'.valid \subseteq calls.validate
            /\ urls'.valid \in SUBSET DownloadUrls
  <2>1. CASE Sw!UrlsValidated
    <3>1. calls.validate # NoValue /\ calls.validate \in SUBSET DownloadUrls
      BY <2>1 DEF Sw!UrlsValidated, Sw!Answered, SwInv, SwTypes, SwCalls
    <3>2. PICK valid \in SUBSET calls.validate : urls' = [urls EXCEPT !.valid = valid]
      BY <2>1 DEF Sw!UrlsValidated
    <3> QED
      BY <3>1, <3>2 DEF SwInv, SwTypes
  <2>2. CASE ~Sw!UrlsValidated
    <3>1. urls' = urls
      BY <2>2 DEF Sw!ConnectionTested, Sw!BucketBrowsed, Sw!AnswerFails
    <3> QED
      BY <3>1 DEF SwInv, SwTypes
  <2> QED
    BY <2>1, <2>2
<1>6. SwTypes'
  BY <1>2, <1>3, <1>4, <1>5 DEF SwInv, SwTypes
<1>7. SwOrders' /\ SwFollowed'
  BY <1>2 DEF SwInv, SwOrders, SwFollowed
<1>8. SwSource'
  <2>1. SwSource
    BY DEF SwInv
  <2> QED
    BY <1>2, <1>3, <1>4, <1>5, <2>1 DEF SwSource
<1>9. ASSUME ~strayed'  PROVE SwListed' /\ SwOrdered'
  <2>1. SwListed /\ SwOrdered
    BY <1>2, <1>9 DEF SwInv
  <2>2. SwListed'
    BY <1>3, <1>4, <1>5, <2>1 DEF SwListed
  <2>3. SwOrdered'
    BY <1>2, <1>5, <2>1 DEF SwOrdered
  <2> QED
    BY <2>2, <2>3
<1> QED
  BY <1>6, <1>7, <1>8, <1>9 DEF SwInv

\* The dialog's steps, and its end.
LEMMA SwMoves ==
  ASSUME Sw!StorageWizardAssumption, SwInv,
         \/ \E mode \in {"REMOTE", "UPLOAD", "URL"} : Sw!ChooseSource(mode)
         \/ Sw!handleNext \/ Sw!handleBack \/ Sw!ImportEnds \/ Sw!onClose
  PROVE  SwInv'
<1>1. UNCHANGED <<remote, selected, chosen, urls, calls, starts, importId, sent, changes,
                  strayed, lost>>
  BY DEF Sw!ChooseSource, Sw!handleNext, Sw!handleBack, Sw!ImportEnds, Sw!onClose, Sw!form,
         Sw!server, Sw!history
<1>2. /\ stage' \in {stage, "source", "conflict"}
      /\ sourceMode' \in {sourceMode, "REMOTE", "UPLOAD", "URL"}
      /\ unfinished' \in BOOLEAN /\ (shown' = shown \/ shown' = FALSE)
      /\ stage' # stage => stage # "execute"
      /\ stage' = "conflict" /\ stage # "conflict" => Sw!canProceedFromSource
      /\ sourceMode' = sourceMode \/ (stage = "source" /\ stage' = "source")
  <2> USE DEF Sw!form, Sw!server
  <2>1. CASE \E mode \in {"REMOTE", "UPLOAD", "URL"} : Sw!ChooseSource(mode)
    BY <2>1 DEF Sw!ChooseSource, SwInv, SwTypes
  <2>2. CASE Sw!handleNext
    BY <2>2 DEF Sw!handleNext, SwInv, SwTypes
  <2>3. CASE Sw!handleBack
    BY <2>3 DEF Sw!handleBack, SwInv, SwTypes
  <2>4. CASE Sw!ImportEnds
    BY <2>4 DEF Sw!ImportEnds, SwInv, SwTypes
  <2>5. CASE Sw!onClose
    BY <2>5 DEF Sw!onClose, SwInv, SwTypes
  <2> QED
    BY <2>1, <2>2, <2>3, <2>4, <2>5
<1>3. SwTypes' /\ SwOrders'
  <2>1. shown' \in BOOLEAN
    BY <1>2 DEF SwInv, SwTypes
  <2>2. /\ stage' \in {"source", "conflict", "execute"}
        /\ sourceMode' \in {"REMOTE", "UPLOAD", "URL", NoValue}
    BY <1>2 DEF SwInv, SwTypes
  <2> QED
    BY <1>1, <1>2, <2>1, <2>2 DEF SwInv, SwTypes, SwOrders
<1>4. SwFollowed'
  <2>1. CASE stage' = stage /\ shown' = shown
    BY <1>1, <2>1 DEF SwInv, SwFollowed
  <2>2. CASE stage' # stage
    <3>1. stage # "execute"
      BY <1>2, <2>2
    <3>2. shown' = shown \/ shown' = FALSE
      BY <1>2
    <3> QED
      BY <1>1, <3>1, <3>2 DEF SwInv, SwFollowed
  <2>3. CASE shown' = FALSE
    BY <2>3 DEF SwFollowed
  <2> QED
    BY <1>2, <2>1, <2>2, <2>3
<1>5. SwSource'
  <2>1. SwSource
    BY DEF SwInv
  <2>2. CASE stage' = "conflict" /\ stage # "conflict"
    <3>1. Sw!canProceedFromSource /\ sourceMode' = sourceMode
      BY <1>2, <2>2
    <3>2. /\ sourceMode \in {"REMOTE", "UPLOAD", "URL"}
          /\ sourceMode = "REMOTE" => selected # {}
          /\ sourceMode = "URL" => urls.valid # NoValue
      BY <3>1 DEF Sw!canProceedFromSource
    <3>3. sourceMode = "URL" => urls.valid \in SUBSET DownloadUrls
      BY <3>2 DEF SwInv, SwTypes
    <3> QED
      BY <1>1, <2>1, <2>2, <3>1, <3>2, <3>3 DEF SwSource
  <2>3. CASE ~(stage' = "conflict" /\ stage # "conflict")
    BY <1>1, <1>2, <2>1, <2>3 DEF SwSource
  <2> QED
    BY <2>2, <2>3
<1>6. ~strayed' => SwListed' /\ SwOrdered'
  BY <1>1, <1>2 DEF SwInv, SwTypes, SwListed, SwOrdered
<1> QED
  BY <1>3, <1>4, <1>5, <1>6 DEF SwInv

\* What is started is of the form.
LEMMA SwStartImport ==
  ASSUME Sw!StorageWizardAssumption, SwInv, Sw!handleStartImport
  PROVE  SwInv'
<1> DEFINE p == [pc |-> IF sourceMode = "UPLOAD" THEN "upload" ELSE "create",
                 payload |-> Sw!Submission]
<1>1. /\ shown /\ stage = "conflict" /\ starts = <<>> /\ starts' = <<p>>
      /\ UNCHANGED <<stage, sourceMode, remote, selected, chosen, urls, calls, shown, importId,
                     sent, unfinished, changes, strayed, lost>>
  BY DEF Sw!handleStartImport, Sw!form, Sw!server, Sw!history
<1>2. /\ Sw!Submission \in Sw!Payload
      /\ Sw!Submission.source = "REMOTE" =>
           Sw!Submission.from = <<remote.connection, remote.bucket>> /\ Sw!Submission.what = selected
      /\ Sw!Submission.source = "URL" =>
           Sw!Submission.what = urls.valid /\ urls.valid \in SUBSET DownloadUrls
  <2>1. sourceMode \in {"REMOTE", "UPLOAD", "URL"}
    BY <1>1 DEF SwInv, SwTypes, SwSource
  <2>2. CASE sourceMode = "REMOTE"
    <3>1. Sw!Submission = [source |-> "REMOTE", from |-> <<remote.connection, remote.bucket>>,
                           what |-> selected]
      BY <2>2 DEF Sw!Submission
    <3>2. /\ <<remote.connection, remote.bucket>> \in StorageServers \X StorageBuckets
          /\ selected \in SUBSET Sw!Object
      BY <1>1, <2>2 DEF SwInv, SwTypes, SwSource
    <3> QED
      BY <3>1, <3>2 DEF Sw!Payload
  <2>3. CASE sourceMode = "UPLOAD"
    <3>1. Sw!Submission = [source |-> "FILE", what |-> chosen]
      BY <2>3 DEF Sw!Submission
    <3>2. chosen \in SUBSET LocalFiles
      BY DEF SwInv, SwTypes
    <3> QED
      BY <3>1, <3>2 DEF Sw!Payload
  <2>4. CASE sourceMode = "URL"
    <3>1. Sw!Submission = [source |-> "URL", what |-> urls.valid]
      BY <2>4 DEF Sw!Submission
    <3>2. urls.valid \in SUBSET DownloadUrls
      BY <1>1, <2>4 DEF SwInv, SwSource
    <3> QED
      BY <3>1, <3>2 DEF Sw!Payload
  <2> QED
    BY <2>1, <2>2, <2>3, <2>4
<1>3. p \in SwStarts /\ starts'[1] = p
  BY <1>1, <1>2 DEF SwStarts
<1>4. SwTypes' /\ SwSource'
  BY <1>1 DEF SwInv, SwTypes, SwSource
<1>5. SwOrders'
  BY <1>1, <1>3 DEF SwInv, SwOrders
<1>6. SwFollowed'
  BY <1>1 DEF SwInv, SwFollowed
<1>7. ASSUME ~strayed'  PROVE SwListed' /\ SwOrdered'
  <2>1. SwListed /\ SwOrdered
    BY <1>1, <1>7 DEF SwInv
  <2>2. SwListed'
    BY <1>1, <2>1 DEF SwListed
  <2>3. p.payload = Sw!Submission
    OBVIOUS
  <2>4. Sw!Submission.source = "REMOTE" =>
          \A o \in Sw!Submission.what : <<o[1], o[2]>> = Sw!Submission.from
    BY <1>2, <2>1 DEF SwInv, SwTypes, SwListed
  <2>5. Sw!Submission.source = "URL" => Sw!Submission.what \subseteq urls.text
    <3>1. CASE urls.valid # NoValue
      BY <1>2, <2>1, <3>1 DEF SwListed
    <3>2. CASE urls.valid = NoValue
      BY <1>2, <3>2, SwBounds DEF SwInv, SwSource
    <3> QED
      BY <3>1, <3>2
  <2>6. SwOrdered'
    BY <1>1, <1>3, <2>1, <2>3, <2>4, <2>5 DEF SwOrdered
  <2> QED
    BY <2>2, <2>6
<1> QED
  BY <1>4, <1>5, <1>6, <1>7 DEF SwInv

LEMMA SwGoesOn ==
  ASSUME Sw!StorageWizardAssumption, SwInv, NEW n \in DOMAIN starts,
         Sw!Uploaded(n) \/ Sw!StartFails(n)
  PROVE  SwInv'
<1>1. /\ n = 1 /\ starts[1] \in SwStarts /\ starts # <<>> /\ starts = <<starts[1]>>
      /\ Sw!RemoveAt(starts, n) = <<>>
  BY SwOne DEF SwInv
<1>2. UNCHANGED <<stage, sourceMode, remote, selected, chosen, urls, calls, shown, importId,
                  sent, unfinished, changes, strayed, lost>>
  BY DEF Sw!Uploaded, Sw!StartFails, Sw!form, Sw!server, Sw!history
<1>3. \/ starts' = <<>>
      \/ \E p \in SwStarts : starts' = <<p>> /\ p.payload = starts[1].payload
  <2>1. CASE Sw!Uploaded(n)
    <3> DEFINE p == [starts[1] EXCEPT !.pc = "create"]
    <3>1. starts' = [starts EXCEPT ![1].pc = "create"]
      BY <1>1, <2>1 DEF Sw!Uploaded
    <3>2. starts' = <<p>>
      BY <1>1, <3>1
    <3>3. p \in SwStarts /\ p.payload = starts[1].payload
      BY <1>1 DEF SwStarts
    <3> QED
      BY <3>2, <3>3
  <2>2. CASE Sw!StartFails(n)
    BY <1>1, <2>2 DEF Sw!StartFails
  <2> QED
    BY <2>1, <2>2
<1>4. SwTypes' /\ SwSource'
  BY <1>2 DEF SwInv, SwTypes, SwSource
<1>5. SwOrders'
  BY <1>2, <1>3 DEF SwInv, SwOrders
<1>6. SwFollowed'
  BY <1>1, <1>2 DEF SwInv, SwFollowed
<1>7. ASSUME ~strayed'  PROVE SwListed' /\ SwOrdered'
  <2>1. SwListed /\ SwOrdered
    BY <1>2, <1>7 DEF SwInv
  <2>2. SwListed'
    BY <1>2, <2>1 DEF SwListed
  <2>3. starts' # <<>> => starts'[1].payload = starts[1].payload
    BY <1>3
  <2>4. SwOrdered'
    BY <1>1, <1>2, <2>1, <2>3 DEF SwOrdered
  <2> QED
    BY <2>2, <2>4
<1> QED
  BY <1>4, <1>5, <1>6, <1>7 DEF SwInv

LEMMA SwCreate ==
  ASSUME Sw!StorageWizardAssumption, SwInv, NEW n \in DOMAIN starts, Sw!Create(n)
  PROVE  /\ starts # <<>> /\ starts' = <<>> /\ unfinished' = TRUE
         /\ sent' \in Seq(Sw!Payload) /\ Len(sent') = Len(sent) + 1
         /\ Len(sent) \in Nat /\ Len(sent') \in 0..MaxImports
         /\ sent'[Len(sent')] = starts[1].payload
         /\ \A k \in DOMAIN sent : sent'[k] = sent[k]
         /\ DOMAIN sent' = DOMAIN sent \cup {Len(sent')} /\ DOMAIN sent = 1..Len(sent)
<1>1. /\ n = 1 /\ starts[1] \in SwStarts /\ starts # <<>> /\ starts' = <<>>
      /\ unfinished' = TRUE /\ Len(sent) < MaxImports /\ sent' = Append(sent, starts[1].payload)
  BY SwOne DEF SwInv, Sw!Create
<1>2. /\ sent \in Seq(Sw!Payload) /\ MaxImports \in Nat /\ starts[1].payload \in Sw!Payload
  BY <1>1, SwBounds DEF SwInv, SwOrders, SwStarts
<1>3. /\ sent' \in Seq(Sw!Payload) /\ Len(sent') = Len(sent) + 1
      /\ Len(sent) \in Nat /\ Len(sent') \in 0..MaxImports
      /\ sent'[Len(sent')] = starts[1].payload
      /\ \A k \in DOMAIN sent : sent'[k] = sent[k]
      /\ DOMAIN sent' = DOMAIN sent \cup {Len(sent')} /\ DOMAIN sent = 1..Len(sent)
  BY <1>1, <1>2
<1> QED
  BY <1>1, <1>3

LEMMA SwCreated ==
  ASSUME Sw!StorageWizardAssumption, SwInv, NEW n \in DOMAIN starts,
         Sw!ImportCreated(n) \/ Sw!AnswerLost(n)
  PROVE  SwInv'
<1>1. /\ starts # <<>> /\ starts' = <<>> /\ unfinished' = TRUE
      /\ sent' \in Seq(Sw!Payload) /\ Len(sent') = Len(sent) + 1
      /\ Len(sent) \in Nat /\ Len(sent') \in 0..MaxImports
      /\ sent'[Len(sent')] = starts[1].payload
      /\ \A k \in DOMAIN sent : sent'[k] = sent[k]
      /\ DOMAIN sent' = DOMAIN sent \cup {Len(sent')} /\ DOMAIN sent = 1..Len(sent)
  BY SwCreate DEF Sw!ImportCreated, Sw!AnswerLost
<1>2. /\ UNCHANGED <<sourceMode, remote, selected, chosen, urls, calls, shown, changes, strayed>>
      /\ \/ UNCHANGED <<stage, importId>> /\ (~shown \/ lost')
         \/ shown /\ stage' = "execute" /\ importId' = Len(sent')
      /\ lost' \in BOOLEAN /\ (lost => lost')
  <2>1. lost \in BOOLEAN
    BY DEF SwInv, SwTypes
  <2>2. CASE Sw!ImportCreated(n)
    BY <2>1, <2>2 DEF Sw!ImportCreated, Sw!form, Sw!history
  <2>3. CASE Sw!AnswerLost(n)
    BY <2>1, <2>3 DEF Sw!AnswerLost, Sw!form
  <2> QED
    BY <2>2, <2>3
<1>3. SwTypes' /\ SwSource'
  BY <1>1, <1>2 DEF SwInv, SwTypes, SwSource
<1>4. /\ importId \in Nat /\ importId <= Len(sent) /\ MaxImports \in Nat
      /\ ~(shown /\ importId > 0)
  <2>1. ~(shown /\ importId > 0)
    BY <1>1 DEF SwInv, SwFollowed
  <2>2. importId \in Nat /\ importId <= Len(sent) /\ MaxImports \in Nat
    BY SwBounds DEF SwInv, SwOrders, SwTypes
  <2> QED
    BY <2>1, <2>2
<1>5. SwOrders'
  BY <1>1, <1>2, <1>4 DEF SwInv, SwOrders
<1>6. CASE UNCHANGED <<stage, importId>> /\ (~shown \/ lost')
  <2>1. ~(shown' /\ importId' > 0) /\ ~(shown' /\ ~lost')
    BY <1>2, <1>4, <1>6
  <2>2. SwFollowed'
    BY <1>1, <2>1 DEF SwFollowed
  <2>3. ASSUME ~strayed'  PROVE SwListed' /\ SwOrdered'
    <3>1. SwListed /\ SwOrdered
      BY <1>2, <2>3 DEF SwInv
    <3>2. SwListed'
      BY <1>2, <3>1 DEF SwListed
    <3>3. \A k \in DOMAIN sent' : sent'[k].source = "REMOTE" =>
            \A o \in sent'[k].what : <<o[1], o[2]>> = sent'[k].from
      BY <1>1, <3>1 DEF SwOrdered
    <3> QED
      BY <1>1, <2>1, <3>2, <3>3 DEF SwOrdered
  <2> QED
    BY <1>3, <1>5, <2>2, <2>3 DEF SwInv
<1>7. CASE shown /\ stage' = "execute" /\ importId' = Len(sent')
  <2>1. ASSUME ~lost'  PROVE Len(sent') = importId' /\ importId' <= 1
    <3>1. ~lost /\ shown
      BY <1>2, <1>7, <2>1
    <3>2. Len(sent) = importId
      BY <3>1 DEF SwInv, SwFollowed
    <3>3. importId = 0
      BY <1>4, <3>1
    <3> QED
      BY <1>1, <1>7, <3>2, <3>3
  <2>2. SwFollowed'
    BY <1>1, <1>7, <2>1 DEF SwFollowed
  <2>3. ASSUME ~strayed'  PROVE SwListed' /\ SwOrdered'
    <3>1. SwListed /\ SwOrdered
      BY <1>2, <2>3 DEF SwInv
    <3>2. SwListed'
      BY <1>2, <3>1 DEF SwListed
    <3>3. \A k \in DOMAIN sent' : sent'[k].source = "REMOTE" =>
            \A o \in sent'[k].what : <<o[1], o[2]>> = sent'[k].from
      BY <1>1, <3>1 DEF SwOrdered
    <3>4. sent'[importId'].source = "URL" => sent'[importId'].what \subseteq urls'.text
      BY <1>1, <1>2, <1>7, <3>1 DEF SwOrdered
    <3> QED
      BY <1>1, <3>2, <3>3, <3>4 DEF SwOrdered
  <2> QED
    BY <1>3, <1>5, <2>2, <2>3 DEF SwInv
<1> QED
  BY <1>2, <1>6, <1>7

LEMMA SwSteps ==
  ASSUME Sw!StorageWizardAssumption, SwInv, Sw!Next
  PROVE  SwInv'
<1>1. CASE \/ \E s \in StorageServers : Sw!EditConnection(s)
           \/ \E b \in StorageBuckets : Sw!ChooseBucket(b)
  BY <1>1, SwEditRemote
<1>2. CASE \/ \E o \in Sw!Object : Sw!ToggleObject(o)
           \/ Sw!ToggleAllObjects \/ \E fs \in SUBSET LocalFiles : Sw!SelectFiles(fs)
  BY <1>2, SwMark
<1>3. CASE \E t \in SUBSET DownloadUrls : Sw!EditUrls(t)
  BY <1>3, SwEditUrls
<1>4. CASE Sw!TestConnection \/ Sw!BrowseBucket \/ Sw!ValidateUrls
  BY <1>4, SwAsks
<1>5. CASE \/ Sw!ConnectionTested \/ Sw!BucketBrowsed \/ Sw!UrlsValidated
           \/ Sw!AnswerFails("test") \/ Sw!AnswerFails("browse") \/ Sw!AnswerFails("validate")
  BY <1>5, SwAnswered
<1>6. CASE \/ \E mode \in {"REMOTE", "UPLOAD", "URL"} : Sw!ChooseSource(mode)
           \/ Sw!handleNext \/ Sw!handleBack \/ Sw!ImportEnds \/ Sw!onClose
  BY <1>6, SwMoves
<1>7. CASE Sw!handleStartImport
  BY <1>7, SwStartImport
<1>8. CASE \E n \in DOMAIN starts :
             Sw!Uploaded(n) \/ Sw!StartFails(n) \/ Sw!ImportCreated(n) \/ Sw!AnswerLost(n)
  BY <1>8, SwGoesOn, SwCreated
<1> QED
  BY <1>1, <1>2, <1>3, <1>4, <1>5, <1>6, <1>7, <1>8 DEF Sw!Next

LEMMA SwStays ==
  ASSUME SwInv, UNCHANGED Sw!vars
  PROVE  SwInv'
BY DEF SwInv, SwTypes, SwOrders, SwSource, SwFollowed, SwListed, SwOrdered, Sw!vars, Sw!form,
       Sw!server, Sw!history

LEMMA SwHolds ==
  ASSUME SwInv
  PROVE  Sw!TypeOK /\ Sw!ImportFollowed /\ Sw!SubmissionAsShown
<1>1. starts \in Seq(SwStarts)
  <2>1. CASE starts = <<>>
    BY <2>1
  <2>2. CASE \E p \in SwStarts : starts = <<p>>
    <3>1. PICK p \in SwStarts : starts = <<p>>
      BY <2>2
    <3>2. <<p>> \in Seq(SwStarts)
      OBVIOUS
    <3> QED
      BY <3>1, <3>2
  <2> QED
    BY <2>1, <2>2 DEF SwInv, SwOrders
<1>2. Sw!TypeOK
  BY <1>1 DEF SwInv, SwTypes, SwCalls, SwOrders, SwStarts, Sw!TypeOK
<1>3. Sw!ImportFollowed
  BY DEF SwInv, SwFollowed, Sw!ImportFollowed
<1>4. Sw!SubmissionAsShown
  <2> SUFFICES ASSUME ~strayed, NEW n \in DOMAIN sent
               PROVE  /\ sent[n].source = "REMOTE" =>
                           \A o \in sent[n].what : <<o[1], o[2]>> = sent[n].from
                      /\ sent[n].source = "URL" /\ shown /\ n = importId =>
                           sent[n].what \subseteq urls.text
    BY DEF Sw!SubmissionAsShown
  <2>1. SwOrdered
    BY DEF SwInv
  <2>2. n > 0
    BY DEF SwInv, SwOrders
  <2> QED
    BY <2>1, <2>2 DEF SwOrdered
<1> QED
  BY <1>2, <1>3, <1>4

\* An import is of what its dialog shows, and the one the dialog follows.
THEOREM ImportsAreAsShown ==
  Sw!StorageWizardAssumption /\ Sw!Spec =>
    [](Sw!TypeOK /\ Sw!ImportFollowed /\ Sw!SubmissionAsShown)
<1> SUFFICES ASSUME Sw!StorageWizardAssumption
             PROVE  Sw!Spec => [](Sw!TypeOK /\ Sw!ImportFollowed /\ Sw!SubmissionAsShown)
  OBVIOUS
<1>1. Sw!Init => SwInv
  BY SwStart
<1>2. SwInv /\ [Sw!Next]_Sw!vars => SwInv'
  BY SwSteps, SwStays
<1>3. SwInv => Sw!TypeOK /\ Sw!ImportFollowed /\ Sw!SubmissionAsShown
  BY SwHolds
<1> QED
  BY <1>1, <1>2, <1>3, PTL DEF Sw!Spec

----------------------------------------------------------------------------
(* The migration wizard.                                                   *)

MwCalls ==
  [remote : [pc : {"test", "discover"}, what : SourceDatabases] \cup {NoValue},
   file : [pc : {"upload", "analyze"}, what : Dumps] \cup {NoValue}]

MwTypes ==
  /\ stage \in {"source", "tables", "execute"}
  /\ sourceMode \in {"REMOTE", "FILE", NoValue}
  /\ connection \in SourceDatabases \cup {NoValue} /\ fileKey \in Dumps \cup {NoValue}
  /\ tables \subseteq Mw!Table /\ selected \subseteq Mw!Table /\ strategy \in Mw!Strategy
  /\ calls \in MwCalls
  /\ shown \in BOOLEAN /\ migrationId \in 0..MaxMigrations
  /\ unfinished \in BOOLEAN /\ changes \in 0..MigrationEdits
  /\ meant \in [source : Mw!Source \cup {NoValue}, strategy : Mw!Strategy]
  /\ strayed \in BOOLEAN /\ lost \in BOOLEAN

\* One creation at a time, and the strategy is the one meant.
MwOrders ==
  /\ starts = <<>> \/ \E p \in Mw!Payload : starts = <<p>>
  /\ sent \in Seq(Mw!Payload) /\ Len(sent) <= MaxMigrations
  /\ migrationId <= Len(sent)
  /\ strategy = meant.strategy

MwQuiet == calls.remote = NoValue /\ calls.file = NoValue
MwSource == IF sourceMode = "REMOTE" THEN connection ELSE fileKey

\* A call is the only one, of the form as it is, and the tables listed are
\* those of the form's source.
MwListed ==
  /\ calls.remote # NoValue =>
       /\ stage = "source" /\ starts = <<>> /\ calls.file = NoValue
       /\ sourceMode = "REMOTE" /\ connection = calls.remote.what
  /\ calls.file # NoValue =>
       /\ stage = "source" /\ starts = <<>> /\ calls.remote = NoValue
       /\ sourceMode = "FILE" /\ (calls.file.pc = "analyze" => fileKey = calls.file.what)
  /\ stage = "tables" => MwSource = meant.source /\ \A t \in tables : t[1] = meant.source

\* So are those that are sent, and those of what was created.
MwOrdered ==
  /\ starts # <<>> =>
       starts[1].strategy = strategy /\ \A t \in starts[1].tables : t[1] = starts[1].source
  /\ \A n \in DOMAIN sent : \A t \in sent[n].tables : t[1] = sent[n].source
  /\ shown /\ migrationId > 0 =>
       /\ sent[migrationId].strategy = strategy
       /\ stage = "execute" /\ starts = <<>> /\ MwQuiet
  /\ shown /\ ~lost => Len(sent) = migrationId /\ migrationId <= 1

MwInv == MwTypes /\ MwOrders /\ (~strayed => MwListed /\ MwOrdered)

LEMMA MwBounds ==
  ASSUME Mw!MigrationWizardAssumption
  PROVE  MigrationEdits \in Nat /\ MaxMigrations \in Nat /\ NoValue \notin SourceDatabases \cup Dumps
BY DEF Mw!MigrationWizardAssumption, Mw!Source

LEMMA MwBusy ==
  ASSUME MwTypes, ~Mw!Busy
  PROVE  MwQuiet /\ starts = <<>>
<1>1. DOMAIN calls = {"remote", "file"}
  BY DEF MwTypes, MwCalls
<1> QED
  BY <1>1 DEF Mw!Busy, MwQuiet

LEMMA MwRemoveAt ==
  ASSUME NEW S, NEW p \in S
  PROVE  Mw!RemoveAt(<<p>>, 1) = <<>>
<1>1. SubSeq(<<p>>, 1, 0) = <<>> /\ SubSeq(<<p>>, 2, 1) = <<>> /\ Len(<<p>>) = 1
  BY SubSeqEmpty
<1>2. <<>> \o <<>> = <<>>
  OBVIOUS
<1> QED
  BY <1>1, <1>2 DEF Mw!RemoveAt

\* The only creation under way.
LEMMA MwOne ==
  ASSUME MwOrders, NEW n \in DOMAIN starts
  PROVE  /\ n = 1 /\ starts[1] \in Mw!Payload /\ starts # <<>>
         /\ Mw!RemoveAt(starts, n) = <<>>
<1>1. starts # <<>>
  OBVIOUS
<1>2. PICK p \in Mw!Payload : starts = <<p>>
  BY <1>1 DEF MwOrders
<1>3. DOMAIN starts = {1} /\ starts[1] = p
  BY <1>2
<1> QED
  BY <1>1, <1>2, <1>3, MwRemoveAt

LEMMA MwStart ==
  ASSUME Mw!MigrationWizardAssumption, Mw!Init
  PROVE  MwInv
<1> USE DEF Mw!Init
<1>1. MwTypes
  <2>1. 0 \in 0..MaxMigrations /\ 0 \in 0..MigrationEdits
    BY MwBounds
  <2>2. calls \in MwCalls
    BY DEF MwCalls
  <2>3. meant \in [source : Mw!Source \cup {NoValue}, strategy : Mw!Strategy]
    BY DEF Mw!Strategy
  <2> QED
    BY <2>1, <2>2, <2>3 DEF MwTypes, Mw!Strategy
<1>2. MwOrders
  BY MwBounds DEF MwOrders
<1>3. MwListed /\ MwOrdered
  BY DEF MwListed, MwOrdered
<1> QED
  BY <1>1, <1>2, <1>3 DEF MwInv

\* The user changes the form, under no call of an honest user.
LEMMA MwChanges ==
  ASSUME Mw!MigrationWizardAssumption, MwInv, Mw!Changes
  PROVE  /\ UNCHANGED <<calls, starts, shown, migrationId, sent, unfinished, lost>>
         /\ shown /\ changes' \in 0..MigrationEdits /\ strayed' \in BOOLEAN
         /\ ~strayed' => ~strayed /\ MwQuiet /\ starts = <<>>
<1>1. /\ shown /\ changes < MigrationEdits /\ changes' = changes + 1
      /\ strayed' = (strayed \/ Mw!Busy)
      /\ UNCHANGED <<calls, starts, shown, migrationId, sent, unfinished, lost>>
  BY DEF Mw!Changes, Mw!server
<1>2. changes' \in 0..MigrationEdits
  BY <1>1, MwBounds DEF MwInv, MwTypes
<1>3. strayed' \in BOOLEAN
  BY <1>1
<1>4. ~strayed' => ~strayed /\ MwQuiet /\ starts = <<>>
  BY <1>1, MwBusy DEF MwInv
<1> QED
  BY <1>1, <1>2, <1>3, <1>4

LEMMA MwEdits ==
  ASSUME Mw!MigrationWizardAssumption, MwInv,
         \/ \E mode \in {"REMOTE", "FILE"} : Mw!ChooseSource(mode)
         \/ \E d \in SourceDatabases : Mw!EditConnection(d)
         \/ \E t \in tables : Mw!toggleTable(t)
         \/ \E s \in Mw!Strategy : Mw!ChooseStrategy(s)
         \/ Mw!toggleAll
  PROVE  MwInv'
<1>1. Mw!Changes /\ UNCHANGED <<stage, fileKey, tables>>
  BY DEF Mw!ChooseSource, Mw!EditConnection, Mw!toggleTable, Mw!ChooseStrategy, Mw!toggleAll
<1>2. /\ UNCHANGED <<calls, starts, shown, migrationId, sent, unfinished, lost>>
      /\ shown /\ changes' \in 0..MigrationEdits /\ strayed' \in BOOLEAN
      /\ ~strayed' => ~strayed /\ MwQuiet /\ starts = <<>>
  BY <1>1, MwChanges
<1>3. CASE \E mode \in {"REMOTE", "FILE"} : Mw!ChooseSource(mode)
  <2>1. /\ stage = "source" /\ sourceMode' \in {"REMOTE", "FILE"}
        /\ UNCHANGED <<connection, selected, strategy, meant>>
    BY <1>3 DEF Mw!ChooseSource
  <2>2. MwTypes' /\ MwOrders'
    BY <1>1, <1>2, <2>1 DEF MwInv, MwTypes, MwOrders
  <2> QED
    BY <1>1, <1>2, <2>1, <2>2 DEF MwInv, MwListed, MwOrdered, MwQuiet
<1>4. CASE \E d \in SourceDatabases : Mw!EditConnection(d)
  <2>1. /\ stage = "source" /\ connection' \in SourceDatabases
        /\ UNCHANGED <<sourceMode, selected, strategy, meant>>
    BY <1>4 DEF Mw!EditConnection
  <2>2. MwTypes' /\ MwOrders'
    BY <1>1, <1>2, <2>1 DEF MwInv, MwTypes, MwOrders
  <2> QED
    BY <1>1, <1>2, <2>1, <2>2 DEF MwInv, MwListed, MwOrdered, MwQuiet
<1>5. CASE (\E t \in tables : Mw!toggleTable(t)) \/ Mw!toggleAll
  <2>1. stage = "tables" /\ UNCHANGED <<sourceMode, connection, strategy, meant>>
    BY <1>5 DEF Mw!toggleTable, Mw!toggleAll
  <2>2. selected' \subseteq Mw!Table
    BY <1>5 DEF Mw!toggleTable, Mw!toggleAll, MwInv, MwTypes
  <2>3. MwTypes' /\ MwOrders'
    BY <1>1, <1>2, <2>1, <2>2 DEF MwInv, MwTypes, MwOrders
  <2> QED
    BY <1>1, <1>2, <2>1, <2>3 DEF MwInv, MwListed, MwOrdered, MwQuiet, MwSource
<1>6. CASE \E s \in Mw!Strategy : Mw!ChooseStrategy(s)
  <2>1. PICK s \in Mw!Strategy : Mw!ChooseStrategy(s)
    BY <1>6
  <2>2. /\ stage = "tables" /\ strategy' = s /\ meant' = [meant EXCEPT !.strategy = s]
        /\ UNCHANGED <<sourceMode, connection, selected>>
    BY <2>1 DEF Mw!ChooseStrategy
  <2>3. /\ meant' \in [source : Mw!Source \cup {NoValue}, strategy : Mw!Strategy]
        /\ meant'.strategy = s /\ meant'.source = meant.source
    BY <2>2 DEF MwInv, MwTypes
  <2>4. MwTypes' /\ MwOrders'
    BY <1>1, <1>2, <2>2, <2>3 DEF MwInv, MwTypes, MwOrders
  <2> QED
    BY <1>1, <1>2, <2>2, <2>3, <2>4 DEF MwInv, MwListed, MwOrdered, MwQuiet, MwSource
<1> QED
  BY <1>3, <1>4, <1>5, <1>6

LEMMA MwAsks ==
  ASSUME Mw!MigrationWizardAssumption, MwInv,
         Mw!handleTestConnection \/ \E d \in Dumps : Mw!handleFileUpload(d)
  PROVE  MwInv'
<1>1. /\ shown /\ stage = "source" /\ strayed' = (strayed \/ Mw!Busy)
      /\ UNCHANGED <<stage, sourceMode, connection, fileKey, tables, selected, strategy,
                     starts, shown, migrationId, sent, unfinished, changes, meant, lost>>
  BY DEF Mw!handleTestConnection, Mw!handleFileUpload, Mw!Asks, Mw!form, Mw!server
<1>2. strayed' \in BOOLEAN /\ (~strayed' => ~strayed /\ MwQuiet /\ starts = <<>>)
  <2>1. strayed' \in BOOLEAN
    BY <1>1
  <2>2. ~strayed' => ~strayed /\ MwQuiet /\ starts = <<>>
    BY <1>1, MwBusy DEF MwInv
  <2> QED
    BY <2>1, <2>2
<1>3. /\ calls' \in MwCalls
      /\ ~strayed' =>
           \/ /\ calls'.remote # NoValue => sourceMode = "REMOTE" /\ connection = calls'.remote.what
              /\ calls'.file = NoValue
           \/ /\ calls'.file # NoValue => sourceMode = "FILE" /\ calls'.file.pc = "upload"
              /\ calls'.remote = NoValue
  <2>1. CASE Mw!handleTestConnection
    <3>1. /\ sourceMode = "REMOTE" /\ connection # NoValue
          /\ calls' = [calls EXCEPT !["remote"] = [pc |-> "test", what |-> connection]]
      BY <2>1 DEF Mw!handleTestConnection, Mw!Asks
    <3>2. /\ calls' \in MwCalls /\ calls'.file = calls.file
          /\ calls'.remote = [pc |-> "test", what |-> connection]
      BY <3>1 DEF MwInv, MwTypes, MwCalls
    <3> QED
      BY <1>2, <3>1, <3>2 DEF MwQuiet
  <2>2. CASE \E d \in Dumps : Mw!handleFileUpload(d)
    <3>1. PICK d \in Dumps : Mw!handleFileUpload(d)
      BY <2>2
    <3>2. /\ sourceMode = "FILE"
          /\ calls' = [calls EXCEPT !["file"] = [pc |-> "upload", what |-> d]]
      BY <3>1 DEF Mw!handleFileUpload, Mw!Asks
    <3>3. /\ calls' \in MwCalls /\ calls'.remote = calls.remote
          /\ calls'.file = [pc |-> "upload", what |-> d]
      BY <3>2 DEF MwInv, MwTypes, MwCalls
    <3> QED
      BY <1>2, <3>2, <3>3 DEF MwQuiet
  <2> QED
    BY <2>1, <2>2
<1>4. MwTypes' /\ MwOrders'
  BY <1>1, <1>2, <1>3 DEF MwInv, MwTypes, MwOrders
<1>5. ASSUME ~strayed'  PROVE MwListed' /\ MwOrdered'
  <2>1. ~strayed /\ MwQuiet /\ starts = <<>> /\ MwOrdered
    BY <1>2, <1>5 DEF MwInv
  <2>2. MwListed'
    BY <1>1, <1>3, <1>5, <2>1 DEF MwListed
  <2>3. ~(shown /\ migrationId > 0)
    BY <1>1, <2>1 DEF MwOrdered
  <2> QED
    BY <1>1, <2>1, <2>2, <2>3 DEF MwOrdered
<1> QED
  BY <1>4, <1>5 DEF MwInv

\* A call goes on or fails.
LEMMA MwCallGoesOn ==
  ASSUME Mw!MigrationWizardAssumption, MwInv,
         \/ Mw!ConnectionTested \/ Mw!FileUploaded
         \/ \E chain \in {"remote", "file"} : Mw!CallFails(chain)
  PROVE  MwInv'
<1>1. UNCHANGED <<stage, sourceMode, connection, tables, selected, strategy, starts, shown,
                  migrationId, sent, unfinished, changes, meant, strayed, lost>>
  BY DEF Mw!ConnectionTested, Mw!FileUploaded, Mw!CallFails, Mw!form, Mw!server, Mw!history
<1>2. /\ calls' \in MwCalls /\ fileKey' \in Dumps \cup {NoValue}
      /\ \/ calls'.remote = NoValue
         \/ calls.remote # NoValue /\ calls'.remote.what = calls.remote.what
      /\ \/ calls'.file = NoValue
         \/ /\ calls.file # NoValue /\ calls'.file.what = calls.file.what
            /\ \/ fileKey' = calls.file.what
               \/ fileKey' = fileKey /\ calls'.file.pc = calls.file.pc
      /\ fileKey' = fileKey \/ calls.file # NoValue
  <2>1. CASE Mw!ConnectionTested
    <3>1. /\ calls.remote # NoValue /\ fileKey' = fileKey
          /\ calls' = [calls EXCEPT !.remote.pc = "discover"]
      BY <2>1 DEF Mw!ConnectionTested, Mw!form
    <3>2. calls.remote \in [pc : {"test", "discover"}, what : SourceDatabases]
      BY <3>1 DEF MwInv, MwTypes, MwCalls
    <3>3. /\ calls'.remote = [calls.remote EXCEPT !.pc = "discover"]
          /\ calls'.file = calls.file
          /\ calls' = [remote |-> calls'.remote, file |-> calls'.file]
      BY <3>1 DEF MwInv, MwTypes, MwCalls
    <3>4. calls'.remote \in [pc : {"test", "discover"}, what : SourceDatabases]
          /\ calls'.remote.what = calls.remote.what
      BY <3>2, <3>3
    <3>5. calls' \in MwCalls
      BY <3>3, <3>4 DEF MwInv, MwTypes, MwCalls
    <3> QED
      BY <3>1, <3>3, <3>4, <3>5 DEF MwInv, MwTypes
  <2>2. CASE Mw!FileUploaded
    <3>1. /\ calls.file # NoValue /\ fileKey' = calls.file.what
          /\ calls' = [calls EXCEPT !.file.pc = "analyze"]
      BY <2>2 DEF Mw!FileUploaded
    <3>2. calls.file \in [pc : {"upload", "analyze"}, what : Dumps]
      BY <3>1 DEF MwInv, MwTypes, MwCalls
    <3>3. /\ calls'.file = [calls.file EXCEPT !.pc = "analyze"]
          /\ calls'.remote = calls.remote
          /\ calls' = [remote |-> calls'.remote, file |-> calls'.file]
      BY <3>1 DEF MwInv, MwTypes, MwCalls
    <3>4. calls'.file \in [pc : {"upload", "analyze"}, what : Dumps]
          /\ calls'.file.what = calls.file.what
      BY <3>2, <3>3
    <3>5. calls' \in MwCalls
      BY <3>3, <3>4 DEF MwInv, MwTypes, MwCalls
    <3> QED
      BY <3>1, <3>2, <3>3, <3>4, <3>5
  <2>3. CASE \E chain \in {"remote", "file"} : Mw!CallFails(chain)
    <3>1. PICK chain \in {"remote", "file"} :
            calls' = [calls EXCEPT ![chain] = NoValue] /\ fileKey' = fileKey
      BY <2>3 DEF Mw!CallFails, Mw!form
    <3>2. CASE chain = "remote"
      BY <3>1, <3>2 DEF MwInv, MwTypes, MwCalls
    <3>3. CASE chain = "file"
      BY <3>1, <3>3 DEF MwInv, MwTypes, MwCalls
    <3> QED
      BY <3>2, <3>3
  <2> QED
    BY <2>1, <2>2, <2>3
<1>3. MwTypes' /\ MwOrders'
  BY <1>1, <1>2 DEF MwInv, MwTypes, MwOrders
<1>4. ASSUME ~strayed'  PROVE MwListed' /\ MwOrdered'
  <2>1. MwListed /\ MwOrdered
    BY <1>1, <1>4 DEF MwInv
  <2>2. MwListed'
    BY <1>1, <1>2, <2>1 DEF MwListed, MwSource
  <2>3. MwOrdered'
    BY <1>1, <1>2, <2>1 DEF MwOrdered, MwQuiet
  <2> QED
    BY <2>2, <2>3
<1> QED
  BY <1>3, <1>4 DEF MwInv

\* The tables of an honest user's call are of the form's source.
LEMMA MwListing ==
  ASSUME Mw!MigrationWizardAssumption, MwInv, Mw!TablesDiscovered \/ Mw!FileAnalyzed
  PROVE  MwInv'
<1>1. PICK chain \in {"remote", "file"}, default \in Mw!Strategy :
        /\ calls[chain] # NoValue
        /\ calls[chain].pc = IF chain = "remote" THEN "discover" ELSE "analyze"
        /\ calls' = [calls EXCEPT ![chain] = NoValue]
        /\ tables' = {calls[chain].what} \X TableNames /\ selected' = tables'
        /\ strategy' = default /\ stage' = "tables"
        /\ meant' = [source |-> calls[chain].what, strategy |-> default]
        /\ UNCHANGED <<sourceMode, connection, fileKey, starts, shown, migrationId, sent,
                       unfinished, changes, strayed, lost>>
  <2>1. CASE Mw!TablesDiscovered
    <3>1. "OVERWRITE" \in Mw!Strategy
      BY DEF Mw!Strategy
    <3> QED
      BY <2>1, <3>1 DEF Mw!TablesDiscovered, Mw!Listed, Mw!server
  <2>2. CASE Mw!FileAnalyzed
    <3> DEFINE default == IF calls.file # NoValue /\ calls.file.what \in CreatingDumps
                          THEN "OVERWRITE" ELSE "APPEND"
    <3>1. default \in Mw!Strategy
      BY DEF Mw!Strategy
    <3>2. Mw!Listed("file", "analyze", default)
      BY <2>2 DEF Mw!FileAnalyzed
    <3> HIDE DEF default
    <3> QED
      BY <3>1, <3>2 DEF Mw!Listed, Mw!server
  <2> QED
    BY <2>1, <2>2
<1>2. /\ calls[chain].what \in Mw!Source
      /\ calls' \in MwCalls /\ calls'[chain] = NoValue
      /\ chain = "remote" => calls'.file = calls.file
      /\ chain = "file" => calls'.remote = calls.remote
  <2>1. CASE chain = "remote"
    BY <1>1, <2>1 DEF MwInv, MwTypes, MwCalls, Mw!Source
  <2>2. CASE chain = "file"
    BY <1>1, <2>2 DEF MwInv, MwTypes, MwCalls, Mw!Source
  <2> QED
    BY <2>1, <2>2
<1>3. tables' \subseteq Mw!Table /\ \A t \in tables' : t[1] = calls[chain].what
  BY <1>1, <1>2 DEF Mw!Table
<1>4. MwTypes'
  <2>1. meant' \in [source : Mw!Source \cup {NoValue}, strategy : Mw!Strategy]
    BY <1>1, <1>2
  <2> QED
    BY <1>1, <1>2, <1>3, <2>1 DEF MwInv, MwTypes
<1>5. MwOrders'
  BY <1>1 DEF MwInv, MwOrders
<1>6. ASSUME ~strayed'  PROVE MwListed' /\ MwOrdered'
  <2>1. MwListed /\ MwOrdered
    BY <1>1, <1>6 DEF MwInv
  <2>2. starts = <<>> /\ calls'.remote = NoValue /\ calls'.file = NoValue
    BY <1>1, <1>2, <2>1 DEF MwListed
  <2>3. MwSource' = calls[chain].what
    BY <1>1, <2>1 DEF MwListed, MwSource
  <2>4. ~(shown /\ migrationId > 0)
    BY <1>1, <2>1 DEF MwOrdered, MwQuiet
  <2>5. MwListed'
    BY <1>1, <1>3, <2>2, <2>3 DEF MwListed
  <2>6. MwOrdered'
    BY <1>1, <2>1, <2>2, <2>4 DEF MwOrdered
  <2> QED
    BY <2>5, <2>6
<1> QED
  BY <1>4, <1>5, <1>6 DEF MwInv

LEMMA MwMoves ==
  ASSUME Mw!MigrationWizardAssumption, MwInv,
         Mw!Back \/ Mw!MigrationEnds \/ Mw!onClose
  PROVE  MwInv'
<1>1. /\ UNCHANGED <<sourceMode, connection, fileKey, tables, selected, strategy, calls, starts,
                     migrationId, sent, changes, meant, strayed, lost>>
      /\ unfinished' \in BOOLEAN /\ stage' \in {stage, "source"}
      /\ stage' # stage => stage = "tables"
      /\ shown' = shown \/ (shown' = FALSE /\ stage' = stage)
  <2>1. CASE Mw!Back
    BY <2>1 DEF Mw!Back, Mw!form, Mw!server, Mw!history, MwInv, MwTypes
  <2>2. CASE Mw!MigrationEnds
    BY <2>2 DEF Mw!MigrationEnds, Mw!form, Mw!history
  <2>3. CASE Mw!onClose
    BY <2>3 DEF Mw!onClose, Mw!form, Mw!server, Mw!history, MwInv, MwTypes
  <2> QED
    BY <2>1, <2>2, <2>3
<1>2. MwTypes' /\ MwOrders'
  BY <1>1 DEF MwInv, MwTypes, MwOrders
<1>3. ASSUME ~strayed'  PROVE MwListed' /\ MwOrdered'
  <2>1. MwListed /\ MwOrdered
    BY <1>1, <1>3 DEF MwInv
  <2>2. MwListed'
    BY <1>1, <2>1 DEF MwListed, MwSource
  <2>3. MwOrdered'
    BY <1>1, <2>1 DEF MwOrdered, MwQuiet
  <2> QED
    BY <2>2, <2>3
<1> QED
  BY <1>2, <1>3 DEF MwInv

LEMMA MwStartMigration ==
  ASSUME Mw!MigrationWizardAssumption, MwInv, Mw!handleStartMigration
  PROVE  MwInv'
<1> DEFINE p == [source |-> MwSource, tables |-> tables \cap selected, strategy |-> strategy]
<1>1. /\ shown /\ stage = "tables" /\ starts = <<>> /\ starts' = <<p>>
      /\ UNCHANGED <<stage, sourceMode, connection, fileKey, tables, selected, strategy, calls,
                     shown, migrationId, sent, unfinished, changes, meant, strayed, lost>>
  BY DEF Mw!handleStartMigration, Mw!form, Mw!server, Mw!history, MwSource
<1>2. p \in Mw!Payload
  BY DEF MwInv, MwTypes, MwSource, Mw!Payload, Mw!Source
<1>3. MwTypes'
  BY <1>1 DEF MwInv, MwTypes
<1>4. MwOrders'
  BY <1>1, <1>2 DEF MwInv, MwOrders
<1>5. ASSUME ~strayed'  PROVE MwListed' /\ MwOrdered'
  <2>1. MwListed /\ MwOrdered
    BY <1>1, <1>5 DEF MwInv
  <2>2. MwQuiet /\ \A t \in tables : t[1] = MwSource
    BY <1>1, <2>1 DEF MwListed, MwQuiet
  <2>3. MwListed'
    BY <1>1, <2>1, <2>2 DEF MwListed, MwQuiet, MwSource
  <2>4. starts'[1] = p
    BY <1>1
  <2>5. ~(shown /\ migrationId > 0)
    BY <1>1, <2>1 DEF MwOrdered
  <2>6. MwOrdered'
    BY <1>1, <2>1, <2>2, <2>4, <2>5 DEF MwOrdered
  <2> QED
    BY <2>3, <2>6
<1> QED
  BY <1>3, <1>4, <1>5 DEF MwInv

LEMMA MwStartFails ==
  ASSUME Mw!MigrationWizardAssumption, MwInv, NEW n \in DOMAIN starts, Mw!StartFails(n)
  PROVE  MwInv'
<1>1. /\ starts' = <<>>
      /\ UNCHANGED <<stage, sourceMode, connection, fileKey, tables, selected, strategy, calls,
                     shown, migrationId, sent, unfinished, changes, meant, strayed, lost>>
  BY MwOne DEF MwInv, Mw!StartFails, Mw!form, Mw!server, Mw!history
<1>2. MwTypes' /\ MwOrders'
  BY <1>1 DEF MwInv, MwTypes, MwOrders
<1>3. ~strayed' => MwListed' /\ MwOrdered'
  BY <1>1 DEF MwInv, MwListed, MwOrdered, MwQuiet, MwSource
<1> QED
  BY <1>2, <1>3 DEF MwInv

LEMMA MwCreate ==
  ASSUME Mw!MigrationWizardAssumption, MwInv, NEW n \in DOMAIN starts, Mw!Create(n)
  PROVE  /\ starts' = <<>> /\ unfinished' = TRUE
         /\ sent' \in Seq(Mw!Payload) /\ Len(sent') = Len(sent) + 1
         /\ Len(sent) \in Nat /\ Len(sent') \in 0..MaxMigrations
         /\ sent'[Len(sent')] = starts[1]
         /\ \A k \in DOMAIN sent : sent'[k] = sent[k]
         /\ DOMAIN sent' = DOMAIN sent \cup {Len(sent')} /\ DOMAIN sent = 1..Len(sent)
         /\ ~strayed => \A k \in DOMAIN sent' : \A t \in sent'[k].tables : t[1] = sent'[k].source
<1>1. /\ n = 1 /\ starts[1] \in Mw!Payload /\ starts # <<>> /\ starts' = <<>>
      /\ unfinished' = TRUE /\ Len(sent) < MaxMigrations /\ sent' = Append(sent, starts[1])
  BY MwOne DEF MwInv, Mw!Create
<1>2. sent \in Seq(Mw!Payload) /\ MaxMigrations \in Nat
  BY MwBounds DEF MwInv, MwOrders
<1>3. /\ sent' \in Seq(Mw!Payload) /\ Len(sent') = Len(sent) + 1
      /\ Len(sent) \in Nat /\ Len(sent') \in 0..MaxMigrations
      /\ sent'[Len(sent')] = starts[1]
      /\ \A k \in DOMAIN sent : sent'[k] = sent[k]
      /\ DOMAIN sent' = DOMAIN sent \cup {Len(sent')} /\ DOMAIN sent = 1..Len(sent)
  BY <1>1, <1>2
<1>4. ASSUME ~strayed, NEW k \in DOMAIN sent', NEW t \in sent'[k].tables
      PROVE  t[1] = sent'[k].source
  <2>1. MwOrdered
    BY <1>4 DEF MwInv
  <2>2. CASE k \in DOMAIN sent
    BY <1>3, <1>4, <2>1, <2>2 DEF MwOrdered
  <2>3. CASE k = Len(sent')
    BY <1>1, <1>3, <1>4, <2>1, <2>3 DEF MwOrdered
  <2> QED
    BY <1>3, <2>2, <2>3
<1> QED
  BY <1>1, <1>3, <1>4

LEMMA MwCreated ==
  ASSUME Mw!MigrationWizardAssumption, MwInv, NEW n \in DOMAIN starts,
         Mw!MigrationCreated(n) \/ Mw!AnswerLost(n)
  PROVE  MwInv'
<1>1. Mw!Create(n)
  BY DEF Mw!MigrationCreated, Mw!AnswerLost
<1>2. /\ starts' = <<>> /\ unfinished' = TRUE
      /\ sent' \in Seq(Mw!Payload) /\ Len(sent') = Len(sent) + 1
      /\ Len(sent) \in Nat /\ Len(sent') \in 0..MaxMigrations
      /\ sent'[Len(sent')] = starts[1]
      /\ \A k \in DOMAIN sent : sent'[k] = sent[k]
      /\ DOMAIN sent' = DOMAIN sent \cup {Len(sent')} /\ DOMAIN sent = 1..Len(sent)
      /\ ~strayed => \A k \in DOMAIN sent' : \A t \in sent'[k].tables : t[1] = sent'[k].source
  BY <1>1, MwCreate
<1>3. starts # <<>>
  BY MwOne DEF MwInv
<1>4. /\ UNCHANGED <<sourceMode, connection, fileKey, tables, selected, strategy, calls, shown,
                     changes, meant, strayed>>
      /\ \/ UNCHANGED <<stage, migrationId>> /\ (~shown \/ lost')
         \/ shown /\ stage' = "execute" /\ migrationId' = Len(sent')
      /\ lost' \in BOOLEAN /\ (lost => lost')
  <2>1. lost \in BOOLEAN
    BY DEF MwInv, MwTypes
  <2>2. CASE Mw!MigrationCreated(n)
    BY <2>1, <2>2 DEF Mw!MigrationCreated, Mw!form, Mw!history
  <2>3. CASE Mw!AnswerLost(n)
    BY <2>1, <2>3 DEF Mw!AnswerLost, Mw!form
  <2> QED
    BY <2>2, <2>3
<1>5. MwTypes'
  BY <1>2, <1>4 DEF MwInv, MwTypes
<1>6. MwOrders'
  <2>1. migrationId \in Nat /\ migrationId <= Len(sent) /\ MaxMigrations \in Nat
    BY MwBounds DEF MwInv, MwOrders, MwTypes
  <2> QED
    BY <1>2, <1>4, <2>1 DEF MwInv, MwOrders
<1>7. ASSUME ~strayed'  PROVE MwListed' /\ MwOrdered'
  <2>1. MwListed /\ MwOrdered /\ ~strayed
    BY <1>4, <1>7 DEF MwInv
  <2>2. MwQuiet
    BY <1>3, <2>1 DEF MwListed, MwQuiet
  <2>3. MwListed'
    BY <1>2, <1>4, <2>1, <2>2 DEF MwListed, MwQuiet, MwSource
  <2>4. migrationId \in Nat /\ migrationId <= Len(sent) /\ ~(shown /\ migrationId > 0)
    BY <1>3, <2>1 DEF MwInv, MwTypes, MwOrders, MwOrdered
  <2>5. starts[1].strategy = strategy
    BY <1>3, <2>1 DEF MwOrdered
  <2>6. \A k \in DOMAIN sent' : \A t \in sent'[k].tables : t[1] = sent'[k].source
    BY <1>2, <2>1
  <2>7. CASE UNCHANGED <<stage, migrationId>> /\ (~shown \/ lost')
    <3>1. ~(shown' /\ migrationId' > 0) /\ ~(shown' /\ ~lost')
      BY <1>4, <2>4, <2>7
    <3> QED
      BY <1>2, <2>3, <2>6, <3>1 DEF MwOrdered
  <2>8. CASE shown /\ stage' = "execute" /\ migrationId' = Len(sent')
    <3>1. sent'[migrationId'].strategy = strategy' /\ stage' = "execute" /\ MwQuiet'
      BY <1>2, <1>4, <2>2, <2>5, <2>8 DEF MwQuiet
    <3>2. ASSUME ~lost'  PROVE Len(sent') = migrationId' /\ migrationId' <= 1
      <4>1. ~lost /\ shown
        BY <1>4, <2>8, <3>2
      <4>2. Len(sent) = migrationId
        BY <2>1, <4>1 DEF MwOrdered
      <4>3. migrationId = 0
        BY <2>4, <4>1
      <4> QED
        BY <1>2, <2>8, <4>2, <4>3
    <3> QED
      BY <1>2, <2>3, <2>6, <3>1, <3>2 DEF MwOrdered
  <2> QED
    BY <1>4, <2>3, <2>7, <2>8
<1> QED
  BY <1>5, <1>6, <1>7 DEF MwInv

LEMMA MwSteps ==
  ASSUME Mw!MigrationWizardAssumption, MwInv, Mw!Next
  PROVE  MwInv'
<1>1. CASE \/ \E mode \in {"REMOTE", "FILE"} : Mw!ChooseSource(mode)
           \/ \E d \in SourceDatabases : Mw!EditConnection(d)
           \/ \E t \in tables : Mw!toggleTable(t)
           \/ \E s \in Mw!Strategy : Mw!ChooseStrategy(s)
           \/ Mw!toggleAll
  BY <1>1, MwEdits
<1>2. CASE Mw!handleTestConnection \/ \E d \in Dumps : Mw!handleFileUpload(d)
  BY <1>2, MwAsks
<1>3. CASE \/ Mw!ConnectionTested \/ Mw!FileUploaded
           \/ \E chain \in {"remote", "file"} : Mw!CallFails(chain)
  BY <1>3, MwCallGoesOn
<1>4. CASE Mw!TablesDiscovered \/ Mw!FileAnalyzed
  BY <1>4, MwListing
<1>5. CASE Mw!Back \/ Mw!MigrationEnds \/ Mw!onClose
  BY <1>5, MwMoves
<1>6. CASE Mw!handleStartMigration
  BY <1>6, MwStartMigration
<1>7. CASE \E n \in DOMAIN starts :
             Mw!StartFails(n) \/ Mw!MigrationCreated(n) \/ Mw!AnswerLost(n)
  BY <1>7, MwStartFails, MwCreated
<1> QED
  BY <1>1, <1>2, <1>3, <1>4, <1>5, <1>6, <1>7 DEF Mw!Next

LEMMA MwStays ==
  ASSUME MwInv, UNCHANGED Mw!vars
  PROVE  MwInv'
BY DEF MwInv, MwTypes, MwOrders, MwListed, MwOrdered, MwQuiet, MwSource, Mw!vars, Mw!form,
       Mw!server, Mw!history

LEMMA MwHolds ==
  ASSUME MwInv
  PROVE  Mw!TypeOK /\ Mw!MigrationAsListed /\ Mw!MigrationFollowed
<1>1. starts \in Seq(Mw!Payload)
  <2>1. CASE starts = <<>>
    BY <2>1
  <2>2. CASE \E p \in Mw!Payload : starts = <<p>>
    <3>1. PICK p \in Mw!Payload : starts = <<p>>
      BY <2>2
    <3>2. <<p>> \in Seq(Mw!Payload)
      OBVIOUS
    <3> QED
      BY <3>1, <3>2
  <2> QED
    BY <2>1, <2>2 DEF MwInv, MwOrders
<1>2. Mw!TypeOK
  BY <1>1 DEF MwInv, MwTypes, MwCalls, MwOrders, Mw!TypeOK
<1>3. Mw!MigrationAsListed
  <2> SUFFICES ASSUME ~strayed, NEW n \in DOMAIN sent
               PROVE  /\ \A t \in sent[n].tables : t[1] = sent[n].source
                      /\ shown /\ n = migrationId => sent[n].strategy = meant.strategy
    BY DEF Mw!MigrationAsListed
  <2>1. MwOrdered /\ strategy = meant.strategy
    BY DEF MwInv, MwOrders
  <2>2. n > 0
    BY DEF MwInv, MwOrders
  <2> QED
    BY <2>1, <2>2 DEF MwOrdered
<1>4. Mw!MigrationFollowed
  BY DEF MwInv, MwOrdered, Mw!MigrationFollowed
<1> QED
  BY <1>2, <1>3, <1>4

\* A migration is of the tables listed for the source it is sent with.
THEOREM MigrationsAreAsListed ==
  Mw!MigrationWizardAssumption /\ Mw!Spec =>
    [](Mw!TypeOK /\ Mw!MigrationAsListed /\ Mw!MigrationFollowed)
<1> SUFFICES ASSUME Mw!MigrationWizardAssumption
             PROVE  Mw!Spec => [](Mw!TypeOK /\ Mw!MigrationAsListed /\ Mw!MigrationFollowed)
  OBVIOUS
<1>1. Mw!Init => MwInv
  BY MwStart
<1>2. MwInv /\ [Mw!Next]_Mw!vars => MwInv'
  BY MwSteps, MwStays
<1>3. MwInv => Mw!TypeOK /\ Mw!MigrationAsListed /\ Mw!MigrationFollowed
  BY MwHolds
<1> QED
  BY <1>1, <1>2, <1>3, PTL DEF Mw!Spec

----------------------------------------------------------------------------
(* The pages of a bulk import.                                             *)

IpForms == [configs : Seq(Ip!Env), index : Ip!Items, mapper : Ip!Env \cup {NoValue},
            owner : Ip!Items]
IpSubmits == [pc : {"sent", "checked", "written", "accepted", "refused"},
              seen : Ip!Status \cup Ip!Terminal \cup {NoValue}, configs : Seq(Ip!Env),
              meant : [Ip!Items -> Ip!Env]]
IpStarts == {NoValue, "sent", "checked"}

IpServer ==
  /\ standing \in Ip!Status \cup Ip!Terminal
  /\ uploading \in {"none", "inserting", "done", "never"}
  /\ stored \in Seq(Ip!Env \cup {NoValue}) /\ Len(stored) <= Len(Package)
  /\ job \in [waiting : 0..2, active : BOOLEAN, took : 0..Len(Package)]
  /\ uploading = "done" => Len(stored) = Len(Package)
  /\ page = "choose" => uploading = "none"
  /\ standing = "UPLOADED" => uploading = "inserting"

IpQuery ==
  /\ known \in Ip!Answer \cup {NoValue}
  /\ fetch \in [got : Ip!Answer \cup {NoValue}] \cup {NoValue}

IpPage ==
  /\ page \in {"choose", "cli", "cloud", "preview", "configure", "execute"}
  /\ calls \in [submit : IpSubmits \cup {NoValue}, start : IpStarts, cancel : BOOLEAN]
  /\ calls.submit # NoValue => Len(calls.submit.configs) <= Len(Package)
  /\ started \in BOOLEAN

IpHistory ==
  /\ early \in BOOLEAN /\ strayed \in BOOLEAN /\ cancelled \in BOOLEAN
  /\ acts \in 0..MaxActs
  /\ meant \in [Ip!Items -> Ip!Env]
  /\ submitted \in [Ip!Items -> Ip!Env \cup {NoValue}]

\* A form that shows an item with variables has a mapper.
IpShape ==
  form # NoValue =>
    /\ form \in IpForms /\ Len(form.configs) <= Len(Package)
    /\ form.configs # <<>> =>
         /\ form.index \in DOMAIN form.configs /\ form.owner \in DOMAIN form.configs
         /\ DOMAIN form.configs[form.index] # {} => form.mapper # NoValue

\* What the form holds, what it has sent and what is stored is as meant.
IpFilled ==
  /\ form # NoValue => \A i \in DOMAIN form.configs : form.configs[i] = meant[i]
  /\ form # NoValue /\ form.configs # <<>> /\ form.mapper # NoValue =>
       form.mapper = form.configs[form.owner]
  /\ calls.submit # NoValue =>
       \A i \in DOMAIN calls.submit.configs : calls.submit.configs[i] = calls.submit.meant[i]
  /\ \A i \in DOMAIN stored : stored[i] # NoValue => stored[i] = submitted[i]

IpConfigured ==
  uploading = "done" /\ \A i \in DOMAIN stored : stored[i] # NoValue

\* A form opened after the upload has all items, and what follows its
\* submission finds them configured.
IpWhole ==
  /\ form # NoValue => uploading = "done" /\ Len(form.configs) = Len(Package)
  /\ calls.submit # NoValue =>
       uploading = "done" /\ Len(calls.submit.configs) = Len(Package)
  /\ calls.submit # NoValue /\ calls.submit.pc \in {"written", "accepted"} =>
       IpConfigured
  /\ calls.submit # NoValue /\ calls.submit.pc # "sent" => calls.submit.seen # "UPLOADED"
  /\ page = "execute" => IpConfigured
  /\ calls.start \in {"sent", "checked"} \/ calls.cancel \/ cancelled => IpConfigured
  /\ job.waiting > 0 \/ job.took > 0 => IpConfigured
  /\ cancelled => standing \in Ip!Terminal /\ calls.start # "checked"

IpService ==
  service \in [config : 0..MaxActs, tested : BOOLEAN \cup {NoValue},
               asked : 0..MaxActs \cup {NoValue}, passed : SUBSET (0..MaxActs),
               hasty : BOOLEAN] \cup {NoValue}

\* An unhurried test is of the fields as they are.
IpBadge ==
  service # NoValue /\ ~service.hasty =>
    /\ service.asked # NoValue => service.asked = service.config
    /\ service.tested = TRUE => service.config \in service.passed

IpInv ==
  /\ IpServer /\ IpQuery /\ IpPage /\ IpHistory /\ IpShape
  /\ ~strayed => IpFilled
  /\ ~early => IpWhole
  /\ IpService /\ IpBadge

LEMMA IpPackage ==
  ASSUME Ip!ImportPagesAssumption
  PROVE  /\ Package \in Seq(SUBSET Ip!Vars) /\ Len(Package) \in Nat \ {0}
         /\ Ip!Items = 1..Len(Package)
         /\ Ip!Manifest \in Seq(Ip!Env) /\ Len(Ip!Manifest) = Len(Package)
         /\ Ip!Manifest \in [Ip!Items -> Ip!Env]
         /\ \A i \in Ip!Items : DOMAIN Ip!Manifest[i] = Package[i]
<1>1. Package \in Seq(SUBSET Ip!Vars) /\ Package # <<>>
  BY DEF Ip!ImportPagesAssumption
<1>2. Len(Package) \in Nat \ {0} /\ Ip!Items = 1..Len(Package)
  BY <1>1, EmptySeq DEF Ip!Items
<1>3. ASSUME NEW i \in Ip!Items  PROVE [x \in Package[i] |-> <<i, 0>>] \in Ip!Env
  <2>1. Package[i] \in SUBSET Ip!Vars
    BY <1>1, <1>2
  <2>2. [x \in Package[i] |-> <<i, 0>>] \in [Package[i] -> Ip!Value]
    BY DEF Ip!Value
  <2> QED
    BY <2>1, <2>2 DEF Ip!Env
<1>4. Ip!Manifest \in [Ip!Items -> Ip!Env]
  BY <1>3 DEF Ip!Manifest
<1> QED
  BY <1>1, <1>2, <1>4 DEF Ip!Manifest

LEMMA IpEnvs ==
  ASSUME NEW e \in Ip!Env
  PROVE  DOMAIN e \subseteq Ip!Vars /\ e \in [DOMAIN e -> Ip!Value]
BY DEF Ip!Env

LEMMA IpWith ==
  ASSUME NEW e \in Ip!Env, NEW x \in Ip!Vars, NEW value \in Ip!Value
  PROVE  Ip!With(e, x, value) \in Ip!Env /\ x \in DOMAIN Ip!With(e, x, value)
<1>1. (DOMAIN e \cup {x}) \in SUBSET Ip!Vars
  BY IpEnvs
<1>2. Ip!With(e, x, value) \in [DOMAIN e \cup {x} -> Ip!Value]
  BY IpEnvs DEF Ip!With
<1> QED
  BY <1>1, <1>2 DEF Ip!Env

LEMMA IpStart ==
  ASSUME Ip!ImportPagesAssumption, Ip!Init
  PROVE  IpInv
<1> USE DEF Ip!Init, Ip!NoCalls
<1>1. IpServer
  <2>1. 0 <= Len(Package) /\ 0 \in 0..Len(Package)
    BY IpPackage
  <2>2. job \in [waiting : 0..2, active : BOOLEAN, took : 0..Len(Package)]
    BY <2>1
  <2>3. stored \in Seq(Ip!Env \cup {NoValue}) /\ Len(stored) <= Len(Package)
    BY <2>1, EmptySeq
  <2> QED
    BY <2>2, <2>3 DEF IpServer, Ip!Status
<1>2. IpQuery /\ IpPage
  BY DEF IpQuery, IpPage, IpStarts
<1>3. IpHistory
  <2>1. acts \in 0..MaxActs
    BY DEF Ip!ImportPagesAssumption
  <2>2. meant \in [Ip!Items -> Ip!Env]
    BY IpPackage
  <2> QED
    BY <2>1, <2>2 DEF IpHistory
<1>4. IpShape /\ IpFilled /\ IpWhole /\ IpService /\ IpBadge
  BY DEF IpShape, IpFilled, IpWhole, IpService, IpBadge, Ip!ImportPagesAssumption
<1> QED
  BY <1>1, <1>2, <1>3, <1>4 DEF IpInv

\* The query's steps.
LEMMA IpQueries ==
  ASSUME Ip!ImportPagesAssumption, IpInv, Ip!Ask \/ Ip!FetchRead \/ Ip!FetchAnswered
  PROVE  IpInv'
<1>1. UNCHANGED <<standing, uploading, stored, job, page, form, calls, started, service,
                  meant, submitted, early, strayed, cancelled, acts>>
  BY DEF Ip!Ask, Ip!FetchRead, Ip!FetchAnswered, Ip!server, Ip!history
<1>2. IpQuery'
  <2>1. CASE Ip!Ask
    BY <2>1 DEF IpInv, IpQuery, Ip!Ask, Ip!Asked
  <2>2. CASE Ip!FetchRead
    <3>1. standing \in Ip!Status \cup Ip!Terminal /\ Len(stored) \in 0..Len(Package)
      BY IpPackage DEF IpInv, IpServer
    <3>2. [status |-> standing, items |-> Len(stored)] \in Ip!Answer
      BY <3>1 DEF Ip!Answer
    <3> QED
      BY <2>2, <3>2 DEF IpInv, IpQuery, Ip!FetchRead
  <2>3. CASE Ip!FetchAnswered
    BY <2>3 DEF IpInv, IpQuery, Ip!FetchAnswered, Ip!Asked
  <2> QED
    BY <2>1, <2>2, <2>3
<1> QED
  BY <1>1, <1>2 DEF IpInv, IpServer, IpPage, IpHistory, IpShape, IpFilled, IpWhole, IpConfigured,
                    IpService, IpBadge

\* The cloud page's steps.
LEMMA IpServices ==
  ASSUME Ip!ImportPagesAssumption, IpInv,
         \/ Ip!AddService \/ Ip!RemoveService \/ Ip!UpdateServiceConfig
         \/ Ip!HandleTestConnection \/ \E success \in BOOLEAN : Ip!ConnectionTested(success)
  PROVE  IpInv'
<1> USE DEF Ip!CloudStep
<1>1. UNCHANGED <<standing, uploading, stored, job, known, fetch, page, form, calls, started,
                  meant, submitted, early, strayed, cancelled>>
  BY DEF Ip!AddService, Ip!RemoveService, Ip!UpdateServiceConfig, Ip!HandleTestConnection,
         Ip!ConnectionTested, Ip!server, Ip!query
<1>2. MaxActs \in Nat /\ NoValue \notin BOOLEAN
  BY DEF Ip!ImportPagesAssumption
<1>3. acts' \in 0..MaxActs /\ IpService' /\ IpBadge'
  <2>1. CASE Ip!AddService
    <3>1. acts' = acts /\ service' = Ip!NoService
      BY <2>1 DEF Ip!AddService
    <3>2. IpService'
      BY <1>2, <3>1 DEF IpService, Ip!NoService
    <3>3. IpBadge'
      BY <1>2, <3>1 DEF IpBadge, Ip!NoService
    <3> QED
      BY <3>1, <3>2, <3>3 DEF IpInv, IpHistory
  <2>2. CASE Ip!RemoveService
    BY <2>2 DEF IpInv, IpHistory, IpService, IpBadge, Ip!RemoveService
  <2>3. CASE Ip!UpdateServiceConfig
    <3>1. /\ service # NoValue /\ acts' = acts + 1 /\ acts' \in 0..MaxActs
          /\ service' = [service EXCEPT !.config = acts + 1, !.tested = NoValue,
                                        !.hasty = @ \/ service.asked # NoValue]
      BY <1>2, <2>3 DEF IpInv, IpHistory, Ip!UpdateServiceConfig, Ip!Act
    <3>2. /\ service'.config = acts' /\ service'.tested = NoValue
          /\ service'.asked = service.asked /\ service'.passed = service.passed
          /\ service'.hasty = (service.hasty \/ service.asked # NoValue)
          /\ service'.hasty \in BOOLEAN
          /\ service' = [config |-> acts', tested |-> NoValue, asked |-> service.asked,
                         passed |-> service.passed, hasty |-> service'.hasty]
      BY <3>1 DEF IpInv, IpService
    <3>3. IpService'
      BY <3>1, <3>2 DEF IpInv, IpService
    <3>4. IpBadge'
      BY <1>2, <3>1, <3>2 DEF IpInv, IpService, IpBadge
    <3> QED
      BY <3>1, <3>3, <3>4
  <2>4. CASE Ip!HandleTestConnection
    BY <2>4 DEF IpInv, IpHistory, IpService, IpBadge, Ip!HandleTestConnection
  <2>5. ASSUME NEW success \in BOOLEAN, Ip!ConnectionTested(success)
        PROVE  acts' \in 0..MaxActs /\ IpService' /\ IpBadge'
    <3>1. /\ service # NoValue /\ service.asked # NoValue /\ acts' = acts
          /\ service' = [service EXCEPT !.asked = NoValue, !.tested = success,
                            !.passed = IF success THEN @ \cup {service.asked} ELSE @]
      BY <2>5 DEF Ip!ConnectionTested
    <3>2. /\ service'.config = service.config /\ service'.tested = success
          /\ service'.asked = NoValue /\ service'.hasty = service.hasty
          /\ service'.passed = IF success THEN service.passed \cup {service.asked}
                                          ELSE service.passed
          /\ service' = [config |-> service.config, tested |-> success, asked |-> NoValue,
                         passed |-> service'.passed, hasty |-> service.hasty]
      BY <3>1 DEF IpInv, IpService
    <3>3. IpService'
      BY <3>1, <3>2 DEF IpInv, IpService
    <3>4. IpBadge'
      BY <3>1, <3>2 DEF IpInv, IpService, IpBadge
    <3> QED
      BY <3>1, <3>3, <3>4 DEF IpInv, IpHistory
  <2> QED
    BY <2>1, <2>2, <2>3, <2>4, <2>5
<1> QED
  BY <1>1, <1>3 DEF IpInv, IpServer, IpQuery, IpPage, IpHistory, IpShape, IpFilled, IpWhole,
                    IpConfigured

\* The backend's steps: the upload and the job.
LEMMA IpChoose ==
  ASSUME Ip!ImportPagesAssumption, IpInv,
         NEW sourceType \in {"CLI_PACKAGE", "REMOTE"}, Ip!Choose(sourceType)
  PROVE  IpInv'
<1> USE DEF Ip!Choose
<1>1. /\ page = "choose" /\ uploading = "none" /\ page' \in {"cli", "cloud"}
      /\ uploading' \in {"none", "never"} /\ standing' = "PENDING"
      /\ UNCHANGED <<stored, job, form, calls, started, service, meant, submitted, early,
                     strayed, cancelled, acts, known>>
  BY DEF IpInv, IpServer, Ip!Invalidate, Ip!history
<1>2. IpServer' /\ IpPage'
  BY <1>1 DEF IpInv, IpServer, IpPage, Ip!Status
<1>3. IpQuery'
  BY <1>1 DEF IpInv, IpQuery, Ip!Invalidate, Ip!Asked
<1>4. ASSUME ~early'  PROVE IpWhole'
  BY <1>1, <1>4 DEF IpInv, IpWhole, IpConfigured
<1> QED
  BY <1>1, <1>2, <1>3, <1>4 DEF IpInv, IpHistory, IpShape, IpFilled, IpService, IpBadge

LEMMA IpUploaded ==
  ASSUME Ip!ImportPagesAssumption, IpInv, Ip!Uploaded
  PROVE  IpInv'
<1> USE DEF Ip!Uploaded
<1>1. /\ page # "choose" /\ uploading = "none" /\ uploading' = "inserting"
      /\ standing' = "UPLOADED"
      /\ UNCHANGED <<stored, job, known, fetch, page, form, calls, started, service, meant,
                     submitted, early, strayed, cancelled, acts>>
  BY DEF Ip!query, Ip!history
<1>2. IpServer'
  BY <1>1 DEF IpInv, IpServer, Ip!Status
<1>3. ASSUME ~early'  PROVE IpWhole'
  BY <1>1, <1>3 DEF IpInv, IpWhole, IpConfigured
<1> QED
  BY <1>1, <1>2, <1>3 DEF IpInv, IpPage, IpQuery, IpHistory, IpShape, IpFilled, IpService, IpBadge

LEMMA IpInsertItem ==
  ASSUME Ip!ImportPagesAssumption, IpInv, Ip!InsertItem
  PROVE  IpInv'
<1> USE DEF Ip!InsertItem
<1>1. /\ uploading = "inserting"
      /\ UNCHANGED <<job, known, fetch, page, form, calls, started, service, meant,
                     submitted, early, strayed, cancelled, acts>>
  BY DEF Ip!query, Ip!history
<1>2. CASE Len(stored) < Len(Package)
  <2>1. stored' = Append(stored, NoValue) /\ UNCHANGED <<standing, uploading>>
    BY <1>2
  <2>2. /\ stored' \in Seq(Ip!Env \cup {NoValue}) /\ Len(stored') = Len(stored) + 1
        /\ DOMAIN stored' = 1..(Len(stored) + 1)
        /\ \A i \in DOMAIN stored : stored'[i] = stored[i]
        /\ stored'[Len(stored) + 1] = NoValue
    BY <2>1, AppendProperties DEF IpInv, IpServer
  <2>3. IpServer'
    BY <1>1, <1>2, <2>1, <2>2, IpPackage DEF IpInv, IpServer
  <2>4. ASSUME ~early'  PROVE IpWhole'
    BY <1>1, <2>1, <2>4 DEF IpInv, IpWhole, IpConfigured
  <2>5. ASSUME ~strayed'  PROVE IpFilled'
    <3>1. \A i \in DOMAIN stored' : stored'[i] # NoValue => stored'[i] = submitted'[i]
      <4>1. stored \in Seq(Ip!Env \cup {NoValue})
        BY DEF IpInv, IpServer
      <4>2. \A i \in DOMAIN stored' : i \in DOMAIN stored \/ i = Len(stored) + 1
        BY <2>2, <4>1
      <4> QED
        BY <1>1, <2>2, <2>5, <4>2 DEF IpInv, IpFilled
    <3> QED
      BY <1>1, <2>5, <3>1 DEF IpInv, IpFilled
  <2> QED
    BY <1>1, <2>3, <2>4, <2>5 DEF IpInv, IpPage, IpQuery, IpHistory, IpShape, IpService, IpBadge
<1>3. CASE ~(Len(stored) < Len(Package))
  <2>1. standing' = "CONFIGURING" /\ uploading' = "done" /\ UNCHANGED stored
    BY <1>3
  <2>2. IpServer'
    BY <1>1, <1>3, <2>1, IpPackage DEF IpInv, IpServer, Ip!Status
  <2>3. ASSUME ~early'  PROVE IpWhole'
    BY <1>1, <2>1, <2>3 DEF IpInv, IpWhole, IpConfigured
  <2> QED
    BY <1>1, <2>1, <2>2, <2>3 DEF IpInv, IpPage, IpQuery, IpHistory, IpShape, IpFilled,
                                  IpService, IpBadge
<1> QED
  BY <1>2, <1>3

LEMMA IpJobs ==
  ASSUME Ip!ImportPagesAssumption, IpInv, Ip!TakeJob \/ Ip!FinishJob
  PROVE  IpInv'
<1>1. UNCHANGED <<uploading, stored, known, fetch, page, form, calls, started, service,
                  meant, submitted, early, strayed, cancelled, acts>>
  BY DEF Ip!TakeJob, Ip!FinishJob, Ip!query, Ip!history
<1>2. /\ job' \in [waiting : 0..2, active : BOOLEAN, took : 0..Len(Package)]
      /\ job'.waiting > 0 \/ job'.took > 0 => job.waiting > 0 \/ job.took > 0
  <2>1. /\ job \in [waiting : 0..2, active : BOOLEAN, took : 0..Len(Package)]
        /\ Len(stored) \in 0..Len(Package)
    BY IpPackage DEF IpInv, IpServer
  <2>2. CASE Ip!TakeJob
    BY <2>1, <2>2 DEF Ip!TakeJob
  <2>3. CASE Ip!FinishJob
    BY <2>1, <2>3 DEF Ip!FinishJob
  <2> QED
    BY <2>2, <2>3
<1>3. standing' = standing \/ standing' = "COMPLETED"
  BY DEF Ip!TakeJob, Ip!FinishJob
<1>4. IpServer'
  BY <1>1, <1>2, <1>3 DEF IpInv, IpServer, Ip!Terminal
<1>5. ASSUME ~early'  PROVE IpWhole'
  BY <1>1, <1>2, <1>3, <1>5 DEF IpInv, IpWhole, IpConfigured, Ip!Terminal
<1> QED
  BY <1>1, <1>4, <1>5 DEF IpInv, IpPage, IpQuery, IpHistory, IpShape, IpFilled, IpService, IpBadge

\* From page to page.
LEMMA IpGoes ==
  ASSUME Ip!ImportPagesAssumption, IpInv,
         Ip!RedirectToPreview \/ Ip!PreviewContinue \/ Ip!CloudContinue \/ Ip!Back
  PROVE  IpInv'
<1>1. /\ page' \in {"preview", "configure", "cloud"} /\ form' = NoValue /\ service' = NoValue
      /\ started' = (started /\ page' = page)
      /\ UNCHANGED <<standing, uploading, stored, job, known, fetch, calls, meant, submitted,
                     early, strayed, cancelled>>
  BY DEF Ip!RedirectToPreview, Ip!PreviewContinue, Ip!CloudContinue, Ip!Back, Ip!GoTo,
         Ip!server, Ip!query
<1>2. acts' \in 0..MaxActs
  BY DEF IpInv, IpHistory, Ip!ImportPagesAssumption, Ip!RedirectToPreview,
         Ip!PreviewContinue, Ip!CloudContinue, Ip!Back, Ip!Act
<1>3. IpServer' /\ IpPage' /\ IpHistory'
  BY <1>1, <1>2 DEF IpInv, IpServer, IpPage, IpHistory
<1>4. ASSUME ~early'  PROVE IpWhole'
  BY <1>1, <1>4 DEF IpInv, IpWhole, IpConfigured
<1>5. ASSUME ~strayed'  PROVE IpFilled'
  BY <1>1, <1>5 DEF IpInv, IpFilled
<1> QED
  BY <1>1, <1>3, <1>4, <1>5 DEF IpInv, IpQuery, IpShape, IpService, IpBadge

\* The form.
LEMMA IpFill ==
  ASSUME Ip!ImportPagesAssumption, IpInv, Ip!Fill
  PROVE  IpInv'
<1> DEFINE n == known.items
           configs == SubSeq(Ip!Manifest, 1, n)
           mapper == IF n = 0 \/ Package[1] = {} THEN NoValue ELSE Ip!Manifest[1]
<1>1. /\ form' = [configs |-> configs, index |-> 1, mapper |-> mapper, owner |-> 1]
      /\ meant' = Ip!Manifest /\ page = "configure"
      /\ early' = (early \/ uploading # "done" \/ n < Len(Package))
      /\ strayed' = (strayed \/ \E i \in Ip!Items : submitted[i] # NoValue)
      /\ UNCHANGED <<standing, uploading, stored, job, known, fetch, page, calls, started,
                     service, submitted, cancelled, acts>>
  BY DEF Ip!Fill, Ip!server, Ip!query
<1>2. n \in 0..Len(Package) /\ Len(Package) \in Nat
  BY IpPackage DEF IpInv, IpQuery, Ip!Fill, Ip!Answer
<1>3. /\ configs \in Seq(Ip!Env) /\ Len(configs) = n /\ DOMAIN configs = 1..n
      /\ \A i \in 1..n : configs[i] = Ip!Manifest[i]
  BY <1>2, IpPackage, SubSeqProperties
<1>4. n > 0 => 1 \in 1..n /\ DOMAIN configs[1] = Package[1] /\ Ip!Manifest[1] \in Ip!Env
  BY <1>2, <1>3, IpPackage
<1>5. mapper \in Ip!Env \cup {NoValue} /\ 1 \in Ip!Items
  BY <1>2, <1>4, IpPackage
<1>6. IpShape'
  <2>1. form' \in IpForms
    BY <1>1, <1>3, <1>5 DEF IpForms
  <2>2. ASSUME configs # <<>>
        PROVE  1 \in DOMAIN configs /\ (DOMAIN configs[1] # {} => mapper # NoValue)
    <3>1. n > 0
      BY <1>2, <1>3, <2>2, EmptySeq
    <3> QED
      BY <1>3, <1>4, <3>1 DEF Ip!ImportPagesAssumption
  <2> QED
    BY <1>1, <1>2, <1>3, <2>1, <2>2 DEF IpShape
<1>7. ASSUME ~strayed'  PROVE IpFilled'
  <2>1. \A i \in DOMAIN configs : configs[i] = meant'[i]
    BY <1>1, <1>3
  <2>2. ASSUME mapper # NoValue  PROVE mapper = configs[1]
    BY <1>3, <1>4, <2>2, <1>2
  <2>3. ~strayed
    BY <1>1, <1>7
  <2> QED
    BY <1>1, <2>1, <2>2, <2>3 DEF IpInv, IpFilled
<1>8. ASSUME ~early'  PROVE IpWhole'
  <2>1. ~early /\ uploading = "done" /\ ~(n < Len(Package))
    BY Zenon, <1>1, <1>8
  <2>2. n = Len(Package)
    BY <1>2, <2>1
  <2> QED
    BY <1>1, <1>3, <2>1, <2>2 DEF IpInv, IpWhole, IpConfigured
<1>9. IpHistory'
  <2>1. early' \in BOOLEAN /\ strayed' \in BOOLEAN
    BY <1>1
  <2> QED
    BY <1>1, <2>1, IpPackage DEF IpInv, IpHistory
<1> QED
  BY <1>1, <1>6, <1>7, <1>8, <1>9 DEF IpInv, IpServer, IpQuery, IpPage, IpService, IpBadge

LEMMA IpShowItem ==
  ASSUME Ip!ImportPagesAssumption, IpInv, NEW i \in Ip!Items, Ip!ShowItem(i)
  PROVE  IpInv'
<1>1. /\ form # NoValue /\ form.configs # <<>> /\ i \in DOMAIN form.configs
      /\ UNCHANGED <<standing, uploading, stored, job, known, fetch, page, calls, started,
                     service, meant, submitted, early, strayed, cancelled, acts>>
  BY DEF Ip!ShowItem, Ip!Editing, Ip!InForm, Ip!server, Ip!query
<1>2. /\ form \in IpForms /\ form.owner \in DOMAIN form.configs
      /\ Len(form.configs) <= Len(Package) /\ form.configs[i] \in Ip!Env
  BY <1>1 DEF IpInv, IpShape, IpForms
<1>3. /\ form' \in IpForms /\ form'.configs = form.configs /\ form'.index = i
      /\ \/ DOMAIN form.configs[i] = {} /\ form'.mapper = NoValue /\ form'.owner = form.owner
         \/ form'.mapper = form.configs[i] /\ form'.owner = i
         \/ form.mapper # NoValue /\ form'.mapper = form.mapper /\ form'.owner = form.owner
  BY <1>1, <1>2 DEF IpForms, Ip!ShowItem
<1>4. IpShape'
  BY <1>1, <1>2, <1>3 DEF IpShape, Ip!ImportPagesAssumption
<1>5. ASSUME ~strayed'  PROVE IpFilled'
  BY <1>1, <1>2, <1>3, <1>5 DEF IpInv, IpFilled
<1>6. ASSUME ~early'  PROVE IpWhole'
  BY <1>1, <1>3, <1>6 DEF IpInv, IpWhole, IpConfigured
<1> QED
  BY <1>1, <1>4, <1>5, <1>6 DEF IpInv, IpServer, IpQuery, IpPage, IpHistory, IpService, IpBadge

LEMMA IpHandleChange ==
  ASSUME Ip!ImportPagesAssumption, IpInv, NEW x \in Ip!Vars, NEW value \in Ip!Value,
         Ip!HandleChange(x, value)
  PROVE  IpInv'
<1> DEFINE next == Ip!With(form.mapper, x, value)
           k == form.index
<1>1. /\ form # NoValue /\ form.configs # <<>> /\ x \in DOMAIN form.configs[k]
      /\ form' = [form EXCEPT !.mapper = next, !.configs[k] = next]
      /\ meant' = [meant EXCEPT ![k] = Ip!With(meant[k], x, value)]
      /\ strayed' = (strayed \/ form.owner # k)
      /\ UNCHANGED <<standing, uploading, stored, job, known, fetch, page, calls, started,
                     service, submitted, early, cancelled>>
  BY DEF Ip!HandleChange, Ip!Editing, Ip!InForm, Ip!server, Ip!query
<1>2. /\ form \in IpForms /\ k \in DOMAIN form.configs /\ form.owner \in DOMAIN form.configs
      /\ Len(form.configs) <= Len(Package)
      /\ form.mapper \in Ip!Env /\ form.mapper # NoValue
  BY <1>1 DEF IpInv, IpShape, IpForms
<1>3. next \in Ip!Env /\ next # NoValue
  BY <1>2, IpWith DEF Ip!ImportPagesAssumption
<1>4. /\ form'.mapper = next /\ form'.index = k /\ form'.owner = form.owner
      /\ form'.configs = [form.configs EXCEPT ![k] = next]
      /\ form' = [configs |-> form'.configs, index |-> k, mapper |-> next, owner |-> form.owner]
  BY <1>1, <1>2 DEF IpForms
<1>5. /\ form'.configs \in Seq(Ip!Env) /\ DOMAIN form'.configs = DOMAIN form.configs
      /\ Len(form'.configs) = Len(form.configs) /\ form'.configs[k] = next
      /\ \A i \in DOMAIN form.configs : i # k => form'.configs[i] = form.configs[i]
  BY <1>2, <1>3, <1>4, ExceptSeq DEF IpForms
<1>6. IpShape'
  <2>1. form' \in IpForms
    BY <1>2, <1>3, <1>4, <1>5 DEF IpForms
  <2> QED
    BY <1>2, <1>3, <1>4, <1>5, <2>1 DEF IpShape
<1>7. meant \in [Ip!Items -> Ip!Env] /\ k \in Ip!Items
  BY <1>2 DEF IpInv, IpHistory, IpForms
<1>8. meant' \in [Ip!Items -> Ip!Env]
  BY <1>1, <1>7, IpWith
<1>9. ASSUME ~strayed'  PROVE IpFilled'
  <2>1. ~strayed /\ form.owner = k /\ form.mapper = form.configs[k] /\ form.configs[k] = meant[k]
    <3>1. ~strayed /\ form.owner = k
      BY <1>1, <1>9
    <3> QED
      BY <1>1, <1>2, <3>1 DEF IpInv, IpFilled
  <2>2. \A i \in DOMAIN form.configs : i \in Ip!Items
    BY <1>2, IpPackage DEF IpForms
  <2>3. \A i \in DOMAIN form'.configs : form'.configs[i] = meant'[i]
    BY <1>1, <1>5, <1>7, <2>1, <2>2 DEF IpInv, IpFilled
  <2> QED
    BY <1>1, <1>4, <1>5, <2>1, <2>3 DEF IpInv, IpFilled
<1>10. ASSUME ~early'  PROVE IpWhole'
  BY <1>1, <1>4, <1>5, <1>10 DEF IpInv, IpWhole, IpConfigured
<1>11. IpHistory'
  <2>1. acts' \in 0..MaxActs
    BY DEF IpInv, IpHistory, Ip!HandleChange, Ip!Act, Ip!ImportPagesAssumption
  <2>2. strayed' \in BOOLEAN
    BY <1>1 
  <2> QED
    BY <1>1, <1>8, <2>1, <2>2 DEF IpInv, IpHistory
<1> QED
  BY <1>1, <1>6, <1>9, <1>10, <1>11 DEF IpInv, IpServer, IpQuery, IpPage, IpService, IpBadge

LEMMA IpEdit ==
  ASSUME Ip!ImportPagesAssumption, IpInv, Ip!Edit
  PROVE  IpInv'
<1>1. PICK x \in Ip!Vars : \E value \in {<<0, acts + 1>>} \cup
          (IF Ip!Editing /\ x \in DOMAIN form.configs[form.index]
             THEN {form.configs[form.index][x]} ELSE {}) : Ip!HandleChange(x, value)
  BY DEF Ip!Edit
<1>2. PICK value \in {<<0, acts + 1>>} \cup
          (IF Ip!Editing /\ x \in DOMAIN form.configs[form.index]
             THEN {form.configs[form.index][x]} ELSE {}) : Ip!HandleChange(x, value)
  BY <1>1
<1>3. /\ form # NoValue /\ form.configs # <<>> /\ x \in DOMAIN form.configs[form.index]
      /\ acts < MaxActs
  BY <1>2 DEF Ip!HandleChange, Ip!Editing, Ip!Act
<1>4. form.configs[form.index] \in Ip!Env
  BY <1>3 DEF IpInv, IpShape, IpForms
<1>5. acts + 1 \in 1..MaxActs
  BY <1>3 DEF IpInv, IpHistory, Ip!ImportPagesAssumption
<1>6. <<0, acts + 1>> \in Ip!Value /\ form.configs[form.index][x] \in Ip!Value
  BY <1>3, <1>4, <1>5, IpEnvs DEF Ip!Value
<1>7. value \in Ip!Value
  BY <1>2, <1>6
<1> QED
  BY <1>2, <1>7, IpHandleChange

\* The submission.
LEMMA IpHandleSubmit ==
  ASSUME Ip!ImportPagesAssumption, IpInv, Ip!HandleSubmit
  PROVE  IpInv'
<1> DEFINE submission == [pc |-> "sent", seen |-> NoValue, configs |-> form.configs,
                       meant |-> meant]
<1>1. /\ form # NoValue /\ calls' = [calls EXCEPT !.submit = submission]
      /\ UNCHANGED <<standing, uploading, stored, job, known, fetch, page, form, started,
                     service, meant, submitted, early, strayed, cancelled, acts>>
  BY DEF Ip!HandleSubmit, Ip!Editing, Ip!server, Ip!query, Ip!history
<1>2. submission \in IpSubmits /\ Len(submission.configs) <= Len(Package)
  BY <1>1 DEF IpInv, IpShape, IpForms, IpHistory, IpSubmits
<1>3. /\ calls' \in [submit : IpSubmits \cup {NoValue}, start : IpStarts, cancel : BOOLEAN]
      /\ calls'.submit = submission /\ calls'.start = calls.start /\ calls'.cancel = calls.cancel
  BY <1>1, <1>2 DEF IpInv, IpPage
<1>4. IpPage'
  BY <1>1, <1>2, <1>3 DEF IpInv, IpPage
<1>5. ASSUME ~strayed'  PROVE IpFilled'
  BY <1>1, <1>3, <1>5 DEF IpInv, IpFilled
<1>6. ASSUME ~early'  PROVE IpWhole'
  BY <1>1, <1>3, <1>6 DEF IpInv, IpWhole, IpConfigured
<1> QED
  BY <1>1, <1>4, <1>5, <1>6 DEF IpInv, IpServer, IpQuery, IpHistory, IpShape, IpService, IpBadge

\* A submission that goes on is the same submission.
LEMMA IpSubmits2 ==
  ASSUME IpInv, calls.submit # NoValue,
         NEW pc \in {"checked", "written", "accepted", "refused"},
         NEW seen \in Ip!Status \cup Ip!Terminal \cup {NoValue},
         calls' = [calls EXCEPT !.submit = [calls.submit EXCEPT !.pc = pc, !.seen = seen]]
  PROVE  /\ calls' \in [submit : IpSubmits \cup {NoValue}, start : IpStarts, cancel : BOOLEAN]
         /\ calls'.submit.pc = pc /\ calls'.submit.seen = seen
         /\ calls'.submit.configs = calls.submit.configs
         /\ calls'.submit.meant = calls.submit.meant
         /\ calls'.start = calls.start /\ calls'.cancel = calls.cancel
<1> DEFINE next == [calls.submit EXCEPT !.pc = pc, !.seen = seen]
<1>1. calls.submit \in IpSubmits
  BY DEF IpInv, IpPage
<1>2. /\ next \in IpSubmits /\ next.pc = pc /\ next.seen = seen
      /\ next.configs = calls.submit.configs /\ next.meant = calls.submit.meant
  BY <1>1 DEF IpSubmits
<1>3. calls' = [calls EXCEPT !.submit = next]
  OBVIOUS
<1> HIDE DEF next
<1> QED
  BY <1>2, <1>3 DEF IpInv, IpPage

LEMMA IpCheckConfig ==
  ASSUME Ip!ImportPagesAssumption, IpInv, Ip!CheckConfig
  PROVE  IpInv'
<1> DEFINE allowed == standing \in {"CONFIGURING", "UPLOADED"}
           answer == IF allowed THEN "checked" ELSE "refused"
<1>1. /\ calls.submit # NoValue /\ calls.submit.pc = "sent"
      /\ calls' = [calls EXCEPT !.submit = [calls.submit EXCEPT !.pc = answer, !.seen = standing]]
      /\ UNCHANGED <<standing, uploading, stored, job, known, fetch, page, form, started,
                     service, meant, submitted, early, strayed, cancelled, acts>>
  <2>1. /\ calls.submit # NoValue /\ calls.submit.pc = "sent"
        /\ calls' = [calls EXCEPT !.submit.seen = standing, !.submit.pc = answer]
        /\ UNCHANGED <<standing, uploading, stored, job, known, fetch, page, form, started,
                       service, meant, submitted, early, strayed, cancelled, acts>>
    BY DEF Ip!CheckConfig, Ip!server, Ip!query, Ip!history
  <2>2. calls \in [submit : IpSubmits \cup {NoValue}, start : IpStarts, cancel : BOOLEAN]
        /\ calls.submit \in IpSubmits
    BY <2>1 DEF IpInv, IpPage
  <2> HIDE DEF answer
  <2>3. [calls EXCEPT !.submit.seen = standing, !.submit.pc = answer]
          = [calls EXCEPT !.submit = [calls.submit EXCEPT !.pc = answer, !.seen = standing]]
    BY <2>2 DEF IpSubmits
  <2> QED
    BY <2>1, <2>3
<1>2. answer \in {"checked", "refused"} /\ standing \in Ip!Status \cup Ip!Terminal
  BY DEF IpInv, IpServer
<1> HIDE DEF answer
<1>3. /\ calls' \in [submit : IpSubmits \cup {NoValue}, start : IpStarts, cancel : BOOLEAN]
      /\ calls'.submit.pc = answer /\ calls'.submit.seen = standing
      /\ calls'.submit.configs = calls.submit.configs
      /\ calls'.submit.meant = calls.submit.meant
      /\ calls'.start = calls.start /\ calls'.cancel = calls.cancel
  BY <1>1, <1>2, IpSubmits2
<1>4. IpPage'
  BY <1>1, <1>3 DEF IpInv, IpPage
<1>5. ASSUME ~strayed'  PROVE IpFilled'
  BY <1>1, <1>3, <1>5 DEF IpInv, IpFilled
<1>6. ASSUME ~early'  PROVE IpWhole'
  <2>1. IpWhole /\ uploading = "done" /\ standing # "UPLOADED"
    BY <1>1, <1>6 DEF IpInv, IpWhole, IpServer
  <2> QED
    BY <1>1, <1>2, <1>3, <2>1 DEF IpWhole, IpConfigured
<1> QED
  BY <1>1, <1>4, <1>5, <1>6 DEF IpInv, IpServer, IpQuery, IpHistory, IpShape, IpService, IpBadge

LEMMA IpUpdateConfig ==
  ASSUME Ip!ImportPagesAssumption, IpInv, Ip!UpdateConfig
  PROVE  IpInv'
<1> DEFINE submit == calls.submit
           told == DOMAIN submit.configs
<1>1. /\ submit # NoValue /\ submit.pc = "checked"
      /\ calls' = [calls EXCEPT !.submit.pc = "written"]
      /\ stored' = [i \in DOMAIN stored |-> IF i \in told THEN submit.configs[i] ELSE stored[i]]
      /\ submitted' = [i \in Ip!Items |-> IF i \in told THEN submit.meant[i] ELSE submitted[i]]
      /\ UNCHANGED <<standing, uploading, job, known, fetch, page, form, started, service, meant,
                     early, strayed, cancelled, acts>>
  BY DEF Ip!UpdateConfig, Ip!query
<1>2. /\ submit \in IpSubmits /\ Len(submit.configs) <= Len(Package)
      /\ \A i \in told : submit.configs[i] \in Ip!Env /\ i \in 1..Len(submit.configs)
      /\ told = 1..Len(submit.configs)
  BY <1>1 DEF IpInv, IpPage, IpSubmits
<1>3. /\ calls' \in [submit : IpSubmits \cup {NoValue}, start : IpStarts, cancel : BOOLEAN]
      /\ calls'.submit.pc = "written" /\ calls'.submit.seen = submit.seen
      /\ calls'.submit.configs = submit.configs /\ calls'.submit.meant = submit.meant
      /\ calls'.start = calls.start /\ calls'.cancel = calls.cancel
  <2>1. calls' = [calls EXCEPT !.submit =
                    [calls.submit EXCEPT !.pc = "written", !.seen = submit.seen]]
    BY <1>1, <1>2 DEF IpSubmits
  <2>2. submit.seen \in Ip!Status \cup Ip!Terminal \cup {NoValue}
    BY <1>2 DEF IpSubmits
  <2> QED
    BY <1>1, <2>1, <2>2, IpSubmits2
<1>4. IpPage'
  BY <1>1, <1>2, <1>3 DEF IpInv, IpPage
<1>5. stored \in Seq(Ip!Env \cup {NoValue}) /\ Len(stored) <= Len(Package)
  BY DEF IpInv, IpServer
<1>6. /\ stored' \in Seq(Ip!Env \cup {NoValue}) /\ Len(stored') = Len(stored)
      /\ DOMAIN stored' = DOMAIN stored
  BY <1>1, <1>2, <1>5
<1>7. IpServer'
  BY <1>1, <1>5, <1>6 DEF IpInv, IpServer
<1>8. submitted' \in [Ip!Items -> Ip!Env \cup {NoValue}]
  BY <1>1, <1>2 DEF IpInv, IpHistory, IpSubmits
<1>9. ASSUME ~strayed'  PROVE IpFilled'
  <2>1. \A i \in DOMAIN stored : i \in Ip!Items
    BY <1>5, IpPackage
  <2>2. \A i \in DOMAIN stored' : stored'[i] # NoValue => stored'[i] = submitted'[i]
    BY <1>1, <1>6, <1>9, <2>1 DEF IpInv, IpFilled
  <2> QED
    BY <1>1, <1>3, <1>9, <2>2 DEF IpInv, IpFilled
<1>10. ASSUME ~early'  PROVE IpWhole'
  <2>1. IpWhole /\ uploading = "done" /\ Len(submit.configs) = Len(Package)
    BY <1>1, <1>10 DEF IpInv, IpWhole
  <2>2. \A i \in DOMAIN stored : i \in told
    BY <1>2, <1>5, <2>1, IpPackage
  <2>3. IpConfigured'
    BY <1>1, <1>2, <1>6, <2>1, <2>2 DEF IpConfigured, Ip!ImportPagesAssumption
  <2>4. submit.seen # "UPLOADED"
    BY <1>1, <2>1 DEF IpWhole
  <2> QED
    BY <1>1, <1>3, <2>1, <2>3, <2>4 DEF IpWhole
<1> QED
  BY <1>1, <1>4, <1>7, <1>8, <1>9, <1>10
     DEF IpInv, IpQuery, IpHistory, IpShape, IpService, IpBadge

LEMMA IpConfigUpdated ==
  ASSUME Ip!ImportPagesAssumption, IpInv, Ip!ConfigUpdated
  PROVE  IpInv'
<1> DEFINE submit == calls.submit
<1>1. /\ submit # NoValue /\ submit.pc = "written"
      /\ calls' = [calls EXCEPT !.submit.pc = "accepted"]
      /\ standing' = IF submit.seen = "UPLOADED" THEN "CONFIGURING" ELSE standing
      /\ UNCHANGED <<uploading, stored, job, known, fetch, page, form, started, service, meant,
                     submitted, early, strayed, cancelled, acts>>
  BY DEF Ip!ConfigUpdated, Ip!query, Ip!history
<1>2. submit \in IpSubmits
  BY <1>1 DEF IpInv, IpPage
<1>3. /\ calls' \in [submit : IpSubmits \cup {NoValue}, start : IpStarts, cancel : BOOLEAN]
      /\ calls'.submit.pc = "accepted" /\ calls'.submit.seen = submit.seen
      /\ calls'.submit.configs = submit.configs /\ calls'.submit.meant = submit.meant
      /\ calls'.start = calls.start /\ calls'.cancel = calls.cancel
  <2>1. calls' = [calls EXCEPT !.submit =
                    [calls.submit EXCEPT !.pc = "accepted", !.seen = submit.seen]]
    BY <1>1, <1>2 DEF IpSubmits
  <2>2. submit.seen \in Ip!Status \cup Ip!Terminal \cup {NoValue}
    BY <1>2 DEF IpSubmits
  <2> QED
    BY <1>1, <2>1, <2>2, IpSubmits2
<1>4. IpPage'
  BY <1>1, <1>2, <1>3 DEF IpInv, IpPage
<1>5. IpServer'
  BY <1>1 DEF IpInv, IpServer, Ip!Status
<1>6. ASSUME ~strayed'  PROVE IpFilled'
  BY <1>1, <1>3, <1>6 DEF IpInv, IpFilled
<1>7. ASSUME ~early'  PROVE IpWhole'
  <2>1. IpWhole
    BY <1>1, <1>7 DEF IpInv
  <2>2. submit.seen # "UPLOADED" /\ standing' = standing
    BY <1>1, <2>1 DEF IpWhole
  <2> QED
    BY <1>1, <1>3, <2>1, <2>2 DEF IpWhole, IpConfigured
<1> QED
  BY <1>1, <1>4, <1>5, <1>6, <1>7
     DEF IpInv, IpQuery, IpHistory, IpShape, IpService, IpBadge

LEMMA IpSubmitAnswered ==
  ASSUME Ip!ImportPagesAssumption, IpInv, Ip!SubmitAnswered
  PROVE  IpInv'
<1>1. /\ calls.submit # NoValue /\ calls' = [calls EXCEPT !.submit = NoValue]
      /\ UNCHANGED <<standing, uploading, stored, job, meant, submitted, early, strayed,
                     cancelled, acts, known>>
  BY DEF Ip!SubmitAnswered, Ip!GoTo, Ip!Invalidate, Ip!server, Ip!query, Ip!history
<1>2. /\ calls' \in [submit : IpSubmits \cup {NoValue}, start : IpStarts, cancel : BOOLEAN]
      /\ calls'.submit = NoValue /\ calls'.start = calls.start /\ calls'.cancel = calls.cancel
  BY <1>1 DEF IpInv, IpPage
<1>3. CASE calls.submit.pc = "accepted"
  <2>1. /\ page' = "execute" /\ form' = NoValue /\ service' = NoValue
        /\ started' = (started /\ "execute" = page) /\ fetch' = [got |-> NoValue]
    BY <1>3 DEF Ip!SubmitAnswered, Ip!GoTo, Ip!Invalidate, Ip!Asked
  <2>2. IpServer' /\ IpPage' /\ IpQuery'
    BY <1>1, <1>2, <2>1 DEF IpInv, IpServer, IpPage, IpQuery
  <2>3. ASSUME ~strayed'  PROVE IpFilled'
    BY <1>1, <1>2, <2>1, <2>3 DEF IpInv, IpFilled
  <2>4. ASSUME ~early'  PROVE IpWhole'
    BY <1>1, <1>2, <1>3, <2>1, <2>4 DEF IpInv, IpWhole, IpConfigured
  <2> QED
    BY <1>1, <2>1, <2>2, <2>3, <2>4 DEF IpInv, IpHistory, IpShape, IpService, IpBadge
<1>4. CASE calls.submit.pc # "accepted"
  <2>1. UNCHANGED <<page, form, service, started, fetch>>
    BY <1>4 DEF Ip!SubmitAnswered, Ip!query
  <2>2. IpServer' /\ IpPage' /\ IpQuery'
    BY <1>1, <1>2, <2>1 DEF IpInv, IpServer, IpPage, IpQuery
  <2>3. ASSUME ~strayed'  PROVE IpFilled'
    BY <1>1, <1>2, <2>1, <2>3 DEF IpInv, IpFilled
  <2>4. ASSUME ~early'  PROVE IpWhole'
    BY <1>1, <1>2, <2>1, <2>4 DEF IpInv, IpWhole, IpConfigured
  <2> QED
    BY <1>1, <2>1, <2>2, <2>3, <2>4 DEF IpInv, IpHistory, IpShape, IpService, IpBadge
<1> QED
  BY <1>3, <1>4

\* The start and the cancel of the import.
LEMMA IpCalls ==
  ASSUME Ip!ImportPagesAssumption, IpInv, Ip!AutoStart \/ Ip!Cancel
  PROVE  IpInv'
<1>1. /\ page = "execute"
      /\ UNCHANGED <<standing, uploading, stored, job, known, fetch, page, form, service,
                     meant, submitted, early, strayed, cancelled, acts>>
  BY DEF Ip!AutoStart, Ip!Cancel, Ip!server, Ip!query, Ip!history
<1>2. /\ calls' \in [submit : IpSubmits \cup {NoValue}, start : IpStarts, cancel : BOOLEAN]
      /\ calls'.submit = calls.submit /\ (calls'.start = "checked" => calls.start = "checked")
  BY DEF IpInv, IpPage, IpStarts, Ip!AutoStart, Ip!Cancel
<1>3. started' \in BOOLEAN
  BY DEF IpInv, IpPage, Ip!AutoStart, Ip!Cancel
<1>4. ASSUME ~strayed'  PROVE IpFilled'
  BY <1>1, <1>2, <1>4 DEF IpInv, IpFilled
<1>5. ASSUME ~early'  PROVE IpWhole'
  <2>1. IpWhole /\ IpConfigured
    BY <1>1, <1>5 DEF IpInv, IpWhole
  <2>2. IpConfigured'
    BY <1>1, <2>1 DEF IpConfigured
  <2>3. cancelled' => calls'.start # "checked"
    BY <1>1, <1>2, <2>1 DEF IpWhole
  <2> QED
    BY <1>1, <1>2, <2>1, <2>2, <2>3 DEF IpWhole
<1> QED
  BY <1>1, <1>2, <1>3, <1>4, <1>5
     DEF IpInv, IpServer, IpQuery, IpPage, IpHistory, IpShape, IpService, IpBadge

LEMMA IpCheckStart ==
  ASSUME Ip!ImportPagesAssumption, IpInv, Ip!CheckStart
  PROVE  IpInv'
<1> DEFINE next == IF standing = "CONFIGURING" THEN "checked" ELSE NoValue
<1>1. /\ calls.start = "sent" /\ calls' = [calls EXCEPT !.start = next]
      /\ UNCHANGED <<standing, uploading, stored, job, known, fetch, page, form, started,
                     service, meant, submitted, early, strayed, cancelled, acts>>
  BY DEF Ip!CheckStart, Ip!server, Ip!query, Ip!history
<1>2. next \in IpStarts /\ (next = "checked" => standing = "CONFIGURING")
  BY DEF IpStarts, Ip!ImportPagesAssumption
<1> HIDE DEF next
<1>3. /\ calls' \in [submit : IpSubmits \cup {NoValue}, start : IpStarts, cancel : BOOLEAN]
      /\ calls'.submit = calls.submit /\ calls'.start = next /\ calls'.cancel = calls.cancel
  BY <1>1, <1>2 DEF IpInv, IpPage
<1>4. IpPage'
  BY <1>1, <1>3 DEF IpInv, IpPage
<1>5. ASSUME ~strayed'  PROVE IpFilled'
  BY <1>1, <1>3, <1>5 DEF IpInv, IpFilled
<1>6. ASSUME ~early'  PROVE IpWhole'
  <2>1. IpWhole /\ IpConfigured
    BY <1>1, <1>6 DEF IpInv, IpWhole
  <2>2. cancelled => standing \in Ip!Terminal /\ next # "checked"
    BY <1>2, <2>1 DEF IpWhole, Ip!Terminal
  <2> QED
    BY <1>1, <1>3, <2>1, <2>2 DEF IpWhole, IpConfigured
<1> QED
  BY <1>1, <1>4, <1>5, <1>6 DEF IpInv, IpServer, IpQuery, IpHistory, IpShape, IpService, IpBadge

LEMMA IpStartImport ==
  ASSUME Ip!ImportPagesAssumption, IpInv, Ip!StartImport
  PROVE  IpInv'
<1>1. /\ calls.start = "checked" /\ calls' = [calls EXCEPT !.start = NoValue]
      /\ standing' = "RUNNING" /\ job.waiting < 2
      /\ job' = [job EXCEPT !.waiting = @ + 1] /\ fetch' = [got |-> NoValue]
      /\ UNCHANGED <<uploading, stored, page, form, started, service, meant, submitted, early,
                     strayed, cancelled, acts, known>>
  BY DEF Ip!StartImport, Ip!Invalidate, Ip!Asked, Ip!history
<1>2. /\ calls' \in [submit : IpSubmits \cup {NoValue}, start : IpStarts, cancel : BOOLEAN]
      /\ calls'.submit = calls.submit /\ calls'.start = NoValue /\ calls'.cancel = calls.cancel
  BY <1>1 DEF IpInv, IpPage, IpStarts
<1>3. job' \in [waiting : 0..2, active : BOOLEAN, took : 0..Len(Package)]
  BY <1>1 DEF IpInv, IpServer
<1>4. IpServer' /\ IpQuery' /\ IpPage'
  BY <1>1, <1>2, <1>3 DEF IpInv, IpServer, IpQuery, IpPage, Ip!Status
<1>5. ASSUME ~strayed'  PROVE IpFilled'
  BY <1>1, <1>2, <1>5 DEF IpInv, IpFilled
<1>6. ASSUME ~early'  PROVE IpWhole'
  <2>1. IpWhole /\ IpConfigured /\ ~cancelled
    BY <1>1, <1>6 DEF IpInv, IpWhole
  <2>2. IpConfigured'
    BY <1>1, <2>1 DEF IpConfigured
  <2> QED
    BY <1>1, <1>2, <2>1, <2>2 DEF IpWhole
<1> QED
  BY <1>1, <1>4, <1>5, <1>6 DEF IpInv, IpHistory, IpShape, IpService, IpBadge

LEMMA IpCancelImport ==
  ASSUME Ip!ImportPagesAssumption, IpInv, Ip!CancelImport
  PROVE  IpInv'
<1>1. /\ calls.cancel /\ calls' = [calls EXCEPT !.cancel = FALSE]
      /\ standing' = "CANCELLED" /\ fetch' = [got |-> NoValue]
      /\ cancelled' = (cancelled \/ calls.start # "checked")
      /\ UNCHANGED <<uploading, stored, job, page, form, started, service, meant, submitted,
                     early, strayed, acts, known>>
  BY DEF Ip!CancelImport, Ip!Invalidate, Ip!Asked
<1>2. /\ calls' \in [submit : IpSubmits \cup {NoValue}, start : IpStarts, cancel : BOOLEAN]
      /\ calls'.submit = calls.submit /\ calls'.start = calls.start /\ calls'.cancel = FALSE
  BY <1>1 DEF IpInv, IpPage
<1>3. IpServer' /\ IpQuery' /\ IpPage' /\ IpHistory'
  BY <1>1, <1>2 DEF IpInv, IpServer, IpQuery, IpPage, IpHistory, Ip!Terminal
<1>4. ASSUME ~strayed'  PROVE IpFilled'
  BY <1>1, <1>2, <1>4 DEF IpInv, IpFilled
<1>5. ASSUME ~early'  PROVE IpWhole'
  <2>1. IpConfigured
    BY <1>1, <1>5 DEF IpInv, IpWhole
  <2>2. IpConfigured'
    BY <1>1, <2>1 DEF IpConfigured
  <2>3. cancelled' => calls'.start # "checked"
    BY <1>1, <1>2, <1>5 DEF IpInv, IpWhole
  <2> QED
    BY <1>1, <1>2, <1>5, <2>2, <2>3 DEF IpInv, IpWhole, Ip!Terminal
<1> QED
  BY <1>1, <1>3, <1>4, <1>5 DEF IpInv, IpShape, IpService, IpBadge

LEMMA IpSteps ==
  ASSUME Ip!ImportPagesAssumption, IpInv, [Ip!Next]_(Ip!vars)
  PROVE  IpInv'
<1>1. CASE UNCHANGED Ip!vars
  <2>1. UNCHANGED <<standing, uploading, stored, job, known, fetch, page, form, calls, started,
                    service, meant, submitted, early, strayed, cancelled, acts>>
    BY <1>1 DEF Ip!vars, Ip!server, Ip!query, Ip!history
  <2> QED
    BY <2>1 DEF IpInv, IpServer, IpQuery, IpPage, IpHistory, IpShape, IpFilled, IpWhole,
                IpConfigured, IpService, IpBadge
<1>2. CASE Ip!Next
  BY Zenon, <1>2, IpQueries, IpServices, IpChoose, IpUploaded, IpInsertItem, IpJobs, IpGoes,
     IpFill, IpShowItem, IpEdit, IpHandleSubmit, IpCheckConfig, IpUpdateConfig, IpConfigUpdated,
     IpSubmitAnswered, IpCalls, IpCheckStart, IpStartImport, IpCancelImport
     DEF Ip!Next
<1> QED
  BY <1>1, <1>2

LEMMA IpKeeps ==
  ASSUME Ip!ImportPagesAssumption, IpInv
  PROVE  /\ Ip!TypeOK /\ Ip!ConfiguredAsMeant /\ Ip!ImportedAsShown
         /\ Ip!StaysCancelled /\ Ip!BadgeHonest
<1>1. Ip!TypeOK
  <2>1. \A i \in DOMAIN stored : stored[i] \in Ip!Env \cup {NoValue}
    BY DEF IpInv, IpServer
  <2>2. form # NoValue =>
          /\ \A i \in DOMAIN form.configs : form.configs[i] \in Ip!Env
          /\ form.index \in Ip!Items /\ form.mapper \in Ip!Env \cup {NoValue}
    BY DEF IpInv, IpShape, IpForms
  <2>3. /\ calls.submit # NoValue => 
             calls.submit.pc \in {"sent", "checked", "written", "accepted", "refused"}
        /\ calls.start \in {NoValue, "sent", "checked"} /\ calls.cancel \in BOOLEAN
    BY DEF IpInv, IpPage, IpSubmits, IpStarts
  <2>4. \A i \in Ip!Items : meant[i] \in Ip!Env /\ submitted[i] \in Ip!Env \cup {NoValue}
    BY DEF IpInv, IpHistory
  <2> QED
    BY <2>1, <2>2, <2>3, <2>4
       DEF Ip!TypeOK, IpInv, IpServer, IpQuery, IpPage, IpHistory, IpService
<1>2. Ip!ConfiguredAsMeant
  BY DEF Ip!ConfiguredAsMeant, IpInv, IpFilled
<1>3. Ip!ImportedAsShown
  <2>1. ASSUME ~early, NEW i \in 1..job.took  PROVE stored[i] # NoValue
    <3>1. job.took \in 0..Len(Package) /\ job.took > 0
      BY IpPackage DEF IpInv, IpServer
    <3>2. IpConfigured
      BY <2>1, <3>1 DEF IpInv, IpWhole
    <3>3. stored \in Seq(Ip!Env \cup {NoValue}) /\ Len(stored) = Len(Package)
      BY <3>2 DEF IpInv, IpServer, IpConfigured
    <3>4. i \in DOMAIN stored
      BY <3>1, <3>3, IpPackage
    <3> QED
      BY <3>2, <3>4 DEF IpConfigured
  <2> QED
    BY <2>1 DEF Ip!ImportedAsShown
<1>4. Ip!StaysCancelled /\ Ip!BadgeHonest
  BY DEF Ip!StaysCancelled, Ip!BadgeHonest, IpInv, IpWhole, IpBadge
<1> QED
  BY <1>1, <1>2, <1>3, <1>4

(***************************************************************************)
(* For every package, any order of the requests and answers of the pages,  *)
(* and however often they are left: what is stored of an item is what the  *)
(* user meant at the submission, no item that was shown runs unconfigured, *)
(* a cancelled import runs again only where a start had looked at its      *)
(* status before the cancel, and the badge of a connection is of the       *)
(* fields that were tested, each under the stated proviso.                 *)
(***************************************************************************)
THEOREM ImportPagesAreHonest ==
  Ip!ImportPagesAssumption /\ Ip!Spec =>
    [](/\ Ip!TypeOK /\ Ip!ConfiguredAsMeant /\ Ip!ImportedAsShown
       /\ Ip!StaysCancelled /\ Ip!BadgeHonest)
<1> SUFFICES ASSUME Ip!ImportPagesAssumption
             PROVE  Ip!Spec => [](/\ Ip!TypeOK /\ Ip!ConfiguredAsMeant /\ Ip!ImportedAsShown
                                  /\ Ip!StaysCancelled /\ Ip!BadgeHonest)
  OBVIOUS
<1>1. Ip!Init => IpInv
  BY IpStart
<1>2. IpInv /\ [Ip!Next]_(Ip!vars) => IpInv'
  BY IpSteps
<1>3. IpInv => /\ Ip!TypeOK /\ Ip!ConfiguredAsMeant /\ Ip!ImportedAsShown
               /\ Ip!StaysCancelled /\ Ip!BadgeHonest
  BY IpKeeps
<1> QED
  BY <1>1, <1>2, <1>3, PTL DEF Ip!Spec

----------------------------------------------------------------------------
(* The storage browser.                                                    *)

SbBounds ==
  /\ FolderDepth \in Nat /\ BrowserUploads \in Nat /\ BrowserChanges \in Nat
  /\ "mark" \notin FolderNames /\ "f" \notin FolderNames

LEMMA SbCancel ==
  ASSUME NEW S, NEW s \in Seq(S), NEW t \in Seq(S), NEW v \in Seq(S), s \o t = s \o v
  PROVE  t = v
  BY ConcatSimplifications

\* What the parts of a key are.
SbPart == FolderNames \cup {"f", "mark"}

LEMMA SbPrefixShape ==
  ASSUME SbBounds, NEW p
  PROVE  p \in Sb!Prefix <=> p \in Seq(FolderNames) /\ Len(p) <= FolderDepth
<1>1. ASSUME p \in Sb!Prefix
      PROVE  p \in Seq(FolderNames) /\ Len(p) <= FolderDepth
  <2>1. PICK n \in 0..FolderDepth : p \in [1..n -> FolderNames]
    BY <1>1 DEF Sb!Prefix
  <2>2. n \in Nat /\ n <= FolderDepth
    BY <2>1 DEF SbBounds
  <2>3. p \in Seq(FolderNames)
    BY <2>1, <2>2, SeqDef
  <2>4. Len(p) \in Nat /\ DOMAIN p = 1..Len(p)
    BY <2>3, LenProperties
  <2>5. DOMAIN p = 1..n
    BY <2>1
  <2>6. Len(p) = n
    <3> DEFINE l == Len(p)
    <3>1. l \in Nat /\ n \in Nat /\ 1..l = 1..n
      BY <2>2, <2>4, <2>5
    <3> HIDE DEF l
    <3>2. l = n
      BY <3>1
    <3> QED
      BY <3>2 DEF l
  <2> QED
    BY <2>2, <2>3, <2>6
<1>2. ASSUME p \in Seq(FolderNames), Len(p) <= FolderDepth
      PROVE  p \in Sb!Prefix
  <2>1. Len(p) \in Nat /\ p \in [1..Len(p) -> FolderNames]
    BY <1>2, LenProperties
  <2>2. Len(p) \in 0..FolderDepth
    <3>1. Len(p) \in Nat /\ Len(p) <= FolderDepth
      BY <1>2, <2>1
    <3> QED
      BY <3>1 DEF SbBounds
  <2> QED
    BY <2>1, <2>2 DEF Sb!Prefix
<1> QED
  BY <1>1, <1>2

\* A key is a prefix and a name, and is no prefix.
LEMMA SbKeyShape ==
  ASSUME SbBounds, NEW key \in Sb!Key
  PROVE  \E p \in Sb!Prefix, name \in {"f", "mark"} :
           /\ key = p \o <<name>> /\ p \in Seq(SbPart) /\ <<name>> \in Seq(SbPart)
           /\ Len(p) \in Nat /\ Len(key) = Len(p) + 1 /\ Len(key) <= FolderDepth + 1
           /\ key \in Seq(SbPart) /\ key[Len(key)] = name /\ key \notin Seq(FolderNames)
<1>1. PICK p \in Sb!Prefix, name \in {"f", "mark"} : key = p \o <<name>>
  BY DEF Sb!Key
<1>2. p \in Seq(FolderNames) /\ Len(p) <= FolderDepth
  BY SbPrefixShape
<1>3. p \in Seq(SbPart) /\ Len(p) \in Nat
  BY <1>2, SeqMonotonic, LenProperties DEF SbPart
<1>4. name \in SbPart /\ name \notin FolderNames
  BY DEF SbPart, SbBounds
<1>5. <<name>> \in Seq(SbPart) /\ Len(<<name>>) = 1 /\ <<name>>[1] = name
  BY <1>4
<1>6. /\ key \in Seq(SbPart) /\ Len(key) = Len(p) + 1
      /\ \A i \in 1..Len(p) + 1 : key[i] = IF i <= Len(p) THEN p[i] ELSE <<name>>[i - Len(p)]
  <2> HIDE <1>1, <1>5
  <2>1. Len(<<name>>) = 1
    BY <1>5
  <2> QED
    BY <1>1, <1>3, <1>5, <2>1, ConcatProperties
<1>7. key[Len(key)] = name
  <2>1. Len(key) \in 1..Len(p) + 1 /\ ~(Len(key) <= Len(p)) /\ Len(key) - Len(p) = 1
    BY <1>3, <1>6
  <2> QED
    BY <1>5, <1>6, <2>1
<1>8. key \notin Seq(FolderNames)
  <2> SUFFICES ASSUME key \in Seq(FolderNames)  PROVE FALSE
    OBVIOUS
  <2>1. Len(key) \in 1..Len(key)
    BY <1>3, <1>6
  <2>2. key[Len(key)] \in FolderNames
    BY <2>1, ElementOfSeq
  <2> QED
    BY <1>4, <1>7, <2>2
<1>9. Len(key) <= FolderDepth + 1
  BY <1>2, <1>3, <1>6 DEF SbBounds
<1> QED
  BY <1>1, <1>3, <1>5, <1>6, <1>7, <1>8, <1>9

LEMMA SbKeyMade ==
  ASSUME SbBounds, NEW p \in Sb!Prefix, NEW name \in {"f", "mark"}
  PROVE  Append(p, name) \in Sb!Key
<1>1. p \in Seq(FolderNames) /\ name \in SbPart
  BY SbPrefixShape DEF SbPart
<1>2. p \in Seq(SbPart)
  BY <1>1, SeqMonotonic DEF SbPart
<1>3. Append(p, name) = p \o <<name>>
  BY <1>1, <1>2, AppendIsConcat
<1> QED
  BY <1>3 DEF Sb!Key

\* What is left of a key under a prefix, and the key with another prefix.
LEMMA SbRest ==
  ASSUME SbBounds, NEW key \in Sb!Key, NEW from \in Sb!Prefix, Sb!IsPrefix(from, key)
  PROVE  LET rest == SubSeq(key, Len(from) + 1, Len(key))
         IN  /\ key = from \o rest /\ rest \in Seq(SbPart)
             /\ \E p \in Seq(FolderNames), name \in {"f", "mark"} :
                  rest = p \o <<name>> /\ Len(rest) = Len(p) + 1
<1> DEFINE rest == SubSeq(key, Len(from) + 1, Len(key))
<1>1. PICK p \in Sb!Prefix, name \in {"f", "mark"} :
        /\ key = p \o <<name>> /\ p \in Seq(SbPart) /\ <<name>> \in Seq(SbPart)
        /\ Len(p) \in Nat /\ Len(key) = Len(p) + 1 /\ Len(key) <= FolderDepth + 1
        /\ key \in Seq(SbPart) /\ key[Len(key)] = name /\ key \notin Seq(FolderNames)
  BY SbKeyShape
<1>2. from \in Seq(FolderNames) /\ from \in Seq(SbPart) /\ Len(from) \in Nat
  BY SbPrefixShape, SeqMonotonic, LenProperties DEF SbPart
<1>3. Len(from) <= Len(key) /\ SubSeq(from, 1, Len(from)) = SubSeq(key, 1, Len(from))
  BY DEF Sb!IsPrefix
<1>4. SubSeq(key, 1, Len(from)) = from
  BY <1>2, <1>3, SubSeqFull
<1>5. SubSeq(key, 1, Len(from)) \o rest = SubSeq(key, 1, Len(key))
  <2>1. /\ 1 \in 1..Len(key) + 1 /\ Len(from) \in 1 - 1..Len(key)
        /\ Len(key) \in Len(from)..Len(key)
    BY <1>1, <1>2, <1>3
  <2> QED
    BY <1>1, <2>1, ConcatAdjacentSubSeq
<1>6. key = from \o rest
  BY <1>1, <1>4, <1>5, SubSeqFull
<1>7. Len(from) # Len(key)
  <2> SUFFICES ASSUME Len(from) = Len(key)  PROVE FALSE
    OBVIOUS
  <2>1. key = from
    BY <1>1, <1>4, SubSeqFull
  <2> QED
    BY <1>1, <1>2, <2>1
<1>8. Len(from) <= Len(p)
  BY <1>1, <1>2, <1>3, <1>7
<1> DEFINE q == SubSeq(p, Len(from) + 1, Len(p))
<1>9. rest = q \o <<name>>
  <2>1. SubSeq(p, 1, Len(from)) = from
    <3>1. CASE Len(from) = 0
      <4>1. from = <<>>
        BY <1>2, <3>1, EmptySeq
      <4>2. SubSeq(p, 1, Len(from)) = <<>>
        BY <3>1, SubSeqEmpty
      <4> QED
        BY <4>1, <4>2
    <3>2. CASE Len(from) # 0
      <4>1. 1 \in 1..Len(p) /\ Len(from) \in 1..Len(p)
        BY <1>1, <1>2, <1>8, <3>2
      <4>2. SubSeq(key, 1, Len(from)) = SubSeq(p, 1, Len(from))
        BY <1>1, <4>1, SubSeqOfConcat1
      <4> QED
        BY <1>4, <4>2
    <3> QED
      BY <3>1, <3>2
  <2>2. from \o q = p
    <3>1. /\ 1 \in 1..Len(p) + 1 /\ Len(from) \in 1 - 1..Len(p)
          /\ Len(p) \in Len(from)..Len(p)
      BY <1>1, <1>2, <1>8
    <3>2. SubSeq(p, 1, Len(from)) \o q = SubSeq(p, 1, Len(p))
      BY <1>1, <3>1, ConcatAdjacentSubSeq
    <3> QED
      BY <1>1, <2>1, <3>2, SubSeqFull
  <2>3. q \in Seq(SbPart)
    <3>1. \A i \in Len(from) + 1..Len(p) : p[i] \in SbPart
      <4> TAKE i \in Len(from) + 1..Len(p)
      <4>1. i \in 1..Len(p)
        BY <1>1, <1>2
      <4> QED
        BY <1>1, <4>1, ElementOfSeq
    <3>2. Len(from) + 1 \in Int /\ Len(p) \in Int
      BY <1>1, <1>2
    <3> QED
      BY <3>1, <3>2, SubSeqProperties
  <2>4. key = from \o (q \o <<name>>)
    <3>1. key = (from \o q) \o <<name>>
      BY <1>1, <2>2
    <3> HIDE DEF q
    <3>2. (from \o q) \o <<name>> = from \o (q \o <<name>>)
      BY <1>1, <1>2, <2>3, ConcatAssociative
    <3> QED
      BY <3>1, <3>2
  <2>5. q \o <<name>> \in Seq(SbPart)
    BY <1>1, <2>3, ConcatProperties
  <2>6. rest \in Seq(SbPart)
    <3>1. \A i \in Len(from) + 1..Len(key) : key[i] \in SbPart
      <4> TAKE i \in Len(from) + 1..Len(key)
      <4>1. i \in 1..Len(key)
        BY <1>1, <1>2
      <4> QED
        BY <1>1, <4>1, ElementOfSeq
    <3>2. Len(from) + 1 \in Int /\ Len(key) \in Int
      BY <1>1, <1>2
    <3> QED
      BY <3>1, <3>2, SubSeqProperties
  <2> HIDE DEF rest, q
  <2> QED
    BY <1>2, <1>6, <2>4, <2>5, <2>6, SbCancel
<1>10. q \in Seq(FolderNames)
  <2>1. \A i \in Len(from) + 1..Len(p) : p[i] \in FolderNames
    <3> TAKE i \in Len(from) + 1..Len(p)
    <3>1. i \in 1..Len(p)
      BY <1>1, <1>2
    <3>2. p \in Seq(FolderNames)
      BY SbPrefixShape
    <3> QED
      BY <3>1, <3>2, ElementOfSeq
  <2>2. Len(from) + 1 \in Int /\ Len(p) \in Int
    BY <1>1, <1>2
  <2> QED
    BY <2>1, <2>2, SubSeqProperties
<1>11. q \in Seq(SbPart) /\ Len(<<name>>) = 1
  BY <1>10, SeqMonotonic DEF SbPart
<1>12. rest \in Seq(SbPart) /\ Len(rest) = Len(q) + 1
  <2> HIDE DEF rest, q
  <2> QED
    BY <1>1, <1>9, <1>11, ConcatProperties
<1> HIDE DEF rest, q
<1>13. \E p_ \in Seq(FolderNames), n_ \in {"f", "mark"} :
         rest = p_ \o <<n_>> /\ Len(rest) = Len(p_) + 1
  BY <1>9, <1>10, <1>12
<1> QED
  BY <1>6, <1>12, <1>13 DEF rest

LEMMA SbNewKeyMade ==
  ASSUME SbBounds, NEW request, NEW key \in Sb!Key, request.from \in Sb!Prefix,
         request.to \in Sb!Prefix, Sb!IsPrefix(request.from, key),
         Len(Sb!NewKey(request, key)) <= FolderDepth + 1
  PROVE  Sb!NewKey(request, key) \in Sb!Key
<1> DEFINE to == request.to
           rest == SubSeq(key, Len(request.from) + 1, Len(key))
<1>1. PICK p \in Seq(FolderNames), name \in {"f", "mark"} :
        rest = p \o <<name>> /\ Len(rest) = Len(p) + 1
  BY SbRest
<1>2. to \in Seq(FolderNames)
  BY SbPrefixShape
<1>3. Sb!NewKey(request, key) = to \o rest
  BY DEF Sb!NewKey
<1>4. /\ to \in Seq(SbPart) /\ p \in Seq(SbPart) /\ <<name>> \in Seq(SbPart)
      /\ Len(<<name>>) = 1
  BY <1>1, <1>2, SeqMonotonic DEF SbPart
<1> HIDE DEF to, rest
<1> DEFINE q == to \o p
<1>5. q \in Seq(FolderNames) /\ q \in Seq(SbPart) /\ Len(q) \in Nat
  BY <1>1, <1>2, <1>4, ConcatProperties, LenProperties
<1>6. to \o rest = q \o <<name>>
  BY <1>1, <1>4, ConcatAssociative
<1> HIDE DEF q
<1>7. Len(q \o <<name>>) = Len(q) + 1
  BY <1>4, <1>5, ConcatProperties
<1>8. Len(q) <= FolderDepth
  BY <1>3, <1>5, <1>6, <1>7 DEF SbBounds
<1>9. q \in Sb!Prefix
  BY <1>5, <1>8, SbPrefixShape
<1> QED
  <2>1. Sb!NewKey(request, key) = q \o <<name>> /\ name \in {"f", "mark"}
    BY <1>1, <1>3, <1>6
  <2>2. name \in SbPart
    BY <2>1 DEF SbPart
  <2>3. Append(q, name) = q \o <<name>>
    BY <1>5, <2>2, AppendIsConcat
  <2>4. Append(q, name) \in Sb!Key
    BY <1>9, <2>1, SbKeyMade
  <2> QED
    BY <2>1, <2>3, <2>4

\* A move gives two keys two new keys.
LEMMA SbNewKeysDiffer ==
  ASSUME SbBounds, NEW request, NEW a \in Sb!Key, NEW b \in Sb!Key,
         request.from \in Sb!Prefix, request.to \in Sb!Prefix,
         Sb!IsPrefix(request.from, a), Sb!IsPrefix(request.from, b),
         Sb!NewKey(request, a) = Sb!NewKey(request, b)
  PROVE  a = b
<1> DEFINE from == request.from
           to == request.to
           s == SubSeq(a, Len(from) + 1, Len(a))
           t == SubSeq(b, Len(from) + 1, Len(b))
<1>1. a = from \o s /\ s \in Seq(SbPart)
  BY SbRest
<1>2. b = from \o t /\ t \in Seq(SbPart)
  BY SbRest
<1>3. to \in Seq(SbPart)
  BY SbPrefixShape, SeqMonotonic DEF SbPart
<1>4. to \o s = to \o t
  BY DEF Sb!NewKey
<1> HIDE DEF from, to, s, t
<1>5. s = t
  BY <1>1, <1>2, <1>3, <1>4, SbCancel
<1> QED
  BY <1>1, <1>2, <1>5

LEMMA SbPrefixPart ==
  ASSUME SbBounds, NEW p \in Sb!Prefix, NEW n \in Nat, n <= Len(p)
  PROVE  SubSeq(p, 1, n) \in Sb!Prefix /\ Len(SubSeq(p, 1, n)) = n
<1>1. p \in Seq(FolderNames) /\ Len(p) \in Nat /\ Len(p) <= FolderDepth
  BY SbPrefixShape, LenProperties
<1>2. \A i \in 1..n : p[i] \in FolderNames
  <2> TAKE i \in 1..n
  <2>1. i \in 1..Len(p)
    BY <1>1
  <2> QED
    BY <1>1, <2>1, ElementOfSeq
<1>3. 1 \in Int /\ n \in Int
  OBVIOUS
<1>4. /\ SubSeq(p, 1, n) \in Seq(FolderNames)
      /\ Len(SubSeq(p, 1, n)) = IF 1 <= n THEN n - 1 + 1 ELSE 0
  BY <1>2, <1>3, SubSeqProperties
<1>5. Len(SubSeq(p, 1, n)) = n
  BY <1>4
<1>6. n <= FolderDepth
  BY <1>1 DEF SbBounds
<1> QED
  BY <1>4, <1>5, <1>6, SbPrefixShape

LEMMA SbFrontLast ==
  ASSUME SbBounds, NEW p \in Sb!Prefix \ {<<>>}
  PROVE  /\ Sb!Last(p) \in FolderNames
         /\ Sb!Front(p) \in Sb!Prefix /\ Len(Sb!Front(p)) < FolderDepth
<1>1. p \in Seq(FolderNames) /\ Len(p) \in Nat /\ Len(p) <= FolderDepth
  BY SbPrefixShape, LenProperties
<1>2. Len(p) # 0
  BY <1>1, EmptySeq
<1>3. Len(p) \in 1..Len(p) /\ Len(p) - 1 \in Nat /\ Len(p) - 1 <= Len(p)
  BY <1>1, <1>2
<1>4. p[Len(p)] \in FolderNames
  BY <1>1, <1>3, ElementOfSeq
<1>5. /\ SubSeq(p, 1, Len(p) - 1) \in Sb!Prefix
      /\ Len(SubSeq(p, 1, Len(p) - 1)) = Len(p) - 1
  BY <1>3, SbPrefixPart
<1>6. Len(p) - 1 < FolderDepth
  BY <1>1 DEF SbBounds
<1> QED
  BY <1>4, <1>5, <1>6 DEF Sb!Last, Sb!Front

LEMMA SbPrefixMade ==
  ASSUME SbBounds, NEW p \in Sb!Prefix, Len(p) < FolderDepth, NEW name \in FolderNames
  PROVE  Append(p, name) \in Sb!Prefix
<1>1. p \in Seq(FolderNames) /\ Len(p) \in Nat
  BY SbPrefixShape, LenProperties
<1>2. Append(p, name) \in Seq(FolderNames) /\ Len(Append(p, name)) = Len(p) + 1
  BY <1>1, AppendProperties
<1>3. Len(p) + 1 <= FolderDepth
  BY <1>1 DEF SbBounds
<1> QED
  BY <1>2, <1>3, SbPrefixShape

\* A folder made by hand.
LEMMA SbMarkMade ==
  ASSUME SbBounds, NEW p \in Sb!Prefix, Len(p) < FolderDepth, NEW name \in FolderNames
  PROVE  Append(Append(p, name), "mark") \in Sb!Key
  BY SbPrefixMade, SbKeyMade

LEMMA SbEntriesMade ==
  ASSUME SbBounds, DOMAIN stored \subseteq Sb!Key, NEW path \in Sb!Prefix
  PROVE  Sb!Entries(path) \subseteq Sb!Entry
<1> DEFINE below == Sb!Under(path)
           n == Len(path) + 1
<1>1. below \subseteq Sb!Key
  BY DEF Sb!Under
<1>2. n \in Nat /\ n # 0
  BY SbPrefixShape, LenProperties
<1>3. ASSUME NEW key \in below, Len(key) > n
      PROVE  SubSeq(key, 1, n) \in Sb!Prefix \ {<<>>}
  <2>1. PICK p \in Sb!Prefix, name \in {"f", "mark"} :
          /\ key = p \o <<name>> /\ p \in Seq(SbPart) /\ <<name>> \in Seq(SbPart)
          /\ Len(p) \in Nat /\ Len(key) = Len(p) + 1
    BY <1>1, <1>3, SbKeyShape
  <2>2. n <= Len(p)
    BY <1>2, <1>3, <2>1
  <2>3. 1 \in 1..Len(p) /\ n \in 1..Len(p)
    BY <1>2, <2>1, <2>2
  <2>4. SubSeq(key, 1, n) = SubSeq(p, 1, n)
    BY <2>1, <2>3, SubSeqOfConcat1
  <2>5. SubSeq(p, 1, n) \in Sb!Prefix /\ Len(SubSeq(p, 1, n)) = n
    BY <1>2, <2>2, SbPrefixPart
  <2>6. Len(<<>>) = 0
    OBVIOUS
  <2> HIDE DEF n
  <2> QED
    BY <1>2, <2>4, <2>5, <2>6
<1> HIDE DEF n, below
<1>4. Sb!Entries(path)
        = {[folder |-> FALSE, path |-> key] :
             key \in {k \in below : Len(k) = n /\ Sb!Last(k) # "mark"}}
          \cup {[folder |-> TRUE, path |-> f] :
             f \in {SubSeq(key, 1, n) : key \in {deep \in below : Len(deep) > n}}}
  BY DEF Sb!Entries, below, n
<1>5. \A key \in {k \in below : Len(k) = n /\ Sb!Last(k) # "mark"} :
        [folder |-> FALSE, path |-> key] \in Sb!Entry
  BY <1>1 DEF Sb!Entry
<1>6. \A f \in {SubSeq(key, 1, n) : key \in {deep \in below : Len(deep) > n}} :
        [folder |-> TRUE, path |-> f] \in Sb!Entry
  BY <1>3 DEF Sb!Entry
<1> QED
  BY <1>4, <1>5, <1>6

\* A request under way: what it has listed, and the kind that comes there.
SbShape(q) ==
  /\ q.at \notin {"copy", "remove"} => q.keys = {}
  /\ q.at = "copy" =>
       /\ q.kind = "move"
       /\ \A key \in q.keys :
            Sb!IsPrefix(q.from, key) /\ Sb!NewKey(q, key) \in Sb!Key
  /\ q.at = "remove" => q.kind # "move"
  /\ q.at # "copy" => q.left = {}

SbOps == \A u \in Browsers : SbShape(calls[u])

\* No two requests have a key in common.
SbApart ==
  \A u \in Browsers : \A v \in Browsers \ {u} :
    Sb!Footprint(calls[u]) \cap Sb!Footprint(calls[v]) = {}

\* A move copies to keys that it does not remove, and what it has copied is there.
SbFresh ==
  \A u \in Browsers : calls[u].at = "copy" =>
    \A key \in calls[u].keys : Sb!NewKey(calls[u], key) \notin calls[u].keys

SbCopied ==
  \A u \in Browsers : calls[u].at = "copy" =>
    \A key \in (calls[u].keys \ calls[u].left) \cap DOMAIN stored :
      /\ Sb!NewKey(calls[u], key) \in DOMAIN stored
      /\ stored[Sb!NewKey(calls[u], key)] = stored[key]

SbKept ==
  \A upload \in 1..starts :
    upload \in lost \/ \E key \in DOMAIN stored : stored[key] = upload

SbSafe == ~strayed /\ ~unfinished => SbApart /\ SbFresh /\ SbCopied /\ SbKept

SbInv == Sb!TypeOK /\ SbOps /\ SbSafe

LEMMA SbMovesKept ==
  ASSUME SbInv  PROVE Sb!MovesKeepObjects
<1> SUFFICES ASSUME ~strayed, ~unfinished, NEW upload \in 1..starts
             PROVE  upload \in lost \cup Sb!Contents(DOMAIN stored)
  BY DEF Sb!MovesKeepObjects
<1>1. upload \in lost \/ \E key \in DOMAIN stored : stored[key] = upload
  BY DEF SbInv, SbSafe, SbKept
<1>2. upload # 0
  BY DEF SbInv, Sb!TypeOK
<1> QED
  BY <1>1, <1>2 DEF Sb!Contents

\* What the requests under way are after a step of one of them.
LEMMA SbOpsStep ==
  ASSUME Sb!TypeOK, SbOps, NEW u \in Browsers, NEW r \in Sb!Request, r.left \subseteq r.keys,
         SbShape(r), calls' = [calls EXCEPT ![u] = r]
  PROVE  /\ calls' \in [Browsers -> Sb!Request]
         /\ \A v \in Browsers : calls'[v].left \subseteq calls'[v].keys
         /\ SbOps'
<1>1. calls \in [Browsers -> Sb!Request]
  BY DEF Sb!TypeOK
<1>2. \A v \in Browsers : calls'[v] = IF v = u THEN r ELSE calls[v]
  BY <1>1
<1>3. calls' \in [Browsers -> Sb!Request]
  BY <1>1
<1>4. \A v \in Browsers : calls'[v].left \subseteq calls'[v].keys
  BY <1>2 DEF Sb!TypeOK
<1>5. ASSUME NEW v \in Browsers  PROVE SbShape(calls'[v])
  <2>1. CASE v = u
    BY <1>2, <2>1
  <2>2. CASE v # u
    <3>1. SbShape(calls[v])
      BY DEF SbOps
    <3>2. calls'[v] = calls[v]
      BY <1>2, <2>2
    <3> QED
      BY <3>1, <3>2
  <2> QED
    BY <2>1, <2>2
<1>6. SbOps'
  BY <1>5 DEF SbOps, SbShape, Sb!NewKey
<1> QED
  BY <1>3, <1>4, <1>6

LEMMA SbApartStep ==
  ASSUME Sb!TypeOK, SbApart, NEW u \in Browsers, NEW r, calls' = [calls EXCEPT ![u] = r],
         \A v \in Browsers \ {u} : Sb!Footprint(calls[v]) \cap Sb!Footprint(r) = {}
  PROVE  SbApart'
<1>1. \A v \in Browsers : calls'[v] = IF v = u THEN r ELSE calls[v]
  BY DEF Sb!TypeOK
<1> SUFFICES ASSUME NEW v \in Browsers, NEW w \in Browsers \ {v}
             PROVE  Sb!Footprint(calls'[v]) \cap Sb!Footprint(calls'[w]) = {}
  BY DEF SbApart, Sb!Footprint, Sb!NewKey
<1>2. CASE v = u
  <2>1. calls'[v] = r /\ calls'[w] = calls[w] /\ w \in Browsers \ {u}
    BY <1>1, <1>2
  <2> QED
    BY <2>1
<1>3. CASE w = u
  <2>1. calls'[w] = r /\ calls'[v] = calls[v] /\ v \in Browsers \ {u}
    BY <1>1, <1>3
  <2> QED
    BY <2>1
<1>4. CASE v # u /\ w # u
  <2>1. calls'[w] = calls[w] /\ calls'[v] = calls[v]
    BY <1>1, <1>4
  <2> QED
    BY <2>1 DEF SbApart
<1> QED
  BY <1>2, <1>3, <1>4

\* A request starts, lists, fails or ends, and the bucket is as it was.
LEMMA SbSafeOps ==
  ASSUME SbInv, NEW u \in Browsers, NEW r \in Sb!Request, calls' = [calls EXCEPT ![u] = r],
         UNCHANGED <<stored, starts, lost>>,
         ~strayed' /\ ~unfinished' =>
           /\ ~strayed /\ ~unfinished
           /\ \A v \in Browsers \ {u} : Sb!Footprint(calls[v]) \cap Sb!Footprint(r) = {}
           /\ r.at = "copy" =>
                r.left = r.keys /\ \A key \in r.keys : Sb!NewKey(r, key) \notin r.keys
  PROVE  SbSafe'
<1> SUFFICES ASSUME ~strayed', ~unfinished'
             PROVE  SbApart' /\ SbFresh' /\ SbCopied' /\ SbKept'
  BY DEF SbSafe
<1>1. Sb!TypeOK /\ SbApart /\ SbFresh /\ SbCopied /\ SbKept
  BY DEF SbInv, SbSafe
<1>2. \A v \in Browsers : calls'[v] = IF v = u THEN r ELSE calls[v]
  BY <1>1 DEF Sb!TypeOK
<1>3. SbApart'
  BY <1>1, SbApartStep
<1>4. SbFresh'
  <2> SUFFICES ASSUME NEW v \in Browsers, calls'[v].at = "copy", NEW key \in calls'[v].keys
               PROVE  Sb!NewKey(calls'[v], key) \notin calls'[v].keys
    BY DEF SbFresh, Sb!NewKey
  <2>1. CASE v = u
    <3>1. calls'[v] = r
      BY <1>2, <2>1
    <3> QED
      BY <3>1
  <2>2. CASE v # u
    <3>1. calls'[v] = calls[v]
      BY <1>2, <2>2
    <3> QED
      BY <1>1, <3>1 DEF SbFresh
  <2> QED
    BY <2>1, <2>2
<1>5. SbCopied'
  <2> SUFFICES ASSUME NEW v \in Browsers, calls'[v].at = "copy",
                      NEW key \in (calls'[v].keys \ calls'[v].left) \cap DOMAIN stored
               PROVE  /\ Sb!NewKey(calls'[v], key) \in DOMAIN stored
                      /\ stored[Sb!NewKey(calls'[v], key)] = stored[key]
    BY DEF SbCopied, Sb!NewKey
  <2>1. CASE v = u
    <3>1. calls'[v] = r
      BY <1>2, <2>1
    <3> QED
      BY <3>1
  <2>2. CASE v # u
    <3>1. calls'[v] = calls[v]
      BY <1>2, <2>2
    <3> QED
      BY <1>1, <3>1 DEF SbCopied
  <2> QED
    BY <2>1, <2>2
<1>6. SbKept'
  BY <1>1 DEF SbKept
<1> QED
  BY <1>3, <1>4, <1>5, <1>6

LEMMA SbFootprintOf ==
  ASSUME NEW q, SbShape(q)
  PROVE  /\ q.keys \subseteq Sb!Footprint(q)
         /\ q.at = "copy" => \A key \in q.keys : Sb!NewKey(q, key) \in Sb!Footprint(q)
         /\ q.keys = {} => Sb!Footprint(q) = {}
         /\ q.kind # "move" => Sb!Footprint(q) = q.keys
  BY DEF SbShape, Sb!Footprint

\* An object is put where no request of another user is.
LEMMA SbSafePut ==
  ASSUME SbInv, NEW u \in Browsers, calls[u] = Sb!Idle, calls' = calls,
         NEW key, NEW content \in Nat, Sb!Put(u, key, content),
         strayed' = (strayed \/ Sb!Meets(u, {key})), unfinished' = unfinished,
         starts' = starts \/ (starts' = starts + 1 /\ content = starts + 1)
  PROVE  SbSafe'
<1> SUFFICES ASSUME ~strayed', ~unfinished'
             PROVE  SbApart' /\ SbFresh' /\ SbCopied' /\ SbKept'
  BY DEF SbSafe
<1>1. Sb!TypeOK /\ SbOps /\ SbApart /\ SbFresh /\ SbCopied /\ SbKept
  BY DEF SbInv, SbSafe
<1>2. /\ DOMAIN stored' = DOMAIN stored \cup {key}
      /\ \A k \in DOMAIN stored' : stored'[k] = IF k = key THEN content ELSE stored[k]
      /\ lost' = lost \cup (Sb!Contents({key}) \ {content})
  BY DEF Sb!Put
<1>3. ASSUME NEW v \in Browsers, calls[v].at = "copy"
      PROVE  key \notin calls[v].keys /\ \A k \in calls[v].keys : Sb!NewKey(calls[v], k) # key
  <2>1. v # u
    BY <1>3 DEF Sb!Idle
  <2>2. Sb!Footprint(calls[v]) \cap {key} = {}
    BY <2>1 DEF Sb!Meets
  <2>3. SbShape(calls[v])
    BY <1>1 DEF SbOps
  <2> QED
    BY <1>3, <2>2, <2>3, SbFootprintOf
<1>4. SbApart'
  <2> SUFFICES ASSUME NEW v \in Browsers, NEW w \in Browsers \ {v}
               PROVE  Sb!Footprint(calls'[v]) \cap Sb!Footprint(calls'[w]) = {}
    BY DEF SbApart, Sb!Footprint, Sb!NewKey
  <2> QED
    BY <1>1 DEF SbApart
<1>5. SbFresh'
  BY <1>1 DEF SbFresh, Sb!NewKey
<1>6. SbCopied'
  <2> SUFFICES ASSUME NEW v \in Browsers, calls[v].at = "copy",
                      NEW k \in (calls[v].keys \ calls[v].left) \cap DOMAIN stored'
               PROVE  /\ Sb!NewKey(calls[v], k) \in DOMAIN stored'
                      /\ stored'[Sb!NewKey(calls[v], k)] = stored'[k]
    BY DEF SbCopied, Sb!NewKey
  <2>1. k # key /\ Sb!NewKey(calls[v], k) # key
    BY <1>3
  <2>2. k \in DOMAIN stored
    BY <1>2, <2>1
  <2>3. /\ Sb!NewKey(calls[v], k) \in DOMAIN stored
        /\ stored[Sb!NewKey(calls[v], k)] = stored[k]
    BY <1>1, <2>2 DEF SbCopied
  <2> QED
    BY <1>2, <2>1, <2>2, <2>3
<1>7. SbKept'
  <2> SUFFICES ASSUME NEW upload \in 1..starts'
               PROVE  upload \in lost' \/ \E k \in DOMAIN stored' : stored'[k] = upload
    BY DEF SbKept
  <2>1. CASE upload = content
    <3>1. key \in DOMAIN stored' /\ stored'[key] = upload
      BY <1>2, <2>1
    <3> QED
      BY <3>1
  <2>2. CASE upload # content
    <3>1. upload \in 1..starts /\ upload # 0
      BY <1>1, <2>2 DEF Sb!TypeOK
    <3>2. CASE upload \in lost
      BY <1>2, <3>2
    <3>3. CASE \E k \in DOMAIN stored : stored[k] = upload
      <4>1. PICK k \in DOMAIN stored : stored[k] = upload
        BY <3>3
      <4>2. CASE k = key
        <5>1. upload \in Sb!Contents({key})
          BY <3>1, <4>1, <4>2 DEF Sb!Contents
        <5> QED
          BY <1>2, <2>2, <5>1
      <4>3. CASE k # key
        BY <1>2, <4>1, <4>3
      <4> QED
        BY <4>2, <4>3
    <3> QED
      BY <1>1, <3>1, <3>2, <3>3 DEF SbKept
  <2> QED
    BY <2>1, <2>2
<1> QED
  BY <1>4, <1>5, <1>6, <1>7

\* Keys are removed, of the request of u alone; what they held is elsewhere or deleted.
LEMMA SbSafeRemove ==
  ASSUME SbInv, NEW u \in Browsers, NEW r \in Sb!Request, calls' = [calls EXCEPT ![u] = r],
         r.keys = {}, SbShape(r), NEW keys, keys \subseteq calls[u].keys, Sb!RemoveKeys(keys),
         lost \subseteq lost', starts' = starts, strayed' = strayed, unfinished' = unfinished,
         ~strayed /\ ~unfinished => \A key \in keys \cap DOMAIN stored :
           \/ stored[key] = 0 \/ stored[key] \in lost'
           \/ \E k \in DOMAIN stored \ keys : stored[k] = stored[key]
  PROVE  SbSafe'
<1> SUFFICES ASSUME ~strayed', ~unfinished'
             PROVE  SbApart' /\ SbFresh' /\ SbCopied' /\ SbKept'
  BY DEF SbSafe
<1>1. Sb!TypeOK /\ SbOps /\ SbApart /\ SbFresh /\ SbCopied /\ SbKept /\ ~strayed /\ ~unfinished
  BY DEF SbInv, SbSafe
<1>2. \A v \in Browsers : calls'[v] = IF v = u THEN r ELSE calls[v]
  BY <1>1 DEF Sb!TypeOK
<1>3. /\ DOMAIN stored' = DOMAIN stored \ keys
      /\ \A k \in DOMAIN stored' : stored'[k] = stored[k]
  BY DEF Sb!RemoveKeys
<1>4. Sb!Footprint(r) = {}
  BY SbFootprintOf
<1>5. SbApart'
  BY <1>1, <1>4, SbApartStep
<1>6. ASSUME NEW v \in Browsers, calls'[v].at = "copy"
      PROVE  \/ calls'[v].keys = {}
             \/ /\ calls'[v] = calls[v]
                /\ \A k \in calls[v].keys : Sb!NewKey(calls[v], k) \notin keys
  <2>1. CASE v = u
    BY <1>2, <2>1
  <2>2. CASE v # u
    <3>1. calls'[v] = calls[v]
      BY <1>2, <2>2
    <3>2. SbShape(calls[v]) /\ SbShape(calls[u])
      BY <1>1 DEF SbOps
    <3>3. Sb!Footprint(calls[v]) \cap Sb!Footprint(calls[u]) = {}
      BY <1>1, <2>2 DEF SbApart
    <3>4. keys \subseteq Sb!Footprint(calls[u])
      BY <3>2, SbFootprintOf
    <3>5. \A k \in calls[v].keys : Sb!NewKey(calls[v], k) \in Sb!Footprint(calls[v])
      BY <1>6, <3>1, <3>2, SbFootprintOf
    <3> QED
      BY <2>2, <3>1, <3>3, <3>4, <3>5
  <2> QED
    BY <2>1, <2>2
<1>7. SbFresh'
  <2> SUFFICES ASSUME NEW v \in Browsers, calls'[v].at = "copy", NEW key \in calls'[v].keys
               PROVE  Sb!NewKey(calls'[v], key) \notin calls'[v].keys
    BY DEF SbFresh, Sb!NewKey
  <2>1. calls'[v] = calls[v]
    BY <1>6
  <2> QED
    BY <1>1, <2>1 DEF SbFresh
<1>8. SbCopied'
  <2> SUFFICES ASSUME NEW v \in Browsers, calls'[v].at = "copy",
                      NEW key \in (calls'[v].keys \ calls'[v].left) \cap DOMAIN stored'
               PROVE  /\ Sb!NewKey(calls'[v], key) \in DOMAIN stored'
                      /\ stored'[Sb!NewKey(calls'[v], key)] = stored'[key]
    BY DEF SbCopied, Sb!NewKey
  <2>1. calls'[v] = calls[v] /\ Sb!NewKey(calls[v], key) \notin keys
    BY <1>6
  <2>2. key \in DOMAIN stored
    BY <1>3
  <2>3. /\ Sb!NewKey(calls[v], key) \in DOMAIN stored
        /\ stored[Sb!NewKey(calls[v], key)] = stored[key]
    BY <1>1, <2>1, <2>2 DEF SbCopied
  <2> QED
    BY <1>3, <2>1, <2>3
<1>9. SbKept'
  <2> SUFFICES ASSUME NEW upload \in 1..starts
               PROVE  upload \in lost' \/ \E k \in DOMAIN stored' : stored'[k] = upload
    BY DEF SbKept
  <2>1. upload # 0
    BY <1>1 DEF Sb!TypeOK
  <2>2. CASE upload \in lost
    BY <2>2
  <2>3. CASE \E k \in DOMAIN stored : stored[k] = upload
    <3>1. PICK k \in DOMAIN stored : stored[k] = upload
      BY <2>3
    <3>2. CASE k \notin keys
      BY <1>3, <3>1, <3>2
    <3>3. CASE k \in keys
      <4>1. upload \in lost' \/ \E j \in DOMAIN stored \ keys : stored[j] = upload
        BY <1>1, <2>1, <3>1, <3>3
      <4> QED
        BY <1>3, <4>1
    <3> QED
      BY <3>2, <3>3
  <2> QED
    BY <1>1, <2>2, <2>3 DEF SbKept
<1> QED
  BY <1>5, <1>7, <1>8, <1>9

\* A move copies one of its objects.
LEMMA SbSafeCopy ==
  ASSUME SbBounds, SbInv, NEW u \in Browsers, Sb!CopyKey(u)
  PROVE  SbSafe'
<1> SUFFICES ASSUME ~strayed', ~unfinished'
             PROVE  SbApart' /\ SbFresh' /\ SbCopied' /\ SbKept'
  BY DEF SbSafe
<1>1. Sb!TypeOK /\ SbOps /\ SbApart /\ SbFresh /\ SbCopied /\ SbKept
  BY DEF SbInv, SbSafe, Sb!CopyKey
<1>2. PICK key \in calls[u].left \cap DOMAIN stored :
        /\ Sb!Put(u, Sb!NewKey(calls[u], key), stored[key])
        /\ calls' = [calls EXCEPT ![u].left = @ \ {key}]
  BY DEF Sb!CopyKey
<1>3. calls[u].at = "copy" /\ starts' = starts
  BY DEF Sb!CopyKey, Sb!counts
<1> DEFINE new == Sb!NewKey(calls[u], key)
           r == [calls[u] EXCEPT !.left = @ \ {key}]
<1>4. /\ DOMAIN stored' = DOMAIN stored \cup {new}
      /\ \A k \in DOMAIN stored' : stored'[k] = IF k = new THEN stored[key] ELSE stored[k]
      /\ lost' = lost \cup (Sb!Contents({new}) \ {stored[key]})
  BY <1>2 DEF Sb!Put
<1>5. calls[u] \in Sb!Request /\ calls[u].left \subseteq calls[u].keys
  BY <1>1 DEF Sb!TypeOK
<1>6. calls' = [calls EXCEPT ![u] = r] /\ \A v \in Browsers : calls'[v] = IF v = u THEN r ELSE calls[v]
  BY <1>1, <1>2 DEF Sb!TypeOK
<1>7. /\ r.keys = calls[u].keys /\ r.kind = calls[u].kind /\ r.at = calls[u].at
      /\ r.from = calls[u].from /\ r.to = calls[u].to /\ r.left = calls[u].left \ {key}
  BY <1>5 DEF Sb!Request
<1>8. \A k : Sb!NewKey(r, k) = Sb!NewKey(calls[u], k)
  BY <1>7 DEF Sb!NewKey
<1>9. Sb!Footprint(r) = Sb!Footprint(calls[u])
  BY <1>7, <1>8 DEF Sb!Footprint
<1>10. key \in calls[u].keys /\ SbShape(calls[u])
  BY <1>1, <1>5 DEF SbOps
<1>11. new \notin calls[u].keys /\ new \in Sb!Footprint(calls[u])
  BY <1>1, <1>3, <1>10, SbFootprintOf DEF SbFresh
<1> HIDE DEF new, r
<1>12. SbApart'
  <2>1. \A v \in Browsers \ {u} : Sb!Footprint(calls[v]) \cap Sb!Footprint(r) = {}
    BY <1>1, <1>9 DEF SbApart
  <2> QED
    BY <1>1, <1>6, <2>1, SbApartStep
<1>13. SbFresh'
  <2> SUFFICES ASSUME NEW v \in Browsers, calls'[v].at = "copy", NEW k \in calls'[v].keys
               PROVE  Sb!NewKey(calls'[v], k) \notin calls'[v].keys
    BY DEF SbFresh, Sb!NewKey
  <2>1. /\ calls'[v].at = calls[v].at /\ calls'[v].keys = calls[v].keys
        /\ Sb!NewKey(calls'[v], k) = Sb!NewKey(calls[v], k)
    BY <1>6, <1>7, <1>8
  <2> QED
    BY <1>1, <2>1 DEF SbFresh
<1>14. SbCopied'
  <2> SUFFICES ASSUME NEW v \in Browsers, calls'[v].at = "copy",
                      NEW k \in (calls'[v].keys \ calls'[v].left) \cap DOMAIN stored'
               PROVE  /\ Sb!NewKey(calls'[v], k) \in DOMAIN stored'
                      /\ stored'[Sb!NewKey(calls'[v], k)] = stored'[k]
    BY DEF SbCopied, Sb!NewKey
  <2>1. CASE v = u
    <3>1. calls'[v] = r
      BY <1>6, <2>1
    <3>2. k \in calls[u].keys /\ Sb!NewKey(calls'[v], k) = Sb!NewKey(calls[u], k)
      BY <1>7, <1>8, <3>1
    <3>3. k # new
      BY <1>11, <3>2
    <3>4. k \in DOMAIN stored /\ stored'[k] = stored[k]
      BY <1>4, <3>3
    <3>5. CASE k = key
      BY <1>4, <3>2, <3>4, <3>5 DEF new
    <3>6. CASE k # key
      <4>1. k \notin calls[u].left
        BY <1>7, <3>1, <3>6
      <4>2. /\ Sb!NewKey(calls[u], k) \in DOMAIN stored
            /\ stored[Sb!NewKey(calls[u], k)] = stored[k]
        BY <1>1, <1>3, <3>2, <3>4, <4>1 DEF SbCopied
      <4>3. Sb!NewKey(calls[u], k) # new
        <5>1. k \in Sb!Key /\ key \in Sb!Key
          BY <1>1, <3>4 DEF Sb!TypeOK
        <5>2. Sb!IsPrefix(calls[u].from, k) /\ Sb!IsPrefix(calls[u].from, key)
          BY <1>3, <1>10, <3>2 DEF SbShape
        <5>3. calls[u].from \in Sb!Prefix /\ calls[u].to \in Sb!Prefix
          BY <1>5 DEF Sb!Request
        <5> QED
          BY <3>6, <5>1, <5>2, <5>3, SbNewKeysDiffer DEF new
      <4> QED
        BY <1>4, <3>2, <3>4, <4>2, <4>3
    <3> QED
      BY <3>5, <3>6
  <2>2. CASE v # u
    <3>1. calls'[v] = calls[v]
      BY <1>6, <2>2
    <3>2. SbShape(calls[v])
      BY <1>1 DEF SbOps
    <3>3. Sb!Footprint(calls[v]) \cap Sb!Footprint(calls[u]) = {}
      BY <1>1, <2>2 DEF SbApart
    <3>4. k \in Sb!Footprint(calls[v]) /\ Sb!NewKey(calls[v], k) \in Sb!Footprint(calls[v])
      BY <3>1, <3>2, SbFootprintOf
    <3>5. k # new /\ Sb!NewKey(calls[v], k) # new
      BY <1>11, <3>3, <3>4
    <3>6. k \in DOMAIN stored
      BY <1>4, <3>5
    <3>7. /\ Sb!NewKey(calls[v], k) \in DOMAIN stored
          /\ stored[Sb!NewKey(calls[v], k)] = stored[k]
      BY <1>1, <3>1, <3>6 DEF SbCopied
    <3> QED
      BY <1>4, <3>1, <3>5, <3>6, <3>7
  <2> QED
    BY <2>1, <2>2
<1>15. SbKept'
  <2> SUFFICES ASSUME NEW upload \in 1..starts
               PROVE  upload \in lost' \/ \E k \in DOMAIN stored' : stored'[k] = upload
    BY <1>3 DEF SbKept
  <2>1. CASE upload \in lost
    BY <1>4, <2>1
  <2>2. CASE \E k \in DOMAIN stored : stored[k] = upload
    <3>1. PICK k \in DOMAIN stored : stored[k] = upload
      BY <2>2
    <3>2. CASE k = new
      <4>1. upload \in Sb!Contents({new})
        BY <1>1, <3>1, <3>2 DEF Sb!Contents, Sb!TypeOK
      <4>2. CASE upload = stored[key]
        BY <1>4, <4>2
      <4>3. CASE upload # stored[key]
        BY <1>4, <4>1, <4>3
      <4> QED
        BY <4>2, <4>3
    <3>3. CASE k # new
      BY <1>4, <3>1, <3>3
    <3> QED
      BY <3>2, <3>3
  <2> QED
    BY <1>1, <2>1, <2>2 DEF SbKept
<1> QED
  BY <1>12, <1>13, <1>14, <1>15

LEMMA SbPutTypes ==
  ASSUME Sb!TypeOK, NEW u, NEW key \in Sb!Key, NEW content \in 0..BrowserUploads,
         Sb!Put(u, key, content)
  PROVE  /\ DOMAIN stored' \subseteq Sb!Key
         /\ \A k \in DOMAIN stored' : stored'[k] \in 0..BrowserUploads
         /\ lost' \subseteq 1..BrowserUploads
<1>1. /\ DOMAIN stored' = DOMAIN stored \cup {key}
      /\ \A k \in DOMAIN stored' : stored'[k] = IF k = key THEN content ELSE stored[k]
      /\ lost' = lost \cup (Sb!Contents({key}) \ {content})
  BY DEF Sb!Put
<1>2. /\ DOMAIN stored \subseteq Sb!Key
      /\ \A k \in DOMAIN stored : stored[k] \in 0..BrowserUploads
      /\ lost \subseteq 1..BrowserUploads
  BY DEF Sb!TypeOK
<1>3. Sb!Contents({key}) \subseteq 1..BrowserUploads
  BY <1>2 DEF Sb!Contents
<1> QED
  BY <1>1, <1>2, <1>3

LEMMA SbRemoveTypes ==
  ASSUME Sb!TypeOK, NEW keys, Sb!RemoveKeys(keys)
  PROVE  /\ DOMAIN stored' \subseteq Sb!Key
         /\ \A k \in DOMAIN stored' : stored'[k] \in 0..BrowserUploads
  BY DEF Sb!TypeOK, Sb!RemoveKeys

LEMMA SbSame ==
  ASSUME SbInv, UNCHANGED <<stored, calls, starts, lost, strayed, unfinished>>
  PROVE  SbOps' /\ SbSafe'
<1>1. SbOps'
  BY DEF SbInv, SbOps, SbShape, Sb!NewKey
<1>2. SbApart => SbApart'
  <2> SUFFICES ASSUME SbApart, NEW v \in Browsers, NEW w \in Browsers \ {v}
               PROVE  Sb!Footprint(calls'[v]) \cap Sb!Footprint(calls'[w]) = {}
    BY DEF SbApart, Sb!Footprint, Sb!NewKey
  <2> QED
    BY DEF SbApart
<1>3. SbFresh => SbFresh'
  BY DEF SbFresh, Sb!NewKey
<1>4. SbCopied => SbCopied'
  BY DEF SbCopied, Sb!NewKey
<1>5. SbKept => SbKept'
  BY DEF SbKept
<1> QED
  BY <1>1, <1>2, <1>3, <1>4, <1>5 DEF SbInv, SbSafe

\* A step of a page alone.
LEMMA SbPageStep ==
  ASSUME SbInv,
         UNCHANGED <<stored, calls, starts, changes, lost, strayed, unfinished>>,
         form' \in [Browsers -> Sb!Prefix], shown' \in [Browsers -> SUBSET Sb!Entry],
         selected' \in [Browsers -> SUBSET Sb!Entry]
  PROVE  SbInv'
<1>1. Sb!TypeOK'
  BY DEF SbInv, Sb!TypeOK
<1> QED
  BY <1>1, SbSame DEF SbInv

LEMMA SbLoad ==
  ASSUME SbBounds, SbInv, NEW u \in Browsers, Sb!Load(u)
  PROVE  SbInv'
<1>1. /\ UNCHANGED <<stored, form, selected, calls, starts, changes, lost, strayed, unfinished>>
      /\ shown' = [shown EXCEPT ![u] = Sb!Entries(form[u])]
  BY DEF Sb!Load, Sb!counts, Sb!history
<1>2. /\ DOMAIN stored \subseteq Sb!Key /\ form \in [Browsers -> Sb!Prefix]
      /\ shown \in [Browsers -> SUBSET Sb!Entry] /\ selected \in [Browsers -> SUBSET Sb!Entry]
  BY DEF SbInv, Sb!TypeOK
<1>3. Sb!Entries(form[u]) \in SUBSET Sb!Entry
  BY <1>2, SbEntriesMade
<1>4. shown' \in [Browsers -> SUBSET Sb!Entry]
  BY <1>1, <1>2, <1>3
<1> QED
  BY <1>1, <1>2, <1>4, SbPageStep

LEMMA SbVisit ==
  ASSUME SbInv, NEW u \in Browsers, NEW path \in Sb!Prefix, Sb!Visit(u, path)
  PROVE  SbInv'
<1>1. /\ UNCHANGED <<stored, calls, starts, changes, lost, strayed, unfinished>>
      /\ form' = [form EXCEPT ![u] = path] /\ shown' = [shown EXCEPT ![u] = {}]
      /\ selected' = [selected EXCEPT ![u] = {}]
  BY DEF Sb!Visit, Sb!counts, Sb!history
<1>2. /\ form \in [Browsers -> Sb!Prefix]
      /\ shown \in [Browsers -> SUBSET Sb!Entry] /\ selected \in [Browsers -> SUBSET Sb!Entry]
  BY DEF SbInv, Sb!TypeOK
<1>3. /\ form' \in [Browsers -> Sb!Prefix]
      /\ shown' \in [Browsers -> SUBSET Sb!Entry] /\ selected' \in [Browsers -> SUBSET Sb!Entry]
  BY <1>1, <1>2
<1> QED
  BY <1>1, <1>3, SbPageStep

LEMMA SbOpenFolder ==
  ASSUME SbInv, NEW u \in Browsers, Sb!OpenFolder(u)
  PROVE  SbInv'
<1>1. PICK entry \in shown[u] : entry.folder /\ Sb!Visit(u, entry.path)
  BY DEF Sb!OpenFolder
<1>2. entry \in Sb!Entry
  BY DEF SbInv, Sb!TypeOK
<1>3. entry.path \in Sb!Prefix
  BY <1>1, <1>2 DEF Sb!Entry
<1> QED
  BY <1>1, <1>3, SbVisit

LEMMA SbBreadcrumb ==
  ASSUME SbBounds, SbInv, NEW u \in Browsers, Sb!Breadcrumb(u)
  PROVE  SbInv'
<1>1. PICK n \in 0..Len(form[u]) - 1 : Sb!Visit(u, SubSeq(form[u], 1, n))
  BY DEF Sb!Breadcrumb
<1>2. form[u] \in Sb!Prefix
  BY DEF SbInv, Sb!TypeOK
<1>3. Len(form[u]) \in Nat
  BY <1>2, SbPrefixShape, LenProperties
<1>4. n \in Nat /\ n <= Len(form[u])
  BY <1>1, <1>3
<1>5. SubSeq(form[u], 1, n) \in Sb!Prefix
  BY <1>2, <1>4, SbPrefixPart
<1> QED
  BY <1>1, <1>5, SbVisit

LEMMA SbToggle ==
  ASSUME SbInv, NEW u \in Browsers, Sb!Toggle(u) \/ Sb!ToggleAll(u)
  PROVE  SbInv'
<1>1. UNCHANGED <<stored, form, shown, calls, starts, changes, lost, strayed, unfinished>>
  BY DEF Sb!Toggle, Sb!ToggleAll, Sb!counts, Sb!history
<1>2. /\ form \in [Browsers -> Sb!Prefix]
      /\ shown \in [Browsers -> SUBSET Sb!Entry] /\ selected \in [Browsers -> SUBSET Sb!Entry]
  BY DEF SbInv, Sb!TypeOK
<1>3. selected' \in [Browsers -> SUBSET Sb!Entry]
  <2>1. CASE Sb!Toggle(u)
    BY <1>2, <2>1 DEF Sb!Toggle
  <2>2. CASE Sb!ToggleAll(u)
    BY <1>2, <2>2 DEF Sb!ToggleAll
  <2> QED
    BY <2>1, <2>2
<1> QED
  BY <1>1, <1>2, <1>3, SbPageStep

LEMMA SbUpload ==
  ASSUME SbBounds, SbInv, NEW u \in Browsers, Sb!Upload(u)
  PROVE  SbInv'
<1> DEFINE key == Append(form[u], "f")
<1>1. /\ calls[u] = Sb!Idle /\ starts < BrowserUploads /\ starts' = starts + 1
      /\ Sb!Put(u, key, starts + 1) /\ strayed' = (strayed \/ Sb!Meets(u, {key}))
      /\ UNCHANGED <<form, shown, selected, calls, changes, unfinished>>
  BY DEF Sb!Upload, Sb!page
<1>2. Sb!TypeOK /\ form[u] \in Sb!Prefix /\ starts \in Nat /\ strayed \in BOOLEAN
  BY DEF SbInv, Sb!TypeOK
<1>3. key \in Sb!Key
  BY <1>2, SbKeyMade
<1> HIDE DEF key
<1>4. starts + 1 \in 0..BrowserUploads /\ starts + 1 \in Nat
  BY <1>1, <1>2 DEF SbBounds
<1>5. SbSafe'
  BY <1>1, <1>4, SbSafePut
<1>6. SbOps'
  BY <1>1 DEF SbInv, SbOps, SbShape, Sb!NewKey
<1>7. /\ DOMAIN stored' \subseteq Sb!Key
      /\ \A k \in DOMAIN stored' : stored'[k] \in 0..BrowserUploads
      /\ lost' \subseteq 1..BrowserUploads
  BY <1>1, <1>2, <1>3, <1>4, SbPutTypes
<1>8. strayed' \in BOOLEAN
  BY <1>1, <1>2
<1>9. Sb!TypeOK'
  BY <1>1, <1>2, <1>4, <1>7, <1>8 DEF Sb!TypeOK
<1> QED
  BY <1>5, <1>6, <1>9 DEF SbInv

LEMMA SbCreateFolder ==
  ASSUME SbBounds, SbInv, NEW u \in Browsers, Sb!CreateFolder(u)
  PROVE  SbInv'
<1>1. /\ calls[u] = Sb!Idle /\ changes < BrowserChanges /\ Len(form[u]) < FolderDepth
      /\ changes' = changes + 1
      /\ UNCHANGED <<form, shown, selected, calls, starts, unfinished>>
  BY DEF Sb!CreateFolder, Sb!page
<1>2. PICK name \in FolderNames :
        /\ Sb!Put(u, Append(Append(form[u], name), "mark"), 0)
        /\ strayed' = (strayed \/ Sb!Meets(u, {Append(Append(form[u], name), "mark")}))
  BY DEF Sb!CreateFolder
<1> DEFINE key == Append(Append(form[u], name), "mark")
<1>3. /\ Sb!TypeOK /\ form[u] \in Sb!Prefix /\ starts \in Nat /\ strayed \in BOOLEAN
      /\ changes \in Nat
  BY DEF SbInv, Sb!TypeOK
<1>4. key \in Sb!Key
  BY <1>1, <1>3, SbMarkMade
<1>5. Sb!Put(u, key, 0) /\ strayed' = (strayed \/ Sb!Meets(u, {key}))
  BY <1>2
<1> HIDE DEF key
<1>6. 0 \in 0..BrowserUploads /\ changes + 1 \in 0..BrowserChanges
  BY <1>1, <1>3 DEF SbBounds
<1>7. SbSafe'
  BY <1>1, <1>5, SbSafePut
<1>8. SbOps'
  BY <1>1 DEF SbInv, SbOps, SbShape, Sb!NewKey
<1>9. /\ DOMAIN stored' \subseteq Sb!Key
      /\ \A k \in DOMAIN stored' : stored'[k] \in 0..BrowserUploads
      /\ lost' \subseteq 1..BrowserUploads
  BY <1>3, <1>4, <1>5, <1>6, SbPutTypes
<1>10. strayed' \in BOOLEAN
  BY <1>3, <1>5
<1>11. Sb!TypeOK'
  BY <1>1, <1>3, <1>6, <1>9, <1>10 DEF Sb!TypeOK
<1> QED
  BY <1>7, <1>8, <1>11 DEF SbInv

\* A request that has listed nothing.
LEMMA SbBegin ==
  ASSUME SbBounds, SbInv, NEW u \in Browsers, NEW r \in Sb!Request, Sb!Begin(u, r),
         r.at = "list", r.keys = {}, r.left = {}
  PROVE  SbInv'
<1>1. /\ changes < BrowserChanges /\ changes' = changes + 1
      /\ calls' = [calls EXCEPT ![u] = r]
      /\ UNCHANGED <<stored, form, shown, selected, starts, lost, strayed, unfinished>>
  BY DEF Sb!Begin, Sb!page, Sb!history
<1>2. Sb!TypeOK /\ SbOps /\ changes + 1 \in 0..BrowserChanges
  BY <1>1 DEF SbInv, Sb!TypeOK, SbBounds
<1>3. SbShape(r) /\ r.left \subseteq r.keys
  BY DEF SbShape
<1>4. Sb!Footprint(r) = {}
  BY <1>3, SbFootprintOf
<1>5. SbSafe'
  BY <1>1, <1>4, SbSafeOps
<1>6. /\ calls' \in [Browsers -> Sb!Request] /\ SbOps'
      /\ \A v \in Browsers : calls'[v].left \subseteq calls'[v].keys
  BY <1>1, <1>2, <1>3, SbOpsStep
<1>7. Sb!TypeOK'
  BY <1>1, <1>2, <1>6 DEF Sb!TypeOK
<1> QED
  BY <1>5, <1>6, <1>7 DEF SbInv

LEMMA SbIdle ==
  ASSUME SbBounds
  PROVE  Sb!Idle \in Sb!Request /\ Sb!Idle.keys = {} /\ Sb!Idle.left = {} /\ SbShape(Sb!Idle)
<1>1. <<>> \in Sb!Prefix
  <2>1. <<>> \in Seq(FolderNames) /\ Len(<<>>) = 0
    BY EmptySeq
  <2>2. 0 <= FolderDepth
    BY DEF SbBounds
  <2> QED
    BY <2>1, <2>2, SbPrefixShape
<1> QED
  BY <1>1 DEF Sb!Idle, Sb!Request, SbShape

LEMMA SbMoving ==
  ASSUME SbBounds, SbInv, NEW u \in Browsers, NEW from \in Sb!Prefix, NEW to \in Sb!Prefix,
         Sb!Begin(u, Sb!Moving(from, to))
  PROVE  SbInv'
<1> DEFINE r == Sb!Moving(from, to)
<1>1. Sb!Idle \in Sb!Request /\ Sb!Idle.keys = {} /\ Sb!Idle.left = {}
  BY SbIdle
<1>2. r \in Sb!Request /\ r.at = "list"
  BY <1>1 DEF Sb!Moving, Sb!Request
<1>3. r.keys = Sb!Idle.keys /\ r.left = Sb!Idle.left
  BY <1>1 DEF Sb!Moving, Sb!Request
<1> HIDE DEF r
<1>4. Sb!Begin(u, r)
  BY DEF r
<1> QED
  BY <1>1, <1>2, <1>3, <1>4, SbBegin

LEMMA SbMoveFolder ==
  ASSUME SbBounds, SbInv, NEW u \in Browsers, Sb!MoveFolder(u)
  PROVE  SbInv'
<1>1. PICK entry \in shown[u], dest \in Sb!Prefix :
        /\ entry.folder /\ Len(dest) < FolderDepth
        /\ Sb!Begin(u, Sb!Moving(entry.path, Append(dest, Sb!Last(entry.path))))
  BY DEF Sb!MoveFolder
<1>2. entry \in Sb!Entry
  BY DEF SbInv, Sb!TypeOK
<1>3. entry.path \in Sb!Prefix \ {<<>>}
  BY <1>1, <1>2 DEF Sb!Entry
<1>4. Append(dest, Sb!Last(entry.path)) \in Sb!Prefix
  BY <1>1, <1>3, SbFrontLast, SbPrefixMade
<1> QED
  BY <1>1, <1>3, <1>4, SbMoving

LEMMA SbRenameFolder ==
  ASSUME SbBounds, SbInv, NEW u \in Browsers, Sb!RenameFolder(u)
  PROVE  SbInv'
<1>1. PICK entry \in shown[u], name \in FolderNames :
        /\ entry.folder
        /\ Sb!Begin(u, Sb!Moving(entry.path, Append(Sb!Front(entry.path), name)))
  BY DEF Sb!RenameFolder
<1>2. entry \in Sb!Entry
  BY DEF SbInv, Sb!TypeOK
<1>3. entry.path \in Sb!Prefix \ {<<>>}
  BY <1>1, <1>2 DEF Sb!Entry
<1>4. Append(Sb!Front(entry.path), name) \in Sb!Prefix
  BY <1>3, SbFrontLast, SbPrefixMade
<1> QED
  BY <1>1, <1>3, <1>4, SbMoving

LEMMA SbDeleting ==
  ASSUME SbBounds, SbInv, NEW u \in Browsers, NEW kind \in {"delete", "bulk"},
         NEW rows \in SUBSET Sb!Entry, Sb!Begin(u, Sb!Deleting(kind, rows))
  PROVE  SbInv'
<1> DEFINE folders == {entry.path : entry \in {e \in rows : e.folder}}
           plain == {entry.path : entry \in {e \in rows : ~e.folder}}
           r == Sb!Deleting(kind, rows)
<1>1. Sb!Idle \in Sb!Request /\ Sb!Idle.keys = {} /\ Sb!Idle.left = {}
  BY SbIdle
<1>2. folders \subseteq Sb!Prefix /\ plain \subseteq Sb!Key
  BY DEF Sb!Entry
<1>3. r = [Sb!Idle EXCEPT !.kind = kind, !.at = "list", !.folders = folders, !.files = plain]
  BY DEF Sb!Deleting
<1> HIDE DEF folders, plain, r
<1>4. r \in Sb!Request /\ r.at = "list"
  BY <1>1, <1>2, <1>3 DEF Sb!Request
<1>5. r.keys = Sb!Idle.keys /\ r.left = Sb!Idle.left
  BY <1>1, <1>3 DEF Sb!Request
<1>6. Sb!Begin(u, r)
  BY DEF r
<1> QED
  BY <1>1, <1>4, <1>5, <1>6, SbBegin

LEMMA SbDelete ==
  ASSUME SbBounds, SbInv, NEW u \in Browsers, Sb!Delete(u) \/ Sb!BulkDelete(u)
  PROVE  SbInv'
<1>1. /\ shown[u] \subseteq Sb!Entry /\ selected[u] \in SUBSET Sb!Entry
  BY DEF SbInv, Sb!TypeOK
<1>2. CASE Sb!Delete(u)
  <2>1. PICK entry \in shown[u] : Sb!Begin(u, Sb!Deleting("delete", {entry}))
    BY <1>2 DEF Sb!Delete
  <2>2. {entry} \in SUBSET Sb!Entry
    BY <1>1
  <2> QED
    BY <2>1, <2>2, SbDeleting
<1>3. CASE Sb!BulkDelete(u)
  BY <1>1, <1>3, SbDeleting DEF Sb!BulkDelete
<1> QED
  BY <1>2, <1>3

LEMMA SbListKeys ==
  ASSUME SbBounds, SbInv, NEW u \in Browsers, Sb!ListKeys(u)
  PROVE  SbInv'
<1> DEFINE keys == Sb!Under(calls[u].from)
           r == [calls[u] EXCEPT !.at = "copy", !.keys = keys, !.left = keys]
<1>1. /\ calls[u].kind = "move" /\ calls' = [calls EXCEPT ![u] = r]
      /\ strayed' = (strayed \/ Sb!Meets(u, Sb!Footprint(r)))
      /\ unfinished' = (unfinished \/ \E key \in keys : Sb!NewKey(r, key) \in keys)
      /\ \A key \in keys : Len(Sb!NewKey(r, key)) <= FolderDepth + 1
      /\ UNCHANGED <<stored, form, shown, selected, starts, changes, lost>>
  BY DEF Sb!ListKeys, Sb!page, Sb!counts
<1>2. /\ Sb!TypeOK /\ SbOps /\ calls[u] \in Sb!Request /\ DOMAIN stored \subseteq Sb!Key
      /\ strayed \in BOOLEAN /\ unfinished \in BOOLEAN
  BY DEF SbInv, Sb!TypeOK
<1>3. keys \subseteq Sb!Key /\ \A key \in keys : Sb!IsPrefix(calls[u].from, key)
  BY <1>2 DEF Sb!Under
<1> HIDE DEF keys
<1>4. /\ r \in Sb!Request /\ r.at = "copy" /\ r.keys = keys /\ r.left = keys
      /\ r.kind = "move" /\ r.from = calls[u].from /\ r.to = calls[u].to
      /\ r.from \in Sb!Prefix /\ r.to \in Sb!Prefix
  BY <1>1, <1>2, <1>3 DEF Sb!Request
<1> HIDE DEF r
<1>5. \A key \in keys : Sb!NewKey(r, key) \in Sb!Key
  BY <1>1, <1>3, <1>4, SbNewKeyMade
<1>6. SbShape(r) /\ r.left \subseteq r.keys
  BY <1>3, <1>4, <1>5 DEF SbShape
<1>7. ~strayed' /\ ~unfinished' =>
        /\ ~strayed /\ ~unfinished
        /\ \A v \in Browsers \ {u} : Sb!Footprint(calls[v]) \cap Sb!Footprint(r) = {}
        /\ r.at = "copy" =>
             r.left = r.keys /\ \A key \in r.keys : Sb!NewKey(r, key) \notin r.keys
  BY <1>1, <1>4 DEF Sb!Meets
<1>8. SbSafe'
  BY <1>1, <1>4, <1>7, SbSafeOps
<1>9. /\ calls' \in [Browsers -> Sb!Request] /\ SbOps'
      /\ \A v \in Browsers : calls'[v].left \subseteq calls'[v].keys
  BY <1>1, <1>2, <1>4, <1>6, SbOpsStep
<1>10. strayed' \in BOOLEAN /\ unfinished' \in BOOLEAN
  BY <1>1, <1>2
<1>11. Sb!TypeOK'
  BY <1>1, <1>2, <1>9, <1>10 DEF Sb!TypeOK
<1> QED
  BY <1>8, <1>9, <1>11 DEF SbInv

LEMMA SbCopyKey ==
  ASSUME SbBounds, SbInv, NEW u \in Browsers, Sb!CopyKey(u)
  PROVE  SbInv'
<1>1. PICK key \in calls[u].left \cap DOMAIN stored :
        /\ Sb!Put(u, Sb!NewKey(calls[u], key), stored[key])
        /\ calls' = [calls EXCEPT ![u].left = @ \ {key}]
  BY DEF Sb!CopyKey
<1>2. /\ calls[u].at = "copy"
      /\ UNCHANGED <<form, shown, selected, starts, changes, strayed, unfinished>>
  BY DEF Sb!CopyKey, Sb!counts, Sb!page
<1> DEFINE r == [calls[u] EXCEPT !.left = @ \ {key}]
<1>3. /\ Sb!TypeOK /\ SbOps /\ calls[u] \in Sb!Request /\ stored[key] \in 0..BrowserUploads
      /\ calls[u].left \subseteq calls[u].keys
  BY DEF SbInv, Sb!TypeOK
<1>4. calls' = [calls EXCEPT ![u] = r]
  BY <1>1, <1>3 DEF Sb!TypeOK
<1>5. /\ r \in Sb!Request /\ r.left \subseteq r.keys
      /\ r.keys = calls[u].keys /\ r.kind = calls[u].kind /\ r.at = calls[u].at
      /\ r.from = calls[u].from /\ r.to = calls[u].to
  BY <1>3 DEF Sb!Request
<1> HIDE DEF r
<1>6. SbShape(calls[u])
  BY <1>3 DEF SbOps
<1>7. SbShape(r)
  BY <1>5, <1>6 DEF SbShape, Sb!NewKey
<1>8. Sb!NewKey(calls[u], key) \in Sb!Key
  BY <1>2, <1>3, <1>6 DEF SbShape
<1>9. SbSafe'
  BY SbSafeCopy
<1>10. /\ calls' \in [Browsers -> Sb!Request] /\ SbOps'
       /\ \A v \in Browsers : calls'[v].left \subseteq calls'[v].keys
  BY <1>3, <1>4, <1>5, <1>7, SbOpsStep
<1>11. /\ DOMAIN stored' \subseteq Sb!Key
       /\ \A k \in DOMAIN stored' : stored'[k] \in 0..BrowserUploads
       /\ lost' \subseteq 1..BrowserUploads
  BY <1>1, <1>3, <1>8, SbPutTypes
<1>12. Sb!TypeOK'
  BY <1>2, <1>3, <1>10, <1>11 DEF Sb!TypeOK
<1> QED
  BY <1>9, <1>10, <1>12 DEF SbInv

\* A request of u whose keys are removed, or that ends or fails.
LEMMA SbRemove ==
  ASSUME SbBounds, SbInv, NEW u \in Browsers, NEW r \in Sb!Request, r.keys = {}, r.left = {},
         SbShape(r), calls' = [calls EXCEPT ![u] = r], NEW keys, keys \subseteq calls[u].keys,
         Sb!RemoveKeys(keys), lost \subseteq lost', lost' \subseteq 1..BrowserUploads,
         selected' \in [Browsers -> SUBSET Sb!Entry],
         UNCHANGED <<form, shown, starts, changes, strayed, unfinished>>,
         ~strayed /\ ~unfinished => \A key \in keys \cap DOMAIN stored :
           \/ stored[key] = 0 \/ stored[key] \in lost'
           \/ \E k \in DOMAIN stored \ keys : stored[k] = stored[key]
  PROVE  SbInv'
<1>1. Sb!TypeOK /\ SbOps /\ r.left \subseteq r.keys
  BY DEF SbInv
<1>2. SbSafe'
  BY SbSafeRemove
<1>3. /\ calls' \in [Browsers -> Sb!Request] /\ SbOps'
      /\ \A v \in Browsers : calls'[v].left \subseteq calls'[v].keys
  BY <1>1, SbOpsStep
<1>4. /\ DOMAIN stored' \subseteq Sb!Key
      /\ \A k \in DOMAIN stored' : stored'[k] \in 0..BrowserUploads
  BY <1>1, SbRemoveTypes
<1>5. Sb!TypeOK'
  BY <1>1, <1>3, <1>4 DEF Sb!TypeOK
<1> QED
  BY <1>2, <1>3, <1>5 DEF SbInv

LEMMA SbEndMove ==
  ASSUME SbBounds, SbInv, NEW u \in Browsers, Sb!EndMove(u)
  PROVE  SbInv'
<1> DEFINE keys == calls[u].keys
<1>1. /\ calls[u].at = "copy" /\ calls[u].left = {} /\ Sb!RemoveKeys(keys)
      /\ calls' = [calls EXCEPT ![u] = Sb!Idle]
      /\ UNCHANGED <<form, shown, selected, starts, changes, lost, strayed, unfinished>>
  BY DEF Sb!EndMove, Sb!Copied, Sb!page, Sb!counts, Sb!history
<1>2. /\ selected' \in [Browsers -> SUBSET Sb!Entry] /\ lost' \subseteq 1..BrowserUploads
      /\ lost \subseteq lost'
  BY <1>1 DEF SbInv, Sb!TypeOK
<1>3. ASSUME ~strayed, ~unfinished, NEW key \in keys \cap DOMAIN stored
      PROVE  \E k \in DOMAIN stored \ keys : stored[k] = stored[key]
  <2>1. SbFresh /\ SbCopied
    BY <1>3 DEF SbInv, SbSafe
  <2>2. key \in (calls[u].keys \ calls[u].left) \cap DOMAIN stored
    BY <1>1, <1>3
  <2>3. /\ Sb!NewKey(calls[u], key) \in DOMAIN stored
        /\ stored[Sb!NewKey(calls[u], key)] = stored[key]
    BY <1>1, <2>1, <2>2 DEF SbCopied
  <2>4. Sb!NewKey(calls[u], key) \notin keys
    BY <1>1, <1>3, <2>1 DEF SbFresh
  <2> QED
    BY <2>3, <2>4
<1>4. /\ Sb!Idle \in Sb!Request /\ Sb!Idle.keys = {} /\ Sb!Idle.left = {}
      /\ SbShape(Sb!Idle)
  BY SbIdle
<1> HIDE DEF keys
<1>5. keys \subseteq calls[u].keys
  BY DEF keys
<1> QED
  BY <1>1, <1>2, <1>3, <1>4, <1>5, SbRemove

LEMMA SbRemoveDeleted ==
  ASSUME SbBounds, SbInv, NEW u \in Browsers, Sb!RemoveDeleted(u)
  PROVE  SbInv'
<1> DEFINE keys == calls[u].keys
           done == calls[u].folders = {} /\ calls[u].files = {}
           next == [calls[u] EXCEPT !.at = "list", !.keys = {}]
           r == IF done THEN Sb!Idle ELSE next
<1>1. /\ calls[u].at = "remove" /\ Sb!RemoveKeys(keys)
      /\ lost' = lost \cup Sb!Contents(keys)
      /\ selected' = IF done THEN [selected EXCEPT ![u] = Sb!Unmarked(u)] ELSE selected
      /\ UNCHANGED <<form, shown, starts, changes, strayed, unfinished>>
  BY DEF Sb!RemoveDeleted, Sb!counts
<1>2. /\ Sb!TypeOK /\ SbOps /\ calls[u] \in Sb!Request /\ calls[u].left \subseteq keys
      /\ calls \in [Browsers -> Sb!Request] /\ selected \in [Browsers -> SUBSET Sb!Entry]
  BY DEF SbInv, Sb!TypeOK
<1>3. calls' = [calls EXCEPT ![u] = r]
  <2>1. calls' = [calls EXCEPT ![u] = IF done THEN Sb!Idle
                                      ELSE [@ EXCEPT !.at = "list", !.keys = {}]]
    BY DEF Sb!RemoveDeleted
  <2> HIDE DEF done
  <2> QED
    BY <1>2, <2>1
<1>4. calls[u].left = {} /\ calls[u].kind # "move"
  BY <1>1, <1>2 DEF SbOps, SbShape
<1>5. /\ next \in Sb!Request /\ next.keys = {} /\ next.left = {} /\ next.at = "list"
  BY <1>2, <1>4 DEF Sb!Request
<1> HIDE DEF keys, next
<1>6. SbShape(next)
  BY <1>5 DEF SbShape
<1>7. r \in Sb!Request /\ r.keys = {} /\ r.left = {} /\ SbShape(r)
  BY <1>5, <1>6, SbIdle
<1> HIDE DEF done, r
<1>8. selected' \in [Browsers -> SUBSET Sb!Entry]
  <2>1. Sb!Unmarked(u) \in SUBSET Sb!Entry
    BY <1>2 DEF Sb!Unmarked
  <2> QED
    BY <1>1, <1>2, <2>1
<1>9. \A key \in keys \cap DOMAIN stored : stored[key] = 0 \/ stored[key] \in lost'
  BY <1>1 DEF Sb!Contents
<1>10. lost \subseteq lost' /\ lost' \subseteq 1..BrowserUploads
  <2>1. /\ \A k \in DOMAIN stored : stored[k] \in 0..BrowserUploads
        /\ lost \subseteq 1..BrowserUploads
    BY <1>2 DEF Sb!TypeOK
  <2>2. Sb!Contents(keys) \subseteq 1..BrowserUploads
    BY <2>1 DEF Sb!Contents
  <2> QED
    BY <1>1, <2>1, <2>2
<1>11. keys \subseteq calls[u].keys
  BY DEF keys
<1> QED
  BY <1>1, <1>3, <1>7, <1>8, <1>9, <1>10, <1>11, SbRemove

LEMMA SbListDeleted ==
  ASSUME SbBounds, SbInv, NEW u \in Browsers, Sb!ListDeleted(u)
  PROVE  SbInv'
<1>1. /\ calls[u].kind \in {"delete", "bulk"} /\ calls[u].at = "list"
      /\ strayed' = (strayed \/ Sb!Meets(u, calls'[u].keys))
      /\ UNCHANGED <<stored, form, shown, selected, starts, changes, lost, unfinished>>
  BY DEF Sb!ListDeleted, Sb!page, Sb!counts
<1>2. /\ Sb!TypeOK /\ SbOps /\ calls[u] \in Sb!Request /\ DOMAIN stored \subseteq Sb!Key
      /\ strayed \in BOOLEAN /\ unfinished \in BOOLEAN /\ calls \in [Browsers -> Sb!Request]
  BY DEF SbInv, Sb!TypeOK
<1>3. calls[u].left = {}
  BY <1>1, <1>2 DEF SbOps, SbShape
<1>4. PICK keys \in SUBSET Sb!Key, folders \in SUBSET Sb!Prefix, plain \in SUBSET Sb!Key :
        calls' = [calls EXCEPT ![u] = [calls[u] EXCEPT !.keys = keys, !.folders = folders,
                                                       !.files = plain, !.at = "remove"]]
  <2>1. CASE \E folder \in calls[u].folders :
               calls' = [calls EXCEPT ![u].keys = Sb!Under(folder), ![u].at = "remove",
                                      ![u].folders = @ \ {folder}]
    <3>1. PICK folder \in calls[u].folders :
            calls' = [calls EXCEPT ![u].keys = Sb!Under(folder), ![u].at = "remove",
                                   ![u].folders = @ \ {folder}]
      BY <2>1
    <3>2. /\ Sb!Under(folder) \in SUBSET Sb!Key /\ calls[u].files \in SUBSET Sb!Key
          /\ calls[u].folders \ {folder} \in SUBSET Sb!Prefix
      BY <1>2 DEF Sb!Under, Sb!Request
    <3>3. calls' = [calls EXCEPT ![u] =
            [calls[u] EXCEPT !.keys = Sb!Under(folder), !.folders = calls[u].folders \ {folder},
                             !.files = calls[u].files, !.at = "remove"]]
      BY <1>2, <3>1 DEF Sb!Request
    <3> QED
      BY <3>2, <3>3
  <2>2. CASE calls' = [calls EXCEPT ![u].keys = calls[u].files, ![u].files = {},
                                    ![u].at = "remove"]
    <3>1. /\ calls[u].files \in SUBSET Sb!Key /\ calls[u].folders \in SUBSET Sb!Prefix
          /\ {} \in SUBSET Sb!Key
      BY <1>2 DEF Sb!Request
    <3>2. calls' = [calls EXCEPT ![u] =
            [calls[u] EXCEPT !.keys = calls[u].files, !.folders = calls[u].folders,
                             !.files = {}, !.at = "remove"]]
      BY <1>2, <2>2 DEF Sb!Request
    <3> QED
      BY <3>1, <3>2
  <2> QED
    BY <2>1, <2>2 DEF Sb!ListDeleted
<1> DEFINE r == [calls[u] EXCEPT !.keys = keys, !.folders = folders, !.files = plain,
                                 !.at = "remove"]
<1>5. /\ r \in Sb!Request /\ r.at = "remove" /\ r.keys = keys /\ r.left = {}
      /\ r.kind # "move"
  BY <1>1, <1>2, <1>3 DEF Sb!Request
<1>6. calls' = [calls EXCEPT ![u] = r]
  BY <1>4
<1> HIDE DEF r
<1>7. SbShape(r) /\ r.left \subseteq r.keys
  BY <1>5 DEF SbShape
<1>8. calls'[u] = r /\ Sb!Footprint(r) = keys
  BY <1>2, <1>5, <1>6, <1>7, SbFootprintOf
<1>9. ~strayed' /\ ~unfinished' =>
        /\ ~strayed /\ ~unfinished
        /\ \A v \in Browsers \ {u} : Sb!Footprint(calls[v]) \cap Sb!Footprint(r) = {}
        /\ r.at = "copy" =>
             r.left = r.keys /\ \A key \in r.keys : Sb!NewKey(r, key) \notin r.keys
  BY <1>1, <1>5, <1>8 DEF Sb!Meets
<1>10. SbSafe'
  BY <1>1, <1>5, <1>6, <1>9, SbSafeOps
<1>11. /\ calls' \in [Browsers -> Sb!Request] /\ SbOps'
       /\ \A v \in Browsers : calls'[v].left \subseteq calls'[v].keys
  BY <1>2, <1>5, <1>6, <1>7, SbOpsStep
<1>12. strayed' \in BOOLEAN
  BY <1>1, <1>2
<1>13. Sb!TypeOK'
  BY <1>1, <1>2, <1>11, <1>12 DEF Sb!TypeOK
<1> QED
  BY <1>10, <1>11, <1>13 DEF SbInv

LEMMA SbFail ==
  ASSUME SbBounds, SbInv, NEW u \in Browsers, Sb!Fail(u)
  PROVE  SbInv'
<1>1. /\ calls' = [calls EXCEPT ![u] = Sb!Idle]
      /\ UNCHANGED <<stored, form, shown, selected, starts, changes, lost, strayed, unfinished>>
  BY DEF Sb!Fail, Sb!page, Sb!counts, Sb!history
<1>2. /\ Sb!Idle \in Sb!Request /\ Sb!Idle.keys = {} /\ Sb!Idle.left = {}
      /\ SbShape(Sb!Idle)
  BY SbIdle
<1>3. Sb!Footprint(Sb!Idle) = {} /\ Sb!Idle.at # "copy"
  BY <1>2, SbFootprintOf DEF Sb!Idle
<1>4. Sb!TypeOK /\ SbOps /\ Sb!Idle.left \subseteq Sb!Idle.keys
  BY <1>2 DEF SbInv
<1>5. SbSafe'
  BY <1>1, <1>2, <1>3, SbSafeOps
<1>6. /\ calls' \in [Browsers -> Sb!Request] /\ SbOps'
      /\ \A v \in Browsers : calls'[v].left \subseteq calls'[v].keys
  BY <1>1, <1>2, <1>4, SbOpsStep
<1>7. Sb!TypeOK'
  BY <1>1, <1>4, <1>6 DEF Sb!TypeOK
<1> QED
  BY <1>5, <1>6, <1>7 DEF SbInv

LEMMA SbInit ==
  ASSUME SbBounds, Sb!Init
  PROVE  SbInv
<1>1. /\ stored = <<>> /\ form = [u \in Browsers |-> <<>>]
      /\ shown = [u \in Browsers |-> {}] /\ selected = [u \in Browsers |-> {}]
      /\ calls = [u \in Browsers |-> Sb!Idle] /\ starts = 0 /\ changes = 0 /\ lost = {}
      /\ strayed = FALSE /\ unfinished = FALSE
  BY DEF Sb!Init
<1>2. /\ Sb!Idle \in Sb!Request /\ Sb!Idle.keys = {} /\ Sb!Idle.left = {}
      /\ SbShape(Sb!Idle)
  BY SbIdle
<1>3. <<>> \in Sb!Prefix
  BY SbIdle DEF Sb!Idle, Sb!Request
<1>4. DOMAIN stored = {}
  BY <1>1
<1>5. 0 \in 0..BrowserUploads /\ 0 \in 0..BrowserChanges
  BY DEF SbBounds
<1>6. Sb!TypeOK
  BY <1>1, <1>2, <1>3, <1>4, <1>5 DEF Sb!TypeOK
<1>7. SbOps
  BY <1>1, <1>2 DEF SbOps
<1>8. \A u \in Browsers : Sb!Footprint(calls[u]) = {}
  BY <1>1, <1>2, SbFootprintOf
<1>9. SbApart
  BY <1>8 DEF SbApart
<1>10. SbFresh /\ SbCopied
  BY <1>1 DEF SbFresh, SbCopied, Sb!Idle
<1>11. SbKept
  BY <1>1 DEF SbKept
<1> QED
  BY <1>6, <1>7, <1>9, <1>10, <1>11 DEF SbInv, SbSafe

LEMMA SbStep ==
  ASSUME SbBounds, SbInv, [Sb!Next]_(Sb!vars)
  PROVE  SbInv'
<1>1. ASSUME NEW u \in Browsers,
             \/ Sb!Load(u) \/ Sb!OpenFolder(u) \/ Sb!Breadcrumb(u) \/ Sb!Toggle(u)
             \/ Sb!ToggleAll(u) \/ Sb!Upload(u) \/ Sb!CreateFolder(u) \/ Sb!MoveFolder(u)
             \/ Sb!RenameFolder(u) \/ Sb!Delete(u) \/ Sb!BulkDelete(u)
      PROVE  SbInv'
  BY <1>1, SbLoad, SbOpenFolder, SbBreadcrumb, SbToggle, SbUpload, SbCreateFolder,
     SbMoveFolder, SbRenameFolder, SbDelete
<1>2. ASSUME NEW u \in Browsers,
             \/ Sb!ListKeys(u) \/ Sb!CopyKey(u) \/ Sb!EndMove(u) \/ Sb!ListDeleted(u)
             \/ Sb!RemoveDeleted(u) \/ Sb!Fail(u)
      PROVE  SbInv'
  BY <1>2, SbListKeys, SbCopyKey, SbEndMove, SbListDeleted, SbRemoveDeleted, SbFail
<1>3. CASE UNCHANGED Sb!vars
  <2>1. /\ UNCHANGED <<stored, calls, starts, changes, lost, strayed, unfinished>>
        /\ UNCHANGED <<form, shown, selected>>
    BY <1>3 DEF Sb!vars, Sb!page, Sb!counts, Sb!history
  <2> QED
    BY <2>1, SbPageStep DEF SbInv, Sb!TypeOK
<1> QED
  BY <1>1, <1>2, <1>3 DEF Sb!Next

(***************************************************************************)
(* A file in the bucket stays until it is deleted or overwritten, for any  *)
(* number of users and folders, unless two requests met in a key or a move *)
(* met its own (StorageBrowserService.movePrefix, renamePrefix).           *)
(***************************************************************************)
THEOREM ObjectsAreKept ==
  ASSUME Sb!StorageBrowserAssumption
  PROVE  Sb!Spec => [](Sb!TypeOK /\ Sb!MovesKeepObjects)
<1>1. SbBounds
  BY DEF Sb!StorageBrowserAssumption, SbBounds
<1>2. Sb!Init => SbInv
  BY <1>1, SbInit
<1>3. SbInv /\ [Sb!Next]_(Sb!vars) => SbInv'
  BY <1>1, SbStep
<1>4. SbInv => Sb!TypeOK /\ Sb!MovesKeepObjects
  BY SbMovesKept DEF SbInv
<1> QED
  BY <1>2, <1>3, <1>4, PTL DEF Sb!Spec

----------------------------------------------------------------------------
(* The sum of the seven.                                                   *)

AnyPage ==
  {"editor", "settings", "new", "import", "migration", "bulk", "storage"}

\* One page stays open, and takes its own steps.
LEMMA OnePage ==
  ASSUME [PagesNext]_pages
  PROVE  /\ UNCHANGED view
         /\ view = "editor" => [Ed!Next]_(Ed!vars)
         /\ view = "settings" => [Sp!Next]_(Sp!vars)
         /\ view = "new" => [Np!Next]_(Np!vars)
         /\ view = "import" => [Sw!Next]_(Sw!vars)
         /\ view = "migration" => [Mw!Next]_(Mw!vars)
         /\ view = "bulk" => [Ip!Next]_(Ip!vars)
         /\ view = "storage" => [Sb!Next]_(Sb!vars)
<1>1. CASE UNCHANGED pages
  <2>1. UNCHANGED <<view, edited, configured, entered, browsed, listed, followed, several>>
    BY <1>1 DEF pages
  <2>2. UNCHANGED Ed!vars
    BY <2>1 DEF edited, several, Ed!vars, Ed!page, Ed!history
  <2>3. UNCHANGED Sp!vars
    BY <2>1 DEF configured, several, Sp!vars, Sp!rows, Sp!queries, Sp!unsaved, Sp!history
  <2>4. UNCHANGED Np!vars
    BY <2>1 DEF entered, several, Np!vars, Np!timers, Np!asked
  <2>5. UNCHANGED Sw!vars
    BY <2>1 DEF browsed, several, Sw!vars, Sw!form, Sw!server, Sw!history
  <2>6. UNCHANGED Mw!vars
    BY <2>1 DEF listed, several, Mw!vars, Mw!form, Mw!server, Mw!history
  <2>7. UNCHANGED Ip!vars
    BY <2>1 DEF followed, several, Ip!vars, Ip!server, Ip!query, Ip!history
  <2>8. UNCHANGED Sb!vars
    BY <2>1 DEF several, Sb!vars, Sb!page, Sb!counts, Sb!history
  <2> QED
    BY <2>1, <2>2, <2>3, <2>4, <2>5, <2>6, <2>7, <2>8
<1>2. CASE PagesNext
  BY Zenon, <1>2 DEF PagesNext, Shows
<1> QED
  BY <1>1, <1>2

LEMMA PageOpens ==
  ASSUME PagesInit
  PROVE  /\ view \in AnyPage
         /\ view = "editor" => Ed!Init
         /\ view = "settings" => Sp!Init
         /\ view = "new" => Np!Init
         /\ view = "import" => Sw!Init
         /\ view = "migration" => Mw!Init
         /\ view = "bulk" => Ip!Init
         /\ view = "storage" => Sb!Init
BY Zenon DEF PagesInit, AnyPage

(***************************************************************************)
(* For any number of rows, variables, repositories, objects and tables,    *)
(* and whatever fails or answers late: each page keeps its types and what  *)
(* its user edited, saved, chose or saw listed (PagesTypeOK,               *)
(* PagesKeepEdits).                                                        *)
(***************************************************************************)
THEOREM PagesAreKept ==
  PagesAssumption /\ PagesSpec => [](PagesTypeOK /\ PagesKeepEdits)
<1> SUFFICES ASSUME PagesAssumption  PROVE PagesSpec => [](PagesTypeOK /\ PagesKeepEdits)
  OBVIOUS
<1> DEFINE
      EdOK == Ed!TypeOK /\ Ed!PatientEditsKept
      SpOK == Sp!TypeOK /\ Sp!SavedKept
      NpOK == Np!TypeOK /\ Np!SubmissionAsChosen
      SwOK == Sw!TypeOK /\ Sw!ImportFollowed /\ Sw!SubmissionAsShown
      MwOK == Mw!TypeOK /\ Mw!MigrationAsListed /\ Mw!MigrationFollowed
      IpOK == /\ Ip!TypeOK /\ Ip!ConfiguredAsMeant /\ Ip!ImportedAsShown
              /\ Ip!StaysCancelled /\ Ip!BadgeHonest
      SbOK == Sb!TypeOK /\ Sb!MovesKeepObjects
<1>1. PagesSpec => [](view \in AnyPage)
  <2>1. PagesInit => view \in AnyPage
    BY PageOpens
  <2>2. view \in AnyPage /\ [PagesNext]_pages => (view \in AnyPage)'
    BY OnePage
  <2> QED
    BY <2>1, <2>2, PTL DEF PagesSpec
<1>2. PagesSpec => [](view = "editor" => EdOK)
  <2>1. PagesInit => (view = "editor" => Ed!Init)
    BY PageOpens
  <2>2. [PagesNext]_pages =>
          /\ (view = "editor") <=> (view = "editor")'
          /\ view = "editor" => [Ed!Next]_(Ed!vars)
    BY OnePage
  <2>3. Ed!Spec => []EdOK
    BY PatientEditsAreKept DEF PagesAssumption
  <2> QED
    BY <2>1, <2>2, <2>3, PTL DEF PagesSpec, Ed!Spec
<1>3. PagesSpec => [](view = "settings" => SpOK)
  <2>1. PagesInit => (view = "settings" => Sp!Init)
    BY PageOpens
  <2>2. [PagesNext]_pages =>
          /\ (view = "settings") <=> (view = "settings")'
          /\ view = "settings" => [Sp!Next]_(Sp!vars)
    BY OnePage
  <2>3. Sp!Spec => []SpOK
    BY SavedSettingsAreKept DEF PagesAssumption
  <2> QED
    BY <2>1, <2>2, <2>3, PTL DEF PagesSpec, Sp!Spec
<1>4. PagesSpec => [](view = "new" => NpOK)
  <2>1. PagesInit => (view = "new" => Np!Init)
    BY PageOpens
  <2>2. [PagesNext]_pages =>
          /\ (view = "new") <=> (view = "new")'
          /\ view = "new" => [Np!Next]_(Np!vars)
    BY OnePage
  <2>3. Np!Spec => []NpOK
    BY SubmittedAsChosen DEF PagesAssumption
  <2> QED
    BY <2>1, <2>2, <2>3, PTL DEF PagesSpec, Np!Spec
<1>5. PagesSpec => [](view = "import" => SwOK)
  <2>1. PagesInit => (view = "import" => Sw!Init)
    BY PageOpens
  <2>2. [PagesNext]_pages =>
          /\ (view = "import") <=> (view = "import")'
          /\ view = "import" => [Sw!Next]_(Sw!vars)
    BY OnePage
  <2>3. Sw!Spec => []SwOK
    BY ImportsAreAsShown DEF PagesAssumption
  <2> QED
    BY <2>1, <2>2, <2>3, PTL DEF PagesSpec, Sw!Spec
<1>6. PagesSpec => [](view = "migration" => MwOK)
  <2>1. PagesInit => (view = "migration" => Mw!Init)
    BY PageOpens
  <2>2. [PagesNext]_pages =>
          /\ (view = "migration") <=> (view = "migration")'
          /\ view = "migration" => [Mw!Next]_(Mw!vars)
    BY OnePage
  <2>3. Mw!Spec => []MwOK
    BY MigrationsAreAsListed DEF PagesAssumption
  <2> QED
    BY <2>1, <2>2, <2>3, PTL DEF PagesSpec, Mw!Spec
<1>7. PagesSpec => [](view = "bulk" => IpOK)
  <2>1. PagesInit => (view = "bulk" => Ip!Init)
    BY PageOpens
  <2>2. [PagesNext]_pages =>
          /\ (view = "bulk") <=> (view = "bulk")'
          /\ view = "bulk" => [Ip!Next]_(Ip!vars)
    BY OnePage
  <2>3. Ip!Spec => []IpOK
    BY ImportPagesAreHonest DEF PagesAssumption
  <2> QED
    BY <2>1, <2>2, <2>3, PTL DEF PagesSpec, Ip!Spec
<1>8. PagesSpec => [](view = "storage" => SbOK)
  <2>1. PagesInit => (view = "storage" => Sb!Init)
    BY PageOpens
  <2>2. [PagesNext]_pages =>
          /\ (view = "storage") <=> (view = "storage")'
          /\ view = "storage" => [Sb!Next]_(Sb!vars)
    BY OnePage
  <2>3. Sb!Spec => []SbOK
    BY ObjectsAreKept DEF PagesAssumption
  <2> QED
    BY <2>1, <2>2, <2>3, PTL DEF PagesSpec, Sb!Spec
<1>9. /\ view \in AnyPage
      /\ view = "editor" => EdOK
      /\ view = "settings" => SpOK
      /\ view = "new" => NpOK
      /\ view = "import" => SwOK
      /\ view = "migration" => MwOK
      /\ view = "bulk" => IpOK
      /\ view = "storage" => SbOK
      => PagesTypeOK /\ PagesKeepEdits
  <2> SUFFICES ASSUME /\ view \in AnyPage
                      /\ view = "editor" => EdOK
                      /\ view = "settings" => SpOK
                      /\ view = "new" => NpOK
                      /\ view = "import" => SwOK
                      /\ view = "migration" => MwOK
                      /\ view = "bulk" => IpOK
                      /\ view = "storage" => SbOK
               PROVE  PagesTypeOK /\ PagesKeepEdits
    OBVIOUS
  <2>1. PagesTypeOK
    BY Zenon DEF PagesTypeOK, AnyPage
  <2>2. PagesKeepEdits
    BY Zenon DEF PagesKeepEdits
  <2> QED
    BY <2>1, <2>2
<1> QED
  BY <1>1, <1>2, <1>3, <1>4, <1>5, <1>6, <1>7, <1>8, <1>9, PTL
================================================================================
