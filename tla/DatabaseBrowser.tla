---------------------------- MODULE DatabaseBrowser ----------------------------
(***************************************************************************)
(* The database page of a project and DatabaseBrowserService: a page of a  *)
(* table's rows, whose marks and open editor are positions in the listing  *)
(* shown, while rows come, go and move in the table.                       *)
(*                                                                         *)
(* Every table has a primary key.  A row is its key; a cell's text either  *)
(* differs from the row's or not.  Sorting is by key.  A modal dialog is   *)
(* opened and confirmed in one step.  Of the views, the structure and the  *)
(* overview change nothing and are left out, as is the cache of listings.  *)
(***************************************************************************)
EXTENDS Naturals, FiniteSets, SequencesExt

CONSTANTS
  Users,       \* of the page
  Rows,        \* table -> its first rows, 1..n over all tables
  PageSize,    \* 50 in the code (bound)
  MaxClicks,   \* of a user in the page (bound)
  MaxWrites    \* statements of the SQL panel and the application (bound)

DatabaseBrowserAssumption ==
  /\ \A t \in DOMAIN Rows : Rows[t] \in Seq(Nat \ {0})
  /\ PageSize \in Nat \ {0} /\ {MaxClicks, MaxWrites} \subseteq Nat

Tables == DOMAIN Rows
First == UNION {ToSet(Rows[t]) : t \in Tables}
Url == [table : Tables, page : Nat \ {0}, sort : {"none", "asc", "desc"}, query : BOOLEAN]
NoPage == [table |-> "none"]

VARIABLES
  heap,             \* table -> its rows in the order of a scan
  ui,               \* user -> the page's state
  requests,         \* at the service
  clicks, writes,   \* so far
  shifted, astray   \* history: see RowsAsMeant

vars == <<heap, ui, requests, clicks, writes, shifted, astray>>

Loading == [rows |-> <<>>, pages |-> 0]
Unmarked == [i \in 1..PageSize |-> 0]

\* url: of the page; going: where the router is taking it; shown: the last
\* listing; marks, edit: positions in it, 0 for none; form: a new row's fields
\* are open; copied: a row is held; meant, opened: history, the rows that were
\* at the marks and at the editor when the user put them there.
Page(table) ==
  [url |-> [table |-> table, page |-> 1, sort |-> "none", query |-> FALSE],
   going |-> NoPage, shown |-> Loading, marks |-> {}, edit |-> 0,
   form |-> FALSE, copied |-> FALSE, meant |-> Unmarked, opened |-> 0]

InTable == UNION {ToSet(heap[t]) : t \in Tables}

TypeOK ==
  /\ heap \in [Tables -> Seq(Nat \ {0})] /\ \A t \in Tables : IsInjective(heap[t])
  /\ \A u \in Users :
       /\ ui[u].url \in Url /\ ui[u].going \in Url \cup {NoPage}
       /\ Len(ui[u].shown.rows) <= PageSize
       /\ ui[u].marks \subseteq 1..PageSize /\ ui[u].edit \in 0..PageSize
       /\ {ui[u].form, ui[u].copied} \subseteq BOOLEAN
  /\ \A r \in requests : r.kind \in {"delete", "update", "insert"} /\ r.user \in Users
  /\ clicks \in [Users -> 0..MaxClicks] /\ writes \in 0..MaxWrites
  /\ {shifted, astray} \subseteq BOOLEAN

Init ==
  /\ heap = Rows
  /\ ui \in [Users -> {Page(t) : t \in Tables}]
  /\ requests = {} /\ clicks = [u \in Users |-> 0] /\ writes = 0
  /\ shifted = FALSE /\ astray = FALSE
----------------------------------------------------------------------------
\* One page of the table in the order asked for, or in that of the scan.
Listing(url) ==
  LET all == IF url.sort = "none" THEN heap[url.table]
             ELSE SetToSortSeq(ToSet(heap[url.table]),
                               LAMBDA a, b : IF url.sort = "asc" THEN a < b ELSE b < a)
      offset == (url.page - 1) * PageSize
  IN [rows |-> SubSeq(all, offset + 1, IF offset + PageSize < Len(all) THEN offset + PageSize ELSE Len(all)),
      pages |-> (Len(all) + PageSize - 1) \div PageSize]

Row(listing, i) == IF i \in DOMAIN listing.rows THEN listing.rows[i] ELSE 0

Moves(u, old, new) == \E i \in ui[u].marks \cup {ui[u].edit} : Row(old, i) # Row(new, i)

\* The answer to a fetch of the rows; the page asks again on focus, after a
\* request that succeeded, and when its URL changes.
Load(u) ==
  LET old == ui[u].shown
      new == Listing(ui[u].url)
  IN /\ ~ui[u].url.query /\ old # new
     /\ ui' = [ui EXCEPT ![u].shown = new]
     /\ shifted' = (shifted \/ (old # Loading /\ Moves(u, old, new)))
     /\ UNCHANGED <<heap, requests, clicks, writes, astray>>
----------------------------------------------------------------------------
\* The page.  A click outside the editor first saves what is in it.
Click(u) == clicks[u] < MaxClicks /\ clicks' = [clicks EXCEPT ![u] = @ + 1]

Saving(u) == \E r \in requests : r.user = u /\ r.kind = "update" /\ r.closes
Clickable(u) == Row(ui[u].shown, ui[u].edit) = 0 \/ Saving(u)
Ready(u) == ~ui[u].url.query /\ ui[u].shown # Loading /\ Clickable(u)

SelectTable(u) ==
  /\ Clickable(u)
  /\ \E t \in Tables :
       ui' = [ui EXCEPT ![u].going = Page(t).url, ![u].marks = {}, ![u].meant = Unmarked,
                        ![u].form = FALSE, ![u].copied = FALSE]
  /\ Click(u)
  /\ UNCHANGED <<heap, requests, writes, shifted, astray>>

Navigate(u, url) ==
  /\ ui' = [ui EXCEPT ![u].going = url]
  /\ shifted' = (shifted \/ ui[u].marks # {})
  /\ Click(u)
  /\ UNCHANGED <<heap, requests, writes, astray>>

SetPage(u) ==
  /\ Ready(u)
  /\ \/ ui[u].url.page > 1 /\ Navigate(u, [ui[u].url EXCEPT !.page = @ - 1])
     \/ ui[u].url.page < ui[u].shown.pages /\ Navigate(u, [ui[u].url EXCEPT !.page = @ + 1])

HandleSort(u) ==
  /\ Ready(u)
  /\ Navigate(u, [ui[u].url EXCEPT !.page = 1, !.sort = IF @ = "asc" THEN "desc" ELSE "asc"])

SetSubView(u) ==
  /\ Clickable(u)
  /\ Navigate(u, [ui[u].url EXCEPT !.query = ~@])

\* The router shows the new URL once the server has answered.
Arrive(u) ==
  /\ ui[u].going # NoPage
  /\ ui' = [ui EXCEPT ![u].url = ui[u].going, ![u].going = NoPage, ![u].shown = Loading]
  /\ shifted' = (shifted \/ ui[u].edit # 0)
  /\ UNCHANGED <<heap, requests, clicks, writes, astray>>

\* Marks made while the page is on its way to another listing are taken along.
Mark(u, marks) ==
  /\ ui' = [ui EXCEPT ![u].marks = marks,
                      ![u].meant = [i \in 1..PageSize |-> IF i \notin marks THEN 0
                                          ELSE IF i \in ui[u].marks THEN @[i]
                                          ELSE Row(ui[u].shown, i)]]
  /\ shifted' = (shifted \/ ui[u].going # NoPage)
  /\ Click(u)
  /\ UNCHANGED <<heap, requests, writes, astray>>

ToggleRowSelection(u) ==
  /\ Ready(u)
  /\ \E i \in DOMAIN ui[u].shown.rows :
       Mark(u, IF i \in ui[u].marks THEN ui[u].marks \ {i} ELSE ui[u].marks \cup {i})

ToggleAllRows(u) ==
  /\ Ready(u) /\ ui[u].shown.rows # <<>>
  /\ Mark(u, IF Cardinality(ui[u].marks) = Len(ui[u].shown.rows) THEN {}
             ELSE DOMAIN ui[u].shown.rows)

HandleCellDoubleClick(u) ==
  /\ Ready(u)
  /\ \E i \in DOMAIN ui[u].shown.rows :
       ui' = [ui EXCEPT ![u].edit = i, ![u].opened = ui[u].shown.rows[i]]
  /\ Click(u)
  /\ UNCHANGED <<heap, requests, writes, shifted, astray>>

HandleCancelEdit(u) ==
  /\ Row(ui[u].shown, ui[u].edit) # 0
  /\ ui' = [ui EXCEPT ![u].edit = 0]
  /\ Click(u)
  /\ UNCHANGED <<heap, requests, writes, shifted, astray>>

HandleCopyRow(u) ==
  /\ Ready(u) /\ Cardinality(ui[u].marks) = 1
  /\ ui' = [ui EXCEPT ![u].copied = TRUE]
  /\ Click(u)
  /\ UNCHANGED <<heap, requests, writes, shifted, astray>>

\* The row held, or an empty one, becomes a form; a form is saved or cancelled.
OpenForm(u) ==
  /\ Ready(u) /\ ~ui[u].form
  /\ ui' = [ui EXCEPT ![u].form = TRUE]
  /\ Click(u)
  /\ UNCHANGED <<heap, requests, writes, shifted, astray>>

HandleAddRow(u) == OpenForm(u)
HandlePasteRow(u) == ui[u].copied /\ OpenForm(u)

HandleCancelNewRow(u) ==
  /\ Ready(u) /\ ui[u].form
  /\ ui' = [ui EXCEPT ![u].form = FALSE]
  /\ Click(u)
  /\ UNCHANGED <<heap, requests, writes, shifted, astray>>
----------------------------------------------------------------------------
\* Requests.  No request waits for an earlier one.
Send(u, kind, rows, meant, closes) ==
  /\ Click(u)
  /\ requests' = requests \cup
       {[user |-> u, number |-> clicks[u], kind |-> kind, table |-> ui[u].url.table,
         rows |-> rows, meant |-> meant, closes |-> closes]}
  /\ UNCHANGED <<heap, ui, writes, shifted, astray>>

\* A mark past the end of the listing makes the page throw instead.
HandleDeleteSelected(u) ==
  /\ Ready(u) /\ ui[u].marks # {} /\ ui[u].marks \subseteq DOMAIN ui[u].shown.rows
  /\ Send(u, "delete", {ui[u].shown.rows[i] : i \in ui[u].marks},
          {ui[u].meant[i] : i \in ui[u].marks}, FALSE)

\* The text goes to the row that is now where the editor was opened.
HandleSaveEdit(u) ==
  LET row == Row(ui[u].shown, ui[u].edit)
  IN /\ row # 0 /\ ~ui[u].url.query
     /\ Send(u, "update", {row}, {ui[u].opened}, TRUE)

SaveJson(u) ==
  /\ Ready(u)
  /\ \E row \in ToSet(ui[u].shown.rows) : Send(u, "update", {row}, {row}, FALSE)

HandleSaveNewRow(u) ==
  Ready(u) /\ ui[u].form /\ Send(u, "insert", {}, {}, FALSE)
----------------------------------------------------------------------------
\* The service, and the page when the answer comes.
Answer(r, succeeded) ==
  /\ requests' = requests \ {r}
  /\ ui' = [ui EXCEPT ![r.user] =
       [@ EXCEPT !.edit = IF r.closes THEN 0 ELSE @,
                 !.marks = IF succeeded /\ r.kind = "delete" THEN {} ELSE @,
                 !.meant = IF succeeded /\ r.kind = "delete" THEN Unmarked ELSE @,
                 !.form = @ /\ ~(succeeded /\ r.kind = "insert")]]
  /\ UNCHANGED <<clicks, writes, shifted>>

\* One DELETE per row; a foreign key may stop the loop, what is gone stays so.
DeleteRow(r) ==
  /\ r.kind = "delete"
  /\ \E row \in r.rows :
       /\ heap' = [heap EXCEPT ![r.table] = SelectSeq(@, LAMBDA other : other # row)]
       /\ requests' = (requests \ {r}) \cup {[r EXCEPT !.rows = @ \ {row}]}
       /\ astray' = (astray \/ (row \notin r.meant /\ row \in ToSet(heap[r.table])))
  /\ UNCHANGED <<ui, clicks, writes, shifted>>

EndDelete(r) ==
  /\ r.kind = "delete" /\ r.rows = {}
  /\ Answer(r, TRUE)
  /\ UNCHANGED <<heap, astray>>

\* A new version of a row may be anywhere in the table.
Moved(rows, row) ==
  LET others == SelectSeq(rows, LAMBDA other : other # row)
  IN {InsertAt(others, i, row) : i \in 1..Len(others) + 1}

UpdateRow(r) ==
  /\ r.kind = "update" /\ r.rows \subseteq ToSet(heap[r.table])
  /\ \E row \in r.rows, rows \in Moved(heap[r.table], CHOOSE one \in r.rows : TRUE) :
       heap' = [heap EXCEPT ![r.table] = rows]
  /\ astray' = (astray \/ r.rows # r.meant)
  /\ Answer(r, TRUE)

NewRow == CHOOSE n \in 1..Cardinality(InTable) + 1 + Cardinality(First) : n \notin InTable \cup First

InsertRow(r) ==
  /\ r.kind = "insert"
  /\ \E rows \in Moved(heap[r.table], NewRow) : heap' = [heap EXCEPT ![r.table] = rows]
  /\ Answer(r, TRUE)
  /\ UNCHANGED astray

\* A constraint, a row not found, or the network.
Refuse(r) == Answer(r, FALSE) /\ UNCHANGED <<heap, astray>>

\* A statement of the SQL panel, confirmed when it begins with DELETE or UPDATE,
\* or the application's own.
Execute(t) ==
  /\ writes < MaxWrites
  /\ writes' = writes + 1
  /\ \/ \E row \in ToSet(heap[t]) :
          \/ heap' = [heap EXCEPT ![t] = SelectSeq(@, LAMBDA other : other # row)]
          \/ \E rows \in Moved(heap[t], row) : heap' = [heap EXCEPT ![t] = rows]
     \/ \E rows \in Moved(heap[t], NewRow) : heap' = [heap EXCEPT ![t] = rows]
  /\ UNCHANGED <<ui, requests, clicks, shifted, astray>>

ExecuteQuery(u) == ui[u].url.query /\ \E t \in Tables : Execute(t)
Write == \E t \in Tables : Execute(t)

Next ==
  \/ \E u \in Users :
       \/ Load(u) \/ SelectTable(u) \/ SetPage(u) \/ HandleSort(u) \/ SetSubView(u) \/ Arrive(u)
       \/ ToggleRowSelection(u) \/ ToggleAllRows(u) \/ HandleCellDoubleClick(u) \/ HandleCancelEdit(u)
       \/ HandleCopyRow(u) \/ HandleAddRow(u) \/ HandlePasteRow(u) \/ HandleCancelNewRow(u)
       \/ HandleDeleteSelected(u) \/ HandleSaveEdit(u) \/ SaveJson(u) \/ HandleSaveNewRow(u)
       \/ ExecuteQuery(u)
  \/ \E r \in requests : DeleteRow(r) \/ EndDelete(r) \/ UpdateRow(r) \/ InsertRow(r) \/ Refuse(r)
  \/ Write

Spec == Init /\ [][Next]_vars
----------------------------------------------------------------------------
(***************************************************************************)
(* Requests delete only rows their user marked, and an edit reaches only   *)
(* the row whose cell was opened, unless the listing changed under a mark  *)
(* or an editor: a page, an order or a view chosen with rows marked, rows  *)
(* marked while another listing was on its way, a refetch that moved what  *)
(* was held, or an editor left open in a listing that was replaced.        *)
(* Choosing a table does not count: it drops the marks (page.tsx,          *)
(* DatabaseBrowserService.deleteRows, updateRow).                          *)
(***************************************************************************)
RowsAsMeant == astray => shifted
=============================================================================
