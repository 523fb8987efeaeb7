--------------------------- MODULE StorageBrowser ---------------------------
(***************************************************************************)
(* The object browser of a project's MinIO bucket: the page with its       *)
(* listing and selection, and StorageBrowserService, whose moves, renames  *)
(* and deletions of folders are loops over what one listing returned.      *)
(*                                                                         *)
(* A key is the sequence of its folders and its name; a folder made by     *)
(* hand is an object of no name, "mark" here.  A dialog is opened and      *)
(* confirmed in one step: it holds the entry it is for and the text only.  *)
(* Objects are copied in any order; a user waits for each request.         *)
(***************************************************************************)
EXTENDS Naturals, FiniteSets, SequencesExt

CONSTANTS
  Users,      \* of the page
  Folders,    \* names of folders
  MaxDepth,   \* of folders (bound)
  MaxKeys,    \* entries a listing answers; 100 in the code (bound)
  MaxUploads, \* files uploaded (bound)
  MaxChanges  \* requests of other kinds (bound)

StorageBrowserAssumption ==
  /\ "mark" \notin Folders /\ "f" \notin Folders
  /\ {MaxDepth, MaxKeys, MaxUploads, MaxChanges} \subseteq Nat

Prefix == UNION {[1..n -> Folders] : n \in 0..MaxDepth}
Key == {prefix \o <<name>> : prefix \in Prefix, name \in {"f", "mark"}}
Entry == [folder : {TRUE}, path : Prefix \ {<<>>}] \cup [folder : {FALSE}, path : Key]
Request ==
  [kind : {"none", "move", "delete", "bulk"}, at : {"none", "list", "copy", "remove"},
   from : Prefix, to : Prefix, folders : SUBSET Prefix,
   files : SUBSET Key, keys : SUBSET Key, left : SUBSET Key]

VARIABLES
  objects,                 \* the bucket: key -> the upload it holds, 0 for a folder's mark
  prefix, shown, selected, \* each user's page: its URL, the last listing, the marked rows
  op,                      \* each user's request at the server
  uploads, changes,        \* requests so far
  gone,                    \* history: uploads deleted or overwritten
  raced, onto              \* history: two requests met in a key; one met its own keys

page == <<prefix, shown, selected>>
counts == <<uploads, changes>>
history == <<gone, raced, onto>>
vars == <<objects, page, op, counts, history>>

Idle == [kind |-> "none", from |-> <<>>, to |-> <<>>, folders |-> {}, files |-> {},
         at |-> "none", keys |-> {}, left |-> {}]

TypeOK ==
  /\ DOMAIN objects \subseteq Key /\ \A key \in DOMAIN objects : objects[key] \in 0..MaxUploads
  /\ prefix \in [Users -> Prefix]
  /\ shown \in [Users -> SUBSET Entry] /\ selected \in [Users -> SUBSET Entry]
  /\ op \in [Users -> Request] /\ \A u \in Users : op[u].left \subseteq op[u].keys
  /\ uploads \in 0..MaxUploads /\ changes \in 0..MaxChanges
  /\ gone \subseteq 1..MaxUploads /\ raced \in BOOLEAN /\ onto \in BOOLEAN

Init ==
  /\ objects = <<>>
  /\ prefix = [u \in Users |-> <<>>]
  /\ shown = [u \in Users |-> {}] /\ selected = [u \in Users |-> {}]
  /\ op = [u \in Users |-> Idle]
  /\ uploads = 0 /\ changes = 0 /\ gone = {} /\ raced = FALSE /\ onto = FALSE

Under(path) == {key \in DOMAIN objects : IsPrefix(path, key)}
Contents(keys) == {objects[key] : key \in keys \cap DOMAIN objects} \ {0}
NewKey(request, key) == request.to \o SubSeq(key, Len(request.from) + 1, Len(key))

\* The keys a request under way will still read, write or remove.
Footprint(request) ==
  request.keys \cup (IF request.kind = "move" THEN {NewKey(request, key) : key \in request.keys}
                     ELSE {})
Meets(u, keys) == \E other \in Users \ {u} : Footprint(op[other]) \cap keys # {}
----------------------------------------------------------------------------
\* The page.  A listing that is cut off destroys its stream and never answers.
Entries(path) ==
  LET below == Under(path)
      files == {key \in below : Len(key) = Len(path) + 1 /\ Last(key) # "mark"}
      folders == {SubSeq(key, 1, Len(path) + 1) :
                    key \in {deep \in below : Len(deep) > Len(path) + 1}}
  IN {[folder |-> FALSE, path |-> key] : key \in files}
       \cup {[folder |-> TRUE, path |-> folder] : folder \in folders}

Load(u) ==
  /\ shown[u] # Entries(prefix[u]) /\ Cardinality(Entries(prefix[u])) <= MaxKeys
  /\ shown' = [shown EXCEPT ![u] = Entries(prefix[u])]
  /\ UNCHANGED <<objects, prefix, selected, op, counts, history>>

Visit(u, path) ==
  /\ prefix' = [prefix EXCEPT ![u] = path]
  /\ selected' = [selected EXCEPT ![u] = {}] /\ shown' = [shown EXCEPT ![u] = {}]
  /\ UNCHANGED <<objects, op, counts, history>>

OpenFolder(u) == \E entry \in shown[u] : entry.folder /\ Visit(u, entry.path)
Breadcrumb(u) == \E n \in 0..Len(prefix[u]) - 1 : Visit(u, SubSeq(prefix[u], 1, n))

Toggle(u) ==
  /\ \E entry \in shown[u] :
       selected' = [selected EXCEPT ![u] = IF entry \in @ THEN @ \ {entry} ELSE @ \cup {entry}]
  /\ UNCHANGED <<objects, prefix, shown, op, counts, history>>

ToggleAll(u) ==
  /\ shown[u] # {}
  /\ selected' = [selected EXCEPT ![u] =
       IF Cardinality(@) = Cardinality(shown[u]) THEN {} ELSE shown[u]]
  /\ UNCHANGED <<objects, prefix, shown, op, counts, history>>
----------------------------------------------------------------------------
\* Requests of one step: an upload into the folder shown, a new folder.
Put(u, key, content) ==
  /\ objects' = [k \in DOMAIN objects \cup {key} |-> IF k = key THEN content ELSE objects[k]]
  /\ gone' = gone \cup (Contents({key}) \ {content})

Upload(u) ==
  /\ op[u] = Idle /\ uploads < MaxUploads
  /\ uploads' = uploads + 1
  /\ Put(u, Append(prefix[u], "f"), uploads + 1)
  /\ raced' = (raced \/ Meets(u, {Append(prefix[u], "f")}))
  /\ UNCHANGED <<page, op, changes, onto>>

CreateFolder(u) ==
  /\ op[u] = Idle /\ changes < MaxChanges /\ Len(prefix[u]) < MaxDepth
  /\ changes' = changes + 1
  /\ \E name \in Folders :
       LET mark == Append(Append(prefix[u], name), "mark")
       IN Put(u, mark, 0) /\ raced' = (raced \/ Meets(u, {mark}))
  /\ UNCHANGED <<page, op, uploads, onto>>

\* Requests of several.
Begin(u, request) ==
  /\ op[u] = Idle /\ changes < MaxChanges
  /\ changes' = changes + 1
  /\ op' = [op EXCEPT ![u] = request]
  /\ UNCHANGED <<objects, page, uploads, history>>

Moving(from, to) == [Idle EXCEPT !.kind = "move", !.at = "list", !.from = from, !.to = to]

\* The destination is first the folder shown.
MoveFolder(u) ==
  \E entry \in shown[u], dest \in Prefix :
    /\ entry.folder /\ Len(dest) < MaxDepth
    /\ Begin(u, Moving(entry.path, Append(dest, Last(entry.path))))

\* The button compares the text with the name, the request trims it first.
RenameFolder(u) ==
  \E entry \in shown[u], name \in Folders, spaced \in BOOLEAN :
    /\ entry.folder /\ (spaced \/ name # Last(entry.path))
    /\ Begin(u, Moving(entry.path, Append(Front(entry.path), name)))

Deleting(kind, entries) ==
  [Idle EXCEPT !.kind = kind, !.at = "list",
               !.folders = {entry.path : entry \in {e \in entries : e.folder}},
               !.files = {entry.path : entry \in {e \in entries : ~e.folder}}]

Delete(u) == \E entry \in shown[u] : Begin(u, Deleting("delete", {entry}))

\* The page deletes the folders marked one after the other, then the files.
BulkDelete(u) ==
  /\ selected[u] # {}
  /\ Begin(u, Deleting("bulk", selected[u]))
----------------------------------------------------------------------------
\* The service.
ListKeys(u) ==
  /\ op[u].kind = "move" /\ op[u].at = "list"
  /\ LET keys == Under(op[u].from)
         request == [op[u] EXCEPT !.at = "copy", !.keys = keys, !.left = keys]
     IN /\ op' = [op EXCEPT ![u] = request]
        /\ raced' = (raced \/ Meets(u, Footprint(request)))
        /\ onto' = (onto \/ \E key \in keys : NewKey(request, key) \in keys)
        /\ \A key \in keys : Len(NewKey(request, key)) <= MaxDepth + 1
  /\ UNCHANGED <<objects, page, counts, gone>>

CopyKey(u) ==
  /\ op[u].at = "copy"
  /\ \E key \in op[u].left \cap DOMAIN objects :
       /\ Put(u, NewKey(op[u], key), objects[key])
       /\ op' = [op EXCEPT ![u].left = @ \ {key}]
  /\ UNCHANGED <<page, counts, raced, onto>>

RemoveKeys(keys) == objects' = [key \in DOMAIN objects \ keys |-> objects[key]]

Copied(u) == op[u].left = {}

EndMove(u) ==
  /\ op[u].at = "copy" /\ Copied(u)
  /\ RemoveKeys(op[u].keys)
  /\ op' = [op EXCEPT ![u] = Idle]
  /\ UNCHANGED <<page, counts, history>>

\* What a deletion has listed, or the marked files once no folder is left.
ListDeleted(u) ==
  /\ op[u].kind \in {"delete", "bulk"} /\ op[u].at = "list"
  /\ \/ \E folder \in op[u].folders :
          op' = [op EXCEPT ![u].keys = Under(folder), ![u].at = "remove", ![u].folders = @ \ {folder}]
     \/ /\ op[u].folders = {}
        /\ op' = [op EXCEPT ![u].keys = op[u].files, ![u].files = {}, ![u].at = "remove"]
  /\ raced' = (raced \/ Meets(u, op'[u].keys))
  /\ UNCHANGED <<objects, page, counts, gone, onto>>

\* The page unmarks the file of a row, or all after a deletion of what was marked.
Unmarked(u) ==
  IF op[u].kind = "bulk" THEN {}
  ELSE {entry \in selected[u] : entry.folder \/ entry.path \notin op[u].keys}

RemoveDeleted(u) ==
  /\ op[u].at = "remove"
  /\ RemoveKeys(op[u].keys) /\ gone' = gone \cup Contents(op[u].keys)
  /\ LET done == op[u].folders = {} /\ op[u].files = {}
     IN /\ op' = [op EXCEPT ![u] = IF done THEN Idle ELSE [@ EXCEPT !.at = "list", !.keys = {}]]
        /\ selected' = IF done THEN [selected EXCEPT ![u] = Unmarked(u)] ELSE selected
  /\ UNCHANGED <<prefix, shown, counts, raced, onto>>

\* MinIO, or the backend, fails.
Fail(u) ==
  /\ op[u] # Idle
  /\ op' = [op EXCEPT ![u] = Idle]
  /\ UNCHANGED <<objects, page, counts, history>>

Next ==
  \E u \in Users :
    \/ Load(u) \/ OpenFolder(u) \/ Breadcrumb(u) \/ Toggle(u) \/ ToggleAll(u)
    \/ Upload(u) \/ CreateFolder(u) \/ MoveFolder(u) \/ RenameFolder(u)
    \/ Delete(u) \/ BulkDelete(u)
    \/ ListKeys(u) \/ CopyKey(u) \/ EndMove(u) \/ ListDeleted(u) \/ RemoveDeleted(u) \/ Fail(u)

Spec == Init /\ [][Next]_vars
----------------------------------------------------------------------------
(***************************************************************************)
(* A file is in the bucket until somebody deletes or overwrites it,        *)
(* however moves, renames and deletions interleave and wherever they fail, *)
(* unless two requests met in a key or a move's new keys are among those   *)
(* it moves: then it removes what it has just copied                       *)
(* (StorageBrowserService.movePrefix, renamePrefix, deletePrefix).         *)
(***************************************************************************)
MovesKeepObjects ==
  ~raced /\ ~onto => \A upload \in 1..uploads : upload \in gone \cup Contents(DOMAIN objects)
=============================================================================
