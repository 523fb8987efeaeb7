------------------------------ MODULE ProjectFiles ------------------------------
(***************************************************************************)
(* The files page of a project and ProjectFilesService: uploads of a file  *)
(* or a folder, extraction, new folders and deletion in the directory the  *)
(* deployed application runs in, under a limit per file and one in total.  *)
(*                                                                         *)
(* A file is a path <<directory, name>> and its size; the project's root   *)
(* is "".  A directory weighs nothing, .git, node_modules and downloads    *)
(* are left out.  A check and what it allows are one step in the code:     *)
(* both are synchronous, after the project's row was read.                 *)
(***************************************************************************)
EXTENDS Naturals, FiniteSets, FiniteSetsExt, Functions, TLC

CONSTANTS
  Users,       \* of the page
  Dirs,        \* names of directories
  Names,       \* of files other than the archive (the archive is "z")
  Inside,      \* the archive: name -> size
  Sizes,       \* of an upload
  Limits,      \* the settings [file, total] an administrator may choose
  MaxRequests, \* to the service (bound)
  MaxWrites    \* of the application (bound)

ProjectFilesAssumption ==
  /\ "" \notin Dirs /\ "z" \notin Names /\ DOMAIN Inside \subseteq Names
  /\ \A name \in DOMAIN Inside : Inside[name] \in Nat
  /\ Sizes \subseteq Nat /\ {MaxRequests, MaxWrites} \subseteq Nat
  /\ \A limit \in Limits : {limit.file, limit.total} \subseteq Nat

Path == (Dirs \cup {""}) \X (Names \cup {"z"})

VARIABLES
  files, dirs,     \* on disk: path -> size; directories that exist
  limit,           \* the project's row
  ui,              \* user -> the directory shown, its listing, the upload dialog
  requests, sent,  \* at the service; how many so far
  writes,          \* of the application so far
  ceiling,         \* history: the highest total limit;
  unchecked        \* bytes the application wrote, or archives had unmeasured

vars == <<files, dirs, limit, ui, requests, sent, writes, ceiling, unchecked>>

NoFiles == <<>>
Closed == [open |-> FALSE, chosen |-> NoFiles, folder |-> FALSE, target |-> "", extract |-> FALSE]

TypeOK ==
  /\ DOMAIN files \subseteq Path /\ \A path \in DOMAIN files : files[path] \in Nat
  /\ \A path \in DOMAIN files : path[1] \in dirs
  /\ dirs \subseteq Dirs \cup {""} /\ limit \in Limits
  /\ \A u \in Users : ui[u].path \in Dirs \cup {""} /\ ui[u].upload.folder \in BOOLEAN
  /\ sent \in 0..MaxRequests /\ writes \in 0..MaxWrites

Init ==
  /\ files = <<>> /\ dirs = {""}
  /\ limit \in Limits /\ ceiling = limit.total /\ unchecked = 0
  /\ ui = [u \in Users |-> [path |-> "", shown |-> {}, upload |-> Closed]]
  /\ requests = {} /\ sent = 0 /\ writes = 0

Total(sizes) == FoldFunction(+, 0, sizes)
\* calculateDirSize
Used == Total(files)
----------------------------------------------------------------------------
\* The page.
Listing(dir) ==
  {<<"file", path>> : path \in {p \in DOMAIN files : p[1] = dir}}
    \cup (IF dir = "" THEN {<<"directory", d>> : d \in dirs \ {""}} ELSE {})

Load(u) ==
  /\ ui[u].shown # Listing(ui[u].path)
  /\ ui' = [ui EXCEPT ![u].shown = Listing(ui[u].path)]
  /\ UNCHANGED <<files, dirs, limit, requests, sent, writes, ceiling, unchecked>>

NavigateTo(u) ==
  /\ ~ui[u].upload.open
  /\ \E dir \in {item[2] : item \in {i \in ui[u].shown : i[1] = "directory"}} \cup {""} :
       dir # ui[u].path /\ ui' = [ui EXCEPT ![u].path = dir, ![u].shown = {}]
  /\ UNCHANGED <<files, dirs, limit, requests, sent, writes, ceiling, unchecked>>

SetUpload(u, upload) ==
  /\ ui' = [ui EXCEPT ![u].upload = upload]
  /\ UNCHANGED <<files, dirs, limit, requests, sent, writes, ceiling, unchecked>>

OpenUpload(u) ==
  ~ui[u].upload.open /\ SetUpload(u, [ui[u].upload EXCEPT !.open = TRUE, !.target = ui[u].path])

Choose(u) ==
  /\ ui[u].upload.open
  /\ \/ \E name \in Names \cup {"z"}, size \in Sizes :
          SetUpload(u, [ui[u].upload EXCEPT !.chosen = [n \in {name} |-> size],
                                            !.folder = FALSE, !.extract = FALSE])
     \/ \E sizes \in [Names -> Sizes] :
          SetUpload(u, [ui[u].upload EXCEPT !.chosen = sizes, !.folder = TRUE, !.extract = FALSE])

SetTarget(u) ==
  /\ ui[u].upload.open
  /\ \E dir \in Dirs \cup {""} : SetUpload(u, [ui[u].upload EXCEPT !.target = dir])

SetExtract(u) ==
  /\ ui[u].upload.open /\ ~ui[u].upload.folder /\ DOMAIN ui[u].upload.chosen = {"z"}
  /\ SetUpload(u, [ui[u].upload EXCEPT !.extract = ~@])

\* Cancel keeps the files chosen, closing the dialog otherwise does not.
CloseUpload(u) ==
  /\ ui[u].upload.open
  /\ SetUpload(u, [ui[u].upload EXCEPT !.open = FALSE]) \/ SetUpload(u, Closed)

Send(u, request) ==
  /\ sent < MaxRequests
  /\ sent' = sent + 1
  /\ requests' = requests \cup {[user |-> u, number |-> sent, limit |-> [total |-> 0, file |-> 0],
                                 at |-> "sent"] @@ request}
  /\ UNCHANGED <<files, dirs, limit, ui, writes, ceiling, unchecked>>

Pending(u, kinds) == \E r \in requests : r.user = u /\ r.kind \in kinds

HandleUpload(u) ==
  LET upload == ui[u].upload
  IN /\ upload.open /\ upload.chosen # NoFiles /\ ~Pending(u, {"upload", "batch"})
     /\ Send(u, [kind |-> IF upload.folder THEN "batch" ELSE "upload",
                 dir |-> upload.target, sizes |-> upload.chosen, extract |-> upload.extract])

HandleMkdir(u) ==
  /\ ui[u].path = "" /\ ~ui[u].upload.open
  /\ \E dir \in Dirs : Send(u, [kind |-> "mkdir", dir |-> dir])

HandleExtract(u) ==
  /\ <<"file", <<ui[u].path, "z">>>> \in ui[u].shown /\ ~Pending(u, {"extract"})
  /\ Send(u, [kind |-> "extract", dir |-> ui[u].path])

HandleDelete(u) == \E item \in ui[u].shown : Send(u, [kind |-> "delete", item |-> item])
----------------------------------------------------------------------------
\* The service.
\* The limits are read before the await that yields the directory.
ReadProject(r) ==
  /\ r.kind \in {"upload", "batch", "extract"} /\ r.at = "sent"
  /\ requests' = (requests \ {r}) \cup {[r EXCEPT !.at = "read", !.limit = limit]}
  /\ UNCHANGED <<files, dirs, limit, ui, sent, writes, ceiling, unchecked>>

\* An upload that succeeds closes its user's dialog, whichever is open by then.
Answer(r, succeeded) ==
  /\ requests' = requests \ {r}
  /\ ui' = IF succeeded /\ r.kind \in {"upload", "batch"} THEN [ui EXCEPT ![r.user].upload = Closed]
           ELSE ui
  /\ UNCHANGED <<limit, sent, writes, ceiling>>

Written(dir, sizes) == [path \in {<<dir, name>> : name \in DOMAIN sizes} |-> sizes[path[2]]]

\* extractArchive: refused, or all or, when it fails or takes too long, part of
\* what is inside.  getArchiveSize: of a listing it cannot get or read, 0.
Measured == {Total(Inside), 0}
Fits(r, used, size) == used + size <= r.limit.total
Unmeasured(size) == unchecked' = unchecked + (Total(Inside) - size)
Part == {Restrict(Inside, names) : names \in (SUBSET DOMAIN Inside) \ {DOMAIN Inside}}

\* Mutant: what is there already is not counted.
Room_empty(r) == Total(r.sizes) <= r.limit.total
Room(r) == Used + Total(r.sizes) <= r.limit.total

UploadFile(r) ==
  /\ r.kind = "upload" /\ r.at = "read"
  /\ \A name \in DOMAIN r.sizes : r.sizes[name] <= r.limit.file
  /\ Room(r)
  /\ dirs' = dirs \cup {r.dir}
  /\ LET written == Written(r.dir, r.sizes) @@ files
         used == Used + Total(r.sizes)
     IN \/ /\ ~r.extract
           /\ files' = written /\ Answer(r, TRUE) /\ UNCHANGED unchecked
        \/ \E size \in Measured :
             /\ r.extract /\ Fits(r, used, size) /\ Unmeasured(size)
             /\ \/ /\ files' = Restrict(Written(r.dir, Inside) @@ written,
                           (DOMAIN written \cup DOMAIN Written(r.dir, Inside)) \ {<<r.dir, "z">>})
                   /\ Answer(r, TRUE)
                \/ /\ \E part \in Part : files' = Written(r.dir, part) @@ written
                   /\ Answer(r, FALSE)
        \/ /\ r.extract /\ ~Fits(r, used, Total(Inside))
           /\ files' = written /\ Answer(r, FALSE) /\ UNCHANGED unchecked

\* Files over the limit are skipped without a word.
UploadBatch(r) ==
  /\ r.kind = "batch" /\ r.at = "read"
  /\ Room(r)
  /\ LET small == {name \in DOMAIN r.sizes : r.sizes[name] <= r.limit.file}
     IN /\ dirs' = IF small = {} THEN dirs ELSE dirs \cup {r.dir}
        /\ files' = Written(r.dir, Restrict(r.sizes, small)) @@ files
  /\ Answer(r, TRUE) /\ UNCHANGED unchecked

CreateDirectory(r) ==
  /\ r.kind = "mkdir" /\ r.dir \notin dirs
  /\ dirs' = dirs \cup {r.dir} /\ Answer(r, TRUE)
  /\ UNCHANGED <<files, unchecked>>

DeleteFile(r) ==
  /\ r.kind = "delete"
  /\ \/ /\ r.item[1] = "file" /\ r.item[2] \in DOMAIN files
        /\ files' = Restrict(files, DOMAIN files \ {r.item[2]}) /\ UNCHANGED dirs
     \/ /\ r.item[1] = "directory" /\ r.item[2] \in dirs
        /\ files' = Restrict(files, {path \in DOMAIN files : path[1] # r.item[2]})
        /\ dirs' = dirs \ {r.item[2]}
  /\ Answer(r, TRUE) /\ UNCHANGED unchecked

Extract(r) ==
  /\ r.kind = "extract" /\ r.at = "read" /\ <<r.dir, "z">> \in DOMAIN files
  /\ \E size \in Measured : Fits(r, Used, size) /\ Unmeasured(size)
  /\ \/ files' = Written(r.dir, Inside) @@ files /\ Answer(r, TRUE)
     \/ \E part \in Part : files' = Written(r.dir, part) @@ files /\ Answer(r, FALSE)
  /\ UNCHANGED dirs

\* A check that fails, or the network.
Refuse(r) == Answer(r, FALSE) /\ UNCHANGED <<files, dirs, unchecked>>

\* The settings page saves other limits; the application writes a file.
SaveLimits ==
  /\ \E other \in Limits \ {limit} : limit' = other /\ ceiling' = Max({ceiling, other.total})
  /\ UNCHANGED <<files, dirs, ui, requests, sent, writes, unchecked>>

Write ==
  /\ writes < MaxWrites
  /\ writes' = writes + 1
  /\ \E name \in Names, size \in Sizes :
       files' = Written("", [n \in {name} |-> size]) @@ files /\ unchecked' = unchecked + size
  /\ UNCHANGED <<dirs, limit, ui, requests, sent, ceiling>>

Next ==
  \/ \E u \in Users :
       \/ Load(u) \/ NavigateTo(u) \/ OpenUpload(u) \/ Choose(u) \/ SetTarget(u) \/ SetExtract(u)
       \/ CloseUpload(u) \/ HandleUpload(u) \/ HandleMkdir(u) \/ HandleExtract(u) \/ HandleDelete(u)
  \/ \E r \in requests :
       \/ ReadProject(r) \/ UploadFile(r) \/ UploadBatch(r) \/ CreateDirectory(r)
       \/ DeleteFile(r) \/ Extract(r) \/ Refuse(r)
  \/ SaveLimits \/ Write

Spec == Init /\ [][Next]_vars
----------------------------------------------------------------------------
(***************************************************************************)
(* However uploads, extractions, failures and changed settings interleave, *)
(* the directory never holds more than the highest limit that was in force *)
(* and what the application itself wrote (ProjectFilesService.uploadFile,  *)
(* uploadBatch, extractArchive: the sizes are checked before the writes,   *)
(* and nothing may come between the two); except for archives whose size   *)
(* was not to be found out, which are extracted whatever they hold.        *)
(***************************************************************************)
TotalWithinLimit == Used <= ceiling + unchecked
=============================================================================
