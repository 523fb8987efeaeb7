----------------------------- MODULE StaticSite -----------------------------
(***************************************************************************)
(* What a static site serves: a directory that a publication fills from    *)
(* the StaticFile rows (the static-sync stage) and an uploaded archive     *)
(* fills directly.  A text is a number; 0 is what an archive contains.     *)
(* File 1 is index.html.  The deployment queue is modelled in              *)
(* DeployPipeline: here a deployment starts either at the static-sync      *)
(* stage, which removes the directory and writes it file by file, or,      *)
(* after an upload, behind it.  Other requests run before the stage has    *)
(* its rows, but not while it works on the directory.                      *)
(***************************************************************************)
EXTENDS Naturals, Sequences

CONSTANTS
  Files,      \* how many files there are, 1..Files
  MaxEdits,   \* saves (bound)
  MaxUploads, \* archives uploaded (bound)
  MaxDeploys, \* deployments (bound)
  Requests,   \* upload requests that may be under way at once
  None

StaticSiteAssumption ==
  /\ Files \in Nat \ {0} /\ {MaxEdits, MaxUploads, MaxDeploys} \subseteq Nat
  /\ None \notin Nat

File == 1..Files
Index == 1
Archive == 0
Text == 0..(MaxEdits + 1)
Zips == {"root", "nested", "other"} \* where the archive has its index.html, if anywhere

VARIABLES
  rows,    \* File -> Text, or None: the StaticFile table
  disk,    \* the same: what is served
  upload,  \* Requests -> where upload() is
  deploys, \* deployments waiting, and the one that is running
  publication, \* where its static-sync is, the rows it found, and its status
  edits, uploads, deployed

vars == <<rows, disk, upload, deploys, publication, edits, uploads, deployed>>

Rows == [File -> Text \cup {None}]
Empty == [f \in File |-> None]
NoStage == [pc |-> "idle", files |-> Empty, todo |-> {}, status |-> "PENDING"]

TypeOK ==
  /\ rows \in Rows /\ disk \in Rows
  /\ upload \in [Requests -> {"idle", "clear", "trigger"}]
  /\ deploys \in Seq({"sync", "serve"}) /\ Len(deploys) + deployed <= MaxDeploys
  /\ publication \in [pc : {"idle", "found", "removing", "writing"}, files : Rows,
                      todo : SUBSET File, status : {"PENDING", "RUNNING", "SUCCESS", "FAILED"}]
  /\ edits \in 0..MaxEdits /\ uploads \in 0..MaxUploads

\* create() seeds index.html and deploys nothing.
Init ==
  /\ rows = [f \in File |-> IF f = Index THEN 1 ELSE None]
  /\ disk = Empty
  /\ upload = [h \in Requests |-> "idle"] /\ deploys = <<>> /\ publication = NoStage
  /\ edits = 0 /\ uploads = 0 /\ deployed = 0

Present(r) == {f \in File : r[f] # None}

Upsert(f) ==
  /\ edits < MaxEdits /\ edits' = edits + 1
  /\ rows' = [rows EXCEPT ![f] = edits' + 1]
  /\ UNCHANGED <<disk, upload, deploys, publication, uploads, deployed>>

Remove(f) ==
  /\ rows[f] # None /\ rows' = [rows EXCEPT ![f] = None]
  /\ UNCHANGED <<disk, upload, deploys, publication, edits, uploads, deployed>>
----------------------------------------------------------------------------
At(pc) == publication.pc = pc

(***************************************************************************)
(* The archive is unpacked over what is there, in one synchronous step.    *)
(* An index.html in a single subdirectory is hoisted when the directory    *)
(* holds nothing else; a directory without one afterwards is removed.      *)
(* unzip, tar or mv may fail after some of it: what is there stays.        *)
(***************************************************************************)
Unpacked(z) ==
  IF z = "root" \/ (z = "nested" /\ Present(disk) = {})
  THEN [disk EXCEPT ![Index] = Archive]
  ELSE disk

Upload(h, z) ==
  /\ At("idle") \/ At("found")
  /\ upload[h] = "idle" /\ uploads < MaxUploads /\ uploads' = uploads + 1
  /\ \/ /\ Unpacked(z)[Index] # None
        /\ disk' = Unpacked(z) /\ upload' = [upload EXCEPT ![h] = "clear"]
     \/ Unpacked(z)[Index] = None /\ disk' = Empty /\ UNCHANGED upload
     \/ disk' \in {disk, Unpacked(z)} /\ UNCHANGED upload
  /\ UNCHANGED <<rows, deploys, publication, edits, deployed>>

\* "zip is now the source of truth"
ClearAll(h) ==
  /\ upload[h] = "clear" /\ upload' = [upload EXCEPT ![h] = "trigger"]
  /\ rows' = Empty
  /\ UNCHANGED <<disk, deploys, publication, edits, uploads, deployed>>

Deploy(from) ==
  /\ Len(deploys) + deployed < MaxDeploys
  /\ deploys' = Append(deploys, from)

Trigger(h) ==
  /\ upload[h] = "trigger" /\ upload' = [upload EXCEPT ![h] = "idle"]
  /\ Deploy("serve")
  /\ UNCHANGED <<rows, disk, publication, edits, uploads, deployed>>

\* The statement fails, or the backend stops: the request ends where it is.
Dies(h) ==
  /\ upload[h] # "idle" /\ upload' = [upload EXCEPT ![h] = "idle"]
  /\ UNCHANGED <<rows, disk, deploys, publication, edits, uploads, deployed>>

\* From the editor, the deployments page or a webhook: from the first stage.
Publish ==
  /\ Deploy("sync")
  /\ UNCHANGED <<rows, disk, upload, publication, edits, uploads, deployed>>

----------------------------------------------------------------------------
(* The static-sync stage, and a deployment without one.                    *)

Begins(from) == deploys # <<>> /\ Head(deploys) = from
Ends == deploys' = Tail(deploys) /\ deployed' = deployed + 1

\* The rows it will publish; an empty table is refused, and what is there stays.
FindFiles ==
  /\ At("idle") /\ Begins("sync")
  /\ IF Present(rows) = {}
     THEN publication' = [NoStage EXCEPT !.status = "FAILED"] /\ Ends
     ELSE /\ publication' = [pc |-> "found", files |-> rows, todo |-> Present(rows),
                             status |-> "RUNNING"]
          /\ UNCHANGED <<deploys, deployed>>
  /\ UNCHANGED <<rows, disk, upload, edits, uploads>>

\* Nothing else runs from here to the end of the stage ...
RemoveSite ==
  /\ At("found") /\ publication' = [publication EXCEPT !.pc = "removing"]
  /\ UNCHANGED <<rows, disk, upload, deploys, edits, uploads, deployed>>

\* ... in which rm -rf takes the files one by one, ...
RemoveFile(f) ==
  /\ At("removing") /\ f \in Present(disk) /\ disk' = [disk EXCEPT ![f] = None]
  /\ UNCHANGED <<rows, upload, deploys, publication, edits, uploads, deployed>>

MakeDirectory ==
  /\ At("removing") /\ Present(disk) = {}
  /\ publication' = [publication EXCEPT !.pc = "writing"]
  /\ UNCHANGED <<rows, disk, upload, deploys, edits, uploads, deployed>>

\* ... and those found are written one by one.
WriteFile(f) ==
  /\ At("writing") /\ f \in publication.todo
  /\ disk' = [disk EXCEPT ![f] = publication.files[f]]
  /\ publication' = [publication EXCEPT !.todo = @ \ {f}]
  /\ UNCHANGED <<rows, upload, deploys, edits, uploads, deployed>>

Published ==
  /\ At("writing") /\ publication.todo = {} /\ Ends
  /\ publication' = [NoStage EXCEPT !.status = "SUCCESS"]
  /\ UNCHANGED <<rows, disk, upload, edits, uploads>>

\* Anything of it fails, rm, mkdir or a write: the directory stays as it is.
SyncFails ==
  /\ ~At("idle") /\ Ends
  /\ publication' = [NoStage EXCEPT !.status = "FAILED"]
  /\ UNCHANGED <<rows, disk, upload, edits, uploads>>

\* The backend stops: the requests end, the deployment is delivered again.
Stops ==
  /\ ~At("idle")
  /\ publication' = [NoStage EXCEPT !.status = "RUNNING"]
  /\ upload' = [h \in Requests |-> "idle"]
  /\ UNCHANGED <<rows, disk, deploys, edits, uploads, deployed>>

StaticSync ==
  \/ FindFiles \/ RemoveSite \/ MakeDirectory \/ Published \/ SyncFails \/ Stops
  \/ \E f \in File : RemoveFile(f) \/ WriteFile(f)

\* After an upload static-sync is skipped.
Serve ==
  /\ At("idle") /\ Begins("serve") /\ Ends
  /\ UNCHANGED <<rows, disk, upload, publication, edits, uploads>>
----------------------------------------------------------------------------
Next ==
  \/ Publish \/ StaticSync \/ Serve
  \/ \E f \in File : Upsert(f) \/ Remove(f)
  \/ \E h \in Requests : ClearAll(h) \/ Trigger(h) \/ Dies(h) \/ \E z \in Zips : Upload(h, z)

Spec == Init /\ [][Next]_vars
----------------------------------------------------------------------------
(***************************************************************************)
(* A site that has an index page loses it only to the removal that starts  *)
(* the publication of other files: not to a rejected archive, nor to the   *)
(* publication of an empty table, which is what an upload leaves.  (A      *)
(* publication that fails or is cut off may well leave the site without.)  *)
(* One that reports success leaves exactly the files it found, and so the  *)
(* index page if there was one, whatever was uploaded and however often it *)
(* was cut off before.                                                     *)
(***************************************************************************)
SiteKeepsIndexStep ==
  /\ disk[Index] # None /\ disk'[Index] = None =>
       At("removing") /\ Present(publication.files) # {}
  /\ publication.status = "RUNNING" /\ publication'.status = "SUCCESS" =>
       disk' = publication.files /\ Present(disk') # {}
=============================================================================
