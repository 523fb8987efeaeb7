--------------------------- MODULE PortAllocation ---------------------------
(***************************************************************************)
(* The ports of projects: PortAllocationService (allocate,                 *)
(* allocateSpecific, release) and the two requests of ProjectsService that *)
(* call it (create and delete).                                            *)
(*                                                                         *)
(* The PortAllocation table is "alloc": its column port is unique, so a    *)
(* port has one row, which is owned by a project, free (projectId null) or *)
(* not there yet.  Each await is an interleaving point between the request *)
(* handlers; there is no database transaction.                             *)
(***************************************************************************)
EXTENDS Integers

CONSTANTS
  Project,    \* project ids (UUIDs: none is used twice)
  MinPort, MaxPort,
  Requested,  \* the values of dto.port in requests
  Handlers,   \* requests that can be in flight
  Free,       \* an allocation row without a project
  NoEntry     \* no allocation row for the port

ASSUME PortAssumption ==
  /\ MinPort \in Nat \ {0} /\ MaxPort \in Nat
  /\ Requested \subseteq Nat \ {0}
  /\ Free \notin Project /\ NoEntry \notin Project /\ Free # NoEntry

Port == MinPort..MaxPort

VARIABLES
  alloc,   \* the PortAllocation rows
  status,  \* whether each project has a row
  port,    \* Project.port, 0 until a port is allocated
  req,     \* the handlers' locals and program counters
  serial   \* history: requests have not overlapped, no delete stopped half way

vars == <<alloc, status, port, req, serial>>

PC == {"idle", "finding", "last", "checking", "claiming", "inserting", "saving",
       "releasing", "freeing", "deleting"}

TypeOK ==
  /\ alloc \in [Port -> Project \cup {Free, NoEntry}]
  /\ status \in [Project -> {"new", "present", "deleted"}]
  /\ port \in [Project -> Port \cup {0}]
  /\ req \in [Handlers -> [pc : PC, p : Project \cup {Free}, n : Nat]]
  /\ serial \in BOOLEAN
  /\ \A h \in Handlers :
       /\ req[h].pc # "idle" => req[h].p \in Project
       /\ req[h].pc \in {"claiming", "inserting", "saving", "freeing"} => req[h].n \in Port

\* p = Free: the handler has no project at hand.
NoReq == [pc |-> "idle", p |-> Free, n |-> 0]

Init ==
  /\ alloc = [n \in Port |-> NoEntry]
  /\ status = [p \in Project |-> "new"]
  /\ port = [p \in Project |-> 0]
  /\ req = [h \in Handlers |-> NoReq]
  /\ serial = TRUE

At(h, pc) == req[h].pc = pc
Goto(h, pc, n) == req' = [req EXCEPT ![h] = [pc |-> pc, p |-> req[h].p, n |-> n]]
\* The handler is done, or throws.
Return(h) == req' = [req EXCEPT ![h] = NoReq]

----------------------------------------------------------------------------
(* ProjectsService.create: the project's row, with port 0, comes first.    *)

Create(h, p) ==
  /\ At(h, "idle")
  /\ status[p] = "new"
  /\ status' = [status EXCEPT ![p] = "present"]
  /\ \/ req' = [req EXCEPT ![h] = [pc |-> "finding", p |-> p, n |-> 0]]
     \/ \E n \in Requested :
          req' = [req EXCEPT ![h] = [pc |-> "checking", p |-> p, n |-> n]]
  /\ UNCHANGED <<alloc, port>>

\* Mutant: the filter on projectId is lost.
FindFree_any(h) ==
  /\ At(h, "finding")
  /\ \/ \E n \in Port :
          /\ alloc[n] # NoEntry
          /\ \A m \in Port : alloc[m] # NoEntry => n <= m
          /\ Goto(h, "claiming", n)
     \/ (\A n \in Port : alloc[n] = NoEntry) /\ Goto(h, "last", 0)
  /\ UNCHANGED <<alloc, status, port>>

\* allocate: the lowest free row, if there is one.
FindFree(h) ==
  /\ At(h, "finding")
  /\ \/ \E n \in Port :
          /\ alloc[n] = Free
          /\ \A m \in Port : alloc[m] = Free => n <= m
          /\ Goto(h, "claiming", n)
     \/ (\A n \in Port : alloc[n] # Free) /\ Goto(h, "last", 0)
  /\ UNCHANGED <<alloc, status, port>>

Rows == {n \in Port : alloc[n] # NoEntry}

\* findNextUnallocatedPort: one past the highest row, or an exception.
FindNext(h) ==
  /\ At(h, "last")
  /\ \E next \in MinPort..(MaxPort + 1) :
       /\ IF Rows = {} THEN next = MinPort
                       ELSE next - 1 \in Rows /\ \A n \in Rows : n < next
       /\ IF next > MaxPort THEN Return(h) ELSE Goto(h, "inserting", next)
  /\ UNCHANGED <<alloc, status, port>>

\* Mutant: the range is not checked.
CheckPort_anywhere(h) ==
  /\ At(h, "checking")
  /\ Goto(h, "inserting", req[h].n)
  /\ UNCHANGED <<alloc, status, port>>

\* allocateSpecific: the range, then the row of the requested port.
CheckPort(h) ==
  /\ At(h, "checking")
  /\ LET n == req[h].n IN
       CASE n \notin Port -> Return(h)
         [] n \in Port /\ alloc[n] \in Project -> Return(h)
         [] n \in Port /\ alloc[n] = Free -> Goto(h, "claiming", n)
         [] OTHER -> Goto(h, "inserting", n)
  /\ UNCHANGED <<alloc, status, port>>

\* Mutant: allocate does not return after claiming a free row.
Claim_on(h) ==
  /\ At(h, "claiming")
  /\ IF status[req[h].p] = "present"
       THEN alloc' = [alloc EXCEPT ![req[h].n] = req[h].p] /\ Goto(h, "last", 0)
       ELSE Return(h) /\ UNCHANGED alloc
  /\ UNCHANGED <<status, port>>

\* Both write the row blindly; the foreign key refuses a deleted project.
Claim(h) ==
  /\ At(h, "claiming")
  /\ IF status[req[h].p] = "present"
       THEN /\ alloc' = [alloc EXCEPT ![req[h].n] = req[h].p]
            /\ Goto(h, "saving", req[h].n)
       ELSE Return(h) /\ UNCHANGED alloc
  /\ UNCHANGED <<status, port>>

\* Both insert a row; the unique port column refuses a second one.
Insert(h) ==
  /\ At(h, "inserting")
  /\ IF status[req[h].p] = "present" /\ alloc[req[h].n] = NoEntry
       THEN /\ alloc' = [alloc EXCEPT ![req[h].n] = req[h].p]
            /\ Goto(h, "saving", req[h].n)
       ELSE Return(h) /\ UNCHANGED alloc
  /\ UNCHANGED <<status, port>>

\* create: store the port in the project.
SavePort(h) ==
  /\ At(h, "saving")
  /\ port' = IF status[req[h].p] = "present"
               THEN [port EXCEPT ![req[h].p] = req[h].n] ELSE port
  /\ Return(h)
  /\ UNCHANGED <<alloc, status>>

----------------------------------------------------------------------------
(* ProjectsService.delete: release, then delete the project's row.         *)

Delete(h, p) ==
  /\ At(h, "idle")
  /\ status[p] = "present"
  /\ req' = [req EXCEPT ![h] = [pc |-> "releasing", p |-> p, n |-> 0]]
  /\ UNCHANGED <<alloc, status, port>>

\* release: the row the project owns, if any ...
FindOwned(h) ==
  /\ At(h, "releasing")
  /\ \/ \E n \in Port : alloc[n] = req[h].p /\ Goto(h, "freeing", n)
     \/ (\A n \in Port : alloc[n] # req[h].p) /\ Goto(h, "deleting", 0)
  /\ UNCHANGED <<alloc, status, port>>

\* ... is freed by its id, whoever owns it by now.
FreeRow(h) ==
  /\ At(h, "freeing")
  /\ alloc' = [alloc EXCEPT ![req[h].n] = Free]
  /\ Goto(h, "deleting", 0)
  /\ UNCHANGED <<status, port>>

\* The delete sets the project's remaining allocation rows to null (SetNull).
DeleteRow(h) ==
  /\ At(h, "deleting")
  /\ LET p == req[h].p IN
       /\ status' = [status EXCEPT ![p] = "deleted"]
       /\ port' = [port EXCEPT ![p] = 0]
       /\ alloc' = [n \in Port |-> IF alloc[n] = p THEN Free ELSE alloc[n]]
  /\ Return(h)

\* A database call fails or the backend dies: nothing is undone.
Fail(h) ==
  /\ req[h].pc # "idle"
  /\ Return(h)
  /\ UNCHANGED <<alloc, status, port>>

Step(h) ==
  \/ \E p \in Project : Create(h, p) \/ Delete(h, p)
  \/ FindFree(h) \/ FindNext(h) \/ CheckPort(h) \/ Claim(h) \/ Insert(h) \/ SavePort(h)
  \/ FindOwned(h) \/ FreeRow(h) \/ DeleteRow(h)
  \/ Fail(h)

\* A delete ended between the release of the port and the project's row.
HalfDeleted(p) ==
  /\ port[p] # 0
  /\ alloc[port[p]] = Free
  /\ \A h \in Handlers : ~(req[h].pc = "deleting" /\ req[h].p = p)

\* Requests come one at a time, and no delete stops half way.
Serial ==
  /\ \A g, h \in Handlers : req[g].pc # "idle" /\ req[h].pc # "idle" => g = h
  /\ \A p \in Project : ~HalfDeleted(p)

Next == \E h \in Handlers : Step(h) /\ serial' = (serial /\ Serial')

Spec == Init /\ [][Next]_vars

----------------------------------------------------------------------------
(***************************************************************************)
(* No project owns two allocation rows, whatever requests interleave: the  *)
(* unique index on projectId is never hit.                                 *)
(***************************************************************************)
OneRowPerProject ==
  \A m, n \in Port : alloc[m] \in Project /\ alloc[m] = alloc[n] => m = n

\* Two projects never share a port.
PortsExclusive ==
  \A p, q \in Project : port[p] # 0 /\ port[p] = port[q] => p = q

(***************************************************************************)
(* As long as no two requests overlap and no delete stops half way,        *)
(* projects never share a port: across every sequence of creations with    *)
(* and without a requested port, failed creations and deletions.           *)
(***************************************************************************)
SerialRequestsExclusive == serial => PortsExclusive

(***************************************************************************)
(* The port of an allocation is unique (deploy-engine design, line 109):   *)
(* when no request is in flight, no two projects hold the same port.       *)
(***************************************************************************)
SettledPortsExclusive ==
  (\A h \in Handlers : req[h].pc = "idle") => PortsExclusive
=============================================================================
