---------------------------- MODULE ConnectionPool ----------------------------
(***************************************************************************)
(* ONE service connection: its row (ServicesService), and the client that  *)
(* ConnectionPoolService keeps for it while the browsers, the imports and  *)
(* the connection test use it.                                             *)
(*                                                                         *)
(* Every await is an interleaving point.  A configuration is a version of  *)
(* the row; a client remembers the version it was made from.               *)
(***************************************************************************)
EXTENDS Naturals, Sequences

CONSTANTS
  Users,      \* requests that can use the connection at once
  Editors,    \* requests that can change it at once
  MaxVersion, \* bound: configurations
  MaxClient   \* bound: clients ever made

ConnectionPoolAssumption == MaxVersion \in Nat /\ MaxClient \in Nat

Version == 1..MaxVersion
Client == 1..MaxClient

VARIABLES
  type,     \* "pg", "redis" or "minio"
  row,      \* version of the row; 0 when it is deleted
  versions, \* versions so far
  made,     \* configurations of the clients made so far
  open,     \* clients not closed
  entry,    \* the pool's entry: a client, or 0
  user, editor,  \* locals and program counters
  cleaner,  \* the client cleanupIdle is closing, or 0
  calm      \* no use overlapped a change or a clean-up, nor those each other

pool == <<made, open, entry>>
vars == <<type, row, versions, pool, user, editor, cleaner, calm>>

NoUse == [pc |-> "idle", v |-> 0, c |-> 0]
NoEdit == [pc |-> "idle", op |-> "none"]

TypeOK ==
  /\ type \in {"pg", "redis", "minio"}
  /\ row \in Version \cup {0} /\ versions \in Version
  /\ \A c \in DOMAIN made : c \in Client /\ made[c] \in Version
  /\ open \subseteq DOMAIN made
  /\ entry \in DOMAIN made \cup {0}
  /\ user \in [Users -> [pc : {"idle", "get", "query"}, v : Version \cup {0},
                         c : Client \cup {0}]]
  /\ editor \in [Editors -> [pc : {"idle", "remove", "forget", "write"},
                             op : {"none", "update", "delete"}]]
  /\ cleaner \in Client \cup {0}
  /\ calm \in BOOLEAN

Init ==
  /\ type \in {"pg", "redis", "minio"}
  /\ row = 1 /\ versions = 1
  /\ made = <<>> /\ open = {} /\ entry = 0
  /\ user = [u \in Users |-> NoUse]
  /\ editor = [e \in Editors |-> NoEdit]
  /\ cleaner = 0
  /\ calm = TRUE

Unused == \A u \in Users : user[u].pc = "idle"
Unchanging == cleaner = 0 /\ \A e \in Editors : editor[e].pc = "idle"

----------------------------------------------------------------------------
(* Uses: getServiceWithConfig, then the pool, then the query.              *)

ReadConfig(u) ==
  /\ user[u].pc = "idle"
  /\ row # 0
  /\ user' = [user EXCEPT ![u] = [NoUse EXCEPT !.pc = "get", !.v = row]]
  /\ calm' = (calm /\ Unchanging)
  /\ UNCHANGED <<type, row, versions, pool, editor, cleaner>>

\* The client there is, whatever it was made from, or a new one.
GetClient(u) ==
  /\ user[u].pc = "get"
  /\ IF entry # 0
       THEN /\ user' = [user EXCEPT ![u].pc = "query", ![u].c = entry]
            /\ UNCHANGED pool
       ELSE /\ Len(made) < MaxClient
            /\ made' = Append(made, user[u].v)
            /\ open' = open \cup {Len(made) + 1}
            /\ entry' = Len(made) + 1
            /\ user' = [user EXCEPT ![u].pc = "query", ![u].c = Len(made) + 1]
  /\ UNCHANGED <<type, row, versions, editor, cleaner, calm>>

Query(u) ==
  /\ user[u].pc = "query"
  /\ user' = [user EXCEPT ![u] = NoUse]
  /\ UNCHANGED <<type, row, versions, pool, editor, cleaner, calm>>

----------------------------------------------------------------------------
(* Changes: removeConnection, then the row.                                *)

\* update reads the row first, delete does not look.
Begin(e, op) ==
  /\ editor[e].pc = "idle"
  /\ op = "update" => row # 0 /\ versions < MaxVersion
  /\ editor' = [editor EXCEPT ![e] = [pc |-> "remove", op |-> op]]
  /\ calm' = (calm /\ Unused /\ Unchanging)
  /\ UNCHANGED <<type, row, versions, pool, user, cleaner>>

\* A PostgreSQL pool is ended, which is awaited (and throws when it is being
\* ended already); a Redis client is disconnected, a MinIO client dropped.
Remove(e) ==
  /\ editor[e].pc = "remove"
  /\ CASE entry = 0 ->
            editor' = [editor EXCEPT ![e].pc = "write"] /\ UNCHANGED pool
       [] entry # 0 /\ type = "pg" ->
            /\ open' = open \ {entry}
            /\ editor' = IF entry \in open THEN [editor EXCEPT ![e].pc = "forget"]
                                           ELSE [editor EXCEPT ![e] = NoEdit]
            /\ UNCHANGED <<made, entry>>
       [] OTHER ->
            /\ open' = open \ {entry}
            /\ entry' = 0
            /\ editor' = [editor EXCEPT ![e].pc = "write"]
            /\ UNCHANGED made
  /\ UNCHANGED <<type, row, versions, user, cleaner, calm>>

\* The pool has ended: the entry goes.
Forget(e) ==
  /\ editor[e].pc = "forget"
  /\ entry' = 0
  /\ editor' = [editor EXCEPT ![e].pc = "write"]
  /\ UNCHANGED <<type, row, versions, made, open, user, cleaner, calm>>

Write(e) ==
  /\ editor[e].pc = "write"
  /\ IF editor[e].op = "delete" \/ row = 0
       THEN row' = 0 /\ UNCHANGED versions
       ELSE versions < MaxVersion /\ versions' = versions + 1 /\ row' = versions + 1
  /\ editor' = [editor EXCEPT ![e] = NoEdit]
  /\ UNCHANGED <<type, pool, user, cleaner, calm>>

----------------------------------------------------------------------------
(* cleanupIdle, every minute: an entry five minutes old is closed, whether *)
(* a query still runs on it or not.                                        *)

CleanUp ==
  /\ cleaner = 0 /\ entry # 0
  /\ open' = open \ {entry}
  /\ IF type = "pg" /\ entry \in open THEN cleaner' = entry /\ UNCHANGED entry
                                      ELSE UNCHANGED cleaner /\ entry' = IF type = "pg" THEN entry ELSE 0
  /\ calm' = (calm /\ Unused /\ Unchanging)
  /\ UNCHANGED <<type, row, versions, made, user, editor>>

CleanedUp ==
  /\ cleaner # 0
  /\ entry' = 0
  /\ cleaner' = 0
  /\ UNCHANGED <<type, row, versions, made, open, user, editor, calm>>

Next ==
  \/ \E u \in Users : ReadConfig(u) \/ GetClient(u) \/ Query(u)
  \/ \E e \in Editors :
       (\E op \in {"update", "delete"} : Begin(e, op)) \/ Remove(e) \/ Forget(e) \/ Write(e)
  \/ CleanUp \/ CleanedUp

Spec == Init /\ [][Next]_vars

----------------------------------------------------------------------------
(***************************************************************************)
(* A query goes to a client that is open and made from the row as it is,   *)
(* unless a change or a clean-up overlaps it or has overlapped another:    *)
(* then a client of the old configuration may have come back into the      *)
(* pool, for as long as somebody uses it once in five minutes.             *)
(***************************************************************************)
QueriesReachTheRow ==
  \A u \in Users : calm /\ user[u].pc = "query" =>
    user[u].c \in open /\ made[user[u].c] = row

(***************************************************************************)
(* Whatever overlaps, no client is lost: the only one that is not closed   *)
(* is the pool's, "closed after five minutes' idling".                     *)
(***************************************************************************)
NoClientLost == open \subseteq {entry}
=============================================================================
