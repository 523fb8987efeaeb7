------------------------------ MODULE Projects ------------------------------
(***************************************************************************)
(* ProjectsService's create, update, delete and the requests that give a   *)
(* project a platform database, Redis or MinIO bucket and take it away,    *)
(* with the three provisioners.  (Ports are PortAllocation's.)             *)
(*                                                                         *)
(* Every await is an interleaving point.  A database is <<slug, n>>, n = 0 *)
(* for the bare slug; a bucket is <<slug, 0>>, being named after the slug; *)
(* a Redis database is <<None, index>>.  Passwords and hosts are left out: *)
(* the variables of a kind and its service connection carry the resource's *)
(* name.                                                                   *)
(***************************************************************************)
EXTENDS Integers, FiniteSets

CONSTANTS
  Project,    \* project ids (UUIDs: none is used twice)
  Slug,
  Kinds,      \* the kinds of resources requests ask for
  MaxIndex,   \* Redis' last database (15 as it is shipped)
  MaxHash,    \* bound: random suffixes of database names
  MaxUpdates, \* bound: updates of a project
  Handlers,   \* requests that can be in flight
  None

DbName == Slug \X (0..MaxHash)
Bucket == Slug \X {0}
RedisDb == {None} \X (1..MaxIndex)
ResourceOf(k) == CASE k = "db" -> DbName [] k = "redis" -> RedisDb [] OTHER -> Bucket
MaybeOf == {f \in [Kinds -> {None} \cup UNION {ResourceOf(k) : k \in Kinds}] :
              \A k \in Kinds : f[k] \in ResourceOf(k) \cup {None}}

Row == [slug : Slug, has : MaybeOf, env : MaybeOf]

ProjectsAssumption ==
  /\ Kinds \subseteq {"db", "redis", "minio"}
  /\ MaxIndex \in Nat /\ MaxHash \in Nat /\ MaxUpdates \in Nat
  /\ None \notin Project \cup Slug
  /\ None \notin Row

VARIABLES
  row,        \* Project rows, None when there is none (yet, or any more)
  conn,       \* auto-detected ServiceConnection rows: <<project, kind, resource>>
  databases,  \* databases of the platform's PostgreSQL
  buckets,    \* buckets of the platform's MinIO
  updates,    \* updates so far
  failed,     \* a request ended half way
  dirty,      \* requests overlapped, or one ended with a database dropped
              \* that its row still names
  req         \* the handlers' locals and program counters

store == <<row, conn>>
outcome == <<failed, dirty>>
vars == <<store, databases, buckets, updates, outcome, req>>

NoResource == [k \in Kinds |-> None]
NoReq == [pc |-> "idle", op |-> "none", p |-> None, slug |-> None, static |-> FALSE,
          todo |-> {}, got |-> NoResource, env |-> NoResource]

Present == {p \in Project : row[p] # None}
Started == Present \cup {p \in Project : \E h \in Handlers : req[h].p = p}

TypeOK ==
  /\ row \in [Project -> Row \cup {None}]
  /\ \A c \in conn : c[1] \in Present /\ c[2] \in Kinds /\ c[3] \in ResourceOf(c[2])
  /\ databases \subseteq DbName /\ buckets \subseteq Bucket
  /\ updates \in 0..MaxUpdates /\ failed \in BOOLEAN /\ dirty \in BOOLEAN
  /\ \A h \in Handlers : req[h].todo \subseteq Kinds /\ req[h].got \in MaybeOf

Init ==
  /\ row = [p \in Project |-> None]
  /\ conn = {}
  /\ databases = {} /\ buckets = {}
  /\ updates = 0
  /\ failed = FALSE /\ dirty = FALSE
  /\ req = [h \in Handlers |-> NoReq]

At(h, pc) == req[h].pc = pc
Goto(h, pc) == req' = [req EXCEPT ![h].pc = pc]
Return(h) == req' = [req EXCEPT ![h] = NoReq]

Failed == failed' = TRUE /\ UNCHANGED dirty

\* Resources come in the order database, Redis, bucket.
First(todo) == CASE "db" \in todo -> "db" [] "redis" \in todo -> "redis" [] OTHER -> "minio"

----------------------------------------------------------------------------
(* Allocation and provisioning, for create and for the provision requests. *)

\* Database names that exist or that a request is about to create.
TakenNames == databases \cup {req[h].got["db"] : h \in {g \in Handlers : "db" \in Kinds}}

\* generateDbName: the bare slug, or with a random suffix (one nobody has).
GenerateDbName(slug) ==
  IF <<slug, 0>> \notin databases THEN {<<slug, 0>>}
  ELSE {<<slug, n>> : n \in {m \in 1..MaxHash :
          /\ <<slug, m>> \notin TakenNames
          /\ \A i \in 1..(m - 1) : <<slug, i>> \in TakenNames}}

\* Mutant: as many as there are.
AllocateDbIndex_count ==
  LET used == {row[p].has["redis"] : p \in Present} \ {None} IN
    {r \in RedisDb : r[2] = Cardinality(used) + 1}

\* allocateDbIndex: one past the highest index of a project's row; Redis
\* refuses to SELECT a database it does not have.
AllocateDbIndex ==
  LET used == {0} \cup {r[2] : r \in {row[p].has["redis"] : p \in Present} \ {None}} IN
    {r \in RedisDb : r[2] - 1 \in used /\ \A i \in used : i < r[2]}

Candidates(k, slug) ==
  CASE k = "db" -> GenerateDbName(slug)
    [] k = "redis" -> AllocateDbIndex
    [] OTHER -> {<<slug, 0>>}

\* Choose the name of the next resource; without one the request throws.
Allocate(h) ==
  /\ At(h, "allocate")
  /\ LET k == First(req[h].todo) IN
       IF Candidates(k, req[h].slug) = {}
         THEN Return(h) /\ Failed
         ELSE /\ \E r \in Candidates(k, req[h].slug) :
                   req' = [req EXCEPT ![h].got[k] = r, ![h].pc = "provision"]
              /\ UNCHANGED outcome
  /\ UNCHANGED <<store, databases, buckets, updates>>

\* provision: databases and buckets are created unless they exist.
Provision(h) ==
  /\ At(h, "provision")
  /\ LET k == First(req[h].todo)
         todo == req[h].todo \ {k} IN
       /\ databases' = IF k = "db" THEN databases \cup {req[h].got[k]} ELSE databases
       /\ buckets' = IF k = "minio" THEN buckets \cup {req[h].got[k]} ELSE buckets
       /\ req' = [req EXCEPT ![h].todo = todo, ![h].env[k] = req[h].got[k],
                    ![h].pc = IF todo # {} THEN "allocate"
                              ELSE IF req[h].op = "create" THEN "insert" ELSE "write"]
  /\ UNCHANGED <<store, updates, outcome>>

Got(h) == {k \in Kinds : req[h].got[k] # None}

\* The service connections, one insert each.
Connect(h) ==
  /\ At(h, "connect")
  /\ LET k == First(req[h].todo)
         todo == req[h].todo \ {k} IN
       IF req[h].p \in Present
         THEN /\ conn' = conn \cup {<<req[h].p, k, req[h].got[k]>>}
              /\ IF todo = {} THEN Return(h) ELSE req' = [req EXCEPT ![h].todo = todo]
              /\ UNCHANGED outcome
         ELSE Return(h) /\ Failed /\ UNCHANGED conn
  /\ UNCHANGED <<row, databases, buckets, updates>>

----------------------------------------------------------------------------
(* create.                                                                 *)

\* A static site gets no resources.
Create(h, p, slug, static, kinds) ==
  /\ At(h, "idle")
  /\ p \notin Started /\ row[p] = None
  /\ static => kinds = {}
  /\ req' = [req EXCEPT ![h] =
       [NoReq EXCEPT !.op = "create", !.p = p, !.slug = slug, !.static = static,
                     !.todo = kinds, !.pc = IF kinds = {} THEN "insert" ELSE "allocate"]]
  /\ UNCHANGED <<store, databases, buckets, updates>>

\* The row comes after its resources; the slug is unique.
InsertProject(h) ==
  /\ At(h, "insert")
  /\ IF \A p \in Present : row[p].slug # req[h].slug
       THEN /\ row' = [row EXCEPT ![req[h].p] =
                 [slug |-> req[h].slug, has |-> req[h].got, env |-> req[h].env]]
            /\ IF Got(h) = {} THEN Return(h)
               ELSE req' = [req EXCEPT ![h].pc = "connect", ![h].todo = Got(h)]
            /\ UNCHANGED outcome
       ELSE Return(h) /\ Failed /\ UNCHANGED row
  /\ UNCHANGED <<conn, databases, buckets, updates>>

----------------------------------------------------------------------------
(* provisionDatabase, provisionRedis, provisionMinio and their opposites.  *)

\* The row is read; its variables are merged with this snapshot later.
BeginProvision(h, p, k) ==
  /\ At(h, "idle")
  /\ p \in Present /\ row[p].has[k] = None
  /\ updates < MaxUpdates /\ updates' = updates + 1
  /\ req' = [req EXCEPT ![h] =
       [NoReq EXCEPT !.op = "provision", !.p = p, !.slug = row[p].slug, !.todo = {k},
                     !.env = row[p].env, !.pc = "allocate"]]
  /\ UNCHANGED <<store, databases, buckets>>

WriteProvisioned(h) ==
  /\ At(h, "write") /\ req[h].op = "provision"
  /\ \E k \in Got(h) :
       IF req[h].p \in Present
         THEN /\ row' = [row EXCEPT ![req[h].p].has[k] = req[h].got[k],
                                    ![req[h].p].env = req[h].env]
              /\ req' = [req EXCEPT ![h].pc = "connect", ![h].todo = {k}]
              /\ UNCHANGED outcome
         ELSE Return(h) /\ Failed /\ UNCHANGED row
  /\ UNCHANGED <<conn, databases, buckets, updates>>

BeginDeprovision(h, p, k) ==
  /\ At(h, "idle")
  /\ p \in Present /\ row[p].has[k] # None
  /\ updates < MaxUpdates /\ updates' = updates + 1
  /\ req' = [req EXCEPT ![h] =
       [NoReq EXCEPT !.op = "deprovision", !.p = p, !.todo = {k}, !.got[k] = row[p].has[k],
                     !.env = [row[p].env EXCEPT ![k] = None], !.pc = "drop"]]
  /\ UNCHANGED <<store, databases, buckets>>

\* dropDatabase; Redis' flush; the bucket is emptied and removed.  A delete
\* of the project goes on if this fails.
Drop(h) ==
  /\ At(h, "drop")
  /\ LET k == First(req[h].todo)
         todo == req[h].todo \ {k} IN
       /\ \/ /\ databases' = IF k = "db" THEN databases \ {req[h].got[k]} ELSE databases
             /\ buckets' = IF k = "minio" THEN buckets \ {req[h].got[k]} ELSE buckets
          \/ req[h].op = "delete" /\ UNCHANGED <<databases, buckets>>
       /\ req' = IF req[h].op = "delete"
                   THEN [req EXCEPT ![h].todo = todo,
                                    ![h].pc = IF todo = {} THEN "remove" ELSE "drop"]
                   ELSE [req EXCEPT ![h].pc = "write"]
  /\ UNCHANGED <<store, updates, outcome>>

WriteDeprovisioned(h) ==
  /\ At(h, "write") /\ req[h].op = "deprovision"
  /\ \E k \in req[h].todo :
       IF req[h].p \in Present
         THEN /\ row' = [row EXCEPT ![req[h].p].has[k] = None, ![req[h].p].env = req[h].env]
              /\ Goto(h, "disconnect")
              /\ UNCHANGED outcome
         ELSE Return(h) /\ Failed /\ UNCHANGED row
  /\ UNCHANGED <<conn, databases, buckets, updates>>

Disconnect(h) ==
  /\ At(h, "disconnect")
  /\ conn' = {c \in conn : ~(c[1] = req[h].p /\ c[2] \in req[h].todo)}
  /\ Return(h)
  /\ UNCHANGED <<row, databases, buckets, updates, outcome>>

----------------------------------------------------------------------------
(* update and delete.                                                      *)

\* A new slug nobody has: its format and uniqueness are checked first ...
BeginRename(h, p, slug) ==
  /\ At(h, "idle")
  /\ p \in Present
  /\ \A q \in Present \ {p} : row[q].slug # slug
  /\ updates < MaxUpdates /\ updates' = updates + 1
  /\ req' = [req EXCEPT ![h] = [NoReq EXCEPT !.op = "rename", !.p = p, !.slug = slug,
                                             !.pc = "write"]]
  /\ UNCHANGED <<store, databases, buckets>>

\* ... and enforced by the unique index.  Nothing named after the old slug
\* is renamed with it.
WriteSlug(h) ==
  /\ At(h, "write") /\ req[h].op = "rename"
  /\ IF req[h].p \in Present /\ \A q \in Present \ {req[h].p} : row[q].slug # req[h].slug
       THEN row' = [row EXCEPT ![req[h].p].slug = req[h].slug] /\ UNCHANGED outcome
       ELSE Failed /\ UNCHANGED row
  /\ Return(h)
  /\ UNCHANGED <<conn, databases, buckets, updates>>

\* An update of the variables replaces them all: the user may have removed
\* those of a resource.
UpdateEnv(h, p, k) ==
  /\ At(h, "idle")
  /\ p \in Present /\ row[p].env[k] # None
  /\ updates < MaxUpdates /\ updates' = updates + 1
  /\ row' = [row EXCEPT ![p].env[k] = None]
  /\ UNCHANGED <<conn, databases, buckets, req>>

\* delete: Redis and the bucket are given back, the database is not.
BeginDelete(h, p) ==
  /\ At(h, "idle")
  /\ p \in Present
  /\ LET todo == {k \in Kinds \ {"db"} : row[p].has[k] # None} IN
       req' = [req EXCEPT ![h] =
         [NoReq EXCEPT !.op = "delete", !.p = p, !.todo = todo, !.got = row[p].has,
                       !.pc = IF todo = {} THEN "remove" ELSE "drop"]]
  /\ UNCHANGED <<store, databases, buckets, updates>>

\* The connections cascade.
DeleteRow(h) ==
  /\ At(h, "remove")
  /\ row' = [row EXCEPT ![req[h].p] = None]
  /\ conn' = {c \in conn : c[1] # req[h].p}
  /\ Return(h)
  /\ UNCHANGED <<databases, buckets, updates, outcome>>

\* A service does not answer or the backend stops (bound: once): nothing is
\* undone.
Fail(h) ==
  /\ ~At(h, "idle") /\ ~failed
  /\ Return(h)
  /\ failed' = TRUE
  /\ dirty' = (dirty \/ (req[h].op = "deprovision" /\ At(h, "write")))
  /\ UNCHANGED <<store, databases, buckets, updates>>

Begin(h) ==
  /\ dirty' = (dirty \/ \E g \in Handlers \ {h} : ~At(g, "idle"))
  /\ UNCHANGED failed
  /\ \E p \in Project :
       \/ \E slug \in Slug, static \in BOOLEAN, kinds \in SUBSET Kinds :
            Create(h, p, slug, static, kinds)
       \/ \E k \in Kinds : BeginProvision(h, p, k) \/ BeginDeprovision(h, p, k)
                             \/ UpdateEnv(h, p, k)
       \/ \E slug \in Slug : BeginRename(h, p, slug)
       \/ BeginDelete(h, p)

Step(h) ==
  \/ Begin(h)
  \/ Allocate(h) \/ Provision(h) \/ InsertProject(h) \/ Connect(h)
  \/ WriteProvisioned(h) \/ Drop(h) \/ WriteDeprovisioned(h) \/ Disconnect(h)
  \/ WriteSlug(h) \/ DeleteRow(h)
  \/ Fail(h)

Next == \E h \in Handlers : Step(h)

Spec == Init /\ [][Next]_vars

----------------------------------------------------------------------------
Exclusive(k) ==
  \A p, q \in Present : row[p].has[k] # None /\ row[p].has[k] = row[q].has[k] => p = q

(***************************************************************************)
(* "Redis isolates projects via numbered databases" (platform plan, line   *)
(* 7), and so do databases: as long as no two requests overlap and none    *)
(* stops between the drop of a database and the row, no two projects have  *)
(* the same one, whatever else fails half way, is renamed, deleted and     *)
(* created again.                                                          *)
(***************************************************************************)
SerialResourcesExclusive == ~dirty => \A k \in Kinds \ {"minio"} : Exclusive(k)

(***************************************************************************)
(* After serial requests none of which failed, every project has exactly   *)
(* the connections of its resources, its variables name no other resource  *)
(* and its databases exist.                                                *)
(***************************************************************************)
RowsAgree ==
  \A p \in Present, k \in Kinds :
    /\ {c[3] : c \in {d \in conn : d[1] = p /\ d[2] = k}} = {row[p].has[k]} \ {None}
    /\ row[p].env[k] \in {None, row[p].has[k]}
    /\ k = "db" /\ row[p].has[k] # None => row[p].has[k] \in databases

SerialRowsAgree ==
  ~failed /\ ~dirty /\ (\A h \in Handlers : req[h].pc = "idle") => RowsAgree
=============================================================================
