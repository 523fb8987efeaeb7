----------------------------- MODULE Services_proofs -----------------------------
(***************************************************************************)
(* For every value of the constants: what the run of MCPlatform checks of  *)
(* the components of Services.  Each has an inductive invariant; that of   *)
(* the sum says of the component that runs that its own holds.  The last   *)
(* section is about the ports (PortAllocation), which have a turn of their *)
(* own in MCPlatform, for every range of ports, every set of projects and  *)
(* of handlers and every requested port.                                   *)
(***************************************************************************)
EXTENDS Services, PortAllocation, Integers, Sequences, FiniteSetTheorems, TLAPS

----------------------------------------------------------------------------
(* The live logs.                                                          *)

(***************************************************************************)
(* The only type the argument needs is that of the count of starts.  The   *)
(* log file a room was entered with is there to be followed: a start that  *)
(* is under way for such a room finds it.                                  *)
(***************************************************************************)
StartsCounted == starting \in Nat

LogIsThere == room # {} /\ ~unlogged => logged

ServedInv == StartsCounted /\ LogIsThere /\ Lt!RoomIsServed

\* The instance's cardinality is that of the library's theorems.
LEMMA SizeOfRoom == \A S : Lt!Cardinality(S) = Cardinality(S)
BY DEF Lt!Cardinality, Cardinality

(***************************************************************************)
(* A join that asks for no tail finds somebody in the room.                *)
(***************************************************************************)
LEMMA FirstJoinStarts ==
  ASSUME NEW c \in Viewers, StartsCounted, Lt!Join(c)
  PROVE  \/ starting' = starting + 1 /\ (~unlogged' => logged)
         \/ starting' = starting /\ unlogged' = unlogged /\ room # {}
<1>1. CASE room = {}
  <2>1. room' = {c}
    BY <1>1 DEF Lt!Join
  <2>2. Lt!Cardinality(room') = 1
    BY <2>1, FS_Singleton, SizeOfRoom
  <2> QED
    BY <2>2 DEF Lt!Join
<1>2. CASE room # {}
  BY <1>2 DEF Lt!Join
<1> QED
  BY <1>1, <1>2

(***************************************************************************)
(* StopTail leaves the tail of a room that is not empty alone.             *)
(***************************************************************************)
LEMMA TailOutlivesLeave ==
  ASSUME NEW left, Lt!StopTail(left), left # {}
  PROVE  UNCHANGED live
BY DEF Lt!StopTail, Lt!processes

(***************************************************************************)
(* Once the starts are through, a room with clients that was entered when  *)
(* there was a log has a tail, for all that joins, leaves, broken          *)
(* connections and late starts overtake each other.                        *)
(***************************************************************************)
THEOREM ViewersAreServed == Lt!LogTailsAssumption => (Lt!Spec => []Lt!RoomIsServed)
<1> SUFFICES ASSUME Lt!LogTailsAssumption  PROVE Lt!Spec => []Lt!RoomIsServed
  OBVIOUS
<1>1. Lt!Init => ServedInv
  BY DEF Lt!Init, ServedInv, StartsCounted, LogIsThere, Lt!RoomIsServed
<1>2. ServedInv /\ [Lt!Next]_(Lt!vars) => ServedInv'
  <2> SUFFICES ASSUME ServedInv, [Lt!Next]_(Lt!vars)  PROVE ServedInv'
    OBVIOUS
  <2> USE DEF ServedInv, StartsCounted, LogIsThere, Lt!RoomIsServed, Lt!log
  <2>1. ASSUME NEW c \in Viewers, Lt!Join(c)  PROVE ServedInv'
    <3>1. UNCHANGED <<project, logged, live>>
      BY <2>1 DEF Lt!Join, Lt!processes
    <3> QED
      BY <2>1, <3>1, FirstJoinStarts
  <2>2. ASSUME NEW c \in Viewers, Lt!Leave(c)  PROVE ServedInv'
    BY <2>2, TailOutlivesLeave DEF Lt!Leave
  <2>3. ASSUME NEW c \in Viewers, Lt!Reconnect(c)  PROVE ServedInv'
    BY <2>3, TailOutlivesLeave DEF Lt!Reconnect
  <2>4. ASSUME NEW c \in Viewers, Lt!CloseStale(c)  PROVE ServedInv'
    BY <2>4 DEF Lt!CloseStale, Lt!processes
  <2>5. CASE Lt!StartTail
    BY <2>5 DEF Lt!StartTail, Lt!clients
  <2>6. ASSUME NEW t \in Lt!TailId, Lt!Closed(t)  PROVE ServedInv'
    BY <2>6 DEF Lt!Closed, Lt!clients
  <2>7. CASE Lt!DeleteProject
    BY <2>7 DEF Lt!DeleteProject, Lt!clients, Lt!processes
  <2>8. CASE Lt!FirstStart
    BY <2>8 DEF Lt!FirstStart, Lt!clients, Lt!processes
  <2>9. CASE UNCHANGED Lt!vars
    BY <2>9 DEF Lt!vars, Lt!clients, Lt!processes
  <2> QED
    BY <2>1, <2>2, <2>3, <2>4, <2>5, <2>6, <2>7, <2>8, <2>9 DEF Lt!Next
<1>3. ServedInv => Lt!RoomIsServed
  BY DEF ServedInv
<1> QED
  BY <1>1, <1>2, <1>3, PTL DEF Lt!Spec

----------------------------------------------------------------------------
(***************************************************************************)
(* TailsFollowRoom is not inductive: a start that is under way could find  *)
(* an empty room or a tail of its own, and a "close" event a tail that was *)
(* started meanwhile.  While all is calm one start at most is under way,   *)
(* for a room that had nobody, and a tail ends in an empty room.  A room   *)
(* that was entered before the log file may stay without one.              *)
(***************************************************************************)
RoomFinite == IsFiniteSet(room) /\ room \subseteq watching /\ starting \in Nat

StartsAlone == calm /\ project =>
  /\ starting \in {0, 1}
  /\ starting = 1 => room # {} /\ tails = 0 /\ live = {} /\ closing = {}
  /\ closing # {} => starting = 0 /\ room = {}

FollowInv == RoomFinite /\ LogIsThere /\ StartsAlone /\ Lt!TailsFollowRoom

\* A room somebody joins asks for a tail just when it had nobody.
LEMMA JoinedRoom ==
  ASSUME NEW c \in Viewers, RoomFinite, Lt!Join(c)
  PROVE  /\ IsFiniteSet(room') /\ room' # {} /\ room' \subseteq watching'
         /\ starting' = IF room = {} THEN starting + 1 ELSE starting
         /\ IF room = {} THEN ~unlogged' => logged ELSE unlogged' = unlogged
<1>1. c \notin room /\ room' = room \cup {c} /\ watching' = watching \cup {c}
  BY DEF Lt!Join, RoomFinite
<1>2. IsFiniteSet(room') /\ Cardinality(room') = Cardinality(room) + 1
  BY <1>1, FS_AddElement DEF RoomFinite
<1>3. Cardinality(room) \in Nat /\ (Cardinality(room) = 0 <=> room = {})
  BY FS_CardinalityType, FS_EmptySet DEF RoomFinite
<1>4. Cardinality(room') = 1 <=> room = {}
  BY <1>2, <1>3
<1>5. /\ starting' = IF Cardinality(room') = 1 THEN starting + 1 ELSE starting
      /\ IF Cardinality(room') = 1 THEN ~unlogged' => logged ELSE unlogged' = unlogged
  BY SizeOfRoom DEF Lt!Join
<1>6. room \subseteq watching
  BY DEF RoomFinite
<1> QED
  BY <1>1, <1>2, <1>4, <1>5, <1>6

\* A room somebody leaves stays finite and within the pages.
LEMMA LeftRoom ==
  ASSUME NEW c, RoomFinite, room' = room \ {c}, watching' \in {watching, watching \ {c}},
         starting' = starting
  PROVE  RoomFinite'
<1>1. IsFiniteSet(room')
  BY FS_RemoveElement DEF RoomFinite
<1> QED
  BY <1>1 DEF RoomFinite

(***************************************************************************)
(* As long as nobody comes or goes while a tail starts or ends, there is   *)
(* one tail at most, one for a room that was entered when there was a log, *)
(* and none for an empty room.                                             *)
(***************************************************************************)
THEOREM TailsAsWatched == Lt!LogTailsAssumption => (Lt!Spec => []Lt!TailsFollowRoom)
<1> SUFFICES ASSUME Lt!LogTailsAssumption  PROVE Lt!Spec => []Lt!TailsFollowRoom
  OBVIOUS
<1>1. Lt!Init => FollowInv
  BY FS_EmptySet DEF Lt!Init, FollowInv, RoomFinite, LogIsThere, StartsAlone, Lt!TailsFollowRoom
<1>2. FollowInv /\ [Lt!Next]_(Lt!vars) => FollowInv'
  <2> SUFFICES ASSUME FollowInv, [Lt!Next]_(Lt!vars)  PROVE FollowInv'
    OBVIOUS
  <2> USE DEF FollowInv, LogIsThere, StartsAlone, Lt!TailsFollowRoom, Lt!log
  <2>1. ASSUME NEW c \in Viewers, Lt!Join(c)  PROVE FollowInv'
    <3>1. /\ IsFiniteSet(room') /\ room' # {} /\ room' \subseteq watching'
          /\ starting' = IF room = {} THEN starting + 1 ELSE starting
          /\ IF room = {} THEN ~unlogged' => logged ELSE unlogged' = unlogged
      BY <2>1, JoinedRoom
    <3>2. /\ UNCHANGED <<project, logged, live, closing, tails>>
          /\ calm' => calm /\ starting = 0 /\ closing = {}
      BY <2>1 DEF Lt!Join, Lt!processes, Lt!Settled
    <3>3. RoomFinite'
      BY <3>1 DEF RoomFinite
    <3> QED
      BY <3>1, <3>2, <3>3
  <2>2. ASSUME NEW c \in Viewers, Lt!Leave(c) \/ Lt!Reconnect(c)  PROVE FollowInv'
    <3>1. /\ room' = room \ {c} /\ watching' \in {watching, watching \ {c}} /\ c \in room
          /\ UNCHANGED <<project, starting, logged, unlogged>> /\ (calm' => calm /\ starting = 0)
          /\ Lt!StopTail(room')
      BY <2>2 DEF Lt!Leave, Lt!Reconnect
    <3>2. RoomFinite'
      BY <3>1, LeftRoom
    <3> QED
      BY <3>1, <3>2 DEF Lt!StopTail, Lt!processes
  <2>3. ASSUME NEW c \in Viewers, Lt!CloseStale(c)  PROVE FollowInv'
    BY <2>3 DEF Lt!CloseStale, Lt!processes, RoomFinite
  <2>4. CASE Lt!StartTail
    <3>1. /\ UNCHANGED <<project, room, watching, logged, unlogged, closing, calm>>
          /\ starting' = starting - 1 /\ starting > 0
      BY <2>4 DEF Lt!StartTail, Lt!clients
    <3>2. ASSUME project, logged  PROVE tails' # 0 /\ live' = live \cup {tails'}
      <4>1. PICK t \in Lt!TailId : live' = live \cup {t} /\ tails' = t
        BY <2>4, <3>2 DEF Lt!StartTail
      <4> QED
        BY <4>1 DEF Lt!TailId, Lt!LogTailsAssumption
    <3>3. ASSUME ~(project /\ logged)  PROVE UNCHANGED <<live, tails>>
      BY <2>4, <3>3 DEF Lt!StartTail
    <3> QED
      BY <3>1, <3>2, <3>3 DEF RoomFinite
  <2>5. ASSUME NEW t \in Lt!TailId, Lt!Closed(t)  PROVE FollowInv'
    BY <2>5 DEF Lt!Closed, Lt!clients, RoomFinite
  <2>6. CASE Lt!DeleteProject
    BY <2>6 DEF Lt!DeleteProject, Lt!clients, Lt!processes, RoomFinite
  <2>7. CASE Lt!FirstStart
    BY <2>7 DEF Lt!FirstStart, Lt!clients, Lt!processes, RoomFinite
  <2>8. CASE UNCHANGED Lt!vars
    BY <2>8 DEF Lt!vars, Lt!clients, Lt!processes, RoomFinite
  <2> QED
    BY <2>1, <2>2, <2>3, <2>4, <2>5, <2>6, <2>7, <2>8 DEF Lt!Next
<1>3. FollowInv => Lt!TailsFollowRoom
  BY DEF FollowInv
<1> QED
  BY <1>1, <1>2, <1>3, PTL DEF Lt!Spec

----------------------------------------------------------------------------
(* The pool of database clients.                                           *)

(***************************************************************************)
(* NoClientLost is not inductive: an entry removed late could be that of a *)
(* client made meanwhile.  While a PostgreSQL pool is being ended its      *)
(* entry stays and keeps others out, and only one caller ends it, as the   *)
(* second finds it ended.                                                  *)
(***************************************************************************)
Forgetting(e) == editor[e].pc = "forget"
Closing == cleaner # 0 \/ \E e \in Editors : Forgetting(e)

Edits == [pc : {"idle", "remove", "forget", "write"}, op : {"none", "update", "delete"}]
Uses == [pc : {"idle", "get", "query"}, v : Nat, c : Nat]

Typed ==
  /\ made \in Seq(Nat)
  /\ open \subseteq Nat \ {0}
  /\ cleaner \in Nat
  /\ entry \in Nat
  /\ editor \in [Editors -> Edits] /\ user \in [Queriers -> Uses]
  /\ row \in Nat /\ versions \in Nat

EntryKeepsOthersOut == Closing => type = "pg" /\ entry # 0 /\ entry \notin open

OneEndsIt ==
  /\ \A e \in Editors : Forgetting(e) => cleaner = 0
  /\ \A e, f \in Editors : Forgetting(e) /\ Forgetting(f) => e = f

PoolInv == Typed /\ Cp!NoClientLost /\ EntryKeepsOthersOut /\ OneEndsIt

(***************************************************************************)
(* What removeConnection does first: nothing without an entry; it starts   *)
(* to end a PostgreSQL pool that nobody ends, or throws; it drops others.  *)
(***************************************************************************)
LEMMA RemoveCases ==
  ASSUME NEW e \in Editors, Typed, Cp!Remove(e)
  PROVE  /\ UNCHANGED <<type, row, versions, made, user, cleaner>>
         /\ \/ /\ entry = 0 /\ UNCHANGED <<open, entry>>
               /\ editor' = [editor EXCEPT ![e].pc = "write"]
            \/ /\ type = "pg" /\ entry \in open /\ open' = open \ {entry} /\ UNCHANGED entry
               /\ editor' = [editor EXCEPT ![e].pc = "forget"]
            \/ UNCHANGED <<open, entry>> /\ editor' = [editor EXCEPT ![e] = Cp!NoEdit]
            \/ /\ type # "pg" /\ open' = open \ {entry} /\ entry' = 0
               /\ editor' = [editor EXCEPT ![e].pc = "write"]
<1>1. CASE entry = 0
  BY <1>1 DEF Cp!Remove, Cp!pool
<1>2. CASE entry # 0 /\ type = "pg"
  BY <1>2 DEF Cp!Remove
<1>3. CASE entry # 0 /\ type # "pg"
  BY <1>3 DEF Cp!Remove
<1> QED
  BY <1>1, <1>2, <1>3

(***************************************************************************)
(* The locals stay what they are in the code, whatever the bounds.         *)
(***************************************************************************)
LEMMA TypedStep ==
  ASSUME Cp!ConnectionPoolAssumption, Typed, [Cp!Next]_(Cp!vars)  PROVE Typed'
<1> USE DEF Cp!ConnectionPoolAssumption, Typed, Edits, Uses, Cp!NoEdit, Cp!NoUse, Cp!pool
<1>1. ASSUME NEW u \in Queriers, Cp!ReadConfig(u)  PROVE Typed'
  BY <1>1 DEF Cp!ReadConfig
<1>2. ASSUME NEW u \in Queriers, Cp!GetClient(u)  PROVE Typed'
  <2>1. user[u] \in Uses
    OBVIOUS
  <2>2. Len(made) + 1 \in Nat \ {0}
    OBVIOUS
  <2>3. CASE entry # 0
    <3>1. user' = [user EXCEPT ![u].pc = "query", ![u].c = entry] /\ UNCHANGED Cp!pool
      BY <1>2, <2>3 DEF Cp!GetClient
    <3>2. user' \in [Queriers -> Uses]
      BY <2>1, <3>1
    <3> QED
      BY <1>2, <3>1, <3>2 DEF Cp!GetClient
  <2>4. CASE entry = 0
    <3>1. made' = Append(made, user[u].v) /\ open' = open \cup {Len(made) + 1}
          /\ entry' = Len(made) + 1
      BY <1>2, <2>4 DEF Cp!GetClient
    <3>2. user' = [user EXCEPT ![u].pc = "query", ![u].c = Len(made) + 1]
      BY <1>2, <2>4 DEF Cp!GetClient
    <3>3. made' \in Seq(Nat) /\ open' \subseteq Nat \ {0} /\ entry' \in Nat
      <4>1. user[u].v \in Nat
        BY <2>1
      <4>2. Append(made, user[u].v) \in Seq(Nat)
        BY <4>1
      <4> QED
        BY <2>2, <3>1, <4>2
    <3>4. user' \in [Queriers -> Uses]
      BY <2>1, <2>2, <3>2
    <3> QED
      BY <1>2, <3>3, <3>4 DEF Cp!GetClient
  <2> QED
    BY <2>3, <2>4
<1>3. ASSUME NEW u \in Queriers, Cp!Query(u)  PROVE Typed'
  BY <1>3 DEF Cp!Query
<1>4. ASSUME NEW e \in Editors, NEW op \in {"update", "delete"}, Cp!Begin(e, op)  PROVE Typed'
  BY <1>4 DEF Cp!Begin
<1>5. ASSUME NEW e \in Editors, Cp!Remove(e)  PROVE Typed'
  <2>1. /\ UNCHANGED <<row, versions, made, user, cleaner>>
        /\ open' \in {open, open \ {entry}} /\ entry' \in {entry, 0}
        /\ \/ \E p \in {"write", "forget"} : editor' = [editor EXCEPT ![e].pc = p]
           \/ editor' = [editor EXCEPT ![e] = Cp!NoEdit]
    BY <1>5, RemoveCases
  <2>2. editor' \in [Editors -> Edits]
    <3>1. ASSUME NEW p \in {"write", "forget"}, editor' = [editor EXCEPT ![e].pc = p]
          PROVE  editor' \in [Editors -> Edits]
      BY <3>1
    <3>2. ASSUME editor' = [editor EXCEPT ![e] = Cp!NoEdit]
          PROVE  editor' \in [Editors -> Edits]
      BY <3>2
    <3> QED
      BY <2>1, <3>1, <3>2
  <2> QED
    BY <2>1, <2>2
<1>6. ASSUME NEW e \in Editors, Cp!Forget(e)  PROVE Typed'
  BY <1>6 DEF Cp!Forget
<1>7. ASSUME NEW e \in Editors, Cp!Write(e)  PROVE Typed'
  BY <1>7 DEF Cp!Write
<1>8. CASE Cp!CleanUp
  BY <1>8 DEF Cp!CleanUp
<1>9. CASE Cp!CleanedUp
  BY <1>9 DEF Cp!CleanedUp
<1>10. CASE UNCHANGED Cp!vars
  BY <1>10 DEF Cp!vars
<1> QED
  BY <1>1, <1>2, <1>3, <1>4, <1>5, <1>6, <1>7, <1>8, <1>9, <1>10 DEF Cp!Next

(***************************************************************************)
(* Whatever overlaps, the only client that is not closed is the pool's:    *)
(* neither a change nor a clean-up that is still ending the last client    *)
(* drops the entry of one made since.                                      *)
(***************************************************************************)
THEOREM NoneLost == Cp!ConnectionPoolAssumption => (Cp!Spec => []Cp!NoClientLost)
<1> SUFFICES ASSUME Cp!ConnectionPoolAssumption  PROVE Cp!Spec => []Cp!NoClientLost
  OBVIOUS
<1>1. Cp!Init => PoolInv
  BY DEF Cp!Init, PoolInv, Typed, Cp!NoClientLost, EntryKeepsOthersOut, OneEndsIt, Closing,
         Forgetting, Edits, Uses, Cp!NoUse, Cp!NoEdit
<1>2. PoolInv /\ [Cp!Next]_(Cp!vars) => PoolInv'
  <2> SUFFICES ASSUME PoolInv, [Cp!Next]_(Cp!vars)  PROVE PoolInv'
    OBVIOUS
  <2>t. Typed /\ Typed'
    BY TypedStep DEF PoolInv
  <2> USE <2>t DEF PoolInv, Cp!NoClientLost, EntryKeepsOthersOut, OneEndsIt, Closing, Forgetting,
                 Edits, Uses
  <2>1. ASSUME NEW u \in Queriers, Cp!ReadConfig(u)  PROVE PoolInv'
    BY <2>1 DEF Cp!ReadConfig, Cp!pool
  <2>2. ASSUME NEW u \in Queriers, Cp!GetClient(u)  PROVE PoolInv'
    <3>1. CASE entry # 0
      BY <2>2, <3>1 DEF Cp!GetClient, Cp!pool
    <3>2. CASE entry = 0
      <4>1. open = {} /\ ~Closing
        BY <3>2 DEF Typed
      <4>2. open' = {entry'} /\ UNCHANGED <<editor, cleaner>>
        BY <2>2, <3>2, <4>1 DEF Cp!GetClient
      <4> QED
        BY <4>1, <4>2
    <3> QED
      BY <3>1, <3>2
  <2>3. ASSUME NEW u \in Queriers, Cp!Query(u)  PROVE PoolInv'
    BY <2>3 DEF Cp!Query, Cp!pool
  <2>4. ASSUME NEW e \in Editors, NEW op \in {"update", "delete"}, Cp!Begin(e, op)
        PROVE  PoolInv'
    BY <2>4 DEF Cp!Begin, Cp!pool, Typed
  <2>5. ASSUME NEW e \in Editors, Cp!Remove(e)  PROVE PoolInv'
    <3>1. UNCHANGED <<type, cleaner>>
      BY <2>5, RemoveCases
    <3>2. CASE UNCHANGED <<open, entry>> /\ editor' = [editor EXCEPT ![e].pc = "write"]
      BY <3>1, <3>2 DEF Typed
    <3>3. CASE /\ type = "pg" /\ entry \in open /\ open' = open \ {entry} /\ UNCHANGED entry
               /\ editor' = [editor EXCEPT ![e].pc = "forget"]
      <4>1. ~Closing
        BY <3>3
      <4>2. \A f \in Editors : Forgetting(f)' => f = e
        BY <3>3, <4>1 DEF Typed
      <4>3. entry # 0 /\ cleaner = 0 /\ open' = {}
        BY <3>3, <4>1 DEF Typed
      <4> QED
        BY <3>1, <3>3, <4>2, <4>3
    <3>4. CASE UNCHANGED <<open, entry>> /\ editor' = [editor EXCEPT ![e] = Cp!NoEdit]
      BY <3>1, <3>4 DEF Typed, Cp!NoEdit
    <3>5. CASE /\ type # "pg" /\ open' = open \ {entry} /\ entry' = 0
               /\ editor' = [editor EXCEPT ![e].pc = "write"]
      BY <3>1, <3>5 DEF Typed
    <3> QED
      BY <2>5, <3>2, <3>3, <3>4, <3>5, RemoveCases
  <2>6. ASSUME NEW e \in Editors, Cp!Forget(e)  PROVE PoolInv'
    BY <2>6 DEF Cp!Forget, Typed
  <2>7. ASSUME NEW e \in Editors, Cp!Write(e)  PROVE PoolInv'
    BY <2>7 DEF Cp!Write, Cp!pool, Typed, Cp!NoEdit
  <2>8. CASE Cp!CleanUp
    <3>1. CASE type = "pg" /\ entry \in open
      <4>1. UNCHANGED <<entry, editor>> /\ cleaner' = entry /\ open' = open \ {entry}
        BY <2>8, <3>1 DEF Cp!CleanUp
      <4>2. ~Closing
        BY <3>1
      <4> QED
        BY <2>8, <3>1, <4>1, <4>2 DEF Cp!CleanUp
    <3>2. CASE ~(type = "pg" /\ entry \in open)
      <4>1. UNCHANGED <<cleaner, editor>> /\ open' = open \ {entry}
        BY <2>8, <3>2 DEF Cp!CleanUp
      <4>2. open' = {}
        BY <4>1
      <4> QED
        BY <2>8, <3>2, <4>1, <4>2 DEF Cp!CleanUp
    <3> QED
      BY <3>1, <3>2
  <2>9. CASE Cp!CleanedUp
    BY <2>9 DEF Cp!CleanedUp
  <2>10. CASE UNCHANGED Cp!vars
    BY <2>10 DEF Cp!vars, Cp!pool
  <2> QED
    BY <2>1, <2>2, <2>3, <2>4, <2>5, <2>6, <2>7, <2>8, <2>9, <2>10 DEF Cp!Next
<1>3. PoolInv => Cp!NoClientLost
  BY DEF PoolInv
<1> QED
  BY <1>1, <1>2, <1>3, PTL DEF Cp!Spec

----------------------------------------------------------------------------
(***************************************************************************)
(* While all is calm, changes and clean-ups come one by one and only when  *)
(* nobody uses the connection; the entry is of the row as it is and open,  *)
(* but while it is being ended; it is gone before the row is written.      *)
(***************************************************************************)
Editing(e) == editor[e].pc # "idle"

OneChange ==
  /\ \A e, f \in Editors : Editing(e) /\ Editing(f) => e = f
  /\ \A e \in Editors : Editing(e) => cleaner = 0
  /\ ~Cp!Unchanging => Cp!Unused

EntryOfTheRow ==
  /\ entry # 0 => made[entry] = row
  /\ entry # 0 /\ ~Closing => entry \in open
  /\ \A e \in Editors : editor[e].pc = "write" => entry = 0

UsersOfTheEntry ==
  \A u \in Queriers :
    /\ user[u].pc = "get" => user[u].v = row
    /\ user[u].pc = "query" => user[u].c = entry /\ entry # 0

PoolCalmInv == calm => OneChange /\ EntryOfTheRow /\ UsersOfTheEntry

(***************************************************************************)
(* As long as no use overlaps a change or a clean-up, nor those each       *)
(* other, a query goes to an open client made from the row as it is.       *)
(***************************************************************************)
THEOREM QueriesServed == Cp!ConnectionPoolAssumption => (Cp!Spec => []Cp!QueriesReachTheRow)
<1> SUFFICES ASSUME Cp!ConnectionPoolAssumption  PROVE Cp!Spec => []Cp!QueriesReachTheRow
  OBVIOUS
<1>1. Cp!Init => Typed /\ PoolCalmInv
  BY DEF Cp!Init, Typed, Edits, Uses, Cp!NoUse, Cp!NoEdit, PoolCalmInv, OneChange, EntryOfTheRow,
         UsersOfTheEntry, Editing, Cp!Unused, Cp!Unchanging, Closing
<1>2. Typed /\ PoolCalmInv /\ [Cp!Next]_(Cp!vars) => Typed' /\ PoolCalmInv'
  <2> SUFFICES ASSUME Typed, PoolCalmInv, [Cp!Next]_(Cp!vars), calm'
               PROVE  OneChange' /\ EntryOfTheRow' /\ UsersOfTheEntry'
    BY TypedStep DEF PoolCalmInv
  <2>t. Typed /\ Typed'
    BY TypedStep
  <2> USE DEF PoolCalmInv, OneChange, EntryOfTheRow, UsersOfTheEntry, Editing, Cp!Unused, Cp!Unchanging,
              Closing, Forgetting
  <2>1. ASSUME NEW u \in Queriers, Cp!ReadConfig(u)
        PROVE  OneChange' /\ EntryOfTheRow' /\ UsersOfTheEntry'
    BY <2>t, <2>1 DEF Cp!ReadConfig, Cp!pool, Typed, Uses, Cp!NoUse
  <2>2. ASSUME NEW u \in Queriers, Cp!GetClient(u)
        PROVE  OneChange' /\ EntryOfTheRow' /\ UsersOfTheEntry'
    <3>0. user[u] \in Uses
      BY DEF Typed
    <3>1. /\ UNCHANGED <<type, row, versions, editor, cleaner, calm>> /\ user[u].pc = "get"
          /\ user[u].v = row /\ Cp!Unchanging /\ user[u].v \in Nat
      <4>1. UNCHANGED <<type, row, versions, editor, cleaner, calm>> /\ user[u].pc = "get"
        BY <2>2 DEF Cp!GetClient
      <4>2. user[u].v = row /\ Cp!Unchanging
        <5>1. calm
          BY <4>1
        <5>2. OneChange /\ UsersOfTheEntry
          BY <5>1
        <5>3. ~Cp!Unused
          BY <4>1
        <5> QED
          BY <4>1, <5>2, <5>3
      <4> QED
        BY <3>0, <4>1, <4>2 DEF Uses
    <3>2. CASE entry # 0
      <4>1. user' = [user EXCEPT ![u].pc = "query", ![u].c = entry] /\ UNCHANGED Cp!pool
        BY <2>2, <3>2 DEF Cp!GetClient
      <4>2. /\ user'[u].pc = "query" /\ user'[u].c = entry
            /\ \A w \in Queriers \ {u} : user'[w] = user[w]
        BY <2>t, <4>1 DEF Typed, Uses
      <4> QED
        BY <3>1, <3>2, <4>1, <4>2 DEF Cp!pool
    <3>3. CASE entry = 0
      <4> DEFINE n == Len(made) + 1
      <4>1. /\ user' = [user EXCEPT ![u].pc = "query", ![u].c = n]
            /\ made' = Append(made, user[u].v) /\ open' = open \cup {n} /\ entry' = n
        BY <2>2, <3>3 DEF Cp!GetClient
      <4>2. n \in Nat /\ n # 0 /\ made'[n] = row
        BY <2>t, <3>1, <4>1 DEF Typed
      <4> HIDE DEF n
      <4>3. /\ user'[u].pc = "query" /\ user'[u].c = n
            /\ \A w \in Queriers \ {u} : user'[w] = user[w]
        BY <2>t, <4>1, <4>2 DEF Typed, Uses
      <4>4. \A w \in Queriers : user[w].pc # "query"
        BY <3>1, <3>3
      <4> QED
        BY <3>1, <4>1, <4>2, <4>3, <4>4
    <3> QED
      BY <3>2, <3>3
  <2>3. ASSUME NEW u \in Queriers, Cp!Query(u)
        PROVE  OneChange' /\ EntryOfTheRow' /\ UsersOfTheEntry'
    BY <2>t, <2>3 DEF Cp!Query, Cp!pool, Typed, Uses, Cp!NoUse
  <2>4. ASSUME NEW e \in Editors, NEW op \in {"update", "delete"}, Cp!Begin(e, op)
        PROVE  OneChange' /\ EntryOfTheRow' /\ UsersOfTheEntry'
    <3>1. calm /\ Cp!Unused /\ Cp!Unchanging /\ editor' = [editor EXCEPT ![e] = [pc |-> "remove", op |-> op]]
          /\ UNCHANGED <<row, made, open, entry, user, cleaner>>
      BY <2>4 DEF Cp!Begin, Cp!pool
    <3>2. \A f \in Editors \ {e} : editor'[f].pc = "idle"
      BY <3>1 DEF Typed
    <3>3. editor'[e].pc = "remove"
      BY <3>1 DEF Typed
    <3> QED
      BY <3>1, <3>2, <3>3
  <2>5. ASSUME NEW e \in Editors, Cp!Remove(e)
        PROVE  OneChange' /\ EntryOfTheRow' /\ UsersOfTheEntry'
    <3>1. Cp!Unused /\ editor[e].pc = "remove" /\ calm /\ cleaner = 0
      BY <2>t, <2>5 DEF Cp!Remove, Typed
    <3> QED
      <4>1. \A f \in Editors \ {e} : editor[f].pc = "idle"
        BY <3>1
      <4>2. UNCHANGED <<row, made, user, cleaner>> /\ entry \in Nat
        BY <2>5, RemoveCases DEF Typed
      <4>3. CASE /\ entry = 0 /\ UNCHANGED <<open, entry>>
                 /\ editor' = [editor EXCEPT ![e].pc = "write"]
        BY <3>1, <4>1, <4>2, <4>3 DEF Typed
      <4>4. CASE /\ type = "pg" /\ entry \in open /\ open' = open \ {entry} /\ UNCHANGED entry
                 /\ editor' = [editor EXCEPT ![e].pc = "forget"]
        <5>1. editor'[e].pc = "forget" /\ \A f \in Editors \ {e} : editor'[f].pc = "idle"
          BY <4>1, <4>4 DEF Typed, Edits
        <5> QED
          BY <3>1, <4>2, <4>4, <5>1
      <4>5. CASE UNCHANGED <<open, entry>> /\ editor' = [editor EXCEPT ![e] = Cp!NoEdit]
        <5>1. \A f \in Editors : editor'[f].pc = "idle"
          BY <4>1, <4>5 DEF Typed, Cp!NoEdit
        <5>2. \A f \in Editors : editor[f].pc # "forget"
          BY <3>1, <4>1
        <5> QED
          BY <3>1, <4>2, <4>5, <5>1, <5>2
      <4>6. CASE /\ type # "pg" /\ open' = open \ {entry} /\ entry' = 0
                 /\ editor' = [editor EXCEPT ![e].pc = "write"]
        BY <3>1, <4>1, <4>2, <4>6 DEF Typed
      <4> QED
        BY <2>5, <4>3, <4>4, <4>5, <4>6, RemoveCases
  <2>6. ASSUME NEW e \in Editors, Cp!Forget(e)
        PROVE  OneChange' /\ EntryOfTheRow' /\ UsersOfTheEntry'
    BY <2>t, <2>6 DEF Cp!Forget, Typed, Edits
  <2>7. ASSUME NEW e \in Editors, Cp!Write(e)
        PROVE  OneChange' /\ EntryOfTheRow' /\ UsersOfTheEntry'
    BY <2>t, <2>7 DEF Cp!Write, Cp!pool, Typed, Edits, Cp!NoEdit
  <2>8. CASE Cp!CleanUp
    BY <2>t, <2>8 DEF Cp!CleanUp, Typed
  <2>9. CASE Cp!CleanedUp
    BY <2>t, <2>9 DEF Cp!CleanedUp, Typed
  <2>10. CASE UNCHANGED Cp!vars
    BY <2>10 DEF Cp!vars, Cp!pool
  <2> QED
    BY <2>1, <2>2, <2>3, <2>4, <2>5, <2>6, <2>7, <2>8, <2>9, <2>10 DEF Cp!Next
<1>3. PoolCalmInv => Cp!QueriesReachTheRow
  BY DEF PoolCalmInv, Cp!QueriesReachTheRow, OneChange, EntryOfTheRow, UsersOfTheEntry, Cp!Unused, Cp!Unchanging,
    Closing, Forgetting
<1> QED
  BY <1>1, <1>2, <1>3, PTL DEF Cp!Spec

----------------------------------------------------------------------------
(* A static site.                                                          *)

(***************************************************************************)
(* What is served is a text or nothing, for each file.                     *)
(***************************************************************************)
Contents == [Ss!File -> Nat \cup {None}]
Stage == [pc : {"idle", "found", "removing", "writing"}, files : Contents,
          todo : SUBSET Ss!File, status : {"PENDING", "RUNNING", "SUCCESS", "FAILED"}]
SiteTyped ==
  rows \in Contents /\ disk \in Contents /\ publication \in Stage /\ edits \in Nat

(***************************************************************************)
(* A publication has something to publish; while it writes, the directory  *)
(* holds what it found, except the files it has yet to write.              *)
(***************************************************************************)
Publishing ==
  /\ ~Ss!At("idle") => Ss!Present(publication.files) # {}
  /\ Ss!At("writing") =>
       disk = [f \in Ss!File |-> IF f \in publication.todo THEN None ELSE publication.files[f]]
  /\ publication.pc \in {"found", "removing"} =>
       publication.todo = Ss!Present(publication.files)
SiteInv == SiteTyped /\ Publishing

(***************************************************************************)
(* Unpacking an archive leaves a site with an index page, if it had one.   *)
(***************************************************************************)
LEMMA UnpackingKeepsIndex ==
  ASSUME Ss!StaticSiteAssumption, SiteTyped, NEW z \in Ss!Zips
  PROVE  /\ Ss!Unpacked(z) \in Contents
         /\ disk[Ss!Index] # None => Ss!Unpacked(z)[Ss!Index] # None
<1> USE DEF Ss!StaticSiteAssumption, SiteTyped, Contents, Ss!File, Ss!Index, Ss!Archive
<1>1. Ss!Index \in Ss!File /\ Ss!Archive # None
  OBVIOUS
<1>2. CASE Ss!Unpacked(z) = disk
  BY <1>2
<1>3. CASE Ss!Unpacked(z) = [disk EXCEPT ![Ss!Index] = Ss!Archive]
  BY <1>1, <1>3
<1> QED
  BY <1>2, <1>3 DEF Ss!Unpacked

(***************************************************************************)
(* Every step keeps the invariant.                                         *)
(***************************************************************************)
LEMMA ServedStep ==
  ASSUME Ss!StaticSiteAssumption, SiteInv, [Ss!Next]_(Ss!vars)  PROVE SiteInv'
<1> USE DEF Ss!StaticSiteAssumption, SiteInv, SiteTyped, Publishing, Contents, Stage, Ss!At, Ss!Present
<1>e. Ss!Empty \in Contents /\ Ss!NoStage \in Stage /\ Ss!NoStage.pc = "idle"
  BY DEF Ss!Empty, Ss!NoStage
<1>1. ASSUME NEW f \in Ss!File, Ss!Upsert(f) \/ Ss!Remove(f)  PROVE SiteInv'
  BY <1>1 DEF Ss!Upsert, Ss!Remove
<1>2. ASSUME NEW h \in Requests, NEW z \in Ss!Zips, Ss!Upload(h, z)  PROVE SiteInv'
  <2>1. UNCHANGED <<rows, edits, publication>> /\ disk' \in {disk, Ss!Unpacked(z), Ss!Empty}
    BY <1>2 DEF Ss!Upload
  <2>2. ~Ss!At("writing")
    BY <1>2 DEF Ss!Upload
  <2>3. disk' \in Contents
    BY <2>1, <1>e, UnpackingKeepsIndex
  <2> QED
    BY <2>1, <2>2, <2>3
<1>3. ASSUME NEW h \in Requests, Ss!ClearAll(h) \/ Ss!Trigger(h) \/ Ss!Dies(h)  PROVE SiteInv'
  BY <1>3, <1>e DEF Ss!ClearAll, Ss!Trigger, Ss!Dies
<1>4. CASE Ss!Publish \/ Ss!Serve
  BY <1>4 DEF Ss!Publish, Ss!Serve
<1>5. CASE Ss!FindFiles
  <2>1. CASE Ss!Present(rows) = {}
    BY <1>5, <1>e, <2>1 DEF Ss!FindFiles, Ss!NoStage
  <2>2. CASE Ss!Present(rows) # {}
    BY <1>5, <2>2 DEF Ss!FindFiles
  <2> QED
    BY <2>1, <2>2
<1>6. CASE Ss!RemoveSite
  BY <1>6 DEF Ss!RemoveSite
<1>7. ASSUME NEW f \in Ss!File, Ss!RemoveFile(f)  PROVE SiteInv'
  BY <1>7 DEF Ss!RemoveFile
<1>8. CASE Ss!MakeDirectory
  <2>1. \A f \in Ss!File : disk[f] = None
    BY <1>8 DEF Ss!MakeDirectory
  <2>2. /\ UNCHANGED <<rows, disk, edits>> /\ publication' \in Stage
        /\ publication'.files = publication.files /\ publication'.todo = publication.todo
    BY <1>8 DEF Ss!MakeDirectory
  <2>3. publication'.pc = "writing" /\ publication.pc = "removing"
    BY <1>8 DEF Ss!MakeDirectory
  <2>4. \A f \in Ss!File : f \notin publication.todo => publication.files[f] = None
    BY <2>3
  <2>5. disk = [f \in Ss!File |-> IF f \in publication.todo THEN None ELSE publication.files[f]]
    BY <2>1, <2>4
  <2> QED
    BY <2>2, <2>3, <2>5
<1>9. ASSUME NEW f \in Ss!File, Ss!WriteFile(f)  PROVE SiteInv'
  <2>1. /\ UNCHANGED <<rows, edits>> /\ publication' \in Stage /\ publication'.pc = "writing"
        /\ publication'.files = publication.files /\ publication'.todo = publication.todo \ {f}
        /\ publication.pc = "writing"
        /\ disk' = [disk EXCEPT ![f] = publication.files[f]]
    BY <1>9 DEF Ss!WriteFile
  <2>2. disk' \in Contents
    BY <2>1
  <2>3. disk = [g \in Ss!File |-> IF g \in publication.todo THEN None ELSE publication.files[g]]
    BY <2>1
  <2>4. \A g \in Ss!File :
          disk'[g] = IF g \in publication'.todo THEN None ELSE publication'.files[g]
    BY <2>1, <2>3
  <2>5. disk' = [g \in Ss!File |-> disk'[g]]
    BY <2>2
  <2>6. disk' = [g \in Ss!File |-> IF g \in publication'.todo THEN None ELSE publication'.files[g]]
    BY <2>4, <2>5, Zenon
  <2>7. SiteTyped'
    BY <2>1, <2>2
  <2>8. Publishing'
    <3>1. Ss!Present(publication.files) # {}
      BY <2>1
    <3>2. ~Ss!At("idle")' => Ss!Present(publication'.files) # {}
      BY <2>1, <3>1
    <3> QED
      BY <2>1, <2>6, <3>2
  <2> QED
    BY <2>7, <2>8
<1>10. CASE Ss!Published \/ Ss!SyncFails \/ Ss!Stops
  BY <1>10, <1>e DEF Ss!Published, Ss!SyncFails, Ss!Stops, Ss!NoStage
<1>11. CASE UNCHANGED Ss!vars
  BY <1>11 DEF Ss!vars
<1> QED
  BY <1>1, <1>2, <1>3, <1>4, <1>5, <1>6, <1>7, <1>8, <1>9, <1>10, <1>11
  DEF Ss!Next, Ss!StaticSync

(***************************************************************************)
(* A site that has an index page loses it only to the removal that starts  *)
(* the publication of other files: not to a rejected archive, nor to the   *)
(* publication of an empty table; one that reports success leaves exactly  *)
(* the files it found.                                                     *)
(***************************************************************************)
THEOREM IndexIsKept ==
  Ss!StaticSiteAssumption => (Ss!Spec => [][Ss!SiteKeepsIndexStep]_(Ss!vars))
<1> SUFFICES ASSUME Ss!StaticSiteAssumption  PROVE Ss!Spec => [][Ss!SiteKeepsIndexStep]_(Ss!vars)
  OBVIOUS
<1>1. Ss!Init => SiteInv
  BY DEF Ss!StaticSiteAssumption, Ss!Init, SiteInv, SiteTyped, Publishing, Contents, Stage,
         Ss!Index, Ss!Empty, Ss!NoStage, Ss!At
<1>2. SiteInv /\ [Ss!Next]_(Ss!vars) => SiteInv'
  BY ServedStep
<1>3. SiteInv /\ [Ss!Next]_(Ss!vars) => [Ss!SiteKeepsIndexStep]_(Ss!vars)
  <2> SUFFICES ASSUME SiteInv, Ss!Next
               PROVE  /\ disk[Ss!Index] # None /\ disk'[Ss!Index] = None =>
                           Ss!At("removing") /\ Ss!Present(publication.files) # {}
                      /\ publication.status = "RUNNING" /\ publication'.status = "SUCCESS" =>
                           disk' = publication.files /\ Ss!Present(disk') # {}
    BY DEF Ss!SiteKeepsIndexStep
  <2>1. ASSUME disk[Ss!Index] # None, disk'[Ss!Index] = None
        PROVE  Ss!At("removing") /\ Ss!Present(publication.files) # {}
    <3>1. ASSUME NEW h \in Requests, NEW z \in Ss!Zips, Ss!Upload(h, z)  PROVE FALSE
      <4>1. Ss!Unpacked(z)[Ss!Index] # None
        BY <2>1, UnpackingKeepsIndex DEF SiteInv
      <4>2. disk' \in {disk, Ss!Unpacked(z)}
        BY <3>1, <4>1 DEF Ss!Upload
      <4> QED
        BY <2>1, <4>1, <4>2
    <3>2. ASSUME NEW f \in Ss!File, Ss!RemoveFile(f)
          PROVE  Ss!At("removing") /\ Ss!Present(publication.files) # {}
      BY <3>2 DEF Ss!RemoveFile, SiteInv, Publishing, Ss!At
    <3>3. ASSUME NEW f \in Ss!File, Ss!WriteFile(f)  PROVE FALSE
      <4>1. disk' = [disk EXCEPT ![f] = publication.files[f]] /\ f \in publication.todo
        BY <3>3 DEF Ss!WriteFile
      <4>2. disk[f] = None
        BY <3>3 DEF Ss!WriteFile, SiteInv, Publishing, Ss!At
      <4> QED
        BY <2>1, <4>1, <4>2 DEF SiteInv, SiteTyped, Contents
    <3>4. CASE UNCHANGED disk
      BY <2>1, <3>4
    <3> QED
      BY <3>1, <3>2, <3>3, <3>4
      DEF Ss!Next, Ss!StaticSync, Ss!Publish, Ss!Serve, Ss!Upsert, Ss!Remove, Ss!ClearAll,
          Ss!Trigger, Ss!Dies, Ss!FindFiles, Ss!RemoveSite, Ss!MakeDirectory, Ss!Published,
          Ss!SyncFails, Ss!Stops
  <2>2. ASSUME publication.status = "RUNNING", publication'.status = "SUCCESS"
        PROVE  disk' = publication.files /\ Ss!Present(disk') # {}
    <3>1. CASE Ss!Published
      BY <3>1 DEF Ss!Published, SiteInv, SiteTyped, Stage, Contents, Publishing, Ss!At
    <3>2. CASE Ss!FindFiles \/ Ss!RemoveSite \/ Ss!MakeDirectory \/ Ss!SyncFails \/ Ss!Stops
      BY <2>2, <3>2 DEF Ss!FindFiles, Ss!RemoveSite, Ss!MakeDirectory, Ss!SyncFails, Ss!Stops,
                   Ss!NoStage, SiteInv, SiteTyped, Stage
    <3>3. ASSUME NEW f \in Ss!File, Ss!WriteFile(f)  PROVE FALSE
      BY <2>2, <3>3 DEF Ss!WriteFile, SiteInv, SiteTyped, Stage
    <3>4. CASE UNCHANGED publication
      BY <2>2, <3>4
    <3> QED
      BY <3>1, <3>2, <3>3, <3>4
      DEF Ss!Next, Ss!StaticSync, Ss!Publish, Ss!Serve, Ss!Upsert, Ss!Remove, Ss!ClearAll,
          Ss!Trigger, Ss!Dies, Ss!Upload, Ss!RemoveFile
  <2> QED
    BY <2>1, <2>2
<1> QED
  BY <1>1, <1>2, <1>3, PTL DEF Ss!Spec

----------------------------------------------------------------------------
(* The process of a project.                                               *)

\* The sets of TypeOK that the argument needs.
ReqPc == {"idle", "store", "write", "pm2", "status"}
AppReq == [pc : ReqPc, op : {"none", "env", "settings", "stop", "restart"}, v : Ap!Version, env : Ap!Version]
WorkerPc == {"idle", "clone", "env", "read", "write", "delete", "start", "finish"}
AppWorker == [pc : WorkerPc, env : Ap!Version, settings : Ap!Version]

AppTypes ==
  /\ env \in Ap!Version /\ settings \in Ap!Version /\ state \in {"ACTIVE", "STOPPED"}
  /\ dotenv \in Ap!Version
  /\ ecosystem \in (Ap!Version \X Ap!Version) \cup {Ap!NoFile}
  /\ process \in {"none", "stopped", "online"} /\ syncing \subseteq Ap!Version
  /\ request \in [ApiHandlers -> AppReq] /\ worker \in AppWorker
  /\ requests \in Ap!Version /\ deploys \in 0..AppDeploys

(***************************************************************************)
(* While all is calm one request or one deployment is at work at most, or  *)
(* the syncEnvFile of the last update of the variables is.                 *)
(***************************************************************************)
AppFree(h) == request[h].pc = "idle"

AppOneAtWork ==
  /\ \A g, h \in ApiHandlers : AppFree(g) \/ AppFree(h) \/ g = h
  /\ worker.pc # "idle" => syncing = {} /\ \A h \in ApiHandlers : AppFree(h)
  /\ syncing # {} => \A h \in ApiHandlers : AppFree(h) \/ request[h].op = "env"

(***************************************************************************)
(* What requests and a deployment at work have read is still so.           *)
(***************************************************************************)
AppAtWork(h, op) == ~AppFree(h) /\ request[h].op = op

Places ==
  \A h \in ApiHandlers : ~AppFree(h) =>
    \/ request[h].op = "env" /\ request[h].pc = "store"
    \/ request[h].op = "settings" /\ request[h].pc \in {"store", "write", "pm2"}
    \/ request[h].op = "stop" /\ request[h].pc \in {"pm2", "status"}
    \/ request[h].op = "restart" /\ request[h].pc \in {"write", "pm2", "status"}

Known ==
  /\ \A h \in ApiHandlers : AppAtWork(h, "env") => env <= request[h].v /\ syncing \subseteq {request[h].v}
  /\ (\A h \in ApiHandlers : ~AppAtWork(h, "env")) => syncing \subseteq {env}
  /\ \A h \in ApiHandlers : ~AppFree(h) /\ ~AppAtWork(h, "env") => request[h].env = env
  /\ \A h \in ApiHandlers :
       AppAtWork(h, "settings") /\ request[h].pc # "store" => settings = request[h].v
  /\ worker.pc # "idle" => worker.env = env
  /\ worker.pc \in {"write", "delete"} => worker.settings = settings

(***************************************************************************)
(* .env holds the variables of the row, or those about to be stored there, *)
(* but for a syncEnvFile or a deployment that is still to write it.        *)
(***************************************************************************)
DotEnvFollows ==
  /\ ~directory => dotenv = 0
  /\ worker.pc \notin {"idle", "clone"} => directory
  /\ worker.pc = "env" => dotenv \in {0, env}
  /\ directory /\ worker.pc # "env" /\ syncing = {} =>
       /\ (\A h \in ApiHandlers : ~AppAtWork(h, "env")) => dotenv = env
       /\ \A h \in ApiHandlers : AppAtWork(h, "env") => dotenv = request[h].v

(***************************************************************************)
(* The ecosystem file is that of a deployed project, and holds the         *)
(* settings of the row unless an update is about to write it.              *)
(***************************************************************************)
EcosystemFollows ==
  /\ directory /\ worker.pc \notin {"env", "read", "write"} => ecosystem # Ap!NoFile
  /\ ecosystem # Ap!NoFile => ecosystem[1] <= env
  /\ ecosystem # Ap!NoFile /\ (\A h \in ApiHandlers : ~Ap!At(h, "settings", "write")) =>
       ecosystem[2] = settings

(***************************************************************************)
(* PM2 is ahead of the status only while a request or a deployment is      *)
(* about to write it.                                                      *)
(***************************************************************************)
StatusFollows == ~revived =>
  /\ ecosystem # Ap!NoFile /\ worker.pc = "idle" /\ (\A h \in ApiHandlers : request[h].pc # "status") =>
       process = IF state = "STOPPED" THEN "stopped" ELSE "online"
  /\ \A h \in ApiHandlers : Ap!At(h, "stop", "status") => process = "stopped"
  /\ \A h \in ApiHandlers : Ap!At(h, "restart", "status") => process = "online"
  /\ \A h \in ApiHandlers : AppAtWork(h, "settings") => state = "ACTIVE"
  /\ worker.pc = "finish" => process = "online"

AppCalmInv == AppOneAtWork /\ Known /\ DotEnvFollows /\ EcosystemFollows /\ StatusFollows

Stored == env <= requests /\ \A h \in ApiHandlers : request[h].v <= requests

ProcessInv == AppTypes /\ Places /\ Stored /\ (calm => AppCalmInv)

LEMMA VersionNat == Ap!AppProcessAssumption => Ap!Version \subseteq Nat /\ 0 \in Ap!Version
BY DEF Ap!Version, Ap!AppProcessAssumption

LEMMA ProcessInvInit == Ap!AppProcessAssumption /\ Ap!Init => ProcessInv
<1> SUFFICES ASSUME Ap!AppProcessAssumption, Ap!Init  PROVE ProcessInv
  OBVIOUS
<1>1. Ap!NoReq \in AppReq /\ Ap!NoDeploy \in AppWorker
  BY VersionNat DEF Ap!NoReq, AppReq, ReqPc, Ap!NoDeploy, AppWorker, WorkerPc
<1>2. AppTypes
  BY <1>1, VersionNat DEF Ap!Init, AppTypes, Ap!AppProcessAssumption
<1>3. Places /\ Stored
  BY DEF Ap!Init, Places, Stored, AppFree, Ap!NoReq
<1>4. AppOneAtWork /\ Known /\ DotEnvFollows /\ EcosystemFollows /\ StatusFollows
  BY DEF Ap!Init, AppOneAtWork, Known, DotEnvFollows, EcosystemFollows, StatusFollows, AppFree, AppAtWork, Ap!At,
    Ap!NoReq, Ap!NoDeploy
<1> QED
  BY <1>2, <1>3, <1>4 DEF ProcessInv, AppCalmInv

----------------------------------------------------------------------------
(* Requests.                                                               *)

\* What a request that moves leaves of the others.
LEMMA AppMoved ==
  ASSUME NEW h \in ApiHandlers, NEW u \in AppReq, request \in [ApiHandlers -> AppReq],
         request' = [request EXCEPT ![h] = u]
  PROVE  /\ request' \in [ApiHandlers -> AppReq] /\ request'[h] = u
         /\ \A g \in ApiHandlers \ {h} : request'[g] = request[g]
OBVIOUS

LEMMA AppGoneOn ==
  ASSUME NEW h \in ApiHandlers, request \in [ApiHandlers -> AppReq], NEW pc \in ReqPc, Ap!Goto(h, pc)
  PROVE  /\ request' \in [ApiHandlers -> AppReq] /\ request'[h].pc = pc /\ request'[h].op = request[h].op
         /\ request'[h].v = request[h].v /\ request'[h].env = request[h].env
         /\ \A g \in ApiHandlers \ {h} : request'[g] = request[g]
<1> DEFINE u == [request[h] EXCEPT !.pc = pc]
<1>1. u \in AppReq /\ u.pc = pc /\ u.op = request[h].op /\ u.v = request[h].v /\ u.env = request[h].env
  BY DEF AppReq
<1>2. request' = [request EXCEPT ![h] = u]
  BY DEF Ap!Goto
<1> HIDE DEF u
<1> QED
  BY <1>1, <1>2, AppMoved

LEMMA AppReturned ==
  ASSUME Ap!AppProcessAssumption, NEW h \in ApiHandlers, request \in [ApiHandlers -> AppReq], Ap!Return(h)
  PROVE  /\ request' \in [ApiHandlers -> AppReq] /\ request'[h].pc = "idle" /\ request'[h].v = 0
         /\ \A g \in ApiHandlers \ {h} : request'[g] = request[g]
<1>1. Ap!NoReq \in AppReq /\ Ap!NoReq.pc = "idle" /\ Ap!NoReq.v = 0
  BY DEF Ap!NoReq, AppReq, ReqPc, Ap!Version, Ap!AppProcessAssumption
<1> QED
  BY <1>1, AppMoved DEF Ap!Return

LEMMA AppBeginStep ==
  ASSUME Ap!AppProcessAssumption, ProcessInv, NEW h \in ApiHandlers,
         NEW op \in {"env", "settings", "stop", "restart"}, Ap!Begin(h, op)
  PROVE  ProcessInv'
<1> DEFINE pc == CASE op \in {"env", "settings"} -> "store" [] op = "stop" -> "pm2" [] OTHER -> "write"
           u == [pc |-> pc, op |-> op, v |-> requests + 1, env |-> env]
<1>1. requests + 1 \in Ap!Version /\ requests \in Nat /\ requests' = requests + 1
  BY DEF Ap!Begin, ProcessInv, AppTypes, Ap!Version, Ap!AppProcessAssumption
<1>2. u \in AppReq /\ u.pc = pc /\ u.op = op /\ u.v = requests + 1 /\ u.env = env
  BY <1>1 DEF AppReq, ReqPc, ProcessInv, AppTypes
<1>3. request' = [request EXCEPT ![h] = u]
  BY DEF Ap!Begin
<1> HIDE DEF u
<1>4. /\ request' \in [ApiHandlers -> AppReq] /\ request'[h].pc = pc /\ request'[h].op = op
      /\ request'[h].v = requests + 1 /\ request'[h].env = env
      /\ \A g \in ApiHandlers \ {h} : request'[g] = request[g]
  BY <1>2, <1>3, AppMoved DEF ProcessInv, AppTypes
<1>5. /\ UNCHANGED <<env, settings, state, directory, dotenv, ecosystem, process, worker, deploys>>
      /\ syncing' = IF op = "env" THEN syncing \cup {requests + 1} ELSE syncing
  BY DEF Ap!Begin, Ap!rows, Ap!files
<1>6. AppTypes'
  BY <1>1, <1>4, <1>5 DEF ProcessInv, AppTypes
<1>7. Places'
  BY <1>4 DEF ProcessInv, Places, AppFree
<1>9. Stored'
  <2>1. env <= requests /\ env \in Nat /\ \A g \in ApiHandlers : request[g].v \in Nat /\ request[g].v <= requests
    BY VersionNat DEF ProcessInv, Stored, AppTypes, AppReq
  <2> QED
    BY <1>1, <1>4, <1>5, <2>1 DEF Stored
<1>8. ASSUME calm'  PROVE AppCalmInv'
  <2>1. calm /\ worker.pc = "idle" /\ syncing = {} /\ \A g \in ApiHandlers : AppFree(g)
    BY <1>8 DEF Ap!Begin, Ap!Others, AppFree
  <2>2. \A g \in ApiHandlers \ {h} : AppFree(g)'
    BY <1>4, <2>1 DEF AppFree
  <2>3. AppOneAtWork'
    BY <1>4, <1>5, <2>1, <2>2 DEF AppOneAtWork, AppFree
  <2>4. Known'
    <3>1. env <= requests + 1
      BY <1>1, VersionNat DEF ProcessInv, Stored, AppTypes
    <3>2. syncing' = IF op = "env" THEN {requests + 1} ELSE {}
      BY <1>5, <2>1
    <3> QED
      BY <1>4, <1>5, <2>1, <2>2, <3>1, <3>2 DEF Known, AppAtWork, AppFree
  <2>5. DotEnvFollows'
    BY <1>1, <1>4, <1>5, <2>1, <2>2 DEF ProcessInv, DotEnvFollows, AppCalmInv, AppAtWork, AppFree
  <2>6. EcosystemFollows'
    BY <1>4, <1>5, <2>1, <2>2 DEF ProcessInv, EcosystemFollows, AppCalmInv, Ap!At, AppFree
  <2>7. StatusFollows'
    <3>1. revived' = (revived \/ (op = "settings" /\ state = "STOPPED"))
      BY DEF Ap!Begin
    <3> QED
      BY <1>4, <1>5, <2>1, <2>2, <3>1 DEF ProcessInv, AppTypes, StatusFollows, AppCalmInv, Ap!At, AppAtWork, AppFree
  <2> QED
    BY <2>3, <2>4, <2>5, <2>6, <2>7 DEF AppCalmInv
<1> QED
  BY <1>6, <1>7, <1>8, <1>9 DEF ProcessInv
\* A request that ends, throwing or not, while nothing but what it says changes.
LEMMA ThrowStep ==
  ASSUME Ap!AppProcessAssumption, ProcessInv, NEW h \in ApiHandlers, Ap!Throw(h),
         UNCHANGED <<Ap!rows, Ap!files, process, syncing, worker, Ap!bounds>>
  PROVE  ProcessInv'
<1>1. /\ request' \in [ApiHandlers -> AppReq] /\ request'[h].pc = "idle" /\ request'[h].v = 0
      /\ \A g \in ApiHandlers \ {h} : request'[g] = request[g]
  BY AppReturned DEF Ap!Throw, ProcessInv, AppTypes
<1>2. calm' = FALSE
  BY DEF Ap!Throw
<1>3. AppTypes'
  BY <1>1 DEF ProcessInv, AppTypes, Ap!rows, Ap!files, Ap!bounds
<1>4. Places'
  BY <1>1 DEF ProcessInv, Places, AppFree
<1>5. Stored'
  BY <1>1, VersionNat DEF ProcessInv, Stored, AppTypes, Ap!rows, Ap!bounds
<1> QED
  BY <1>2, <1>3, <1>4, <1>5 DEF ProcessInv

\* While all is calm a request at work is the only one, and there is no deployment.
LEMMA Alone ==
  ASSUME ProcessInv, calm, NEW h \in ApiHandlers, ~AppFree(h)
  PROVE  /\ worker.pc = "idle" /\ \A g \in ApiHandlers \ {h} : AppFree(g)
         /\ request[h].op # "env" => syncing = {}
BY DEF ProcessInv, AppCalmInv, AppOneAtWork

LEMMA StoreEnvStep ==
  ASSUME Ap!AppProcessAssumption, ProcessInv, NEW h \in ApiHandlers, Ap!StoreEnv(h)
  PROVE  ProcessInv'
<1>1. /\ request' \in [ApiHandlers -> AppReq] /\ request'[h].pc = "idle" /\ request'[h].v = 0
      /\ \A g \in ApiHandlers \ {h} : request'[g] = request[g]
  BY AppReturned DEF Ap!StoreEnv, ProcessInv, AppTypes
<1>2. /\ request[h].op = "env" /\ request[h].pc = "store" /\ env' = request[h].v
      /\ UNCHANGED <<settings, state, directory, dotenv, ecosystem, process, syncing, worker,
                     requests, deploys, calm, revived>>
  BY DEF Ap!StoreEnv, Ap!At, Ap!files, Ap!bounds, Ap!history
<1>3. AppTypes'
  BY <1>1, <1>2 DEF ProcessInv, AppTypes, AppReq
<1>4. Places'
  BY <1>1 DEF ProcessInv, Places, AppFree
<1>5. Stored'
  BY <1>1, <1>2, VersionNat DEF ProcessInv, Stored, AppTypes
<1>6. ASSUME calm  PROVE AppCalmInv'
  <2>1. worker.pc = "idle" /\ \A g \in ApiHandlers \ {h} : AppFree(g)
    BY <1>2, <1>6, Alone DEF AppFree
  <2>2. \A g \in ApiHandlers : AppFree(g)'
    BY <1>1, <2>1 DEF AppFree
  <2>3. AppOneAtWork'
    BY <1>2, <2>1, <2>2 DEF AppOneAtWork, AppFree
  <2>4. env <= request[h].v /\ syncing \subseteq {request[h].v}
    BY <1>2, <1>6 DEF ProcessInv, AppCalmInv, Known, AppAtWork, AppFree
  <2>5. Known'
    BY <1>2, <2>1, <2>2, <2>4 DEF Known, AppAtWork, AppFree
  <2>6. DotEnvFollows'
    BY <1>2, <1>6, <2>1, <2>2 DEF ProcessInv, AppCalmInv, DotEnvFollows, AppAtWork, AppFree
  <2>7. EcosystemFollows'
    <3>1. EcosystemFollows /\ \A g \in ApiHandlers : ~Ap!At(g, "settings", "write")
      BY <1>2, <1>6, <2>1 DEF ProcessInv, AppCalmInv, Ap!At, AppFree
    <3>2. ecosystem # Ap!NoFile => ecosystem[1] \in Nat
      BY VersionNat DEF ProcessInv, AppTypes
    <3>3. ecosystem # Ap!NoFile => ecosystem[1] <= request[h].v
      BY <2>4, <3>1, <3>2, VersionNat DEF EcosystemFollows, ProcessInv, AppTypes, AppReq
    <3> QED
      BY <1>2, <2>1, <3>1, <3>3 DEF EcosystemFollows
  <2>8. StatusFollows'
    BY <1>2, <1>6, <2>1, <2>2 DEF ProcessInv, AppCalmInv, StatusFollows, Ap!At, AppAtWork, AppFree
  <2> QED
    BY <2>3, <2>5, <2>6, <2>7, <2>8 DEF AppCalmInv
<1> QED
  BY <1>2, <1>3, <1>4, <1>5, <1>6 DEF ProcessInv

LEMMA StoreSettingsStep ==
  ASSUME Ap!AppProcessAssumption, ProcessInv, NEW h \in ApiHandlers, Ap!StoreSettings(h)
  PROVE  ProcessInv'
<1>1. /\ request' \in [ApiHandlers -> AppReq] /\ request'[h].pc = "write" /\ request'[h].op = request[h].op
      /\ request'[h].v = request[h].v /\ request'[h].env = request[h].env
      /\ \A g \in ApiHandlers \ {h} : request'[g] = request[g]
  BY AppGoneOn DEF Ap!StoreSettings, ProcessInv, AppTypes, ReqPc
<1>2. /\ request[h].op = "settings" /\ request[h].pc = "store" /\ settings' = request[h].v
      /\ UNCHANGED <<env, state, directory, dotenv, ecosystem, process, syncing, worker,
                     requests, deploys, calm, revived>>
  BY DEF Ap!StoreSettings, Ap!At, Ap!files, Ap!bounds, Ap!history
<1>3. AppTypes'
  BY <1>1, <1>2 DEF ProcessInv, AppTypes, AppReq
<1>4. Places'
  BY <1>1, <1>2 DEF ProcessInv, Places, AppFree
<1>5. Stored'
  BY <1>1, <1>2 DEF ProcessInv, Stored
<1>6. ASSUME calm  PROVE AppCalmInv'
  <2>1. worker.pc = "idle" /\ syncing = {} /\ \A g \in ApiHandlers \ {h} : AppFree(g)
    BY <1>2, <1>6, Alone DEF AppFree
  <2>2. \A g \in ApiHandlers \ {h} : AppFree(g)'
    BY <1>1, <2>1 DEF AppFree
  <2>3. AppOneAtWork'
    BY <1>1, <1>2, <2>1, <2>2 DEF AppOneAtWork, AppFree
  <2>4. Known'
    BY <1>1, <1>2, <1>6, <2>1, <2>2 DEF ProcessInv, AppCalmInv, Known, AppAtWork, AppFree
  <2>5. DotEnvFollows'
    BY <1>1, <1>2, <1>6, <2>1, <2>2 DEF ProcessInv, AppCalmInv, DotEnvFollows, AppAtWork, AppFree
  <2>6. EcosystemFollows'
    BY <1>1, <1>2, <1>6, <2>1 DEF ProcessInv, AppCalmInv, EcosystemFollows, Ap!At
  <2>7. StatusFollows'
    BY <1>1, <1>2, <1>6, <2>1, <2>2 DEF ProcessInv, AppCalmInv, StatusFollows, Ap!At, AppAtWork, AppFree
  <2> QED
    BY <2>3, <2>4, <2>5, <2>6, <2>7 DEF AppCalmInv
<1> QED
  BY <1>2, <1>3, <1>4, <1>5, <1>6 DEF ProcessInv

LEMMA WriteEcosystemStep ==
  ASSUME Ap!AppProcessAssumption, ProcessInv, NEW h \in ApiHandlers, Ap!WriteEcosystem(h)
  PROVE  ProcessInv'
<1>1. CASE ~directory
  BY <1>1, ThrowStep DEF Ap!WriteEcosystem, Ap!files
<1>2. CASE directory
  <2>1. /\ request[h].pc = "write" /\ Ap!Goto(h, "pm2")
        /\ ecosystem' = <<request[h].env, IF request[h].op = "settings" THEN request[h].v ELSE settings>>
        /\ UNCHANGED <<env, settings, state, directory, dotenv, process, syncing, worker,
                       requests, deploys, calm, revived>>
    BY <1>2 DEF Ap!WriteEcosystem, Ap!rows, Ap!bounds, Ap!history
  <2>2. /\ request' \in [ApiHandlers -> AppReq] /\ request'[h].pc = "pm2" /\ request'[h].op = request[h].op
        /\ request'[h].v = request[h].v /\ request'[h].env = request[h].env
        /\ \A g \in ApiHandlers \ {h} : request'[g] = request[g]
    BY <2>1, AppGoneOn DEF ProcessInv, AppTypes, ReqPc
  <2>3. /\ ecosystem' \in Ap!Version \X Ap!Version /\ ecosystem' # Ap!NoFile
        /\ ecosystem'[1] = request[h].env
        /\ ecosystem'[2] = IF request[h].op = "settings" THEN request[h].v ELSE settings
    BY <2>1 DEF ProcessInv, AppTypes, AppReq, Ap!NoFile
  <2>4. request[h].op \in {"settings", "restart"}
    BY <2>1 DEF ProcessInv, Places, AppFree
  <2>5. AppTypes'
    BY <2>1, <2>2, <2>3 DEF ProcessInv, AppTypes
  <2>6. Places'
    BY <2>2, <2>4 DEF ProcessInv, Places, AppFree
  <2>7. Stored'
    BY <2>1, <2>2 DEF ProcessInv, Stored
  <2>8. ASSUME calm  PROVE AppCalmInv'
    <3>1. worker.pc = "idle" /\ syncing = {} /\ \A g \in ApiHandlers \ {h} : AppFree(g)
      BY <2>1, <2>4, <2>8, Alone DEF AppFree
    <3>2. \A g \in ApiHandlers \ {h} : AppFree(g)'
      BY <2>2, <3>1 DEF AppFree
    <3>3. AppOneAtWork'
      BY <2>1, <2>2, <3>1, <3>2 DEF AppOneAtWork, AppFree
    <3>4. Known'
      BY <2>1, <2>2, <2>8, <3>1, <3>2 DEF ProcessInv, AppCalmInv, Known, AppAtWork, AppFree
    <3>5. DotEnvFollows'
      BY <2>1, <2>2, <2>8, <3>1, <3>2 DEF ProcessInv, AppCalmInv, DotEnvFollows, AppAtWork, AppFree
    <3>6. EcosystemFollows'
      <4>1. request[h].env = env /\ (request[h].op = "settings" => settings = request[h].v)
        BY <2>1, <2>4, <2>8 DEF ProcessInv, AppCalmInv, Known, AppAtWork, AppFree
      <4> QED
        BY <2>1, <2>3, <2>4, <4>1, VersionNat DEF EcosystemFollows, ProcessInv, AppTypes
    <3>7. StatusFollows'
      <4>1. ecosystem # Ap!NoFile
        BY <1>2, <2>8, <3>1 DEF ProcessInv, AppCalmInv, EcosystemFollows
      <4> QED
        BY <2>1, <2>2, <2>8, <3>1, <3>2, <4>1 DEF ProcessInv, AppCalmInv, StatusFollows, Ap!At, AppAtWork, AppFree
    <3> QED
      BY <3>3, <3>4, <3>5, <3>6, <3>7 DEF AppCalmInv
  <2> QED
    BY <2>1, <2>5, <2>6, <2>7, <2>8 DEF ProcessInv
<1> QED
  BY <1>1, <1>2

LEMMA Pm2Step ==
  ASSUME Ap!AppProcessAssumption, ProcessInv, NEW h \in ApiHandlers, Ap!Pm2(h)
  PROVE  ProcessInv'
<1>1. CASE Ap!Throw(h) /\ UNCHANGED process
  BY <1>1, ThrowStep DEF Ap!Pm2
<1>2. CASE /\ process # "none"
           /\ process' = IF request[h].op = "stop" THEN "stopped" ELSE "online"
           /\ IF request[h].op = "settings" THEN Ap!Return(h) ELSE Ap!Goto(h, "status")
           /\ UNCHANGED Ap!history
  <2> DEFINE pc == IF request[h].op = "settings" THEN "idle" ELSE "status"
  <2>1. /\ request[h].pc = "pm2"
        /\ UNCHANGED <<env, settings, state, directory, dotenv, ecosystem, syncing, worker,
                       requests, deploys, calm, revived>>
    BY <1>2 DEF Ap!Pm2, Ap!rows, Ap!files, Ap!bounds, Ap!history
  <2>2. /\ request' \in [ApiHandlers -> AppReq] /\ request'[h].pc = pc
        /\ pc # "idle" => request'[h].op = request[h].op
        /\ request'[h].v \in {0, request[h].v} /\ (pc # "idle" => request'[h].env = request[h].env)
        /\ \A g \in ApiHandlers \ {h} : request'[g] = request[g]
    BY <1>2, AppGoneOn, AppReturned DEF ProcessInv, AppTypes, ReqPc
  <2>3. request[h].op \in {"settings", "stop", "restart"}
    BY <2>1 DEF ProcessInv, Places, AppFree
  <2> HIDE DEF pc
  <2>4. pc = IF request[h].op = "settings" THEN "idle" ELSE "status"
    BY DEF pc
  <2>5. AppTypes'
    BY <1>2, <2>1, <2>2 DEF ProcessInv, AppTypes
  <2>6. Places'
    BY <2>2, <2>3, <2>4 DEF ProcessInv, Places, AppFree
  <2>7. Stored'
    BY <2>1, <2>2, VersionNat DEF ProcessInv, Stored, AppTypes
  <2>8. ASSUME calm  PROVE AppCalmInv'
    <3>1. worker.pc = "idle" /\ syncing = {} /\ \A g \in ApiHandlers \ {h} : AppFree(g)
      BY <2>1, <2>3, <2>8, Alone DEF AppFree
    <3>2. \A g \in ApiHandlers \ {h} : AppFree(g)'
      BY <2>2, <3>1 DEF AppFree
    <3>3. AppOneAtWork'
      BY <2>1, <2>2, <3>1, <3>2 DEF AppOneAtWork, AppFree
    <3>4. Known'
      BY <2>1, <2>2, <2>3, <2>4, <2>8, <3>1, <3>2 DEF ProcessInv, AppCalmInv, Known, AppAtWork, AppFree
    <3>5. DotEnvFollows'
      BY <2>1, <2>2, <2>3, <2>4, <2>8, <3>1, <3>2 DEF ProcessInv, AppCalmInv, DotEnvFollows, AppAtWork, AppFree
    <3>6. EcosystemFollows'
      BY <2>1, <2>2, <2>8, <3>1, <3>2 DEF ProcessInv, AppCalmInv, EcosystemFollows, Ap!At, AppFree
    <3>7. StatusFollows'
      BY <1>2, <2>1, <2>2, <2>3, <2>4, <2>8, <3>1, <3>2
         DEF ProcessInv, AppCalmInv, StatusFollows, Ap!At, AppAtWork, AppFree
    <3> QED
      BY <3>3, <3>4, <3>5, <3>6, <3>7 DEF AppCalmInv
  <2> QED
    BY <2>1, <2>5, <2>6, <2>7, <2>8 DEF ProcessInv
<1> QED
  BY <1>1, <1>2 DEF Ap!Pm2

LEMMA WriteStatusStep ==
  ASSUME Ap!AppProcessAssumption, ProcessInv, NEW h \in ApiHandlers, Ap!WriteStatus(h)
  PROVE  ProcessInv'
<1>1. /\ request' \in [ApiHandlers -> AppReq] /\ request'[h].pc = "idle" /\ request'[h].v = 0
      /\ \A g \in ApiHandlers \ {h} : request'[g] = request[g]
  BY AppReturned DEF Ap!WriteStatus, ProcessInv, AppTypes
<1>2. /\ request[h].pc = "status" /\ state' = IF request[h].op = "stop" THEN "STOPPED" ELSE "ACTIVE"
      /\ UNCHANGED <<env, settings, directory, dotenv, ecosystem, process, syncing, worker,
                     requests, deploys, calm, revived>>
  BY DEF Ap!WriteStatus, Ap!files, Ap!bounds, Ap!history
<1>3. request[h].op \in {"stop", "restart"}
  BY <1>2 DEF ProcessInv, Places, AppFree
<1>4. AppTypes'
  BY <1>1, <1>2 DEF ProcessInv, AppTypes
<1>5. Places'
  BY <1>1 DEF ProcessInv, Places, AppFree
<1>6. Stored'
  BY <1>1, <1>2, VersionNat DEF ProcessInv, Stored, AppTypes
<1>7. ASSUME calm  PROVE AppCalmInv'
  <2>1. worker.pc = "idle" /\ syncing = {} /\ \A g \in ApiHandlers \ {h} : AppFree(g)
    BY <1>2, <1>3, <1>7, Alone DEF AppFree
  <2>2. \A g \in ApiHandlers : AppFree(g)'
    BY <1>1, <2>1 DEF AppFree
  <2>3. AppOneAtWork'
    BY <1>2, <2>1, <2>2 DEF AppOneAtWork, AppFree
  <2>4. Known'
    BY <1>2, <2>1, <2>2 DEF Known, AppAtWork, AppFree
  <2>5. DotEnvFollows'
    BY <1>2, <1>3, <1>7, <2>1, <2>2 DEF ProcessInv, AppCalmInv, DotEnvFollows, AppAtWork, AppFree
  <2>6. EcosystemFollows'
    BY <1>2, <1>7, <2>1, <2>2 DEF ProcessInv, AppCalmInv, EcosystemFollows, Ap!At, AppFree
  <2>7. StatusFollows'
    BY <1>2, <1>3, <1>7, <2>1, <2>2 DEF ProcessInv, AppCalmInv, StatusFollows, Ap!At, AppAtWork, AppFree
  <2> QED
    BY <2>3, <2>4, <2>5, <2>6, <2>7 DEF AppCalmInv
<1> QED
  BY <1>2, <1>4, <1>5, <1>6, <1>7 DEF ProcessInv

LEMMA SyncEnvFileStep ==
  ASSUME Ap!AppProcessAssumption, ProcessInv, NEW v \in syncing, Ap!SyncEnvFile(v)
  PROVE  ProcessInv'
<1>1. /\ syncing' = syncing \ {v} /\ dotenv' = IF directory THEN v ELSE dotenv
      /\ UNCHANGED <<env, settings, state, directory, ecosystem, process, request, worker,
                     requests, deploys, calm, revived>>
  BY DEF Ap!SyncEnvFile, Ap!rows, Ap!bounds, Ap!history
<1>2. AppTypes' /\ Places' /\ Stored'
  BY <1>1 DEF ProcessInv, AppTypes, Places, Stored, AppFree
<1>3. ASSUME calm  PROVE AppCalmInv'
  <2>1. worker.pc = "idle" /\ \A h \in ApiHandlers : AppFree(h) \/ request[h].op = "env"
    BY <1>3 DEF ProcessInv, AppCalmInv, AppOneAtWork
  <2>2. AppOneAtWork' /\ Known' /\ EcosystemFollows' /\ StatusFollows'
    BY <1>1, <1>3 DEF ProcessInv, AppCalmInv, AppOneAtWork, Known, EcosystemFollows, StatusFollows, Ap!At,
      AppAtWork, AppFree
  <2>3. DotEnvFollows'
    BY <1>1, <1>3, <2>1 DEF ProcessInv, AppCalmInv, DotEnvFollows, Known, AppAtWork, AppFree
  <2> QED
    BY <2>2, <2>3 DEF AppCalmInv
<1> QED
  BY <1>1, <1>2, <1>3 DEF ProcessInv

----------------------------------------------------------------------------
(* Deployments.                                                            *)

\* A deployment begins when, all being calm, nothing else is at work.
LEMMA AppDeployStarts ==
  ASSUME Ap!AppProcessAssumption, ProcessInv, Ap!Deploy
  PROVE  ProcessInv'
<1>1. /\ worker.pc = "idle" /\ deploys' = deploys + 1 /\ deploys < AppDeploys
      /\ worker' = [pc |-> "clone", env |-> env, settings |-> 0]
      /\ UNCHANGED <<env, settings, state, directory, dotenv, ecosystem, process, syncing, request,
                     requests, revived>>
  BY DEF Ap!Deploy, Ap!rows, Ap!files
<1>2. worker' \in AppWorker /\ worker'.pc = "clone" /\ worker'.env = env
  BY <1>1, VersionNat DEF ProcessInv, AppTypes, AppWorker, WorkerPc
<1>3. AppTypes'
  BY <1>1, <1>2 DEF ProcessInv, AppTypes, Ap!AppProcessAssumption
<1>4. Places' /\ Stored'
  BY <1>1 DEF ProcessInv, Places, Stored, AppFree
<1>5. ASSUME calm'  PROVE AppCalmInv'
  <2>1. calm /\ syncing = {} /\ \A h \in ApiHandlers : AppFree(h)
    BY <1>5 DEF Ap!Deploy, Ap!Idle, AppFree
  <2> QED
    BY <1>1, <1>2, <2>1 DEF ProcessInv, AppCalmInv, AppOneAtWork, Known, DotEnvFollows, EcosystemFollows,
      StatusFollows, Ap!At, AppAtWork, AppFree
<1> QED
  BY <1>3, <1>4, <1>5 DEF ProcessInv

\* The next stage begins.
LEMMA StageBegun ==
  ASSUME worker \in AppWorker, NEW pc, NEW next \in WorkerPc, Ap!Stage(pc, next)
  PROVE  /\ worker.pc = pc /\ worker' \in AppWorker /\ worker'.pc = next
         /\ worker'.env = worker.env /\ worker'.settings = worker.settings
BY DEF Ap!Stage, AppWorker

\* Requests wait while a deployment is at work, all being calm.
LEMMA AppDeploying ==
  ASSUME ProcessInv, calm, worker.pc # "idle"
  PROVE  syncing = {} /\ (\A h \in ApiHandlers : AppFree(h)) /\ worker.env = env
BY DEF ProcessInv, AppCalmInv, AppOneAtWork, Known

LEMMA CloneStep ==
  ASSUME ProcessInv, Ap!Clone
  PROVE  ProcessInv'
<1>1. /\ worker.pc = "clone" /\ worker' \in AppWorker /\ worker'.pc = "env" /\ worker'.env = worker.env
      /\ directory'
      /\ UNCHANGED <<env, settings, state, dotenv, ecosystem, process, syncing, request, requests,
                     deploys, calm, revived>>
  BY StageBegun DEF Ap!Clone, Ap!rows, Ap!bounds, Ap!history, ProcessInv, AppTypes, WorkerPc
<1>2. AppTypes' /\ Places' /\ Stored'
  BY <1>1 DEF ProcessInv, AppTypes, Places, Stored, AppFree
<1>3. ASSUME calm  PROVE AppCalmInv'
  <2>1. syncing = {} /\ (\A h \in ApiHandlers : AppFree(h)) /\ worker.env = env
    BY <1>1, <1>3, AppDeploying
  <2>2. dotenv \in {0, env}
    BY <1>1, <1>3, <2>1 DEF ProcessInv, AppCalmInv, DotEnvFollows, AppAtWork
  <2>3. DotEnvFollows'
    BY <1>1, <2>2 DEF DotEnvFollows
  <2>4. AppOneAtWork' /\ Known' /\ EcosystemFollows' /\ StatusFollows'
    BY <1>1, <1>3, <2>1 DEF ProcessInv, AppCalmInv, AppOneAtWork, Known, EcosystemFollows, StatusFollows, Ap!At,
      AppAtWork, AppFree
  <2> QED
    BY <2>3, <2>4 DEF AppCalmInv
<1> QED
  BY <1>1, <1>2, <1>3 DEF ProcessInv

LEMMA WriteDotEnvStep ==
  ASSUME ProcessInv, Ap!WriteDotEnv
  PROVE  ProcessInv'
<1>1. /\ worker.pc = "env" /\ worker' \in AppWorker /\ worker'.pc = "read" /\ worker'.env = worker.env
      /\ dotenv' = IF worker.env = 0 THEN dotenv ELSE worker.env
      /\ UNCHANGED <<env, settings, state, directory, ecosystem, process, syncing, request, requests,
                     deploys, calm, revived>>
  BY StageBegun DEF Ap!WriteDotEnv, Ap!rows, Ap!bounds, Ap!history, ProcessInv, AppTypes, WorkerPc
<1>2. AppTypes' /\ Places' /\ Stored'
  BY <1>1 DEF ProcessInv, AppTypes, Places, Stored, AppFree, AppWorker
<1>3. ASSUME calm  PROVE AppCalmInv'
  <2>1. syncing = {} /\ (\A h \in ApiHandlers : AppFree(h)) /\ worker.env = env
    BY <1>1, <1>3, AppDeploying
  <2>2. dotenv \in {0, env} /\ (~directory => dotenv = 0)
    BY <1>1, <1>3 DEF ProcessInv, AppCalmInv, DotEnvFollows
  <2>3. dotenv' = env
    BY <1>1, <2>1, <2>2
  <2>4. DotEnvFollows'
    BY <1>1, <1>3, <2>1, <2>3 DEF ProcessInv, AppCalmInv, DotEnvFollows, AppAtWork, AppFree
  <2>5. AppOneAtWork' /\ Known' /\ EcosystemFollows' /\ StatusFollows'
    BY <1>1, <1>3, <2>1 DEF ProcessInv, AppCalmInv, AppOneAtWork, Known, EcosystemFollows, StatusFollows, Ap!At,
      AppAtWork, AppFree
  <2> QED
    BY <2>4, <2>5 DEF AppCalmInv
<1> QED
  BY <1>1, <1>2, <1>3 DEF ProcessInv

LEMMA AppReadSettingsStep ==
  ASSUME ProcessInv, Ap!ReadSettings
  PROVE  ProcessInv'
<1>1. /\ worker.pc = "read" /\ worker' \in AppWorker /\ worker'.pc = "write" /\ worker'.env = worker.env
      /\ worker'.settings = settings
      /\ UNCHANGED <<env, settings, state, directory, dotenv, ecosystem, process, syncing, request,
                     requests, deploys, calm, revived>>
  BY StageBegun DEF Ap!ReadSettings, Ap!rows, Ap!files, Ap!bounds, Ap!history, ProcessInv, AppTypes, WorkerPc, AppWorker
<1>2. AppTypes' /\ Places' /\ Stored'
  BY <1>1 DEF ProcessInv, AppTypes, Places, Stored, AppFree, AppWorker
<1>3. ASSUME calm  PROVE AppCalmInv'
  <2>1. syncing = {} /\ (\A h \in ApiHandlers : AppFree(h)) /\ worker.env = env
    BY <1>1, <1>3, AppDeploying
  <2>2. AppOneAtWork' /\ Known' /\ DotEnvFollows'
    BY <1>1, <1>3, <2>1 DEF ProcessInv, AppCalmInv, AppOneAtWork, Known, DotEnvFollows, AppAtWork, AppFree
  <2>3. EcosystemFollows'
    BY <1>1, <1>3, <2>1 DEF ProcessInv, AppCalmInv, AppTypes, Known, DotEnvFollows, EcosystemFollows, Ap!At, AppFree
  <2>4. StatusFollows'
    BY <1>1, <1>3, <2>1 DEF ProcessInv, AppCalmInv, EcosystemFollows, DotEnvFollows, StatusFollows, Ap!At, AppAtWork, AppFree
  <2> QED
    BY <2>2, <2>3, <2>4 DEF AppCalmInv
<1> QED
  BY <1>1, <1>2, <1>3 DEF ProcessInv

\* A file that was written is not NoFile.
LEMMA NotNoFile == \A a, b : <<a, b>> # Ap!NoFile /\ <<a, b>>[1] = a /\ <<a, b>>[2] = b
BY DEF Ap!NoFile

LEMMA WriteStageEcosystemStep ==
  ASSUME Ap!AppProcessAssumption, ProcessInv, Ap!WriteStageEcosystem
  PROVE  ProcessInv'
<1>1. /\ worker.pc = "write" /\ worker' \in AppWorker /\ worker'.pc = "delete" /\ worker'.env = worker.env
      /\ worker'.settings = worker.settings
      /\ ecosystem' = <<worker.env, worker.settings>>
      /\ UNCHANGED <<env, settings, state, directory, dotenv, process, syncing, request, requests, deploys,
                     calm, revived>>
  BY StageBegun DEF Ap!WriteStageEcosystem, Ap!rows, Ap!files, Ap!bounds, Ap!history, ProcessInv, AppTypes, WorkerPc
<1>2. AppTypes' /\ Places' /\ Stored'
  BY <1>1 DEF ProcessInv, AppTypes, Places, Stored, AppFree, AppWorker
<1>3. ASSUME calm  PROVE AppCalmInv'
  <2>1. syncing = {} /\ (\A h \in ApiHandlers : AppFree(h)) /\ worker.env = env
    BY <1>1, <1>3, AppDeploying
  <2>2. AppOneAtWork' /\ Known' /\ DotEnvFollows'
    BY <1>1, <1>3, <2>1 DEF ProcessInv, AppCalmInv, AppOneAtWork, Known, DotEnvFollows, AppAtWork, AppFree
  <2>3. EcosystemFollows'
    <3>1. worker.settings = settings
      BY <1>1, <1>3 DEF ProcessInv, AppCalmInv, Known
    <3>2. ecosystem' # Ap!NoFile /\ ecosystem'[1] = env' /\ ecosystem'[2] = settings'
      BY <1>1, <2>1, <3>1, NotNoFile
    <3>3. env' \in Nat
      BY <1>1, VersionNat DEF ProcessInv, AppTypes
    <3> QED
      BY <3>2, <3>3 DEF EcosystemFollows
  <2>4. StatusFollows'
    BY <1>1, <1>3, <2>1 DEF ProcessInv, AppCalmInv, EcosystemFollows, DotEnvFollows, StatusFollows, Ap!At, AppAtWork, AppFree
  <2> QED
    BY <2>2, <2>3, <2>4 DEF AppCalmInv
<1> QED
  BY <1>1, <1>2, <1>3 DEF ProcessInv

LEMMA Pm2DeleteStep ==
  ASSUME ProcessInv, Ap!Pm2Delete
  PROVE  ProcessInv'
<1>1. /\ worker.pc = "delete" /\ worker' \in AppWorker /\ worker'.pc = "start" /\ worker'.env = worker.env
      /\ process' = "none"
      /\ UNCHANGED <<env, settings, state, directory, dotenv, ecosystem, syncing, request, requests, deploys,
                     calm, revived>>
  BY StageBegun DEF Ap!Pm2Delete, Ap!rows, Ap!files, Ap!bounds, Ap!history, ProcessInv, AppTypes, WorkerPc
<1>2. AppTypes' /\ Places' /\ Stored'
  BY <1>1 DEF ProcessInv, AppTypes, Places, Stored, AppFree, AppWorker
<1>3. ASSUME calm  PROVE AppCalmInv'
  <2>1. syncing = {} /\ (\A h \in ApiHandlers : AppFree(h)) /\ worker.env = env
    BY <1>1, <1>3, AppDeploying
  <2>2. AppOneAtWork' /\ Known' /\ DotEnvFollows'
    BY <1>1, <1>3, <2>1 DEF ProcessInv, AppCalmInv, AppOneAtWork, Known, DotEnvFollows, AppAtWork, AppFree
  <2>3. EcosystemFollows'
    BY <1>1, <1>3, <2>1 DEF ProcessInv, AppCalmInv, DotEnvFollows, EcosystemFollows, Ap!At, AppFree
  <2>4. StatusFollows'
    BY <1>1, <1>3, <2>1 DEF ProcessInv, AppCalmInv, EcosystemFollows, DotEnvFollows, StatusFollows, Ap!At, AppAtWork, AppFree
  <2> QED
    BY <2>2, <2>3, <2>4 DEF AppCalmInv
<1> QED
  BY <1>1, <1>2, <1>3 DEF ProcessInv

LEMMA Pm2StartStep ==
  ASSUME ProcessInv, Ap!Pm2Start
  PROVE  ProcessInv'
<1>1. /\ worker.pc = "start" /\ worker' \in AppWorker /\ worker'.pc = "finish" /\ worker'.env = worker.env
      /\ process' = "online"
      /\ UNCHANGED <<env, settings, state, directory, dotenv, ecosystem, syncing, request, requests, deploys,
                     calm, revived>>
  BY StageBegun DEF Ap!Pm2Start, Ap!rows, Ap!files, Ap!bounds, Ap!history, ProcessInv, AppTypes, WorkerPc
<1>2. AppTypes' /\ Places' /\ Stored'
  BY <1>1 DEF ProcessInv, AppTypes, Places, Stored, AppFree, AppWorker
<1>3. ASSUME calm  PROVE AppCalmInv'
  <2>1. syncing = {} /\ (\A h \in ApiHandlers : AppFree(h)) /\ worker.env = env
    BY <1>1, <1>3, AppDeploying
  <2>2. AppOneAtWork' /\ Known' /\ DotEnvFollows'
    BY <1>1, <1>3, <2>1 DEF ProcessInv, AppCalmInv, AppOneAtWork, Known, DotEnvFollows, AppAtWork, AppFree
  <2>3. EcosystemFollows'
    BY <1>1, <1>3, <2>1 DEF ProcessInv, AppCalmInv, DotEnvFollows, EcosystemFollows, Ap!At, AppFree
  <2>4. StatusFollows'
    BY <1>1, <1>3, <2>1 DEF ProcessInv, AppCalmInv, EcosystemFollows, DotEnvFollows, StatusFollows, Ap!At, AppAtWork, AppFree
  <2> QED
    BY <2>2, <2>3, <2>4 DEF AppCalmInv
<1> QED
  BY <1>1, <1>2, <1>3 DEF ProcessInv

LEMMA FailStep ==
  ASSUME Ap!AppProcessAssumption, ProcessInv, Ap!Fail
  PROVE  ProcessInv'
<1>1. /\ worker' = Ap!NoDeploy /\ ~calm'
      /\ UNCHANGED <<env, settings, state, directory, dotenv, ecosystem, process, syncing, request,
                     requests, deploys>>
  BY DEF Ap!Fail, Ap!rows, Ap!files, Ap!bounds
<1>2. Ap!NoDeploy \in AppWorker
  BY VersionNat DEF Ap!NoDeploy, AppWorker, WorkerPc
<1> QED
  BY <1>1, <1>2 DEF ProcessInv, AppTypes, Places, Stored, AppFree

LEMMA FinishStep ==
  ASSUME Ap!AppProcessAssumption, ProcessInv, Ap!Finish
  PROVE  ProcessInv'
<1>1. /\ worker.pc = "finish" /\ worker' = Ap!NoDeploy /\ worker'.pc = "idle" /\ state' = "ACTIVE"
      /\ UNCHANGED <<env, settings, directory, dotenv, ecosystem, process, syncing, request, requests,
                     deploys, calm, revived>>
  BY DEF Ap!Finish, Ap!files, Ap!bounds, Ap!history, Ap!NoDeploy
<1>2. Ap!NoDeploy \in AppWorker
  BY VersionNat DEF Ap!NoDeploy, AppWorker, WorkerPc
<1>3. AppTypes' /\ Places' /\ Stored'
  BY <1>1, <1>2 DEF ProcessInv, AppTypes, Places, Stored, AppFree
<1>4. ASSUME calm  PROVE AppCalmInv'
  <2>1. syncing = {} /\ (\A h \in ApiHandlers : AppFree(h)) /\ worker.env = env
    BY <1>1, <1>4, AppDeploying
  <2>2. AppOneAtWork' /\ Known' /\ DotEnvFollows'
    BY <1>1, <1>4, <2>1 DEF ProcessInv, AppCalmInv, AppOneAtWork, Known, DotEnvFollows, AppAtWork, AppFree
  <2>3. EcosystemFollows' /\ StatusFollows'
    BY <1>1, <1>4, <2>1 DEF ProcessInv, AppCalmInv, EcosystemFollows, StatusFollows, Ap!At, AppAtWork, AppFree
  <2> QED
    BY <2>2, <2>3 DEF AppCalmInv
<1> QED
  BY <1>1, <1>3, <1>4 DEF ProcessInv

LEMMA ProcessInvStep == Ap!AppProcessAssumption /\ ProcessInv /\ [Ap!Next]_(Ap!vars) => ProcessInv'
<1> SUFFICES ASSUME Ap!AppProcessAssumption, ProcessInv, [Ap!Next]_(Ap!vars)  PROVE ProcessInv'
  OBVIOUS
<1>1. ASSUME NEW h \in ApiHandlers, Ap!Request(h)  PROVE ProcessInv'
  BY <1>1, AppBeginStep, StoreEnvStep, StoreSettingsStep, WriteEcosystemStep, Pm2Step, WriteStatusStep
    DEF Ap!Request
<1>2. ASSUME NEW v \in syncing, Ap!SyncEnvFile(v)  PROVE ProcessInv'
  BY <1>2, SyncEnvFileStep
<1>3. CASE Ap!DeployStep
  BY <1>3, AppDeployStarts, CloneStep, WriteDotEnvStep, AppReadSettingsStep, WriteStageEcosystemStep,
    Pm2DeleteStep, Pm2StartStep, FailStep, FinishStep DEF Ap!DeployStep
<1>4. CASE UNCHANGED Ap!vars
  BY <1>4 DEF Ap!vars, Ap!rows, Ap!files, Ap!bounds, Ap!history, ProcessInv, AppTypes, Places, Stored, AppCalmInv, AppOneAtWork,
    Known, DotEnvFollows, EcosystemFollows, StatusFollows, Ap!At, AppAtWork, AppFree
<1> QED
  BY <1>1, <1>2, <1>3, <1>4 DEF Ap!Next

LEMMA ProcessInvSuffices == ProcessInv => Ap!StatusHonest /\ Ap!FilesCurrent
BY DEF ProcessInv, AppCalmInv, AppOneAtWork, Known, DotEnvFollows, EcosystemFollows, StatusFollows, Ap!At, AppAtWork,
  AppFree, Ap!Idle, Ap!StatusHonest, Ap!FilesCurrent

(***************************************************************************)
(* While requests and deployments neither overlap nor fail, the status of  *)
(* the project is what PM2 does with its process, and the files hold the   *)
(* rows' variables and settings.                                           *)
(***************************************************************************)
THEOREM ProcessFollowed == Ap!AppProcessAssumption => (Ap!Spec => [](Ap!StatusHonest /\ Ap!FilesCurrent))
<1> SUFFICES ASSUME Ap!AppProcessAssumption  PROVE Ap!Spec => [](Ap!StatusHonest /\ Ap!FilesCurrent)
  OBVIOUS
<1>1. Ap!Init => ProcessInv
  BY ProcessInvInit
<1>2. ProcessInv /\ [Ap!Next]_(Ap!vars) => ProcessInv'
  BY ProcessInvStep
<1>3. ProcessInv => Ap!StatusHonest /\ Ap!FilesCurrent
  BY ProcessInvSuffices
<1> QED
  BY <1>1, <1>2, <1>3, PTL DEF Ap!Spec

----------------------------------------------------------------------------
(* The nginx sites.                                                        *)

Pcs == {"idle", "upsert", "backup", "install", "cache", "test", "reload", "unbackup",
        "restore", "uncache", "rollback"}
NgReq == [pc : Pcs, s : Sites \cup {None}, prev : Ng!Rows, new : Settings \cup {Ng!Default},
        ssl : BOOLEAN, was : Ng!Confs, fit : BOOLEAN]
DeployPcs == {"idle", "read", "write", "test", "reload", "certify"}
NgWorker == [pc : DeployPcs, s : Sites \cup {None}, body : {"default", "tuned", "bad"},
           stage : {"nginx", "ssl"}]

NgTypes ==
  /\ row \in [Sites -> Ng!Rows]
  /\ conf \in [Sites -> Ng!Confs] /\ bak \in [Sites -> Ng!Confs] /\ loaded \in [Sites -> Ng!Confs]
  /\ cache \in [Sites -> BOOLEAN] /\ enabled \in [Sites -> BOOLEAN] /\ cert \in [Sites -> BOOLEAN]
  /\ dropped \in [Sites -> BOOLEAN]
  /\ request \in [ApiHandlers -> NgReq] /\ worker \in NgWorker
  /\ updates \in 0..MaxUpdates /\ deploys \in 0..SiteDeploys

\* Whoever is at work has a site and settings to install, and a link leads to a file.
NgFree(h) == Ng!At(h, "idle")
Placed ==
  /\ \A h \in ApiHandlers : ~NgFree(h) => Ng!Mine(h) \in Sites /\ request[h].new \in Settings
  /\ ~Ng!DeployAt("idle") => Ng!W \in Sites
  /\ \A s \in Sites : enabled[s] => conf[s] # None

(***************************************************************************)
(* As long as writers do not overlap one is at work at most, and finds the *)
(* site as it left it.                                                     *)
(***************************************************************************)
NgOneAtWork ==
  /\ \A g, h \in ApiHandlers : NgFree(g) \/ NgFree(h) \/ g = h
  /\ ~Ng!DeployAt("idle") => \A h \in ApiHandlers : NgFree(h)

\* The rows, the files and the backup of the handlers' sites.
FoundBy(h) ==
  /\ Ng!At(h, "upsert") => row[Ng!Mine(h)] = request[h].prev
  /\ request[h].pc \in {"upsert", "backup"} => conf[Ng!Mine(h)] = request[h].was
  /\ request[h].pc \in {"install", "cache", "test", "restore"} /\ request[h].was # None =>
       bak[Ng!Mine(h)] = request[h].was
  /\ request[h].pc \in {"uncache", "rollback"} /\ request[h].was # None => conf[Ng!Mine(h)] = request[h].was
  /\ Ng!At(h, "rollback") => ~cache[Ng!Mine(h)]

WrittenBy(h) ==
  /\ ~NgFree(h) /\ ~Ng!At(h, "upsert") => row[Ng!Mine(h)] = request[h].new
  /\ ~NgFree(h) /\ request[h].pc \notin {"upsert", "backup"} => request[h].ssl = cert[Ng!Mine(h)]
  /\ request[h].pc \in {"cache", "test", "reload", "unbackup"} =>
       conf[Ng!Mine(h)] = Ng!Proxy(request[h].new, request[h].ssl)

Held == \A h \in ApiHandlers : FoundBy(h) /\ WrittenBy(h)

(***************************************************************************)
(* A site nobody works on is served as it is configured; the one a request *)
(* works on is served as the request found it until nginx is reloaded, and *)
(* what a deployment writes is as it shall be served.                      *)
(***************************************************************************)
Matches(s, c, r, d) ==
  IF r = None THEN c.kind = (IF s \in Static THEN "static" ELSE "proxy") /\ c.locs = "none"
              ELSE c.kind = "proxy" =>
                     c.body = r.body /\ c.locs = IF d THEN "none" ELSE r.locs
Right(s, c, r, d) == (cert[s] => c.ssl) /\ Matches(s, c, r, d)
Good(s) == enabled[s] => loaded[s] = conf[s] /\ Right(s, conf[s], row[s], dropped[s])
Before(h) == enabled[Ng!Mine(h)] =>
  /\ loaded[Ng!Mine(h)] = request[h].was /\ request[h].was # None
  /\ Right(Ng!Mine(h), request[h].was, request[h].prev, dropped[Ng!Mine(h)])

Body(r) == IF r = None THEN "default" ELSE r.body

WorkedOn(s) == (\E h \in ApiHandlers : ~NgFree(h) /\ Ng!Mine(h) = s) \/ (~Ng!DeployAt("idle") /\ Ng!W = s)

Serving ==
  /\ \A s \in Sites : WorkedOn(s) \/ Good(s)
  /\ \A h \in ApiHandlers : ~NgFree(h) => IF Ng!At(h, "unbackup") THEN Good(Ng!Mine(h)) ELSE Before(h)
  /\ \A h \in ApiHandlers : Ng!At(h, "reload") => Ng!Valid
  /\ Ng!DeployAt("write") => worker.body = Body(row[Ng!W])
  /\ worker.pc \in {"test", "reload"} => Right(Ng!W, conf[Ng!W], row[Ng!W], dropped[Ng!W])
  /\ Ng!DeployAt("reload") => Ng!Valid
  /\ Ng!DeployAt("certify") => Good(Ng!W)

SitesInv ==
  /\ NgTypes /\ Placed
  /\ ~overlap => NgOneAtWork /\ Held
  /\ ~overlap /\ ~broken => Serving

LEMMA Sets ==
  ASSUME Ng!NginxSitesAssumption
  PROVE  /\ Ng!NoReq \in NgReq /\ Ng!NoReq.pc = "idle" /\ Ng!NoDeploy \in NgWorker /\ Ng!NoDeploy.pc = "idle"
         /\ None \notin Settings /\ None \notin Ng!ConfType
         /\ \A new \in Settings : new.body \in {"default", "tuned", "bad"}
         /\ \A new \in Settings, ssl \in BOOLEAN : Ng!Proxy(new, ssl) \in Ng!ConfType
         /\ \A ssl \in BOOLEAN : Ng!StaticSite(ssl) \in Ng!ConfType
<1>1. Ng!NoReq \in NgReq /\ Ng!NoReq.pc = "idle"
  BY DEF Ng!NoReq, NgReq, Pcs, Ng!Rows, Ng!Confs
<1>2. Ng!NoDeploy \in NgWorker /\ Ng!NoDeploy.pc = "idle"
  BY DEF Ng!NoDeploy, NgWorker, DeployPcs
<1>3. \A new \in Settings, ssl \in BOOLEAN : Ng!Proxy(new, ssl) \in Ng!ConfType
  BY DEF Ng!NginxSitesAssumption, Ng!Proxy, Ng!ConfType
<1>4. \A ssl \in BOOLEAN : Ng!StaticSite(ssl) \in Ng!ConfType
  BY DEF Ng!StaticSite, Ng!ConfType
<1>5. \A new \in Settings : new.body \in {"default", "tuned", "bad"}
  BY DEF Ng!NginxSitesAssumption
<1> QED
  BY <1>1, <1>2, <1>3, <1>4, <1>5 DEF Ng!NginxSitesAssumption

LEMMA SitesInvInit == Ng!NginxSitesAssumption /\ Ng!Init => SitesInv
<1> SUFFICES ASSUME Ng!NginxSitesAssumption, Ng!Init  PROVE SitesInv
  OBVIOUS
<1>1. NgTypes
  BY Sets DEF Ng!Init, NgTypes, Ng!Rows, Ng!Confs, Ng!NginxSitesAssumption
<1>2. Placed /\ NgOneAtWork /\ Held
  BY Sets DEF Ng!Init, Placed, NgOneAtWork, Held, FoundBy, WrittenBy, NgFree, Ng!At, Ng!DeployAt
<1>3. Serving
  BY Sets DEF Ng!Init, Serving, Good, NgFree, Ng!At, Ng!DeployAt
<1> QED
  BY <1>1, <1>2, <1>3 DEF SitesInv

----------------------------------------------------------------------------
(* Requests.                                                               *)

\* A request that goes on keeps its locals, and one that returns has none.
LEMMA NgMoved ==
  ASSUME NgTypes, NEW h \in ApiHandlers, NEW u \in NgReq, request' = [request EXCEPT ![h] = u]
  PROVE  /\ request' \in [ApiHandlers -> NgReq] /\ request'[h] = u
         /\ \A g \in ApiHandlers \ {h} : request'[g] = request[g]
BY DEF NgTypes

LEMMA NgGoneOn ==
  ASSUME NgTypes, NEW h \in ApiHandlers, NEW pc \in Pcs, Ng!Goto(h, pc)
  PROVE  /\ request' \in [ApiHandlers -> NgReq] /\ request'[h].pc = pc /\ request'[h].s = request[h].s
         /\ request'[h].prev = request[h].prev /\ request'[h].new = request[h].new
         /\ request'[h].ssl = request[h].ssl /\ request'[h].was = request[h].was
         /\ \A g \in ApiHandlers \ {h} : request'[g] = request[g]
<1> DEFINE u == [request[h] EXCEPT !.pc = pc]
<1>1. /\ u \in NgReq /\ u.pc = pc /\ u.s = request[h].s /\ u.prev = request[h].prev
      /\ u.new = request[h].new /\ u.ssl = request[h].ssl /\ u.was = request[h].was
  BY DEF NgTypes, NgReq
<1>2. request' = [request EXCEPT ![h] = u]
  BY DEF Ng!Goto
<1> HIDE DEF u
<1> QED
  BY <1>1, <1>2, NgMoved

LEMMA NgReturned ==
  ASSUME Ng!NginxSitesAssumption, NgTypes, NEW h \in ApiHandlers, Ng!Return(h)
  PROVE  /\ request' \in [ApiHandlers -> NgReq] /\ request'[h].pc = "idle"
         /\ \A g \in ApiHandlers \ {h} : request'[g] = request[g]
BY Sets, NgMoved DEF Ng!Return

LEMMA PlacedBy ==
  ASSUME Placed, NEW h \in ApiHandlers, worker' = worker, enabled' = enabled,
         \A g \in ApiHandlers \ {h} : request'[g] = request[g],
         request'[h].pc = "idle" \/ (request'[h].s \in Sites /\ request'[h].new \in Settings),
         \A s \in Sites : conf[s] # None => conf'[s] # None
  PROVE  Placed'
<1>1. \A g \in ApiHandlers : ~NgFree(g)' => Ng!Mine(g)' \in Sites /\ request'[g].new \in Settings
  BY DEF Placed, NgFree, Ng!At, Ng!Mine
<1>2. ~Ng!DeployAt("idle")' => Ng!W' \in Sites
  BY DEF Placed, Ng!DeployAt, Ng!W
<1>3. \A s \in Sites : enabled'[s] => conf'[s] # None
  BY DEF Placed
<1> QED
  BY <1>1, <1>2, <1>3 DEF Placed

\* The request at work, on site s, is the only writer as long as none overlap.
NgAtWork(h, s) == ~NgFree(h) /\ s = Ng!Mine(h) /\ NgOneAtWork /\ Held

LEMMA HeldBy ==
  ASSUME NEW h \in ApiHandlers, NEW s \in Sites, NgAtWork(h, s), worker' = worker,
         \A g \in ApiHandlers \ {h} : request'[g] = request[g], FoundBy(h)', WrittenBy(h)'
  PROVE  NgOneAtWork' /\ Held'
<1>1. Ng!DeployAt("idle")' /\ \A g \in ApiHandlers \ {h} : request'[g].pc = "idle"
  BY DEF NgAtWork, NgOneAtWork, NgFree, Ng!At, Ng!DeployAt
<1> QED
  BY <1>1 DEF NgOneAtWork, Held, FoundBy, WrittenBy, NgFree, Ng!At

LEMMA ServedBy ==
  ASSUME NEW h \in ApiHandlers, NEW s \in Sites, NgAtWork(h, s), Serving, worker' = worker,
         \A g \in ApiHandlers \ {h} : request'[g] = request[g],
         request'[h].pc = "idle" \/ request'[h].s = s,
         (\A t \in Sites \ {s} : Good(t)) => \A t \in Sites \ {s} : Good(t)',
         request'[h].pc \in {"idle", "unbackup"} => Good(s)',
         request'[h].pc \notin {"idle", "unbackup"} => Before(h)',
         request'[h].pc = "reload" => Ng!Valid'
  PROVE  Serving'
<1>1. Ng!DeployAt("idle") /\ \A g \in ApiHandlers \ {h} : NgFree(g)
  BY DEF NgAtWork, NgOneAtWork
<1>2. Ng!DeployAt("idle")' /\ \A g \in ApiHandlers \ {h} : NgFree(g)'
  BY <1>1 DEF Ng!DeployAt, NgFree, Ng!At
<1>3. \A t \in Sites \ {s} : Good(t)
  BY <1>1 DEF Serving, WorkedOn, NgAtWork
<1>4. \A t \in Sites : WorkedOn(t)' \/ Good(t)'
  <2> SUFFICES ASSUME NEW t \in Sites, ~WorkedOn(t)'  PROVE Good(t)'
    OBVIOUS
  <2>1. CASE t # s
    BY <1>3, <2>1
  <2>2. CASE t = s
    <3>1. request'[h].pc = "idle"
      BY <2>2 DEF WorkedOn, NgFree, Ng!At, Ng!Mine
    <3> QED
      BY <2>2, <3>1
  <2> QED
    BY <2>1, <2>2
<1>5. \A g \in ApiHandlers : ~NgFree(g)' =>
        IF Ng!At(g, "unbackup")' THEN Good(Ng!Mine(g))' ELSE Before(g)'
  <2> SUFFICES ASSUME ~NgFree(h)'  PROVE IF Ng!At(h, "unbackup")' THEN Good(Ng!Mine(h))' ELSE Before(h)'
    BY <1>2
  <2>1. Ng!Mine(h)' = s /\ request'[h].pc # "idle"
    BY DEF NgFree, Ng!At, Ng!Mine
  <2>2. Ng!At(h, "unbackup")' <=> request'[h].pc = "unbackup"
    BY DEF Ng!At
  <2> QED
    BY <2>1, <2>2 DEF Good
<1>6. \A g \in ApiHandlers : Ng!At(g, "reload")' => Ng!Valid'
  BY <1>2 DEF NgFree, Ng!At
<1>7. worker.pc = "idle" /\ worker'.pc = "idle"
  BY <1>1, <1>2 DEF Ng!DeployAt
<1> QED
  BY <1>4, <1>5, <1>6, <1>7 DEF Serving, Ng!DeployAt

\* What has not changed.
LEMMA Same ==
  ASSUME NEW s \in Sites, Good(s), row'[s] = row[s], conf'[s] = conf[s], enabled' = enabled,
         cert' = cert, loaded'[s] = loaded[s], dropped'[s] = dropped[s]
  PROVE  Good(s)'
BY DEF Good, Right, Matches

\* A reload serves the files nginx -t accepts.
LEMMA Reloaded ==
  ASSUME Ng!Valid, Ng!Reload, row' = row, conf' = conf, enabled' = enabled, cert' = cert,
         NEW s \in Sites,
         (Good(s) /\ dropped'[s] = dropped[s]) \/ Right(s, conf[s], row[s], dropped'[s])
  PROVE  Good(s)'
<1>1. enabled[s] => loaded'[s] = conf[s] /\ Right(s, conf[s], row[s], dropped'[s])
  BY DEF Ng!Reload, Good
<1> QED
  BY <1>1 DEF Good, Right, Matches

LEMMA SameBefore ==
  ASSUME NEW h \in ApiHandlers, Before(h), enabled' = enabled, cert' = cert, loaded' = loaded,
         dropped' = dropped,
         request'[h].s = request[h].s, request'[h].prev = request[h].prev, request'[h].was = request[h].was
  PROVE  Before(h)'
BY DEF Before, Right, Matches, Ng!Mine


LEMMA NgBeginStep ==
  ASSUME Ng!NginxSitesAssumption, SitesInv, NEW h \in ApiHandlers, NEW s \in Sites, NEW new \in Settings,
         Ng!Begin(h, s, new)
  PROVE  SitesInv'
<1> DEFINE u == [Ng!NoReq EXCEPT !.pc = "upsert", !.s = s, !.prev = row[s], !.new = new,
                              !.was = conf[s], !.fit = Ng!Valid]
<1>0. Ng!Valid \in BOOLEAN
  BY DEF Ng!Valid
<1>1. /\ u \in NgReq /\ u.pc = "upsert" /\ u.s = s /\ u.prev = row[s] /\ u.new = new
      /\ u.was = conf[s]
  BY <1>0, Sets DEF SitesInv, NgTypes, Ng!NoReq, NgReq, Pcs
<1>2. request' = [request EXCEPT ![h] = u]
  BY DEF Ng!Begin
<1> HIDE DEF u
<1>3. request' \in [ApiHandlers -> NgReq] /\ request'[h] = u /\ \A g \in ApiHandlers \ {h} : request'[g] = request[g]
  BY <1>1, <1>2, NgMoved DEF SitesInv
<1>4. /\ UNCHANGED <<row, conf, bak, cache, enabled, cert, loaded, worker, deploys, dropped, broken>>
      /\ updates < MaxUpdates /\ updates' = updates + 1 /\ NgFree(h)
      /\ overlap' = (overlap \/ worker.pc # "idle" \/ \E g \in ApiHandlers \ {h} : ~NgFree(g))
  BY DEF Ng!Begin, Ng!files, NgFree, Ng!At
<1>5. NgTypes'
  BY <1>3, <1>4 DEF SitesInv, NgTypes, Ng!NginxSitesAssumption
<1>6. Placed'
  BY <1>1, <1>3, <1>4, PlacedBy DEF SitesInv
<1>7. ASSUME ~overlap'
      PROVE  ~overlap /\ worker.pc = "idle" /\ \A g \in ApiHandlers \ {h} : NgFree(g) /\ NgFree(g)'
  BY <1>3, <1>4, <1>7 DEF NgFree, Ng!At
<1>8. ASSUME ~overlap'  PROVE NgOneAtWork' /\ Held'
  BY <1>1, <1>3, <1>4, <1>7, <1>8 DEF NgOneAtWork, Held, FoundBy, WrittenBy, NgFree, Ng!At, Ng!Mine, Ng!DeployAt
<1>9. ASSUME ~overlap', ~broken'  PROVE Serving'
  <2>1. ~overlap /\ worker.pc = "idle" /\ worker'.pc = "idle"
        /\ \A g \in ApiHandlers \ {h} : NgFree(g) /\ NgFree(g)'
    BY <1>4, <1>7, <1>9
  <2>2. \A t \in Sites : Good(t) /\ Good(t)'
    <3>1. Serving
      BY <1>4, <1>9, <2>1 DEF SitesInv
    <3>2. \A t \in Sites : ~WorkedOn(t)
      BY <1>4, <2>1 DEF WorkedOn, Ng!DeployAt
    <3>3. \A t \in Sites : Good(t)
      BY <3>1, <3>2 DEF Serving
    <3> QED
      BY <1>4, <3>3, Same
  <2>3. Before(h)'
    <3>1. enabled[s] => conf[s] # None
      BY DEF SitesInv, Placed
    <3> QED
      BY <1>1, <1>3, <1>4, <2>2, <3>1 DEF Before, Good, Right, Matches, Ng!Mine
  <2>4. \A g \in ApiHandlers : ~NgFree(g)' => IF Ng!At(g, "unbackup")' THEN Good(Ng!Mine(g))' ELSE Before(g)'
    BY <1>1, <1>3, <2>1, <2>3 DEF Ng!At
  <2>5. \A g \in ApiHandlers : ~Ng!At(g, "reload")'
    BY <1>1, <1>3, <2>1 DEF Ng!At, NgFree
  <2> QED
    BY <2>1, <2>2, <2>4, <2>5 DEF Serving, Ng!DeployAt
<1> QED
  BY <1>5, <1>6, <1>8, <1>9 DEF SitesInv

LEMMA UpsertStep ==
  ASSUME Ng!NginxSitesAssumption, SitesInv, NEW h \in ApiHandlers, Ng!Upsert(h)
  PROVE  SitesInv'
<1> DEFINE s == Ng!Mine(h)
<1>1. /\ Ng!At(h, "upsert") /\ row' = [row EXCEPT ![s] = request[h].new]
      /\ UNCHANGED <<conf, bak, cache, enabled, cert, loaded, worker, updates, deploys, dropped, overlap,
                     broken>>
  BY DEF Ng!Upsert, Ng!files, Ng!Keeps, Ng!Rest, Ng!bounds
<1>2. /\ request' \in [ApiHandlers -> NgReq] /\ request'[h].pc = "backup" /\ request'[h].s = request[h].s
      /\ request'[h].prev = request[h].prev /\ request'[h].new = request[h].new
      /\ request'[h].ssl = request[h].ssl /\ request'[h].was = request[h].was
      /\ \A g \in ApiHandlers \ {h} : request'[g] = request[g]
  BY NgGoneOn DEF Ng!Upsert, SitesInv, Pcs
<1>3. ~NgFree(h) /\ s \in Sites /\ request[h].new \in Settings
  BY <1>1 DEF NgFree, Ng!At, SitesInv, Placed
<1>4. NgTypes'
  BY <1>1, <1>2, <1>3 DEF SitesInv, NgTypes, Ng!Rows
<1>5. Placed'
  BY <1>1, <1>2, <1>3, PlacedBy DEF SitesInv, Ng!Mine
<1> HIDE DEF s
<1>6. ASSUME ~overlap  PROVE NgAtWork(h, s)
  BY <1>3, <1>6 DEF SitesInv, NgAtWork, s
<1>7. ASSUME ~overlap  PROVE NgOneAtWork' /\ Held'
  <2>1. row' \in [Sites -> Ng!Rows] /\ row'[s] = request[h].new
    BY <1>1, <1>3 DEF SitesInv, NgTypes, Ng!Rows
  <2>2. FoundBy(h)' /\ WrittenBy(h)'
    BY <1>1, <1>2, <1>3, <1>7, <2>1 DEF SitesInv, Held, FoundBy, WrittenBy, Ng!At, NgFree, Ng!Mine, s
  <2> QED
    BY <1>1, <1>2, <1>3, <1>6, <1>7, <2>2, HeldBy
<1>8. ASSUME ~overlap, ~broken  PROVE Serving'
  <2>1. Serving /\ Before(h)
    BY <1>1, <1>3, <1>8 DEF SitesInv, Serving, Ng!At
  <2>2. \A t \in Sites \ {s} : row'[t] = row[t]
    BY <1>1 DEF SitesInv, NgTypes, s
  <2>3. (\A t \in Sites \ {s} : Good(t)) => \A t \in Sites \ {s} : Good(t)'
    BY <1>1, <2>2, Same
  <2>4. Before(h)'
    BY <1>1, <1>2, <2>1, SameBefore
  <2> QED
    BY <1>1, <1>2, <1>3, <1>6, <1>8, <2>1, <2>3, <2>4, ServedBy DEF s, Ng!Mine
<1> QED
  BY <1>1, <1>4, <1>5, <1>7, <1>8 DEF SitesInv

LEMMA BackupStep ==
  ASSUME Ng!NginxSitesAssumption, SitesInv, NEW h \in ApiHandlers, Ng!Backup(h)
  PROVE  SitesInv'
<1> DEFINE s == Ng!Mine(h)
           u == [request[h] EXCEPT !.pc = "install", !.ssl = cert[s]]
<1>1. /\ Ng!At(h, "backup")
      /\ bak' = IF conf[s] # None THEN [bak EXCEPT ![s] = conf[s]] ELSE bak
      /\ UNCHANGED <<row, conf, cache, enabled, cert, loaded, worker, updates, deploys, dropped, overlap,
                     broken>>
  BY DEF Ng!Backup, Ng!Keeps, Ng!Rest, Ng!bounds
<1>2. ~NgFree(h) /\ s \in Sites /\ request[h].new \in Settings
  BY <1>1 DEF NgFree, Ng!At, SitesInv, Placed
<1>3. /\ u \in NgReq /\ u.pc = "install" /\ u.ssl = cert[s] /\ u.s = request[h].s
      /\ u.prev = request[h].prev /\ u.new = request[h].new /\ u.was = request[h].was
  BY <1>2 DEF SitesInv, NgTypes, NgReq, Pcs
<1>4. request' = [request EXCEPT ![h] = u]
  BY DEF Ng!Backup, SitesInv, NgTypes
<1> HIDE DEF u
<1>5. /\ request' \in [ApiHandlers -> NgReq] /\ request'[h] = u
      /\ \A g \in ApiHandlers \ {h} : request'[g] = request[g]
  BY <1>3, <1>4, NgMoved DEF SitesInv
<1>6. NgTypes'
  BY <1>1, <1>2, <1>5 DEF SitesInv, NgTypes
<1>7. Placed'
  BY <1>1, <1>2, <1>3, <1>5, PlacedBy DEF SitesInv, Ng!Mine
<1> HIDE DEF s
<1>8. ASSUME ~overlap  PROVE NgAtWork(h, s)
  BY <1>2, <1>8 DEF SitesInv, NgAtWork, s
<1>9. ASSUME ~overlap  PROVE NgOneAtWork' /\ Held'
  <2>1. conf[s] # None => bak'[s] = conf[s]
    BY <1>1, <1>2 DEF SitesInv, NgTypes
  <2>2. FoundBy(h)' /\ WrittenBy(h)'
    BY <1>1, <1>2, <1>3, <1>5, <1>9, <2>1 DEF SitesInv, Held, FoundBy, WrittenBy, Ng!At, NgFree, Ng!Mine, s
  <2> QED
    BY <1>1, <1>2, <1>5, <1>8, <1>9, <2>2, HeldBy
<1>10. ASSUME ~overlap, ~broken  PROVE Serving'
  <2>1. Serving /\ Before(h)
    BY <1>1, <1>2, <1>10 DEF SitesInv, Serving, Ng!At
  <2>2. (\A t \in Sites \ {s} : Good(t)) => \A t \in Sites \ {s} : Good(t)'
    BY <1>1, Same
  <2>3. Before(h)'
    BY <1>1, <1>3, <1>5, <2>1, SameBefore
  <2> QED
    BY <1>1, <1>2, <1>3, <1>5, <1>8, <1>10, <2>1, <2>2, <2>3, ServedBy DEF s, Ng!Mine
<1> QED
  BY <1>1, <1>6, <1>7, <1>9, <1>10 DEF SitesInv

LEMMA InstallStep ==
  ASSUME Ng!NginxSitesAssumption, SitesInv, NEW h \in ApiHandlers, Ng!Install(h)
  PROVE  SitesInv'
<1> DEFINE s == Ng!Mine(h)
<1>1. /\ Ng!At(h, "install") /\ conf' = [conf EXCEPT ![s] = Ng!Proxy(request[h].new, request[h].ssl)]
      /\ UNCHANGED <<row, bak, cache, enabled, cert, loaded, worker, updates, deploys, dropped, overlap,
                     broken>>
  BY DEF Ng!Install, Ng!Keeps, Ng!Rest, Ng!bounds
<1>2. /\ request' \in [ApiHandlers -> NgReq] /\ request'[h].pc = "cache" /\ request'[h].s = request[h].s
      /\ request'[h].prev = request[h].prev /\ request'[h].new = request[h].new
      /\ request'[h].ssl = request[h].ssl /\ request'[h].was = request[h].was
      /\ \A g \in ApiHandlers \ {h} : request'[g] = request[g]
  BY NgGoneOn DEF Ng!Install, SitesInv, Pcs
<1>3. ~NgFree(h) /\ s \in Sites /\ request[h].new \in Settings
  BY <1>1 DEF NgFree, Ng!At, SitesInv, Placed
<1>9. Ng!Proxy(request[h].new, request[h].ssl) \in Ng!Confs \ {None}
  BY <1>3, Sets DEF SitesInv, NgTypes, NgReq, Ng!Confs
<1>10. conf' \in [Sites -> Ng!Confs] /\ conf'[s] = Ng!Proxy(request[h].new, request[h].ssl)
       /\ \A t \in Sites \ {s} : conf'[t] = conf[t]
  BY <1>1, <1>3, <1>9 DEF SitesInv, NgTypes
<1>4. NgTypes'
  BY <1>1, <1>2, <1>10 DEF SitesInv, NgTypes
<1>5. Placed'
  BY <1>1, <1>2, <1>3, <1>9, <1>10, PlacedBy DEF SitesInv, Ng!Mine
<1> HIDE DEF s
<1>6. ASSUME ~overlap  PROVE NgAtWork(h, s)
  BY <1>3, <1>6 DEF SitesInv, NgAtWork, s
<1>7. ASSUME ~overlap  PROVE NgOneAtWork' /\ Held'
  <2>1. FoundBy(h)' /\ WrittenBy(h)'
    BY <1>1, <1>2, <1>3, <1>7, <1>10 DEF SitesInv, Held, FoundBy, WrittenBy, Ng!At, NgFree, Ng!Mine, s
  <2> QED
    BY <1>1, <1>2, <1>3, <1>6, <1>7, <2>1, HeldBy
<1>8. ASSUME ~overlap, ~broken  PROVE Serving'
  <2>1. Serving /\ Before(h)
    BY <1>1, <1>3, <1>8 DEF SitesInv, Serving, Ng!At
  <2>2. (\A t \in Sites \ {s} : Good(t)) => \A t \in Sites \ {s} : Good(t)'
    BY <1>1, <1>10, Same
  <2>3. Before(h)'
    BY <1>1, <1>2, <2>1, SameBefore
  <2> QED
    BY <1>1, <1>2, <1>3, <1>6, <1>8, <2>1, <2>2, <2>3, ServedBy DEF s, Ng!Mine
<1> QED
  BY <1>1, <1>4, <1>5, <1>7, <1>8 DEF SitesInv

LEMMA InstallCacheStep ==
  ASSUME Ng!NginxSitesAssumption, SitesInv, NEW h \in ApiHandlers, Ng!InstallCache(h)
  PROVE  SitesInv'
<1> DEFINE s == Ng!Mine(h)
<1>1. /\ Ng!At(h, "cache") /\ cache' = [cache EXCEPT ![s] = (request[h].new.locs = "cached")]
      /\ UNCHANGED <<row, conf, bak, enabled, cert, loaded, worker, updates, deploys, dropped, overlap,
                     broken>>
  BY DEF Ng!InstallCache, Ng!Keeps, Ng!Rest, Ng!bounds
<1>2. /\ request' \in [ApiHandlers -> NgReq] /\ request'[h].pc = "test" /\ request'[h].s = request[h].s
      /\ request'[h].prev = request[h].prev /\ request'[h].new = request[h].new
      /\ request'[h].ssl = request[h].ssl /\ request'[h].was = request[h].was
      /\ \A g \in ApiHandlers \ {h} : request'[g] = request[g]
  BY NgGoneOn DEF Ng!InstallCache, SitesInv, Pcs
<1>3. ~NgFree(h) /\ s \in Sites /\ request[h].new \in Settings
  BY <1>1 DEF NgFree, Ng!At, SitesInv, Placed
<1>4. NgTypes'
  BY <1>1, <1>2, <1>3 DEF SitesInv, NgTypes
<1>5. Placed'
  BY <1>1, <1>2, <1>3, PlacedBy DEF SitesInv, Ng!Mine
<1> HIDE DEF s
<1>6. ASSUME ~overlap  PROVE NgAtWork(h, s)
  BY <1>3, <1>6 DEF SitesInv, NgAtWork, s
<1>7. ASSUME ~overlap  PROVE NgOneAtWork' /\ Held'
  <2>1. FoundBy(h)' /\ WrittenBy(h)'
    BY <1>1, <1>2, <1>3, <1>7 DEF SitesInv, Held, FoundBy, WrittenBy, Ng!At, NgFree, Ng!Mine, s
  <2> QED
    BY <1>1, <1>2, <1>3, <1>6, <1>7, <2>1, HeldBy
<1>8. ASSUME ~overlap, ~broken  PROVE Serving'
  <2>1. Serving /\ Before(h)
    BY <1>1, <1>3, <1>8 DEF SitesInv, Serving, Ng!At
  <2>2. (\A t \in Sites \ {s} : Good(t)) => \A t \in Sites \ {s} : Good(t)'
    BY <1>1, Same
  <2>3. Before(h)'
    BY <1>1, <1>2, <2>1, SameBefore
  <2> QED
    BY <1>1, <1>2, <1>3, <1>6, <1>8, <2>1, <2>2, <2>3, ServedBy DEF s, Ng!Mine
<1> QED
  BY <1>1, <1>4, <1>5, <1>7, <1>8 DEF SitesInv

LEMMA TestStep ==
  ASSUME Ng!NginxSitesAssumption, SitesInv, NEW h \in ApiHandlers, Ng!Test(h)
  PROVE  SitesInv'
<1> DEFINE s == Ng!Mine(h)
           pc == IF Ng!Valid THEN "reload" ELSE "restore"
<1>1. /\ Ng!At(h, "test")
      /\ UNCHANGED <<row, conf, bak, cache, enabled, cert, loaded, worker, updates, deploys, dropped, overlap,
                     broken>>
  BY DEF Ng!Test, Ng!files, Ng!Keeps, Ng!Rest, Ng!bounds
<1>9. pc \in {"reload", "restore"} /\ (pc = "reload" => Ng!Valid) /\ Ng!Goto(h, pc)
  BY DEF Ng!Test
<1> HIDE DEF pc
<1>2. /\ request' \in [ApiHandlers -> NgReq] /\ request'[h].pc = pc /\ request'[h].s = request[h].s
      /\ request'[h].prev = request[h].prev /\ request'[h].new = request[h].new
      /\ request'[h].ssl = request[h].ssl /\ request'[h].was = request[h].was
      /\ \A g \in ApiHandlers \ {h} : request'[g] = request[g]
  BY <1>9, NgGoneOn DEF SitesInv, Pcs
<1>3. ~NgFree(h) /\ s \in Sites /\ request[h].new \in Settings
  BY <1>1 DEF NgFree, Ng!At, SitesInv, Placed
<1>4. NgTypes'
  BY <1>1, <1>2, <1>3 DEF SitesInv, NgTypes
<1>5. Placed'
  BY <1>1, <1>2, <1>3, PlacedBy DEF SitesInv, Ng!Mine
<1> HIDE DEF s
<1>6. ASSUME ~overlap  PROVE NgAtWork(h, s)
  BY <1>3, <1>6 DEF SitesInv, NgAtWork, s
<1>7. ASSUME ~overlap  PROVE NgOneAtWork' /\ Held'
  <2>1. FoundBy(h)' /\ WrittenBy(h)'
    BY <1>1, <1>2, <1>3, <1>7, <1>9 DEF SitesInv, Held, FoundBy, WrittenBy, Ng!At, NgFree, Ng!Mine, s
  <2> QED
    BY <1>1, <1>2, <1>3, <1>6, <1>7, <2>1, HeldBy
<1>8. ASSUME ~overlap, ~broken  PROVE Serving'
  <2>1. Serving /\ Before(h)
    BY <1>1, <1>3, <1>8 DEF SitesInv, Serving, Ng!At
  <2>2. (\A t \in Sites \ {s} : Good(t)) => \A t \in Sites \ {s} : Good(t)'
    BY <1>1, Same
  <2>3. Before(h)'
    BY <1>1, <1>2, <2>1, SameBefore
  <2>4. request'[h].pc = "reload" => Ng!Valid'
    BY <1>1, <1>2, <1>9 DEF Ng!Valid, Ng!Accepted
  <2> QED
    BY <1>1, <1>2, <1>3, <1>6, <1>8, <1>9, <2>1, <2>2, <2>3, <2>4, ServedBy DEF s, Ng!Mine
<1> QED
  BY <1>1, <1>4, <1>5, <1>7, <1>8 DEF SitesInv

LEMMA RemoveCacheStep ==
  ASSUME Ng!NginxSitesAssumption, SitesInv, NEW h \in ApiHandlers, Ng!RemoveCache(h)
  PROVE  SitesInv'
<1> DEFINE s == Ng!Mine(h)
<1>1. /\ Ng!At(h, "uncache") /\ cache' = [cache EXCEPT ![s] = FALSE]
      /\ UNCHANGED <<row, conf, bak, enabled, cert, loaded, worker, updates, deploys, dropped, overlap,
                     broken>>
  BY DEF Ng!RemoveCache, Ng!Keeps, Ng!Rest, Ng!bounds
<1>2. /\ request' \in [ApiHandlers -> NgReq] /\ request'[h].pc = "rollback" /\ request'[h].s = request[h].s
      /\ request'[h].prev = request[h].prev /\ request'[h].new = request[h].new
      /\ request'[h].ssl = request[h].ssl /\ request'[h].was = request[h].was
      /\ \A g \in ApiHandlers \ {h} : request'[g] = request[g]
  BY NgGoneOn DEF Ng!RemoveCache, SitesInv, Pcs
<1>3. ~NgFree(h) /\ s \in Sites /\ request[h].new \in Settings
  BY <1>1 DEF NgFree, Ng!At, SitesInv, Placed
<1>4. NgTypes'
  BY <1>1, <1>2, <1>3 DEF SitesInv, NgTypes
<1>5. Placed'
  BY <1>1, <1>2, <1>3, PlacedBy DEF SitesInv, Ng!Mine
<1> HIDE DEF s
<1>6. ASSUME ~overlap  PROVE NgAtWork(h, s)
  BY <1>3, <1>6 DEF SitesInv, NgAtWork, s
<1>7. ASSUME ~overlap  PROVE NgOneAtWork' /\ Held'
  <2>1. ~cache'[s]
    BY <1>1, <1>3 DEF SitesInv, NgTypes
  <2>2. FoundBy(h)' /\ WrittenBy(h)'
    BY <1>1, <1>2, <1>3, <1>7, <2>1 DEF SitesInv, Held, FoundBy, WrittenBy, Ng!At, NgFree, Ng!Mine, s
  <2> QED
    BY <1>1, <1>2, <1>3, <1>6, <1>7, <2>2, HeldBy
<1>8. ASSUME ~overlap, ~broken  PROVE Serving'
  <2>1. Serving /\ Before(h)
    BY <1>1, <1>3, <1>8 DEF SitesInv, Serving, Ng!At
  <2>2. (\A t \in Sites \ {s} : Good(t)) => \A t \in Sites \ {s} : Good(t)'
    BY <1>1, Same
  <2>3. Before(h)'
    BY <1>1, <1>2, <2>1, SameBefore
  <2> QED
    BY <1>1, <1>2, <1>3, <1>6, <1>8, <2>1, <2>2, <2>3, ServedBy DEF s, Ng!Mine
<1> QED
  BY <1>1, <1>4, <1>5, <1>7, <1>8 DEF SitesInv

LEMMA ReloadSiteStep ==
  ASSUME Ng!NginxSitesAssumption, SitesInv, NEW h \in ApiHandlers, Ng!ReloadSite(h)
  PROVE  SitesInv'
<1>0. PICK s \in Sites : s = Ng!Mine(h)
  BY DEF Ng!ReloadSite, NgFree, Ng!At, SitesInv, Placed
<1>1. /\ Ng!At(h, "reload") /\ Ng!Reload
      /\ UNCHANGED <<row, conf, bak, cache, enabled, cert, worker, updates, deploys, overlap, broken>>
      /\ dropped' = [dropped EXCEPT ![s] = FALSE]
  BY <1>0 DEF Ng!ReloadSite, Ng!files, Ng!Rest, Ng!bounds
<1>2. /\ request' \in [ApiHandlers -> NgReq] /\ request'[h].pc = "unbackup" /\ request'[h].s = request[h].s
      /\ request'[h].prev = request[h].prev /\ request'[h].new = request[h].new
      /\ request'[h].ssl = request[h].ssl /\ request'[h].was = request[h].was
      /\ \A g \in ApiHandlers \ {h} : request'[g] = request[g]
  BY NgGoneOn DEF Ng!ReloadSite, SitesInv, Pcs
<1>3. ~NgFree(h) /\ s \in Sites /\ request[h].new \in Settings
  BY <1>0, <1>1 DEF NgFree, Ng!At, SitesInv, Placed
<1>9. dropped' \in [Sites -> BOOLEAN] /\ ~dropped'[s] /\ \A t \in Sites \ {s} : dropped'[t] = dropped[t]
  BY <1>1 DEF SitesInv, NgTypes
<1>4. NgTypes'
  <2>1. loaded' \in [Sites -> Ng!Confs]
    BY <1>0, <1>1 DEF Ng!Reload, SitesInv, NgTypes, Ng!Confs
  <2> QED
    BY <1>0, <1>1, <1>2, <1>9, <2>1 DEF SitesInv, NgTypes
<1>5. Placed'
  BY <1>0, <1>1, <1>2, <1>3, PlacedBy DEF SitesInv, Ng!Mine
<1>6. ASSUME ~overlap  PROVE NgAtWork(h, s)
  BY <1>0, <1>3, <1>6 DEF SitesInv, NgAtWork
<1>7. ASSUME ~overlap  PROVE NgOneAtWork' /\ Held'
  <2>1. FoundBy(h)' /\ WrittenBy(h)'
    BY <1>0, <1>1, <1>2, <1>3, <1>7 DEF SitesInv, Held, FoundBy, WrittenBy, Ng!At, NgFree, Ng!Mine
  <2> QED
    BY <1>0, <1>1, <1>2, <1>3, <1>6, <1>7, <2>1, HeldBy
<1>8. ASSUME ~overlap, ~broken  PROVE Serving'
  <2>1. Serving /\ Ng!Valid
    BY <1>0, <1>1, <1>8 DEF SitesInv, Serving
  <2>2. (\A t \in Sites \ {s} : Good(t)) => \A t \in Sites \ {s} : Good(t)'
    BY <1>0, <1>1, <1>9, <2>1, Reloaded
  <2>3. Good(s)'
    <3>1. row[s] = request[h].new /\ conf[s] = Ng!Proxy(request[h].new, request[h].ssl) /\ request[h].ssl = cert[s]
      BY <1>0, <1>1, <1>3, <1>8 DEF SitesInv, Held, WrittenBy, Ng!At
    <3>2. Right(s, conf[s], row[s], dropped'[s])
      BY <1>0, <1>3, <1>9, <3>1, Sets DEF Right, Matches, Ng!Proxy
    <3> QED
      BY <1>0, <1>1, <1>3, <2>1, <3>2, Reloaded
  <2> QED
    BY <1>0, <1>1, <1>2, <1>3, <1>6, <1>8, <2>1, <2>2, <2>3, ServedBy DEF Ng!Mine
<1> QED
  BY <1>0, <1>1, <1>4, <1>5, <1>7, <1>8 DEF SitesInv

LEMMA RemoveBackupStep ==
  ASSUME Ng!NginxSitesAssumption, SitesInv, NEW h \in ApiHandlers, Ng!RemoveBackup(h)
  PROVE  SitesInv'
<1> DEFINE s == Ng!Mine(h)
<1>1. /\ Ng!At(h, "unbackup") /\ bak' = [bak EXCEPT ![s] = None]
      /\ UNCHANGED <<row, conf, cache, enabled, cert, loaded, worker, updates, deploys, dropped, overlap,
                     broken>>
  BY DEF Ng!RemoveBackup, Ng!Keeps, Ng!Rest, Ng!bounds
<1>2. /\ request' \in [ApiHandlers -> NgReq] /\ request'[h].pc = "idle"
      /\ \A g \in ApiHandlers \ {h} : request'[g] = request[g]
  BY NgReturned DEF Ng!RemoveBackup, SitesInv
<1>3. ~NgFree(h) /\ s \in Sites /\ request[h].new \in Settings
  BY <1>1 DEF NgFree, Ng!At, SitesInv, Placed
<1>4. NgTypes'
  BY <1>1, <1>2, <1>3 DEF SitesInv, NgTypes, Ng!Confs
<1>5. Placed'
  BY <1>1, <1>2, <1>3, PlacedBy DEF SitesInv
<1> HIDE DEF s
<1>6. ASSUME ~overlap  PROVE NgAtWork(h, s)
  BY <1>3, <1>6 DEF SitesInv, NgAtWork, s
<1>7. ASSUME ~overlap  PROVE NgOneAtWork' /\ Held'
  <2>1. FoundBy(h)' /\ WrittenBy(h)'
    BY <1>2 DEF FoundBy, WrittenBy, Ng!At, NgFree
  <2> QED
    BY <1>1, <1>2, <1>3, <1>6, <1>7, <2>1, HeldBy
<1>8. ASSUME ~overlap, ~broken  PROVE Serving'
  <2>1. Serving /\ Good(s)
    BY <1>1, <1>3, <1>8 DEF SitesInv, Serving, s
  <2>2. \A t \in Sites : Good(t) => Good(t)'
    BY <1>1, Same
  <2> QED
    BY <1>1, <1>2, <1>3, <1>6, <1>8, <2>1, <2>2, ServedBy
<1> QED
  BY <1>1, <1>4, <1>5, <1>7, <1>8 DEF SitesInv

LEMMA RollbackStep ==
  ASSUME Ng!NginxSitesAssumption, SitesInv, NEW h \in ApiHandlers, Ng!Rollback(h)
  PROVE  SitesInv'
<1>0. PICK s \in Sites : s = Ng!Mine(h)
  BY DEF Ng!Rollback, NgFree, Ng!At, SitesInv, Placed
<1>1. /\ Ng!At(h, "rollback") /\ row' = [row EXCEPT ![s] = request[h].prev]
      /\ UNCHANGED <<conf, bak, cache, enabled, cert, loaded, worker, updates, deploys, dropped, overlap,
                     broken>>
  BY <1>0 DEF Ng!Rollback, Ng!files, Ng!Keeps, Ng!Rest, Ng!bounds
<1>2. /\ request' \in [ApiHandlers -> NgReq] /\ request'[h].pc = "idle"
      /\ \A g \in ApiHandlers \ {h} : request'[g] = request[g]
  BY NgReturned DEF Ng!Rollback, SitesInv
<1>3. ~NgFree(h) /\ s \in Sites /\ request[h].new \in Settings
  BY <1>0, <1>1 DEF NgFree, Ng!At, SitesInv, Placed
<1>9. row' \in [Sites -> Ng!Rows] /\ row'[s] = request[h].prev /\ \A t \in Sites \ {s} : row'[t] = row[t]
  BY <1>0, <1>1, <1>3 DEF SitesInv, NgTypes, NgReq
<1>4. NgTypes'
  BY <1>0, <1>1, <1>2, <1>9 DEF SitesInv, NgTypes
<1>5. Placed'
  BY <1>0, <1>1, <1>2, <1>3, PlacedBy DEF SitesInv
<1>6. ASSUME ~overlap  PROVE NgAtWork(h, s)
  BY <1>0, <1>3, <1>6 DEF SitesInv, NgAtWork
<1>7. ASSUME ~overlap  PROVE NgOneAtWork' /\ Held'
  <2>1. FoundBy(h)' /\ WrittenBy(h)'
    BY <1>0, <1>2 DEF FoundBy, WrittenBy, Ng!At, NgFree
  <2> QED
    BY <1>0, <1>1, <1>2, <1>3, <1>6, <1>7, <2>1, HeldBy
<1>8. ASSUME ~overlap, ~broken  PROVE Serving'
  <2>1. Serving /\ Before(h)
    BY <1>0, <1>1, <1>3, <1>8 DEF SitesInv, Serving, Ng!At
  <2>2. (\A t \in Sites \ {s} : Good(t)) => \A t \in Sites \ {s} : Good(t)'
    BY <1>0, <1>1, <1>9, Same
  <2>3. Good(s)'
    <3>1. request[h].was # None => conf[s] = request[h].was
      BY <1>0, <1>1, <1>7, <1>8 DEF SitesInv, Held, FoundBy, Ng!At
    <3> QED
      BY <1>0, <1>1, <1>9, <2>1, <3>1 DEF Before, Good, Right, Matches
  <2> QED
    BY <1>0, <1>1, <1>2, <1>3, <1>6, <1>8, <2>1, <2>2, <2>3, ServedBy
<1> QED
  BY <1>0, <1>1, <1>4, <1>5, <1>7, <1>8 DEF SitesInv

LEMMA RestoreStep ==
  ASSUME Ng!NginxSitesAssumption, SitesInv, NEW h \in ApiHandlers, Ng!Restore(h)
  PROVE  SitesInv'
<1> DEFINE s == Ng!Mine(h)
<1>1. /\ Ng!At(h, "restore") /\ conf' = IF bak[s] # None THEN [conf EXCEPT ![s] = bak[s]] ELSE conf
      /\ UNCHANGED <<row, bak, cache, enabled, cert, loaded, worker, updates, deploys, dropped, overlap,
                     broken>>
  BY DEF Ng!Restore, Ng!Keeps, Ng!Rest, Ng!bounds
<1>2. /\ request' \in [ApiHandlers -> NgReq] /\ request'[h].pc = "uncache" /\ request'[h].s = request[h].s
      /\ request'[h].prev = request[h].prev /\ request'[h].new = request[h].new
      /\ request'[h].ssl = request[h].ssl /\ request'[h].was = request[h].was
      /\ \A g \in ApiHandlers \ {h} : request'[g] = request[g]
  BY NgGoneOn DEF Ng!Restore, SitesInv, Pcs
<1>3. ~NgFree(h) /\ s \in Sites /\ request[h].new \in Settings
  BY <1>1 DEF NgFree, Ng!At, SitesInv, Placed
<1>9. /\ conf' \in [Sites -> Ng!Confs] /\ \A t \in Sites \ {s} : conf'[t] = conf[t]
      /\ conf'[s] = IF bak[s] # None THEN bak[s] ELSE conf[s]
  BY <1>1, <1>3 DEF SitesInv, NgTypes
<1>4. NgTypes'
  BY <1>1, <1>2, <1>9 DEF SitesInv, NgTypes
<1>5. Placed'
  BY <1>1, <1>2, <1>3, <1>9, PlacedBy DEF SitesInv, Ng!Mine
<1> HIDE DEF s
<1>6. ASSUME ~overlap  PROVE NgAtWork(h, s)
  BY <1>3, <1>6 DEF SitesInv, NgAtWork, s
<1>7. ASSUME ~overlap  PROVE NgOneAtWork' /\ Held'
  <2>1. FoundBy(h)' /\ WrittenBy(h)'
    BY <1>1, <1>2, <1>3, <1>7, <1>9 DEF SitesInv, Held, FoundBy, WrittenBy, Ng!At, NgFree, Ng!Mine, s
  <2> QED
    BY <1>1, <1>2, <1>3, <1>6, <1>7, <2>1, HeldBy
<1>8. ASSUME ~overlap, ~broken  PROVE Serving'
  <2>1. Serving /\ Before(h)
    BY <1>1, <1>3, <1>8 DEF SitesInv, Serving, Ng!At
  <2>2. (\A t \in Sites \ {s} : Good(t)) => \A t \in Sites \ {s} : Good(t)'
    BY <1>1, <1>9, Same
  <2>3. Before(h)'
    BY <1>1, <1>2, <2>1, SameBefore
  <2> QED
    BY <1>1, <1>2, <1>3, <1>6, <1>8, <2>1, <2>2, <2>3, ServedBy DEF s, Ng!Mine
<1> QED
  BY <1>1, <1>4, <1>5, <1>7, <1>8 DEF SitesInv

----------------------------------------------------------------------------
(* Deployments.                                                            *)

\* No request is at work meanwhile, as long as writers do not overlap.
LEMMA NgDeploying ==
  ASSUME NgOneAtWork, ~Ng!DeployAt("idle"), request' = request
  PROVE  /\ NgOneAtWork' /\ Held'
         /\ \A h \in ApiHandlers : request[h].pc = "idle" /\ request'[h].pc = "idle"
BY DEF NgOneAtWork, Held, FoundBy, WrittenBy, NgFree, Ng!At

LEMMA DeployMoves ==
  ASSUME NgTypes, NEW pc \in DeployPcs, Ng!DeployGoto(pc)
  PROVE  /\ worker' \in NgWorker /\ worker'.pc = pc /\ worker'.s = worker.s
         /\ worker'.body = worker.body /\ worker'.stage = worker.stage
BY DEF Ng!DeployGoto, NgTypes, NgWorker

\* Serving, while no request is at work and only the deployment's site changes.
LEMMA DeployServes ==
  ASSUME NEW s \in Sites, Serving, ~Ng!DeployAt("idle"), Ng!W = s,
         \A h \in ApiHandlers : request[h].pc = "idle" /\ request'[h].pc = "idle",
         (\A t \in Sites \ {s} : Good(t)) => \A t \in Sites \ {s} : Good(t)',
         worker'.pc = "idle" => Good(s)',
         worker'.pc # "idle" => worker'.s = s,
         worker'.pc = "write" => worker'.body = Body(row'[s]),
         worker'.pc \in {"test", "reload"} => Right(s, conf[s], row[s], dropped[s])',
         worker'.pc = "reload" => Ng!Valid',
         worker'.pc = "certify" => Good(s)'
  PROVE  Serving'
<1>1. \A t \in Sites \ {s} : Good(t)
  BY DEF Serving, WorkedOn, NgFree, Ng!At
<1>2. \A t \in Sites : WorkedOn(t)' \/ Good(t)'
  <2> SUFFICES ASSUME NEW t \in Sites, ~WorkedOn(t)'  PROVE Good(t)'
    OBVIOUS
  <2>1. CASE t # s
    BY <1>1, <2>1
  <2>2. CASE t = s
    BY <2>2 DEF WorkedOn, Ng!DeployAt, Ng!W
  <2> QED
    BY <2>1, <2>2
<1>3. \A h \in ApiHandlers : NgFree(h)' /\ ~Ng!At(h, "reload")'
  BY DEF NgFree, Ng!At
<1>4. Ng!DeployAt("write")' => worker'.body = Body(row[Ng!W])'
  BY DEF Ng!DeployAt, Ng!W, Body
<1>5. worker'.pc \in {"test", "reload"} => Right(Ng!W, conf[Ng!W], row[Ng!W], dropped[Ng!W])'
  BY DEF Ng!W, Right, Matches
<1>6. (Ng!DeployAt("reload")' => Ng!Valid') /\ (Ng!DeployAt("certify")' => Good(Ng!W)')
  BY DEF Ng!DeployAt, Ng!W, Good
<1> QED
  BY <1>2, <1>3, <1>4, <1>5, <1>6 DEF Serving

LEMMA NgDeployStarts ==
  ASSUME Ng!NginxSitesAssumption, SitesInv, NEW s \in Sites, Ng!Deploy(s)
  PROVE  SitesInv'
<1>1. /\ worker.pc = "idle" /\ worker' \in NgWorker /\ worker'.pc = "read" /\ worker'.s = s
      /\ deploys' \in 0..SiteDeploys
      /\ overlap' = (overlap \/ \E h \in ApiHandlers : ~NgFree(h))
      /\ UNCHANGED <<row, conf, bak, cache, enabled, cert, loaded, request, updates, dropped, broken>>
  <2>1. deploys < SiteDeploys /\ deploys' = deploys + 1 /\ deploys \in 0..SiteDeploys
    BY DEF Ng!Deploy, SitesInv, NgTypes
  <2>2. deploys' \in 0..SiteDeploys
    BY <2>1 DEF Ng!NginxSitesAssumption
  <2>3. worker' \in NgWorker /\ worker'.pc = "read" /\ worker'.s = s
    BY DEF Ng!Deploy, Ng!NoDeploy, NgWorker, DeployPcs
  <2> QED
    BY <2>2, <2>3 DEF Ng!Deploy, Ng!DeployAt, NgFree, Ng!At, Ng!files
<1>2. NgTypes'
  BY <1>1 DEF SitesInv, NgTypes
<1>3. Placed'
  <2>1. \A h \in ApiHandlers : ~NgFree(h)' => Ng!Mine(h)' \in Sites /\ request'[h].new \in Settings
    BY <1>1 DEF SitesInv, Placed, NgFree, Ng!At, Ng!Mine
  <2>2. Ng!W' \in Sites
    BY <1>1 DEF Ng!W
  <2>3. \A t \in Sites : enabled'[t] => conf'[t] # None
    BY <1>1 DEF SitesInv, Placed
  <2> QED
    BY <2>1, <2>2, <2>3 DEF Placed
<1>4. ASSUME ~overlap'  PROVE ~overlap /\ \A h \in ApiHandlers : NgFree(h) /\ NgFree(h)'
  BY <1>1, <1>4 DEF NgFree, Ng!At
<1>5. ASSUME ~overlap'  PROVE NgOneAtWork' /\ Held'
  BY <1>1, <1>4, <1>5 DEF NgOneAtWork, Held, FoundBy, WrittenBy, NgFree, Ng!At
<1>6. ASSUME ~overlap', ~broken'  PROVE Serving'
  <2>1. \A t \in Sites : Good(t)
    BY <1>1, <1>4, <1>6 DEF SitesInv, Serving, WorkedOn, Ng!DeployAt
  <2>2. \A t \in Sites : Good(t)'
    BY <1>1, <2>1, Same
  <2>3. \A h \in ApiHandlers : NgFree(h)' /\ ~Ng!At(h, "reload")'
    BY <1>4, <1>6 DEF NgFree, Ng!At
  <2> QED
    BY <1>1, <2>2, <2>3 DEF Serving, Ng!DeployAt
<1> QED
  BY <1>2, <1>3, <1>5, <1>6 DEF SitesInv

\* The deployment's step keeps the placement.
LEMMA DeployPlaced ==
  ASSUME Placed, ~Ng!DeployAt("idle"), request' = request, worker'.pc = "idle" \/ worker'.s = worker.s,
         \A t \in Sites : enabled'[t] => enabled[t] \/ conf'[t] # None,
         \A t \in Sites : conf[t] # None => conf'[t] # None
  PROVE  Placed'
<1>1. \A h \in ApiHandlers : ~NgFree(h)' => Ng!Mine(h)' \in Sites /\ request'[h].new \in Settings
  BY DEF Placed, NgFree, Ng!At, Ng!Mine
<1>2. ~Ng!DeployAt("idle")' => Ng!W' \in Sites
  BY DEF Placed, Ng!DeployAt, Ng!W
<1>3. \A t \in Sites : enabled'[t] => conf'[t] # None
  BY DEF Placed
<1> QED
  BY <1>1, <1>2, <1>3 DEF Placed

LEMMA NgReadSettingsStep ==
  ASSUME Ng!NginxSitesAssumption, SitesInv, Ng!ReadSettings
  PROVE  SitesInv'
<1>0. PICK s \in Sites : s = Ng!W
  BY DEF SitesInv, Placed, Ng!ReadSettings, Ng!DeployAt
<1>1. /\ Ng!DeployAt("read")
      /\ UNCHANGED <<row, conf, bak, cache, enabled, cert, loaded, broken, request, updates, deploys, dropped,
                     overlap>>
  BY DEF Ng!ReadSettings, Ng!files, Ng!Calm, Ng!Quiet, Ng!bounds
<1>2. Body(row[s]) \in {"default", "tuned", "bad"}
  BY Sets DEF SitesInv, NgTypes, Ng!Rows, Body
<1>3. worker' \in NgWorker /\ worker'.pc = "write" /\ worker'.s = s /\ worker'.body = Body(row[s])
  BY <1>0, <1>2 DEF Ng!ReadSettings, SitesInv, NgTypes, NgWorker, DeployPcs, Body, Ng!W
<1>4. NgTypes'
  BY <1>1, <1>3 DEF SitesInv, NgTypes
<1>5. Placed'
  BY <1>0, <1>1, <1>3, DeployPlaced DEF SitesInv, Ng!W, Ng!DeployAt
<1>6. ASSUME ~overlap
      PROVE  NgOneAtWork' /\ Held' /\ \A h \in ApiHandlers : request[h].pc = "idle" /\ request'[h].pc = "idle"
  BY <1>1, <1>6, NgDeploying DEF SitesInv, Ng!DeployAt
<1>7. ASSUME ~overlap, ~broken  PROVE Serving'
  <2>1. (\A t \in Sites \ {s} : Good(t)) => \A t \in Sites \ {s} : Good(t)'
    BY <1>1, Same
  <2> QED
    BY <1>0, <1>1, <1>3, <1>6, <1>7, <2>1, DeployServes DEF SitesInv, Ng!DeployAt
<1> QED
  BY <1>1, <1>4, <1>5, <1>6, <1>7 DEF SitesInv

LEMMA WriteSiteStep ==
  ASSUME Ng!NginxSitesAssumption, SitesInv, Ng!WriteSite
  PROVE  SitesInv'
<1>0. PICK s \in Sites : s = Ng!W
  BY DEF SitesInv, Placed, Ng!WriteSite, Ng!DeployAt
<1> DEFINE ssl == worker.stage = "ssl" \/ cert[s]
           c == IF s \in Static THEN Ng!StaticSite(ssl)
                                ELSE Ng!Proxy([body |-> worker.body, locs |-> "none"], ssl)
<1>1. /\ Ng!DeployAt("write")
      /\ conf' = [conf EXCEPT ![s] = c] /\ enabled' = [enabled EXCEPT ![s] = TRUE]
      /\ UNCHANGED <<row, bak, cache, cert, loaded, broken, request, updates, deploys, overlap>>
      /\ dropped' = [dropped EXCEPT ![s] = TRUE]
  BY <1>0 DEF Ng!WriteSite, Ng!Calm, Ng!Quiet, Ng!bounds
<1>2. /\ worker' \in NgWorker /\ worker'.pc = "test" /\ worker'.s = s
  BY <1>0, DeployMoves DEF Ng!WriteSite, SitesInv, DeployPcs, Ng!W
<1>3. /\ ssl \in BOOLEAN
      /\ worker.body \in {"default", "tuned", "bad"}
  BY DEF SitesInv, NgTypes, NgWorker
<1>4. c \in Ng!ConfType /\ (cert[s] => c.ssl)
      /\ (IF s \in Static THEN c.kind = "static" ELSE c.kind = "proxy" /\ c.body = worker.body)
      /\ c.locs = "none"
  BY <1>3, Sets DEF Ng!Proxy, Ng!StaticSite, Ng!ConfType
<1> HIDE DEF c, ssl
<1>5. /\ conf' \in [Sites -> Ng!Confs] /\ conf'[s] = c /\ c # None
      /\ enabled' \in [Sites -> BOOLEAN] /\ dropped' \in [Sites -> BOOLEAN] /\ dropped'[s]
      /\ \A t \in Sites \ {s} : /\ conf'[t] = conf[t] /\ enabled'[t] = enabled[t]
                                /\ dropped'[t] = dropped[t]
  BY <1>1, <1>4, Sets DEF SitesInv, NgTypes, Ng!Confs
<1>6. NgTypes'
  BY <1>1, <1>2, <1>5 DEF SitesInv, NgTypes
<1>7. Placed'
  BY <1>0, <1>1, <1>2, <1>5, DeployPlaced DEF SitesInv, Ng!W, Ng!DeployAt
<1>8. ASSUME ~overlap
      PROVE  NgOneAtWork' /\ Held' /\ \A h \in ApiHandlers : request[h].pc = "idle" /\ request'[h].pc = "idle"
  BY <1>1, <1>8, NgDeploying DEF SitesInv, Ng!DeployAt
<1>9. ASSUME ~overlap, ~broken  PROVE Serving'
  <2>1. (\A t \in Sites \ {s} : Good(t)) => \A t \in Sites \ {s} : Good(t)'
    BY <1>1, <1>5 DEF Good, Right, Matches
  <2>2. worker.body = Body(row[s])
    BY <1>0, <1>1, <1>9 DEF SitesInv, Serving
  <2>3. Right(s, conf[s], row[s], dropped[s])'
    BY <1>1, <1>4, <1>5, <2>2 DEF Right, Matches, Body
  <2> QED
    BY <1>0, <1>1, <1>2, <1>8, <1>9, <2>1, <2>3, DeployServes DEF SitesInv, Ng!DeployAt
<1> QED
  BY <1>1, <1>6, <1>7, <1>8, <1>9 DEF SitesInv

LEMMA TestSiteStep ==
  ASSUME Ng!NginxSitesAssumption, SitesInv, Ng!TestSite
  PROVE  SitesInv'
<1>0. PICK s \in Sites : s = Ng!W
  BY DEF SitesInv, Placed, Ng!TestSite, Ng!DeployAt
<1>1. /\ Ng!DeployAt("test")
      /\ UNCHANGED <<row, conf, bak, cache, enabled, cert, loaded, request, updates, deploys, dropped, overlap>>
  BY DEF Ng!TestSite, Ng!files, Ng!Calm, Ng!Quiet, Ng!bounds
<1>2. /\ worker' \in NgWorker
      /\ ~broken' => Ng!Valid /\ ~broken /\ worker'.pc = "reload" /\ worker'.s = s
      /\ worker'.pc = "idle" \/ worker'.s = s
  <2>1. CASE Ng!Valid
    BY <1>0, <2>1, DeployMoves DEF Ng!TestSite, SitesInv, DeployPcs, Ng!W
  <2>2. CASE ~Ng!Valid
    BY <2>2, Sets DEF Ng!TestSite
  <2> QED
    BY <2>1, <2>2
<1>3. NgTypes'
  BY <1>1, <1>2 DEF SitesInv, NgTypes
<1>4. Placed'
  BY <1>0, <1>1, <1>2, DeployPlaced DEF SitesInv, Ng!W, Ng!DeployAt
<1>5. ASSUME ~overlap
      PROVE  NgOneAtWork' /\ Held' /\ \A h \in ApiHandlers : request[h].pc = "idle" /\ request'[h].pc = "idle"
  BY <1>1, <1>5, NgDeploying DEF SitesInv, Ng!DeployAt
<1>6. ASSUME ~overlap, ~broken'  PROVE Serving'
  <2>1. (\A t \in Sites \ {s} : Good(t)) => \A t \in Sites \ {s} : Good(t)'
    BY <1>1, Same
  <2>2. Serving
    BY <1>2, <1>6 DEF SitesInv
  <2>3. Right(s, conf[s], row[s], dropped[s])'
    BY <1>0, <1>1, <2>2 DEF Serving, Right, Matches, Ng!DeployAt
  <2>4. Ng!Valid'
    BY <1>1, <1>2, <1>6 DEF Ng!Valid, Ng!Accepted
  <2> QED
    BY <1>0, <1>1, <1>2, <1>5, <1>6, <2>1, <2>2, <2>3, <2>4, DeployServes DEF Ng!DeployAt
<1> QED
  BY <1>1, <1>3, <1>4, <1>5, <1>6 DEF SitesInv

LEMMA ReloadNginxStep ==
  ASSUME Ng!NginxSitesAssumption, SitesInv, Ng!ReloadNginx
  PROVE  SitesInv'
<1>0. PICK s \in Sites : s = Ng!W
  BY DEF SitesInv, Placed, Ng!ReloadNginx, Ng!DeployAt
<1>1. /\ Ng!DeployAt("reload") /\ Ng!Reload
      /\ UNCHANGED <<row, conf, bak, cache, enabled, cert, broken, request, updates, deploys, dropped, overlap>>
  BY DEF Ng!ReloadNginx, Ng!files, Ng!Calm, Ng!Quiet, Ng!bounds
<1>2. /\ worker' \in NgWorker /\ worker'.pc \in {"idle", "certify"}
      /\ worker'.pc = "idle" \/ worker'.s = s
  <2>1. CASE worker.stage = "nginx"
    BY <1>0, <2>1, DeployMoves DEF Ng!ReloadNginx, SitesInv, DeployPcs, Ng!W
  <2>2. CASE worker.stage # "nginx"
    BY <2>2, Sets DEF Ng!ReloadNginx
  <2> QED
    BY <2>1, <2>2
<1>3. NgTypes'
  <2>1. loaded' \in [Sites -> Ng!Confs]
    BY <1>1 DEF Ng!Reload, SitesInv, NgTypes, Ng!Confs
  <2> QED
    BY <1>1, <1>2, <2>1 DEF SitesInv, NgTypes
<1>4. Placed'
  BY <1>0, <1>1, <1>2, DeployPlaced DEF SitesInv, Ng!W, Ng!DeployAt
<1>5. ASSUME ~overlap
      PROVE  NgOneAtWork' /\ Held' /\ \A h \in ApiHandlers : request[h].pc = "idle" /\ request'[h].pc = "idle"
  BY <1>1, <1>5, NgDeploying DEF SitesInv, Ng!DeployAt
<1>6. ASSUME ~overlap, ~broken  PROVE Serving'
  <2>1. Serving /\ Ng!Valid /\ Right(s, conf[s], row[s], dropped[s])
    BY <1>0, <1>1, <1>6 DEF SitesInv, Serving, Ng!DeployAt
  <2>2. (\A t \in Sites \ {s} : Good(t)) => \A t \in Sites \ {s} : Good(t)'
    BY <1>1, <2>1, Reloaded
  <2>3. Good(s)'
    BY <1>1, <2>1, Reloaded
  <2> QED
    BY <1>0, <1>1, <1>2, <1>5, <1>6, <2>1, <2>2, <2>3, DeployServes DEF Ng!DeployAt
<1> QED
  BY <1>1, <1>3, <1>4, <1>5, <1>6 DEF SitesInv

LEMMA CertifyStep ==
  ASSUME Ng!NginxSitesAssumption, SitesInv, Ng!Certify
  PROVE  SitesInv'
<1>0. PICK s \in Sites : s = Ng!W
  BY DEF SitesInv, Placed, Ng!Certify, Ng!DeployAt
<1>1. /\ Ng!DeployAt("certify")
      /\ UNCHANGED <<row, conf, bak, cache, enabled, loaded, broken, request, updates, deploys, dropped, overlap>>
  BY DEF Ng!Certify, Ng!Calm, Ng!Quiet, Ng!bounds
<1>2. /\ worker' \in NgWorker /\ cert' \in [Sites -> BOOLEAN]
      /\ \A t \in Sites \ {s} : cert'[t] = cert[t]
      /\ (worker'.pc = "idle" /\ cert' = cert) \/ (worker'.pc = "read" /\ worker'.s = s)
  <2>1. CASE /\ cert[Ng!W] \/ Ng!Valid
             /\ cert' = [cert EXCEPT ![Ng!W] = TRUE]
             /\ worker' = [worker EXCEPT !.pc = "read", !.stage = "ssl"]
    BY <1>0, <2>1 DEF SitesInv, NgTypes, NgWorker, DeployPcs, Ng!W
  <2>2. CASE ~cert[Ng!W] /\ worker' = Ng!NoDeploy /\ UNCHANGED cert
    BY <2>2, Sets DEF SitesInv, NgTypes
  <2> QED
    BY <2>1, <2>2 DEF Ng!Certify
<1>3. NgTypes'
  BY <1>1, <1>2 DEF SitesInv, NgTypes
<1>4. Placed'
  BY <1>0, <1>1, <1>2, DeployPlaced DEF SitesInv, Ng!W, Ng!DeployAt
<1>5. ASSUME ~overlap
      PROVE  NgOneAtWork' /\ Held' /\ \A h \in ApiHandlers : request[h].pc = "idle" /\ request'[h].pc = "idle"
  BY <1>1, <1>5, NgDeploying DEF SitesInv, Ng!DeployAt
<1>6. ASSUME ~overlap, ~broken  PROVE Serving'
  <2>1. Serving /\ Good(s)
    BY <1>0, <1>1, <1>6 DEF SitesInv, Serving
  <2>2. (\A t \in Sites \ {s} : Good(t)) => \A t \in Sites \ {s} : Good(t)'
    BY <1>1, <1>2 DEF Good, Right, Matches
  <2>3. worker'.pc = "idle" => Good(s)'
    BY <1>1, <1>2, <2>1, Same
  <2> QED
    BY <1>0, <1>1, <1>2, <1>5, <1>6, <2>1, <2>2, <2>3, DeployServes DEF Ng!DeployAt
<1> QED
  BY <1>1, <1>3, <1>4, <1>5, <1>6 DEF SitesInv

LEMMA CrashStep ==
  ASSUME Ng!NginxSitesAssumption, SitesInv, Ng!Crash
  PROVE  SitesInv'
<1>1. /\ request' \in [ApiHandlers -> NgReq] /\ worker' \in NgWorker /\ worker'.pc = "idle" /\ broken' = TRUE
      /\ \A h \in ApiHandlers : request'[h].pc = "idle"
      /\ UNCHANGED <<row, conf, bak, cache, enabled, cert, loaded, updates, deploys, dropped, overlap>>
  BY Sets DEF Ng!Crash, Ng!files, Ng!bounds
<1>2. NgTypes'
  BY <1>1 DEF SitesInv, NgTypes
<1>3. Placed'
  BY <1>1 DEF SitesInv, Placed, NgFree, Ng!At, Ng!DeployAt
<1>4. NgOneAtWork' /\ Held'
  BY <1>1 DEF NgOneAtWork, Held, FoundBy, WrittenBy, NgFree, Ng!At, Ng!DeployAt
<1> QED
  BY <1>1, <1>2, <1>3, <1>4 DEF SitesInv

----------------------------------------------------------------------------
LEMMA SitesInvStep == Ng!NginxSitesAssumption /\ SitesInv /\ [Ng!Next]_(Ng!vars) => SitesInv'
<1> SUFFICES ASSUME Ng!NginxSitesAssumption, SitesInv, [Ng!Next]_(Ng!vars)  PROVE SitesInv'
  OBVIOUS
<1>1. ASSUME NEW h \in ApiHandlers, Ng!Update(h)  PROVE SitesInv'
  <2>1. CASE \E s \in Sites, new \in Settings : Ng!Begin(h, s, new)
    BY <2>1, NgBeginStep
  <2>2. CASE Ng!Upsert(h) \/ Ng!Backup(h) \/ Ng!Install(h) \/ Ng!InstallCache(h) \/ Ng!Test(h)
    BY <2>2, UpsertStep, BackupStep, InstallStep, InstallCacheStep, TestStep
  <2>3. CASE Ng!ReloadSite(h) \/ Ng!RemoveBackup(h)
    BY <2>3, ReloadSiteStep, RemoveBackupStep
  <2>4. CASE Ng!Restore(h) \/ Ng!RemoveCache(h) \/ Ng!Rollback(h)
    BY <2>4, RestoreStep, RemoveCacheStep, RollbackStep
  <2> QED
    BY <1>1, <2>1, <2>2, <2>3, <2>4 DEF Ng!Update
<1>2. CASE Ng!DeployStep
  BY <1>2, NgDeployStarts, NgReadSettingsStep, WriteSiteStep, TestSiteStep, ReloadNginxStep,
    CertifyStep DEF Ng!DeployStep
<1>3. CASE Ng!Crash
  BY <1>3, CrashStep
<1>4. CASE UNCHANGED Ng!vars
  <2>1. UNCHANGED <<row, conf, bak, cache, enabled, cert, loaded, request, worker, updates, deploys, dropped,
                    overlap, broken>>
    BY <1>4 DEF Ng!vars, Ng!files, Ng!bounds
  <2>2. NgTypes' /\ Placed'
    BY <2>1 DEF SitesInv, NgTypes, Placed, NgFree, Ng!At, Ng!Mine, Ng!DeployAt, Ng!W
  <2>3. ~overlap' => NgOneAtWork' /\ Held'
    BY <2>1 DEF SitesInv, NgOneAtWork, Held, FoundBy, WrittenBy, NgFree, Ng!At, Ng!Mine, Ng!DeployAt
  <2>4. ~overlap' /\ ~broken' => Serving'
    BY <2>1 DEF SitesInv, Serving, WorkedOn, Good, Before, Right, Matches, Ng!Valid, Ng!Accepted, NgFree, Ng!At,
      Ng!Mine, Ng!DeployAt, Ng!W, Body
  <2> QED
    BY <2>2, <2>3, <2>4 DEF SitesInv
<1> QED
  BY <1>1, <1>2, <1>3, <1>4 DEF Ng!Next

LEMMA SitesInvSuffices == SitesInv => Ng!ServedAsConfigured
BY DEF SitesInv, Serving, WorkedOn, Good, Right, Matches, NgFree, Ng!ServedAsConfigured

(***************************************************************************)
(* What nginx made of the files when the request came, it makes of those   *)
(* of the other sites still; and of its own, but for the zones.            *)
(***************************************************************************)
OthersFit(s) == \A t \in Sites \ {s} : enabled[t] => Ng!Accepted(t, conf[t])
Sound(s, c) == c.body # "bad" /\ c.locs # "bad" /\ (c.ssl => cert[s])
Fit(h) ==
  /\ enabled[Ng!Mine(h)] => request[h].was # None
  /\ request[h].fit =>
       OthersFit(Ng!Mine(h)) /\ (enabled[Ng!Mine(h)] => Sound(Ng!Mine(h), request[h].was))
  /\ /\ OthersFit(Ng!Mine(h))
     /\ enabled[Ng!Mine(h)] =>
          Sound(Ng!Mine(h), request[h].was) /\ request[h].was.locs # "cached"
     => request[h].fit
FitInv == ~overlap => \A h \in ApiHandlers : ~NgFree(h) => Fit(h)

LEMMA FitKept ==
  ASSUME NEW h \in ApiHandlers, Fit(h), enabled' = enabled, cert' = cert,
         request'[h].s = request[h].s, request'[h].was = request[h].was,
         request'[h].fit = request[h].fit,
         \A t \in Sites \ {Ng!Mine(h)} : conf'[t] = conf[t] /\ cache'[t] = cache[t]
  PROVE  Fit(h)'
<1>1. OthersFit(Ng!Mine(h))' <=> OthersFit(Ng!Mine(h))
  BY DEF OthersFit, Ng!Accepted, Ng!Mine
<1> QED
  BY <1>1 DEF Fit, Sound, Ng!Mine

LEMMA FitStep ==
  ASSUME Ng!NginxSitesAssumption, SitesInv, FitInv, [Ng!Next]_(Ng!vars)  PROVE FitInv'
<1>1. ASSUME NEW g \in ApiHandlers, Ng!Update(g)  PROVE FitInv'
  <2> SUFFICES ASSUME ~overlap', NEW h \in ApiHandlers, ~NgFree(h)'  PROVE Fit(h)'
    BY DEF FitInv
  <2>1. ASSUME NEW s \in Sites, NEW new \in Settings, Ng!Begin(g, s, new)  PROVE Fit(h)'
    <3>1. /\ UNCHANGED <<conf, cache, enabled, cert>>
          /\ \A f \in ApiHandlers \ {g} : request'[f].pc = "idle"
      BY <2>1 DEF Ng!Begin, Ng!files, SitesInv, NgTypes, Ng!At
    <3>2. h = g
      BY <3>1 DEF NgFree, Ng!At
    <3>3. /\ request'[g].s = s /\ request'[g].was = conf[s] /\ request'[g].fit = Ng!Valid
      BY <2>1 DEF Ng!Begin, Ng!NoReq, SitesInv, NgTypes
    <3>4. Ng!Valid <=> OthersFit(s) /\ (enabled[s] => Ng!Accepted(s, conf[s]))
      BY DEF Ng!Valid, OthersFit
    <3>5. enabled[s] => conf[s] # None
      BY DEF SitesInv, Placed
    <3>6. OthersFit(s)' <=> OthersFit(s)
      BY <3>1 DEF OthersFit, Ng!Accepted
    <3>7. Ng!Mine(h)' = s
      BY <3>2, <3>3 DEF Ng!Mine
    <3> QED
      BY <3>1, <3>2, <3>3, <3>4, <3>5, <3>6, <3>7 DEF Fit, OthersFit, Sound, Ng!Accepted
  <2>2. CASE \/ Ng!Upsert(g) \/ Ng!Backup(g) \/ Ng!Install(g) \/ Ng!InstallCache(g) \/ Ng!Test(g)
             \/ Ng!ReloadSite(g) \/ Ng!Restore(g) \/ Ng!RemoveCache(g)
             \/ Ng!RemoveBackup(g) \/ Ng!Rollback(g)
    <3>1. /\ overlap' = overlap /\ enabled' = enabled /\ cert' = cert
          /\ \A f \in ApiHandlers \ {g} : request'[f] = request[f]
      BY <2>2 DEF Ng!Upsert, Ng!Backup, Ng!Install, Ng!InstallCache, Ng!Test, Ng!ReloadSite,
           Ng!Restore, Ng!RemoveCache, Ng!RemoveBackup, Ng!Rollback, Ng!Goto, Ng!Return, Ng!files,
           Ng!Keeps, Ng!Rest, SitesInv, NgTypes
    <3>2. ~NgFree(g)
      BY <2>2 DEF Ng!Upsert, Ng!Backup, Ng!Install, Ng!InstallCache, Ng!Test, Ng!ReloadSite,
           Ng!Restore, Ng!RemoveCache, Ng!RemoveBackup, Ng!Rollback, Ng!At, NgFree
    <3>3. h = g
      BY <3>1, <3>2 DEF SitesInv, NgOneAtWork, NgFree, Ng!At
    <3>4. request'[g].pc # "idle"
      BY <3>3 DEF NgFree, Ng!At
    <3>5. /\ request'[g].s = request[g].s /\ request'[g].was = request[g].was
          /\ request'[g].fit = request[g].fit
      <4>1. CASE Ng!RemoveBackup(g) \/ Ng!Rollback(g)
        BY <3>4, <4>1, NgReturned DEF Ng!RemoveBackup, Ng!Rollback, SitesInv
      <4>2. CASE Ng!Backup(g)
        BY <4>2 DEF Ng!Backup, SitesInv, NgTypes, NgReq
      <4>3. ASSUME NEW pc, Ng!Goto(g, pc)
            PROVE  /\ request'[g].s = request[g].s /\ request'[g].was = request[g].was
                   /\ request'[g].fit = request[g].fit
        BY <4>3 DEF Ng!Goto, SitesInv, NgTypes, NgReq
      <4> QED
        BY <2>2, <4>1, <4>2, <4>3 DEF Ng!Upsert, Ng!Install, Ng!InstallCache, Ng!Test,
             Ng!ReloadSite, Ng!Restore, Ng!RemoveCache
    <3>6. \A t \in Sites \ {Ng!Mine(g)} : conf'[t] = conf[t] /\ cache'[t] = cache[t]
      BY <2>2 DEF Ng!Upsert, Ng!Backup, Ng!Install, Ng!InstallCache, Ng!Test, Ng!ReloadSite,
           Ng!Restore, Ng!RemoveCache, Ng!RemoveBackup, Ng!Rollback, Ng!files, SitesInv, NgTypes
    <3>7. Fit(g)
      BY <3>1, <3>2 DEF FitInv
    <3> QED
      BY <3>1, <3>3, <3>5, <3>6, <3>7, FitKept
  <2> QED
    BY <1>1, <2>1, <2>2 DEF Ng!Update
<1>2. ASSUME NEW s \in Sites, Ng!Deploy(s)  PROVE FitInv'
  BY <1>2 DEF Ng!Deploy, FitInv, NgFree, Ng!At
<1>3. CASE Ng!ReadSettings \/ Ng!WriteSite \/ Ng!TestSite \/ Ng!ReloadNginx \/ Ng!Certify
  <2>1. ~Ng!DeployAt("idle") /\ request' = request /\ overlap' = overlap
    BY <1>3 DEF Ng!ReadSettings, Ng!WriteSite, Ng!TestSite, Ng!ReloadNginx, Ng!Certify,
         Ng!DeployAt, Ng!Calm, Ng!Quiet
  <2> QED
    BY <2>1 DEF FitInv, SitesInv, NgOneAtWork, NgFree, Ng!At
<1>4. CASE Ng!Crash
  BY <1>4, Sets DEF Ng!Crash, FitInv, NgFree, Ng!At
<1>5. CASE UNCHANGED Ng!vars
  <2>1. UNCHANGED <<request, overlap, enabled, cert, conf, cache>>
    BY <1>5 DEF Ng!vars, Ng!files
  <2> QED
    BY <2>1, FitKept DEF FitInv, NgFree, Ng!At
<1> QED
  BY <1>1, <1>2, <1>3, <1>4, <1>5 DEF Ng!Next, Ng!DeployStep

(***************************************************************************)
(* What the rejected request found is what it leaves, except its zones.    *)
(***************************************************************************)
LEMMA RejectionRestores ==
  ASSUME Ng!NginxSitesAssumption, SitesInv, FitInv, [Ng!Next]_(Ng!vars)
  PROVE  Ng!RejectionRestoresStep
<1> SUFFICES ASSUME NEW h \in ApiHandlers, Ng!Rejects(h), ~overlap
             PROVE  /\ request[h].was # None => conf'[Ng!Mine(h)] = request[h].was
                    /\ row'[Ng!Mine(h)] = request[h].prev
                    /\ Ng!Valid' <=> request[h].fit /\
                         (enabled[Ng!Mine(h)] => request[h].was.locs # "cached")
  BY DEF Ng!RejectionRestoresStep
<1>1. Ng!Rollback(h)
  <2>1. ASSUME NEW g \in ApiHandlers, Ng!Update(g), g # h  PROVE FALSE
    BY <2>1 DEF Ng!Rejects, Ng!Update, Ng!Begin, Ng!Upsert, Ng!Backup, Ng!Install, Ng!InstallCache, Ng!Test, Ng!ReloadSite,
      Ng!RemoveBackup, Ng!Restore, Ng!RemoveCache, Ng!Rollback, Ng!Goto, Ng!Return, Ng!At, SitesInv, NgTypes
  <2>2. ASSUME Ng!Update(h)  PROVE Ng!Rollback(h)
    BY <2>2 DEF Ng!Rejects, Ng!Update, Ng!Begin, Ng!Upsert, Ng!Backup, Ng!Install, Ng!InstallCache, Ng!Test, Ng!ReloadSite,
      Ng!RemoveBackup, Ng!Restore, Ng!RemoveCache, Ng!Rollback, Ng!At
  <2>3. CASE Ng!DeployStep \/ UNCHANGED Ng!vars
    BY <2>3 DEF Ng!Rejects, Ng!At, Ng!DeployStep, Ng!Deploy, Ng!ReadSettings, Ng!WriteSite, Ng!TestSite, Ng!ReloadNginx,
      Ng!Certify, Ng!Calm, Ng!Quiet, Ng!vars
  <2>4. CASE Ng!Crash
    BY <2>4 DEF Ng!Crash, Ng!Rejects
  <2> QED
    BY <2>1, <2>2, <2>3, <2>4 DEF Ng!Next
<1>2. ~NgFree(h) /\ Ng!Mine(h) \in Sites
  BY DEF Ng!Rejects, SitesInv, Placed, NgFree, Ng!At
<1>3. request[h].was # None => conf[Ng!Mine(h)] = request[h].was
  BY DEF Ng!Rejects, SitesInv, Held, FoundBy, Ng!At
<1>4. /\ UNCHANGED <<conf, cache, enabled, cert>> /\ row'[Ng!Mine(h)] = request[h].prev
  BY <1>1, <1>2 DEF Ng!Rollback, Ng!files, SitesInv, NgTypes
<1>5. ~cache[Ng!Mine(h)]
  BY DEF Ng!Rejects, SitesInv, Held, FoundBy, Ng!At
<1>6. Fit(h)
  BY <1>2 DEF FitInv
<1>7. Ng!Valid' <=> Ng!Valid
  BY <1>4 DEF Ng!Valid, Ng!Accepted
<1>8. Ng!Valid <=>
        OthersFit(Ng!Mine(h)) /\ (enabled[Ng!Mine(h)] => Ng!Accepted(Ng!Mine(h), conf[Ng!Mine(h)]))
  BY <1>2 DEF Ng!Valid, OthersFit
<1>9. Ng!Valid <=>
        request[h].fit /\ (enabled[Ng!Mine(h)] => request[h].was.locs # "cached")
  BY <1>2, <1>3, <1>5, <1>6, <1>8 DEF Fit, Sound, Ng!Accepted
<1> QED
  BY <1>3, <1>4, <1>7, <1>9

(***************************************************************************)
(* While writers neither overlap nor fail, nginx serves what the rows say, *)
(* the locations until a deployment drops them; and as long as they do not *)
(* overlap, a rejected update leaves the file and the row it found, and    *)
(* files nginx accepts if it did, unless the site has a cache.             *)
(***************************************************************************)
THEOREM SitesServed ==
  Ng!NginxSitesAssumption => (Ng!Spec => []Ng!ServedAsConfigured /\ [][Ng!RejectionRestoresStep]_(Ng!vars))
<1> SUFFICES ASSUME Ng!NginxSitesAssumption
             PROVE  Ng!Spec => []Ng!ServedAsConfigured /\ [][Ng!RejectionRestoresStep]_(Ng!vars)
  OBVIOUS
<1>1. Ng!Init => SitesInv /\ FitInv
  BY SitesInvInit, Sets DEF Ng!Init, FitInv, NgFree, Ng!At
<1>2. SitesInv /\ FitInv /\ [Ng!Next]_(Ng!vars) => SitesInv' /\ FitInv'
  BY SitesInvStep, FitStep
<1>3. SitesInv => Ng!ServedAsConfigured
  BY SitesInvSuffices
<1>4. SitesInv /\ FitInv /\ [Ng!Next]_(Ng!vars) => [Ng!RejectionRestoresStep]_(Ng!vars)
  BY RejectionRestores
<1> QED
  BY <1>1, <1>2, <1>3, <1>4, PTL DEF Ng!Spec

----------------------------------------------------------------------------
(* The resources of the projects.                                          *)

(***************************************************************************)
(* The properties only speak of rows.  The invariant adds what the request *)
(* at work holds: the names it got are nobody's (Fresh), the variables it  *)
(* read are still those of the row but for the kinds it is about           *)
(* (Snapshot), and the connections of a row are its resources but for      *)
(* those the request has yet to connect or disconnect (Linked, ToConnect). *)
(***************************************************************************)
PjPcs == {"idle", "allocate", "provision", "insert", "connect", "drop", "write",
        "disconnect", "remove"}
Ops == {"none", "create", "provision", "deprovision", "rename", "delete"}
PjReq == [pc : PjPcs, op : Ops, p : Apps \cup {None}, slug : Slugs \cup {None},
          static : BOOLEAN, todo : SUBSET ResourceKinds, got : Pj!MaybeOf, env : Pj!MaybeOf]

PjTypes ==
  /\ row \in [Apps -> Pj!Row \cup {None}] /\ request \in [ApiHandlers -> PjReq]
  /\ dirty \in BOOLEAN

\* What a handler is doing.
Doing(h) ==
  /\ request[h].pc # "idle" => request[h].p \in Apps
  /\ request[h].pc \in {"allocate", "provision", "connect", "drop", "disconnect"} =>
       request[h].todo # {}
  /\ request[h].pc \in {"allocate", "provision"} => request[h].op \in {"create", "provision"}
  /\ request[h].pc = "drop" => request[h].op \in {"delete", "deprovision"}
  /\ request[h].pc = "insert" => request[h].op = "create" /\ request[h].todo = {}
  /\ request[h].pc = "write" =>
       /\ request[h].op \in {"provision", "deprovision", "rename"}
       /\ request[h].op = "provision" => request[h].todo = {}
  /\ request[h].pc \in {"allocate", "provision", "insert", "write"} /\ request[h].op # "deprovision" => request[h].slug \in Slugs
  /\ request[h].pc = "connect" => request[h].op \in {"create", "provision"} /\ \A k \in request[h].todo : request[h].got[k] # None
  /\ request[h].op = "provision" => \E k \in ResourceKinds : request[h].todo \cup Pj!Got(h) \subseteq {k}
  /\ request[h].op = "deprovision" => \E k \in ResourceKinds : request[h].todo = {k}
  /\ request[h].op = "delete" => "db" \notin request[h].todo

ConnsOwned == \A c \in conn : c[1] \in Pj!Present

Idle(h) == request[h].pc = "idle"
PjAlone == \A g, h \in ApiHandlers : ~Idle(g) /\ ~Idle(h) => g = h

Apart == \A k \in ResourceKinds \ {"minio"} : Pj!Exclusive(k)

\* The database of a row exists, except one that its deprovision has dropped.
Dropped(h, p) == request[h].pc = "write" /\ request[h].op = "deprovision" /\ request[h].p = p
                 /\ request[h].todo = {"db"}
Exist ==
  "db" \in ResourceKinds => \A p \in Pj!Present : row[p].has["db"] # None =>
    row[p].has["db"] \in databases \/ \E h \in ApiHandlers : Dropped(h, p)

\* A request that takes names, until its row has them: nobody else has one.
Making(h) == request[h].op \in {"create", "provision"}
             /\ request[h].pc \in {"allocate", "provision", "insert", "write"}

Fresh(h) ==
  Making(h) => \A k \in ResourceKinds \ {"minio"} : request[h].got[k] # None =>
    /\ \A p \in Pj!Present : row[p].has[k] # request[h].got[k]
    /\ k = "db" /\ k \notin request[h].todo => request[h].got[k] \in databases

\* A request that gives a resource back names the one of the row.
Giving(h) ==
  request[h].op = "deprovision" /\ request[h].pc = "drop" =>
    /\ request[h].p \in Pj!Present
    /\ \A k \in request[h].todo : row[request[h].p].has[k] = request[h].got[k]

PjSerial == PjAlone /\ Apart /\ Exist /\ \A h \in ApiHandlers : Fresh(h) /\ Giving(h)

\* The connections of a project, those the request at work has not reached apart.
ConnsIn(S, p, k) == {c[3] : c \in {d \in S : d[1] = p /\ d[2] = k}}
ConnOf(p, k) == ConnsIn(conn, p, k)
Linking(h, p, k) == request[h].pc \in {"connect", "disconnect"} /\ request[h].p = p
                    /\ k \in request[h].todo
Linked ==
  \A p \in Pj!Present, k \in ResourceKinds :
    \/ ConnOf(p, k) = {row[p].has[k]} \ {None}
    \/ \E h \in ApiHandlers : Linking(h, p, k)
EnvAgrees == \A p \in Pj!Present, k \in ResourceKinds : row[p].env[k] \in {None, row[p].has[k]}

\* The variables a request will write.
Snapshot(h) ==
  /\ request[h].op = "create" /\ Making(h) =>
       /\ request[h].p \notin Pj!Present
       /\ \A k \in ResourceKinds : IF k \in request[h].todo THEN request[h].env[k] = None
                           ELSE request[h].env[k] \in {None, request[h].got[k]}
  /\ request[h].op = "provision" /\ Making(h) /\ request[h].p \in Pj!Present =>
       \A k \in ResourceKinds :
         IF k \in request[h].todo \cup Pj!Got(h)
           THEN /\ row[request[h].p].has[k] = None
                /\ request[h].env[k] = None \/ (k \notin request[h].todo /\ request[h].env[k] = request[h].got[k])
           ELSE request[h].env[k] \in {None, row[request[h].p].has[k]}
  /\ request[h].op = "deprovision" /\ request[h].pc \in {"drop", "write"} /\ request[h].p \in Pj!Present =>
       \A k \in ResourceKinds : IF k \in request[h].todo THEN request[h].env[k] = None
                        ELSE request[h].env[k] \in {None, row[request[h].p].has[k]}

\* What is to be connected is in the row and not connected yet.
ToConnect(h) ==
  /\ request[h].pc = "connect" /\ request[h].p \in Pj!Present => \A k \in request[h].todo :
       ConnOf(request[h].p, k) = {} /\ row[request[h].p].has[k] = request[h].got[k]
  /\ request[h].pc = "disconnect" /\ request[h].p \in Pj!Present => \A k \in request[h].todo :
       row[request[h].p].has[k] = None

Agree == Linked /\ EnvAgrees /\ \A h \in ApiHandlers : Snapshot(h) /\ ToConnect(h)

PjInv ==
  /\ PjTypes
  /\ \A h \in ApiHandlers : Doing(h)
  /\ ConnsOwned
  /\ ~dirty => PjSerial
  /\ ~dirty /\ ~failed => Agree

----------------------------------------------------------------------------
Any == {None} \cup UNION {Pj!ResourceOf(k) : k \in ResourceKinds}

LEMMA MaybeIs ==
  ASSUME NEW f \in Pj!MaybeOf
  PROVE  f \in [ResourceKinds -> Any] /\ \A k \in ResourceKinds : f[k] \in Pj!ResourceOf(k) \cup {None}
BY DEF Pj!MaybeOf, Any

LEMMA MaybeSet ==
  ASSUME NEW f \in Pj!MaybeOf, NEW k \in ResourceKinds, NEW r \in Pj!ResourceOf(k) \cup {None}
  PROVE  /\ [f EXCEPT ![k] = r] \in Pj!MaybeOf
         /\ [f EXCEPT ![k] = r][k] = r
         /\ \A j \in ResourceKinds \ {k} : [f EXCEPT ![k] = r][j] = f[j]
<1> DEFINE g == [f EXCEPT ![k] = r]
<1>1. f \in [ResourceKinds -> Any] /\ \A j \in ResourceKinds : f[j] \in Pj!ResourceOf(j) \cup {None}
  BY MaybeIs
<1>2. r \in Any
  <2>1. CASE r = None
    BY <2>1 DEF Any
  <2>2. CASE r \in Pj!ResourceOf(k)
    <3>1. Pj!ResourceOf(k) \in {Pj!ResourceOf(j) : j \in ResourceKinds}
      OBVIOUS
    <3> QED
      BY <2>2, <3>1 DEF Any
  <2> QED
    BY <2>1, <2>2
<1>3. g \in [ResourceKinds -> Any] /\ g[k] = r /\ \A j \in ResourceKinds \ {k} : g[j] = f[j]
  BY <1>1, <1>2
<1> HIDE DEF g
<1>4. \A j \in ResourceKinds : g[j] \in Pj!ResourceOf(j) \cup {None}
  BY <1>1, <1>3
<1>5. g \in Pj!MaybeOf
  BY <1>3, <1>4 DEF Pj!MaybeOf, Any
<1> QED
  BY <1>3, <1>5 DEF g

LEMMA NothingHeld == Pj!NoResource \in Pj!MaybeOf /\ \A k \in ResourceKinds : Pj!NoResource[k] = None
<1>1. Pj!NoResource \in [ResourceKinds -> Any]
  BY DEF Pj!NoResource, Any
<1>2. \A k \in ResourceKinds : Pj!NoResource[k] = None
  BY DEF Pj!NoResource
<1> QED
  BY <1>1, <1>2 DEF Pj!MaybeOf, Any

LEMMA FirstIn ==
  ASSUME Pj!ProjectsAssumption, NEW todo \in SUBSET ResourceKinds, todo # {}
  PROVE  Pj!First(todo) \in todo
BY DEF Pj!First, Pj!ProjectsAssumption

LEMMA NoReqTyped ==
  /\ Pj!NoReq \in PjReq
  /\ Pj!NoReq.pc = "idle" /\ Pj!NoReq.op = "none" /\ Pj!NoReq.todo = {} /\ Pj!NoReq.got = Pj!NoResource
BY NothingHeld DEF Pj!NoReq, PjReq, PjPcs, Ops

LEMMA RowTyped ==
  ASSUME PjTypes, NEW p \in Pj!Present
  PROVE  /\ p \in Apps /\ row[p] \in Pj!Row
         /\ row[p].slug \in Slugs /\ row[p].has \in Pj!MaybeOf /\ row[p].env \in Pj!MaybeOf
BY DEF PjTypes, Pj!Present, Pj!Row

LEMMA ReqTyped ==
  ASSUME PjTypes, NEW h \in ApiHandlers
  PROVE  /\ request[h] \in PjReq /\ request[h].pc \in PjPcs /\ request[h].op \in Ops
         /\ request[h].p \in Apps \cup {None} /\ request[h].slug \in Slugs \cup {None}
         /\ request[h].todo \in SUBSET ResourceKinds /\ request[h].got \in Pj!MaybeOf /\ request[h].env \in Pj!MaybeOf
         /\ request[h].static \in BOOLEAN
<1>1. request[h] \in PjReq
  BY DEF PjTypes
<1> QED
  BY <1>1 DEF PjReq

LEMMA PjMoved ==
  ASSUME PjTypes, NEW h \in ApiHandlers, NEW u \in PjReq, request' = [request EXCEPT ![h] = u]
  PROVE  /\ request' \in [ApiHandlers -> PjReq] /\ request'[h] = u
         /\ \A g \in ApiHandlers \ {h} : request'[g] = request[g]
BY DEF PjTypes

(***************************************************************************)
(* While requests are serial only the one at work counts.                  *)
(***************************************************************************)
LEMMA Whole ==
  ASSUME PjInv, NEW h \in ApiHandlers, PjTypes', Doing(h)', ConnsOwned',
         \A g \in ApiHandlers \ {h} : request'[g] = request[g],
         ~dirty' => ~dirty /\ \A g \in ApiHandlers \ {h} : Idle(g),
         ~dirty' => Apart' /\ Exist' /\ Fresh(h)' /\ Giving(h)',
         ~dirty' /\ ~failed' => Linked' /\ EnvAgrees' /\ Snapshot(h)' /\ ToConnect(h)'
  PROVE  PjInv'
<1>1. \A g \in ApiHandlers : Doing(g)'
  <2> SUFFICES ASSUME NEW g \in ApiHandlers \ {h}  PROVE Doing(g)'
    OBVIOUS
  <2>1. Doing(g) /\ request'[g] = request[g]
    BY DEF PjInv
  <2> QED
    BY <2>1 DEF Doing, Pj!Got
<1>2. ASSUME ~dirty'  PROVE PjSerial'
  <2>1. \A g \in ApiHandlers \ {h} : Idle(g)'
    BY <1>2 DEF Idle
  <2>2. \A g \in ApiHandlers : Fresh(g)' /\ Giving(g)'
    BY <1>2, <2>1 DEF Fresh, Giving, Making, Idle
  <2> QED
    BY <1>2, <2>1, <2>2 DEF PjSerial, PjAlone
<1>3. ASSUME ~dirty', ~failed'  PROVE Agree'
  <2>1. \A g \in ApiHandlers \ {h} : Idle(g)'
    BY <1>3 DEF Idle
  <2>2. \A g \in ApiHandlers : Snapshot(g)' /\ ToConnect(g)'
    BY <1>3, <2>1 DEF Snapshot, ToConnect, Making, Idle
  <2> QED
    BY <1>3, <2>2 DEF Agree
<1> QED
  BY <1>1, <1>2, <1>3 DEF PjInv

LEMMA PjReturned ==
  ASSUME PjTypes, NEW h \in ApiHandlers, Pj!Return(h)
  PROVE  /\ request' \in [ApiHandlers -> PjReq] /\ request'[h] = Pj!NoReq /\ Idle(h)'
         /\ \A g \in ApiHandlers \ {h} : request'[g] = request[g]
         /\ Doing(h)' /\ Fresh(h)' /\ Giving(h)' /\ Snapshot(h)' /\ ToConnect(h)'
<1>1. /\ request' \in [ApiHandlers -> PjReq] /\ request'[h] = Pj!NoReq
      /\ \A g \in ApiHandlers \ {h} : request'[g] = request[g]
  BY PjMoved, NoReqTyped DEF Pj!Return
<1>2. request'[h].pc = "idle" /\ request'[h].op = "none"
  BY <1>1, NoReqTyped
<1> QED
  BY <1>1, <1>2 DEF Idle, Doing, Fresh, Giving, Snapshot, ToConnect, Making

(***************************************************************************)
(* A request that ends and leaves the rows and the databases alone.        *)
(***************************************************************************)
LEMMA ThrownStep ==
  ASSUME PjInv, NEW h \in ApiHandlers, ~Idle(h), Pj!Return(h), failed' = TRUE,
         dirty' \in BOOLEAN, dirty => dirty', UNCHANGED <<Pj!store, databases>>,
         ~dirty' => \A p \in Pj!Present : ~Dropped(h, p)
  PROVE  PjInv'
<1>0. PjTypes /\ ConnsOwned /\ (~dirty => PjSerial)
  BY DEF PjInv
<1>1. /\ request' \in [ApiHandlers -> PjReq] /\ Idle(h)'
      /\ \A g \in ApiHandlers \ {h} : request'[g] = request[g]
      /\ Doing(h)' /\ Fresh(h)' /\ Giving(h)'
  BY <1>0, PjReturned
<1>2. PjTypes' /\ ConnsOwned'
  BY <1>0, <1>1 DEF PjTypes, ConnsOwned, Pj!store, Pj!Present
<1>3. ASSUME ~dirty'  PROVE ~dirty /\ \A g \in ApiHandlers \ {h} : Idle(g)
  BY <1>3, <1>0 DEF PjSerial, PjAlone
<1>4. ASSUME ~dirty'  PROVE Apart' /\ Exist'
  <2>1. Apart /\ Exist /\ \A g \in ApiHandlers \ {h} : Idle(g)
    BY <1>3, <1>4, <1>0 DEF PjSerial
  <2>2. \A p \in Pj!Present, g \in ApiHandlers : ~Dropped(g, p)
    BY <1>4, <2>1 DEF Dropped, Idle
  <2> QED
    BY <2>1, <2>2 DEF Apart, Pj!Exclusive, Exist, Pj!Present, Pj!store
<1> QED
  BY <1>1, <1>2, <1>3, <1>4, Whole

(***************************************************************************)
(* What the invariant says of a request at work.                           *)
(***************************************************************************)
LEMMA AtWork ==
  ASSUME PjInv, NEW h \in ApiHandlers, ~Idle(h)
  PROVE  /\ PjTypes /\ Doing(h) /\ ConnsOwned
         /\ ~dirty => /\ \A g \in ApiHandlers \ {h} : Idle(g)
                      /\ Apart /\ Exist /\ Fresh(h) /\ Giving(h)
         /\ ~dirty /\ ~failed => Linked /\ EnvAgrees /\ Snapshot(h) /\ ToConnect(h)
BY DEF PjInv, PjSerial, PjAlone, Agree

LEMMA CandidateTyped ==
  ASSUME Pj!ProjectsAssumption, NEW k \in ResourceKinds, NEW s \in Slugs, NEW r \in Pj!Candidates(k, s)
  PROVE  r \in Pj!ResourceOf(k)
<1>1. CASE k = "db"
  <2>1. Pj!GenerateDbName(s) \subseteq Pj!DbName
    <3>1. \A n \in 0..MaxHash : <<s, n>> \in Pj!DbName
      BY DEF Pj!DbName
    <3>2. 0 \in 0..MaxHash /\ 1..MaxHash \subseteq 0..MaxHash
      BY DEF Pj!ProjectsAssumption
    <3>3. CASE <<s, 0>> \notin databases
      BY <3>1, <3>2, <3>3 DEF Pj!GenerateDbName
    <3>4. CASE <<s, 0>> \in databases
      <4>1. Pj!GenerateDbName(s) \subseteq {<<s, n>> : n \in 1..MaxHash}
        BY <3>4 DEF Pj!GenerateDbName
      <4> QED
        BY <3>1, <3>2, <4>1
    <3> QED
      BY <3>3, <3>4
  <2> QED
    BY <1>1, <2>1 DEF Pj!Candidates, Pj!ResourceOf
<1>2. CASE k = "redis"
  BY <1>2 DEF Pj!Candidates, Pj!ResourceOf, Pj!AllocateDbIndex
<1>3. CASE k = "minio"
  BY <1>3 DEF Pj!Candidates, Pj!ResourceOf, Pj!Bucket
<1> QED
  BY <1>1, <1>2, <1>3 DEF Pj!ProjectsAssumption

(***************************************************************************)
(* A name that is not taken, and an index past all, is nobody's.           *)
(***************************************************************************)
LEMMA CandidateFresh ==
  ASSUME Pj!ProjectsAssumption, PjTypes, Exist, \A h \in ApiHandlers, p \in Pj!Present : ~Dropped(h, p),
         NEW k \in ResourceKinds \ {"minio"}, NEW s \in Slugs, NEW r \in Pj!Candidates(k, s), r # None,
         NEW p \in Pj!Present
  PROVE  row[p].has[k] # r
<1>0. row[p].has \in Pj!MaybeOf
  BY RowTyped
<1>1. CASE k = "db"
  <2>1. r \notin databases
    <3>1. CASE <<s, 0>> \notin databases
      BY <1>1, <3>1 DEF Pj!Candidates, Pj!GenerateDbName
    <3>2. CASE <<s, 0>> \in databases
      BY <1>1, <3>2 DEF Pj!Candidates, Pj!GenerateDbName, Pj!TakenNames
    <3> QED
      BY <3>1, <3>2
  <2> QED
    BY <1>1, <2>1 DEF Exist
<1>2. CASE k = "redis"
  <2>1. row[p].has[k] \in Pj!RedisDb \cup {None}
    BY <1>0, <1>2, MaybeIs DEF Pj!ResourceOf
  <2>2. ASSUME row[p].has[k] = r  PROVE FALSE
    <3>1. r \in {row[q].has["redis"] : q \in Pj!Present} \ {None}
      BY <1>2, <2>2
    <3>2. r \in Pj!RedisDb /\ \A i \in {0} \cup {t[2] : t \in {row[q].has["redis"] : q \in Pj!Present} \ {None}} : i < r[2]
      BY <1>2 DEF Pj!Candidates, Pj!AllocateDbIndex
    <3>3. r[2] < r[2]
      BY <3>1, <3>2
    <3>4. r[2] \in Int
      BY <3>2 DEF Pj!RedisDb
    <3> QED
      BY <3>3, <3>4
  <2> QED
    BY <2>2
<1> QED
  BY <1>1, <1>2 DEF Pj!ProjectsAssumption

LEMMA AllocateStep ==
  ASSUME Pj!ProjectsAssumption, PjInv, NEW h \in ApiHandlers, Pj!Allocate(h)
  PROVE  PjInv'
<1> DEFINE k == Pj!First(request[h].todo)
<1>1. ~Idle(h) /\ request[h].pc = "allocate"
  BY DEF Pj!Allocate, Pj!At, Idle
<1>2. /\ PjTypes /\ Doing(h) /\ ConnsOwned
      /\ ~dirty => /\ \A g \in ApiHandlers \ {h} : Idle(g)
                   /\ Apart /\ Exist /\ Fresh(h) /\ Giving(h)
      /\ ~dirty /\ ~failed => Linked /\ EnvAgrees /\ Snapshot(h) /\ ToConnect(h)
  BY <1>1, AtWork
<1>3. /\ request[h] \in PjReq /\ request[h].todo \in SUBSET ResourceKinds /\ request[h].got \in Pj!MaybeOf
      /\ request[h].op \in {"create", "provision"} /\ request[h].slug \in Slugs
      /\ request[h].todo # {} /\ request[h].p \in Apps
  BY <1>1, <1>2, ReqTyped DEF Doing
<1>4. k \in request[h].todo /\ k \in ResourceKinds
  BY <1>3, FirstIn
<1> HIDE DEF k
<1>5. UNCHANGED <<Pj!store, databases, buckets, updates>>
  BY DEF Pj!Allocate
<1>6. CASE Pj!Candidates(k, request[h].slug) = {}
  <2>1. Pj!Return(h) /\ failed' = TRUE /\ UNCHANGED dirty
    BY <1>6 DEF Pj!Allocate, Pj!Failed, k
  <2>2. \A p \in Pj!Present : ~Dropped(h, p)
    BY <1>1 DEF Dropped
  <2> QED
    BY <1>1, <1>2, <1>5, <2>1, <2>2, ThrownStep DEF PjTypes
<1>7. ASSUME NEW r \in Pj!Candidates(k, request[h].slug),
             request' = [request EXCEPT ![h].got[k] = r, ![h].pc = "provision"], UNCHANGED Pj!outcome
      PROVE  PjInv'
  <2> DEFINE got == [request[h].got EXCEPT ![k] = r]
             u == [request[h] EXCEPT !.got = got, !.pc = "provision"]
  <2>1. r \in Pj!ResourceOf(k)
    BY <1>3, <1>4, <1>7, CandidateTyped
  <2>2. got \in Pj!MaybeOf /\ got[k] = r /\ \A j \in ResourceKinds \ {k} : got[j] = request[h].got[j]
    BY <1>3, <1>4, <2>1, MaybeSet
  <2> HIDE DEF got
  <2>3. u \in PjReq /\ u.pc = "provision" /\ u.got = got
        /\ u.op = request[h].op /\ u.p = request[h].p /\ u.slug = request[h].slug
        /\ u.todo = request[h].todo /\ u.env = request[h].env
    BY <1>3, <2>2 DEF PjReq, PjPcs
  <2>4. request' = [request EXCEPT ![h] = u]
    BY <1>7 DEF got
  <2> HIDE DEF u
  <2>5. request' \in [ApiHandlers -> PjReq] /\ request'[h] = u /\ \A g \in ApiHandlers \ {h} : request'[g] = request[g]
    BY <1>2, <2>3, <2>4, PjMoved
  <2>6. PjTypes' /\ ConnsOwned'
    BY <1>2, <1>5, <1>7, <2>5 DEF PjTypes, ConnsOwned, Pj!store, Pj!outcome, Pj!Present
  <2>7. Doing(h)'
    <3>1. ASSUME request[h].op = "provision"  PROVE \E j \in ResourceKinds : u.todo \cup Pj!Got(h)' \subseteq {j}
      <4>1. PICK j \in ResourceKinds : request[h].todo \cup Pj!Got(h) \subseteq {j}
        BY <1>2, <3>1 DEF Doing
      <4>2. j = k
        BY <1>4, <4>1
      <4>3. Pj!Got(h)' \subseteq {k}
        BY <2>2, <2>3, <2>5, <4>1, <4>2 DEF Pj!Got
      <4> QED
        BY <1>3, <2>3, <4>1, <4>2, <4>3
    <3> QED
      BY <1>2, <1>3, <2>3, <2>5, <3>1 DEF Doing
  <2>8. ASSUME ~dirty'
        PROVE  ~dirty /\ (\A g \in ApiHandlers \ {h} : Idle(g)) /\ Apart' /\ Exist' /\ Fresh(h)' /\ Giving(h)'
    <3>1. ~dirty
      BY <1>7, <2>8 DEF Pj!outcome
    <3>2. \A g \in ApiHandlers, p \in Pj!Present : ~Dropped(g, p)
      BY <1>1, <1>2, <3>1 DEF Dropped, Idle
    <3>3. Apart' /\ Exist'
      BY <1>2, <1>5, <3>1, <3>2 DEF Apart, Pj!Exclusive, Exist, Pj!Present, Pj!store
    <3>4. \A p \in Pj!Present : k # "minio" /\ r # None => row[p].has[k] # r
      BY <1>2, <1>3, <1>4, <1>7, <3>1, <3>2, CandidateFresh
    <3>5. Fresh(h)'
      BY <1>1, <1>2, <1>3, <1>4, <1>5, <2>2, <2>3, <2>5, <3>1, <3>4
         DEF Fresh, Making, Pj!Present, Pj!store
    <3>6. Giving(h)'
      BY <2>3, <2>5 DEF Giving
    <3> QED
      BY <1>2, <3>1, <3>3, <3>5, <3>6
  <2>9. ASSUME ~dirty', ~failed'
        PROVE  Linked' /\ EnvAgrees' /\ Snapshot(h)' /\ ToConnect(h)'
    <3>1. ~dirty /\ ~failed
      BY <1>7, <2>9 DEF Pj!outcome
    <3>2. \A g \in ApiHandlers, p \in Pj!Present, j \in ResourceKinds : ~Linking(g, p, j)
      BY <1>1, <1>2, <3>1 DEF Linking, Idle
    <3>3. Linked' /\ EnvAgrees'
      BY <1>2, <1>5, <3>1, <3>2 DEF Linked, EnvAgrees, ConnOf, ConnsIn, Pj!Present, Pj!store
    <3>4. Snapshot(h)'
      BY <1>1, <1>2, <1>3, <1>4, <1>5, <2>2, <2>3, <2>5, <3>1
         DEF Snapshot, Making, Pj!Present, Pj!store, Pj!Got
    <3> QED
      BY <2>3, <2>5, <3>3, <3>4 DEF ToConnect
  <2> QED
    BY <2>5, <2>6, <2>7, <2>8, <2>9, Whole
<1> QED
  BY <1>6, <1>7 DEF Pj!Allocate, k
LEMMA ProvisionStep ==
  ASSUME Pj!ProjectsAssumption, PjInv, NEW h \in ApiHandlers, Pj!Provision(h)
  PROVE  PjInv'
<1> DEFINE k == Pj!First(request[h].todo)
           todo == request[h].todo \ {k}
           nextEnv == [request[h].env EXCEPT ![k] = request[h].got[k]]
           pc == IF todo # {} THEN "allocate"
                 ELSE IF request[h].op = "create" THEN "insert" ELSE "write"
           u == [request[h] EXCEPT !.todo = todo, !.env = nextEnv, !.pc = pc]
<1>1. ~Idle(h) /\ request[h].pc = "provision"
  BY DEF Pj!Provision, Pj!At, Idle
<1>2. /\ PjTypes /\ Doing(h) /\ ConnsOwned
      /\ ~dirty => /\ \A g \in ApiHandlers \ {h} : Idle(g)
                   /\ Apart /\ Exist /\ Fresh(h) /\ Giving(h)
      /\ ~dirty /\ ~failed => Linked /\ EnvAgrees /\ Snapshot(h) /\ ToConnect(h)
  BY <1>1, AtWork
<1>3. /\ request[h] \in PjReq /\ request[h].todo \in SUBSET ResourceKinds
      /\ request[h].got \in Pj!MaybeOf /\ request[h].env \in Pj!MaybeOf
      /\ request[h].op \in {"create", "provision"} /\ request[h].slug \in Slugs
      /\ request[h].todo # {} /\ request[h].p \in Apps
  BY <1>1, <1>2, ReqTyped DEF Doing
<1>4. k \in request[h].todo /\ k \in ResourceKinds
  BY <1>3, FirstIn
<1>5. /\ databases' = IF k = "db" THEN databases \cup {request[h].got[k]} ELSE databases
      /\ request' = [request EXCEPT ![h] = u] /\ UNCHANGED <<Pj!store, Pj!outcome>>
  BY DEF Pj!Provision
<1> HIDE DEF k
<1>6. nextEnv \in Pj!MaybeOf /\ nextEnv[k] = request[h].got[k] /\ \A j \in ResourceKinds \ {k} : nextEnv[j] = request[h].env[j]
  <2>1. request[h].got[k] \in Pj!ResourceOf(k) \cup {None}
    BY <1>3, <1>4, MaybeIs
  <2> QED
    BY <1>3, <1>4, <2>1, MaybeSet
<1> HIDE DEF nextEnv
<1>7. pc \in {"allocate", "insert", "write"} /\ (pc = "allocate" <=> todo # {})
      /\ (pc = "insert" <=> todo = {} /\ request[h].op = "create")
  OBVIOUS
<1>8. todo \in SUBSET ResourceKinds /\ todo \subseteq request[h].todo /\ k \notin todo
      /\ \A j \in ResourceKinds \ {k} : j \in todo <=> j \in request[h].todo
  BY <1>3
<1> HIDE DEF pc, todo
<1>9. u \in PjReq /\ u.pc = pc /\ u.got = request[h].got
      /\ u.op = request[h].op /\ u.p = request[h].p /\ u.slug = request[h].slug
      /\ u.todo = todo /\ u.env = nextEnv
  BY <1>3, <1>6, <1>7, <1>8 DEF PjReq, PjPcs
<1> HIDE DEF u
<1>10. request' \in [ApiHandlers -> PjReq] /\ request'[h] = u /\ \A g \in ApiHandlers \ {h} : request'[g] = request[g]
  BY <1>2, <1>5, <1>9, PjMoved
<1>11. PjTypes' /\ ConnsOwned'
  BY <1>2, <1>5, <1>10 DEF PjTypes, ConnsOwned, Pj!store, Pj!outcome, Pj!Present
<1>12. Doing(h)'
  <2>1. ASSUME request[h].op = "provision"  PROVE \E j \in ResourceKinds : u.todo \cup Pj!Got(h)' \subseteq {j}
    <3>1. PICK j \in ResourceKinds : request[h].todo \cup Pj!Got(h) \subseteq {j}
      BY <1>2, <2>1 DEF Doing
    <3>2. Pj!Got(h)' = Pj!Got(h)
      BY <1>9, <1>10 DEF Pj!Got
    <3> QED
      BY <1>8, <1>9, <3>1, <3>2
  <2> QED
    BY <1>2, <1>3, <1>7, <1>9, <1>10, <2>1 DEF Doing
<1>13. ASSUME ~dirty'
       PROVE  ~dirty /\ (\A g \in ApiHandlers \ {h} : Idle(g)) /\ Apart' /\ Exist' /\ Fresh(h)' /\ Giving(h)'
  <2>1. ~dirty
    BY <1>5, <1>13 DEF Pj!outcome
  <2>2. \A g \in ApiHandlers, p \in Pj!Present : ~Dropped(g, p)
    BY <1>1, <1>2, <2>1 DEF Dropped, Idle
  <2>3. Apart' /\ Exist'
    BY <1>2, <1>5, <2>1, <2>2 DEF Apart, Pj!Exclusive, Exist, Pj!Present, Pj!store
  <2>4. Fresh(h)'
    BY <1>1, <1>2, <1>3, <1>4, <1>5, <1>8, <1>9, <1>10, <2>1 DEF Fresh, Making, Pj!Present, Pj!store
  <2>5. Giving(h)'
    BY <1>3, <1>9, <1>10 DEF Giving
  <2> QED
    BY <1>2, <2>1, <2>3, <2>4, <2>5
<1>14. ASSUME ~dirty', ~failed'
       PROVE  Linked' /\ EnvAgrees' /\ Snapshot(h)' /\ ToConnect(h)'
  <2>1. ~dirty /\ ~failed
    BY <1>5, <1>14 DEF Pj!outcome
  <2>2. \A g \in ApiHandlers, p \in Pj!Present, j \in ResourceKinds : ~Linking(g, p, j)
    BY <1>1, <1>2, <2>1 DEF Linking, Idle
  <2>3. Linked' /\ EnvAgrees'
    BY <1>2, <1>5, <2>1, <2>2 DEF Linked, EnvAgrees, ConnOf, ConnsIn, Pj!Present, Pj!store
  <2>4. Snapshot(h)'
    <3>1. Making(h) /\ Snapshot(h)
      BY <1>1, <1>2, <1>3, <2>1 DEF Making
    <3>2. CASE request[h].op = "create"
      BY <1>4, <1>5, <1>6, <1>8, <1>9, <1>10, <3>1, <3>2 DEF Snapshot, Making, Pj!Present, Pj!store
    <3>3. CASE request[h].op = "provision"
      BY <1>4, <1>5, <1>6, <1>8, <1>9, <1>10, <3>1, <3>3 DEF Snapshot, Making, Pj!Present, Pj!store, Pj!Got
    <3> QED
      BY <1>3, <3>2, <3>3
  <2> QED
    BY <1>7, <1>9, <1>10, <2>3, <2>4 DEF ToConnect
<1> QED
  BY <1>10, <1>11, <1>12, <1>13, <1>14, Whole

LEMMA InsertProjectStep ==
  ASSUME Pj!ProjectsAssumption, PjInv, NEW h \in ApiHandlers, Pj!InsertProject(h)
  PROVE  PjInv'
<1>0. PICK p : p = request[h].p
  OBVIOUS
<1> DEFINE new == [slug |-> request[h].slug, has |-> request[h].got, env |-> request[h].env]
           u == [request[h] EXCEPT !.pc = "connect", !.todo = Pj!Got(h)]
<1>1. ~Idle(h) /\ request[h].pc = "insert"
  BY DEF Pj!InsertProject, Pj!At, Idle
<1>2. /\ PjTypes /\ Doing(h) /\ ConnsOwned
      /\ ~dirty => /\ \A g \in ApiHandlers \ {h} : Idle(g)
                   /\ Apart /\ Exist /\ Fresh(h) /\ Giving(h)
      /\ ~dirty /\ ~failed => Linked /\ EnvAgrees /\ Snapshot(h) /\ ToConnect(h)
  BY <1>1, AtWork
<1>3. /\ request[h] \in PjReq /\ request[h].todo = {} /\ request[h].got \in Pj!MaybeOf /\ request[h].env \in Pj!MaybeOf
      /\ request[h].op = "create" /\ request[h].slug \in Slugs /\ p \in Apps
  BY <1>0, <1>1, <1>2, ReqTyped DEF Doing
<1>4. UNCHANGED <<conn, databases, buckets, updates>>
  BY DEF Pj!InsertProject
<1>5. ASSUME Pj!Return(h), Pj!Failed, UNCHANGED row  PROVE PjInv'
  <2>1. \A q \in Pj!Present : ~Dropped(h, q)
    BY <1>1 DEF Dropped
  <2> QED
    BY <1>1, <1>2, <1>4, <1>5, <2>1, ThrownStep DEF PjTypes, Pj!Failed, Pj!store
<1>6. ASSUME row' = [row EXCEPT ![p] = new], UNCHANGED Pj!outcome,
             IF Pj!Got(h) = {} THEN Pj!Return(h) ELSE request' = [request EXCEPT ![h] = u]
      PROVE  PjInv'
  <2>1. new \in Pj!Row /\ new # None /\ new.slug = request[h].slug /\ new.has = request[h].got
        /\ new.env = request[h].env
    BY <1>3 DEF Pj!Row, Pj!ProjectsAssumption
  <2> HIDE DEF new
  <2>2. row' \in [Apps -> Pj!Row \cup {None}] /\ row'[p] = new
        /\ (\A q \in Apps \ {p} : row'[q] = row[q]) /\ Pj!Present' = Pj!Present \cup {p}
    BY <1>2, <1>3, <1>6, <2>1 DEF PjTypes, Pj!Present
  <2>3. u \in PjReq /\ u.pc = "connect" /\ u.todo = Pj!Got(h) /\ u.op = "create" /\ u.p = p
        /\ u.got = request[h].got /\ u.env = request[h].env
    BY <1>0, <1>3 DEF PjReq, PjPcs, Pj!Got
  <2> HIDE DEF u
  <2>4. request' \in [ApiHandlers -> PjReq] /\ \A g \in ApiHandlers \ {h} : request'[g] = request[g]
    BY <1>2, <1>6, <2>3, PjMoved, PjReturned
  <2>5. \/ /\ Pj!Got(h) = {} /\ Idle(h)' /\ Doing(h)'
           /\ Snapshot(h)' /\ ToConnect(h)' /\ Fresh(h)' /\ Giving(h)'
        \/ Pj!Got(h) # {} /\ request'[h] = u
    <3>1. CASE Pj!Got(h) = {}
      <4>1. Pj!Return(h)
        BY <1>6, <3>1
      <4> QED
        BY <1>2, <3>1, <4>1, PjReturned
    <3>2. CASE Pj!Got(h) # {}
      BY <1>2, <1>6, <2>3, <3>2, PjMoved
    <3> QED
      BY <3>1, <3>2
  <2>6. PjTypes' /\ ConnsOwned'
    BY <1>2, <1>4, <1>6, <2>2, <2>4 DEF PjTypes, ConnsOwned, Pj!outcome
  <2>7. Doing(h)'
    BY <1>3, <2>3, <2>5 DEF Doing, Pj!Got
  <2>8. ASSUME ~dirty'
        PROVE  ~dirty /\ (\A g \in ApiHandlers \ {h} : Idle(g)) /\ Apart' /\ Exist' /\ Fresh(h)' /\ Giving(h)'
    <3>1. ~dirty
      BY <1>6, <2>8 DEF Pj!outcome
    <3>2. \A g \in ApiHandlers, q \in Pj!Present : ~Dropped(g, q)
      BY <1>1, <1>2, <3>1 DEF Dropped, Idle
    <3>3. \A k \in ResourceKinds \ {"minio"} : request[h].got[k] # None =>
            /\ \A q \in Pj!Present : row[q].has[k] # request[h].got[k]
            /\ k = "db" => request[h].got[k] \in databases
      BY <1>1, <1>2, <1>3, <3>1 DEF Fresh, Making
    <3>4. Apart'
      BY <1>2, <2>1, <2>2, <3>1, <3>3 DEF Apart, Pj!Exclusive, Pj!Present
    <3>5. Exist'
      BY <1>2, <1>4, <2>1, <2>2, <3>1, <3>2, <3>3 DEF Exist, Pj!Present
    <3>6. Fresh(h)' /\ Giving(h)'
      BY <2>3, <2>5 DEF Fresh, Giving, Making
    <3> QED
      BY <1>2, <3>1, <3>4, <3>5, <3>6
  <2>9. ASSUME ~dirty', ~failed'
        PROVE  Linked' /\ EnvAgrees' /\ Snapshot(h)' /\ ToConnect(h)'
    <3>1. ~dirty /\ ~failed
      BY <1>6, <2>9 DEF Pj!outcome
    <3>2. \A g \in ApiHandlers, q \in Pj!Present, j \in ResourceKinds : ~Linking(g, q, j)
      BY <1>1, <1>2, <3>1 DEF Linking, Idle
    <3>3. p \notin Pj!Present
          /\ \A k \in ResourceKinds : request[h].env[k] \in {None, request[h].got[k]}
      BY <1>0, <1>1, <1>2, <1>3, <3>1 DEF Snapshot, Making
    <3>4. \A k \in ResourceKinds : ConnOf(p, k)' = {}
      <4>1. \A c \in conn : c[1] # p
        BY <1>2, <3>3 DEF ConnsOwned
      <4> QED
        BY <1>4, <4>1 DEF ConnOf, ConnsIn
    <3>5. \A q \in Pj!Present, k \in ResourceKinds : ConnOf(q, k)' = {row'[q].has[k]} \ {None}
      BY <1>2, <1>4, <2>2, <3>1, <3>2, <3>3 DEF Linked, ConnOf, Pj!Present
    <3>6. EnvAgrees'
      BY <1>2, <2>1, <2>2, <3>1, <3>3 DEF EnvAgrees, Pj!Present
    <3>7. Linked'
      <4>1. ASSUME NEW k \in ResourceKinds, new.has[k] # None  PROVE Linking(h, p, k)'
        BY <2>1, <2>3, <2>5, <4>1 DEF Linking, Pj!Got
      <4>2. ASSUME NEW k \in ResourceKinds
            PROVE  ConnOf(p, k)' = {row'[p].has[k]} \ {None} \/ Linking(h, p, k)'
        BY <2>1, <2>2, <3>4, <4>1
      <4> QED
        BY <2>2, <3>5, <4>2 DEF Linked
    <3>8. ToConnect(h)'
      <4>1. CASE Idle(h)'
        BY <4>1 DEF ToConnect, Idle
      <4>2. CASE request'[h] = u
        BY <2>1, <2>2, <2>3, <3>4, <4>2 DEF ToConnect, Pj!Got
      <4> QED
        BY <2>5, <4>1, <4>2
    <3>9. Snapshot(h)'
      BY <2>3, <2>5 DEF Snapshot, Making
    <3> QED
      BY <3>6, <3>7, <3>8, <3>9
  <2> QED
    BY <2>4, <2>6, <2>7, <2>8, <2>9, Whole
<1> QED
  BY <1>0, <1>5, <1>6 DEF Pj!InsertProject

(***************************************************************************)
(* The connections of a project after one is added.                        *)
(***************************************************************************)
LEMMA ConnIs ==
  ASSUME NEW S, NEW p, NEW k, NEW x
  PROVE  x \in ConnsIn(S, p, k) <=> \E c \in S : c[1] = p /\ c[2] = k /\ x = c[3]
BY DEF ConnsIn

LEMMA ConnAdded ==
  ASSUME NEW S, NEW T, NEW c, NEW p, NEW k, c[1] = p, c[2] = k,
         \A d : d \in T <=> d \in S \/ d = c
  PROVE  ConnsIn(T, p, k) = ConnsIn(S, p, k) \cup {c[3]}
<1>1. ASSUME NEW x
      PROVE  x \in ConnsIn(T, p, k) <=> x \in ConnsIn(S, p, k) \/ x = c[3]
  BY ConnIs
<1> QED
  BY <1>1

LEMMA ConnSame ==
  ASSUME NEW S, NEW T, NEW q, NEW j,
         \A c : c[1] = q /\ c[2] = j => (c \in T <=> c \in S)
  PROVE  ConnsIn(T, q, j) = ConnsIn(S, q, j)
<1>1. ASSUME NEW x
      PROVE  x \in ConnsIn(T, q, j) <=> x \in ConnsIn(S, q, j)
  BY ConnIs
<1> QED
  BY <1>1

LEMMA ConnGone ==
  ASSUME NEW T, NEW q, NEW j, \A c \in T : ~(c[1] = q /\ c[2] = j)
  PROVE  ConnsIn(T, q, j) = {}
BY DEF ConnsIn

LEMMA ConnectStep ==
  ASSUME Pj!ProjectsAssumption, PjInv, NEW h \in ApiHandlers, Pj!Connect(h)
  PROVE  PjInv'
<1>0. PICK p : p = request[h].p
  OBVIOUS
<1> DEFINE k == Pj!First(request[h].todo)
           todo == request[h].todo \ {k}
           u == [request[h] EXCEPT !.todo = todo]
<1>1. ~Idle(h) /\ request[h].pc = "connect"
  BY DEF Pj!Connect, Pj!At, Idle
<1>2. /\ PjTypes /\ Doing(h) /\ ConnsOwned
      /\ ~dirty => /\ \A g \in ApiHandlers \ {h} : Idle(g)
                   /\ Apart /\ Exist /\ Fresh(h) /\ Giving(h)
      /\ ~dirty /\ ~failed => Linked /\ EnvAgrees /\ Snapshot(h) /\ ToConnect(h)
  BY <1>1, AtWork
<1>3. /\ request[h] \in PjReq /\ request[h].todo \in SUBSET ResourceKinds /\ request[h].todo # {}
      /\ request[h].op \in {"create", "provision"} /\ p \in Apps
      /\ \A j \in request[h].todo : request[h].got[j] # None
  BY <1>0, <1>1, <1>2, ReqTyped DEF Doing
<1>4. UNCHANGED <<row, databases, buckets, updates>>
  BY DEF Pj!Connect
<1>5. ASSUME Pj!Return(h), Pj!Failed, UNCHANGED conn  PROVE PjInv'
  <2>1. \A q \in Pj!Present : ~Dropped(h, q)
    BY <1>1 DEF Dropped
  <2> QED
    BY <1>1, <1>2, <1>4, <1>5, <2>1, ThrownStep DEF PjTypes, Pj!Failed, Pj!store
<1>6. ASSUME p \in Pj!Present, conn' = conn \cup {<<p, k, request[h].got[k]>>}, UNCHANGED Pj!outcome,
             IF todo = {} THEN Pj!Return(h) ELSE request' = [request EXCEPT ![h] = u]
      PROVE  PjInv'
  <2>1. k \in request[h].todo /\ k \in ResourceKinds
    BY <1>3, FirstIn
  <2> HIDE DEF k
  <2>2. u \in PjReq /\ u.pc = "connect" /\ u.todo = todo /\ u.op = request[h].op /\ u.p = p
        /\ u.got = request[h].got /\ u.env = request[h].env
    BY <1>0, <1>1, <1>3 DEF PjReq
  <2>3. todo \subseteq request[h].todo /\ k \notin todo /\ \A j \in request[h].todo : j # k => j \in todo
    OBVIOUS
  <2> HIDE DEF u, todo
  <2>4. request' \in [ApiHandlers -> PjReq] /\ \A g \in ApiHandlers \ {h} : request'[g] = request[g]
    BY <1>2, <1>6, <2>2, PjMoved, PjReturned
  <2>5. \/ /\ todo = {} /\ Idle(h)' /\ Doing(h)'
           /\ Snapshot(h)' /\ ToConnect(h)' /\ Fresh(h)' /\ Giving(h)'
        \/ todo # {} /\ request'[h] = u
    <3>1. CASE todo = {}
      <4>1. Pj!Return(h)
        BY <1>6, <3>1
      <4> QED
        BY <1>2, <3>1, <4>1, PjReturned
    <3>2. CASE todo # {}
      BY <1>2, <1>6, <2>2, <3>2, PjMoved
    <3> QED
      BY <3>1, <3>2
  <2>6. PjTypes' /\ ConnsOwned'
    BY <1>2, <1>4, <1>6, <2>4 DEF PjTypes, ConnsOwned, Pj!outcome, Pj!Present
  <2>7. Doing(h)'
    <3>1. CASE todo # {} /\ request'[h] = u
      <4>1. ASSUME request[h].op = "provision"  PROVE \E j \in ResourceKinds : u.todo \cup Pj!Got(h)' \subseteq {j}
        <5>1. PICK j \in ResourceKinds : request[h].todo \cup Pj!Got(h) \subseteq {j}
          BY <1>2, <4>1 DEF Doing
        <5>2. Pj!Got(h)' = Pj!Got(h)
          BY <2>2, <3>1 DEF Pj!Got
        <5> QED
          BY <2>2, <2>3, <5>1, <5>2
      <4> QED
        BY <1>3, <2>2, <2>3, <3>1, <4>1 DEF Doing
    <3> QED
      BY <2>5, <3>1
  <2>8. ASSUME ~dirty'
        PROVE  ~dirty /\ (\A g \in ApiHandlers \ {h} : Idle(g)) /\ Apart' /\ Exist' /\ Fresh(h)' /\ Giving(h)'
    <3>1. ~dirty
      BY <1>6, <2>8 DEF Pj!outcome
    <3>2. \A g \in ApiHandlers, q \in Pj!Present : ~Dropped(g, q)
      BY <1>1, <1>2, <3>1 DEF Dropped, Idle
    <3>3. Apart' /\ Exist'
      BY <1>2, <1>4, <3>1, <3>2 DEF Apart, Pj!Exclusive, Exist, Pj!Present
    <3>4. Fresh(h)' /\ Giving(h)'
      BY <2>2, <2>5 DEF Fresh, Giving, Making
    <3> QED
      BY <1>2, <3>1, <3>3, <3>4
  <2>9. ASSUME ~dirty', ~failed'
        PROVE  Linked' /\ EnvAgrees' /\ Snapshot(h)' /\ ToConnect(h)'
    <3>1. ~dirty /\ ~failed
      BY <1>6, <2>9 DEF Pj!outcome
    <3>2. EnvAgrees' /\ Pj!Present' = Pj!Present
      BY <1>2, <1>4, <3>1 DEF EnvAgrees, Pj!Present
    <3>3. \A j \in request[h].todo : ConnOf(p, j) = {} /\ row[p].has[j] = request[h].got[j]
      BY <1>0, <1>1, <1>2, <1>6, <3>1 DEF ToConnect
    <3>4. ASSUME NEW q \in Apps, NEW j \in ResourceKinds
          PROVE  /\ q = p /\ j = k => ConnOf(q, j)' = ConnOf(q, j) \cup {request[h].got[k]}
                 /\ ~(q = p /\ j = k) => ConnOf(q, j)' = ConnOf(q, j)
      <4>1. \A c : c \in conn' <=> c \in conn \/ c = <<p, k, request[h].got[k]>>
        BY <1>6
      <4>2. CASE q = p /\ j = k
        <5>1. PICK c : c = <<q, j, request[h].got[k]>>
          OBVIOUS
        <5>2. c[1] = q /\ c[2] = j /\ c[3] = request[h].got[k]
          BY <5>1
        <5>3. \A d : d \in conn' <=> d \in conn \/ d = c
          BY <4>1, <4>2, <5>1
        <5>4. ConnsIn(conn', q, j) = ConnsIn(conn, q, j) \cup {c[3]}
          BY <5>2, <5>3, ConnAdded, SMTT(30)
        <5> QED
          BY <4>2, <5>2, <5>4 DEF ConnOf
      <4>3. CASE ~(q = p /\ j = k)
        <5>1. \A c : c[1] = q /\ c[2] = j => (c \in conn' <=> c \in conn)
          BY <4>1, <4>3
        <5> QED
          BY <4>3, <5>1, ConnSame DEF ConnOf
      <4> QED
        BY <4>2, <4>3
    <3>5. Linked'
      <4> SUFFICES ASSUME NEW q \in Pj!Present, NEW j \in ResourceKinds
                   PROVE  ConnOf(q, j)' = {row'[q].has[j]} \ {None} \/ Linking(h, q, j)'
        BY <3>2 DEF Linked
      <4>0. q \in Apps
        BY DEF Pj!Present
      <4>1. CASE q = p /\ j = k
        <5>1. ConnOf(q, j)' = {request[h].got[k]} /\ request[h].got[k] # None
          BY <1>3, <2>1, <3>3, <3>4, <4>0, <4>1
        <5>2. row'[q].has[j] = request[h].got[k]
          BY <1>4, <2>1, <3>3, <4>1
        <5> QED
          BY <5>1, <5>2
      <4>2. CASE ~(q = p /\ j = k) /\ Linking(h, q, j)
        BY <1>0, <2>2, <2>3, <2>5, <4>2 DEF Linking
      <4>3. CASE ~(q = p /\ j = k) /\ ~Linking(h, q, j)
        <5>1. \A g \in ApiHandlers : ~Linking(g, q, j)
          BY <1>0, <1>2, <3>1, <4>3 DEF Linking, Idle
        <5>2. ConnOf(q, j) = {row[q].has[j]} \ {None}
          BY <1>2, <3>1, <5>1 DEF Linked
        <5> QED
          BY <1>4, <3>4, <4>0, <4>3, <5>2
      <4> QED
        BY <4>1, <4>2, <4>3
    <3>6. ToConnect(h)'
      <4>1. CASE Idle(h)'
        BY <4>1 DEF ToConnect, Idle
      <4>2. CASE request'[h] = u
        <5>1. ASSUME NEW j \in todo  PROVE ConnOf(p, j)' = {} /\ row'[p].has[j] = request[h].got[j]
          BY <1>3, <1>4, <2>3, <3>3, <3>4
        <5> QED
          BY <2>2, <4>2, <5>1 DEF ToConnect
      <4> QED
        BY <2>5, <4>1, <4>2
    <3>7. Snapshot(h)'
      BY <2>2, <2>5 DEF Snapshot, Making
    <3> QED
      BY <3>2, <3>5, <3>6, <3>7
  <2> QED
    BY <2>4, <2>6, <2>7, <2>8, <2>9, Whole
<1> QED
  BY <1>0, <1>5, <1>6 DEF Pj!Connect

LEMMA WriteProvisionedStep ==
  ASSUME Pj!ProjectsAssumption, PjInv, NEW h \in ApiHandlers, Pj!WriteProvisioned(h)
  PROVE  PjInv'
<1>0. PICK p : p = request[h].p
  OBVIOUS
<1>1. ~Idle(h) /\ request[h].pc = "write" /\ request[h].op = "provision"
  BY DEF Pj!WriteProvisioned, Pj!At, Idle
<1>2. /\ PjTypes /\ Doing(h) /\ ConnsOwned
      /\ ~dirty => /\ \A g \in ApiHandlers \ {h} : Idle(g)
                   /\ Apart /\ Exist /\ Fresh(h) /\ Giving(h)
      /\ ~dirty /\ ~failed => Linked /\ EnvAgrees /\ Snapshot(h) /\ ToConnect(h)
  BY <1>1, AtWork
<1>3. /\ request[h] \in PjReq /\ request[h].todo = {} /\ request[h].got \in Pj!MaybeOf /\ request[h].env \in Pj!MaybeOf
      /\ p \in Apps
  BY <1>0, <1>1, <1>2, ReqTyped DEF Doing
<1>4. UNCHANGED <<conn, databases, buckets, updates>>
  BY DEF Pj!WriteProvisioned
<1>5. ASSUME Pj!Return(h), Pj!Failed, UNCHANGED row  PROVE PjInv'
  <2>1. \A q \in Pj!Present : ~Dropped(h, q)
    BY <1>1 DEF Dropped
  <2> QED
    BY <1>1, <1>2, <1>4, <1>5, <2>1, ThrownStep DEF PjTypes, Pj!Failed, Pj!store
<1>6. ASSUME NEW k \in Pj!Got(h), p \in Pj!Present, UNCHANGED Pj!outcome,
             row' = [row EXCEPT ![p].has[k] = request[h].got[k], ![p].env = request[h].env],
             request' = [request EXCEPT ![h].pc = "connect", ![h].todo = {k}]
      PROVE  PjInv'
  <2> DEFINE has == [row[p].has EXCEPT ![k] = request[h].got[k]]
             new == [row[p] EXCEPT !.has = has, !.env = request[h].env]
             u == [request[h] EXCEPT !.pc = "connect", !.todo = {k}]
  <2>0. k \in ResourceKinds /\ request[h].got[k] # None /\ request[h].got[k] \in Pj!ResourceOf(k) \cup {None}
    BY <1>3, MaybeIs DEF Pj!Got
  <2>1. row[p] \in Pj!Row /\ row[p].has \in Pj!MaybeOf
    BY <1>2, <1>6, RowTyped
  <2>2. has \in Pj!MaybeOf /\ has[k] = request[h].got[k] /\ \A j \in ResourceKinds \ {k} : has[j] = row[p].has[j]
    BY <2>0, <2>1, MaybeSet
  <2>3. row' = [row EXCEPT ![p] = new]
    BY <1>6
  <2> HIDE DEF has
  <2>4. new \in Pj!Row /\ new # None /\ new.has = has /\ new.env = request[h].env
    BY <1>3, <2>1, <2>2 DEF Pj!Row, Pj!ProjectsAssumption
  <2> HIDE DEF new
  <2>5. row' \in [Apps -> Pj!Row \cup {None}] /\ row'[p] = new
        /\ (\A q \in Apps \ {p} : row'[q] = row[q]) /\ Pj!Present' = Pj!Present
    BY <1>2, <1>3, <1>6, <2>3, <2>4 DEF PjTypes, Pj!Present
  <2>6. u \in PjReq /\ u.pc = "connect" /\ u.todo = {k} /\ u.op = "provision" /\ u.p = p
        /\ u.got = request[h].got
    BY <1>0, <1>1, <1>3, <2>0 DEF PjReq, PjPcs
  <2>7. request' = [request EXCEPT ![h] = u]
    BY <1>6
  <2> HIDE DEF u
  <2>8. request' \in [ApiHandlers -> PjReq] /\ request'[h] = u /\ \A g \in ApiHandlers \ {h} : request'[g] = request[g]
    BY <1>2, <2>6, <2>7, PjMoved
  <2>9. PjTypes' /\ ConnsOwned'
    BY <1>2, <1>4, <1>6, <2>5, <2>8 DEF PjTypes, ConnsOwned, Pj!outcome
  <2>10. Pj!Got(h)' = Pj!Got(h) /\ Pj!Got(h) = {k}
    BY <1>1, <1>2, <1>6, <2>6, <2>8 DEF Pj!Got, Doing
  <2>11. Doing(h)'
    BY <1>3, <2>0, <2>6, <2>8, <2>10 DEF Doing
  <2>12. ASSUME ~dirty'
         PROVE  ~dirty /\ (\A g \in ApiHandlers \ {h} : Idle(g)) /\ Apart' /\ Exist' /\ Fresh(h)' /\ Giving(h)'
    <3>1. ~dirty
      BY <1>6, <2>12 DEF Pj!outcome
    <3>2. \A g \in ApiHandlers, q \in Pj!Present : ~Dropped(g, q)
      BY <1>1, <1>2, <3>1 DEF Dropped, Idle
    <3>3. /\ k # "minio" => \A q \in Pj!Present : row[q].has[k] # request[h].got[k]
          /\ k = "db" => request[h].got[k] \in databases
      BY <1>1, <1>2, <1>3, <2>0, <3>1 DEF Fresh, Making
    <3>4. Apart'
      <4> SUFFICES ASSUME NEW j \in ResourceKinds \ {"minio"}, NEW q1 \in Pj!Present, NEW q2 \in Pj!Present,
                          row'[q1].has[j] # None, row'[q1].has[j] = row'[q2].has[j]
                   PROVE  q1 = q2
        BY <2>5 DEF Apart, Pj!Exclusive
      <4>1. CASE j # k
        BY <1>2, <2>2, <2>4, <2>5, <3>1, <4>1 DEF Apart, Pj!Exclusive, Pj!Present
      <4>2. CASE j = k
        <5>1. CASE q1 # p /\ q2 # p
          BY <1>2, <2>5, <3>1, <5>1 DEF Apart, Pj!Exclusive, Pj!Present
        <5>2. CASE q1 = p \/ q2 = p
          BY <2>2, <2>4, <2>5, <3>3, <4>2, <5>2 DEF Pj!Present
        <5> QED
          BY <5>1, <5>2
      <4> QED
        BY <4>1, <4>2
    <3>5. Exist'
      BY <1>2, <1>4, <2>2, <2>4, <2>5, <3>1, <3>2, <3>3 DEF Exist, Pj!Present
    <3>6. Fresh(h)' /\ Giving(h)'
      BY <2>6, <2>8 DEF Fresh, Giving, Making
    <3> QED
      BY <1>2, <3>1, <3>4, <3>5, <3>6
  <2>13. ASSUME ~dirty', ~failed'
         PROVE  Linked' /\ EnvAgrees' /\ Snapshot(h)' /\ ToConnect(h)'
    <3>1. ~dirty /\ ~failed
      BY <1>6, <2>13 DEF Pj!outcome
    <3>2. \A g \in ApiHandlers, q \in Pj!Present, j \in ResourceKinds : ~Linking(g, q, j)
      BY <1>1, <1>2, <3>1 DEF Linking, Idle
    <3>3. \A q, j : ConnOf(q, j)' = ConnOf(q, j)
      BY <1>4 DEF ConnOf
    <3>4. /\ row[p].has[k] = None /\ request[h].env[k] \in {None, request[h].got[k]}
          /\ \A j \in ResourceKinds \ {k} : request[h].env[j] \in {None, row[p].has[j]}
      BY <1>0, <1>1, <1>2, <1>3, <1>6, <2>0, <2>10, <3>1 DEF Snapshot, Making
    <3>5. \A q \in Pj!Present, j \in ResourceKinds : ConnOf(q, j) = {row[q].has[j]} \ {None}
      BY <1>2, <3>1, <3>2 DEF Linked
    <3>6. Linking(h, p, k)'
      BY <2>6, <2>8 DEF Linking
    <3>7. Linked'
      <4>1. ASSUME NEW q \in Pj!Present, NEW j \in ResourceKinds
            PROVE  ConnOf(q, j)' = {row'[q].has[j]} \ {None} \/ Linking(h, q, j)'
        BY <2>2, <2>4, <2>5, <3>3, <3>5, <3>6, <4>1 DEF Pj!Present
      <4> QED
        BY <2>5, <4>1 DEF Linked
    <3>8. EnvAgrees'
      BY <1>2, <2>2, <2>4, <2>5, <3>1, <3>4 DEF EnvAgrees, Pj!Present
    <3>9. ToConnect(h)'
      <4>1. ConnOf(p, k)' = {}
        BY <1>6, <2>0, <3>3, <3>4, <3>5
      <4>2. row'[p].has[k] = request[h].got[k]
        BY <2>2, <2>4, <2>5
      <4> QED
        BY <2>6, <2>8, <4>1, <4>2 DEF ToConnect
    <3>10. Snapshot(h)'
      BY <2>6, <2>8 DEF Snapshot, Making
    <3> QED
      BY <3>7, <3>8, <3>9, <3>10
  <2> QED
    BY <2>8, <2>9, <2>11, <2>12, <2>13, Whole
<1> QED
  BY <1>0, <1>1, <1>5, <1>6 DEF Pj!WriteProvisioned

LEMMA DropStep ==
  ASSUME Pj!ProjectsAssumption, PjInv, NEW h \in ApiHandlers, Pj!Drop(h)
  PROVE  PjInv'
<1>0. PICK p : p = request[h].p
  OBVIOUS
<1> DEFINE k == Pj!First(request[h].todo)
           u == IF request[h].op = "delete"
                  THEN [request[h] EXCEPT !.todo = request[h].todo \ {k},
                          !.pc = IF request[h].todo \ {k} = {} THEN "remove" ELSE "drop"]
                  ELSE [request[h] EXCEPT !.pc = "write"]
<1>1. ~Idle(h) /\ request[h].pc = "drop"
  BY DEF Pj!Drop, Pj!At, Idle
<1>2. /\ PjTypes /\ Doing(h) /\ ConnsOwned
      /\ ~dirty => /\ \A g \in ApiHandlers \ {h} : Idle(g)
                   /\ Apart /\ Exist /\ Fresh(h) /\ Giving(h)
      /\ ~dirty /\ ~failed => Linked /\ EnvAgrees /\ Snapshot(h) /\ ToConnect(h)
  BY <1>1, AtWork
<1>3. /\ request[h] \in PjReq /\ request[h].todo \in SUBSET ResourceKinds /\ request[h].todo # {} /\ request[h].got \in Pj!MaybeOf
      /\ request[h].op \in {"delete", "deprovision"} /\ p \in Apps
  BY <1>0, <1>1, <1>2, ReqTyped DEF Doing
<1>4. k \in request[h].todo
  BY <1>3, FirstIn
<1>5. /\ \/ databases' = IF k = "db" THEN databases \ {request[h].got[k]} ELSE databases
         \/ request[h].op = "delete" /\ databases' = databases
      /\ request' = [request EXCEPT ![h] = u] /\ UNCHANGED <<Pj!store, Pj!outcome>>
  <2>1. request' = [request EXCEPT ![h] = u]
    BY <1>3 DEF Pj!Drop
  <2> HIDE DEF u
  <2> QED
    BY <2>1 DEF Pj!Drop
<1> HIDE DEF k
<1>6. /\ u \in PjReq /\ u.op = request[h].op /\ u.p = p /\ u.got = request[h].got /\ u.env = request[h].env
      /\ request[h].op = "delete" =>
           /\ u.pc \in {"remove", "drop"} /\ (u.pc = "drop" => u.todo # {})
           /\ u.todo \subseteq request[h].todo
      /\ request[h].op = "deprovision" => u.pc = "write" /\ u.todo = request[h].todo
  BY <1>0, <1>3 DEF PjReq, PjPcs
<1> HIDE DEF u
<1>7. request' \in [ApiHandlers -> PjReq] /\ request'[h] = u /\ \A g \in ApiHandlers \ {h} : request'[g] = request[g]
  BY <1>2, <1>5, <1>6, PjMoved
<1>8. PjTypes' /\ ConnsOwned'
  BY <1>2, <1>5, <1>7 DEF PjTypes, ConnsOwned, Pj!store, Pj!outcome, Pj!Present
<1>9. Doing(h)'
  BY <1>2, <1>3, <1>6, <1>7 DEF Doing
<1>10. ASSUME ~dirty'
       PROVE  ~dirty /\ (\A g \in ApiHandlers \ {h} : Idle(g)) /\ Apart' /\ Exist' /\ Fresh(h)' /\ Giving(h)'
  <2>1. ~dirty
    BY <1>5, <1>10 DEF Pj!outcome
  <2>2. \A g \in ApiHandlers, q \in Pj!Present : ~Dropped(g, q)
    BY <1>1, <1>2, <2>1 DEF Dropped, Idle
  <2>3. Apart'
    BY <1>2, <1>5, <2>1 DEF Apart, Pj!Exclusive, Pj!Present, Pj!store
  <2>4. Exist'
    <3>1. CASE databases' = databases
      BY <1>2, <1>5, <2>1, <2>2, <3>1 DEF Exist, Pj!Present, Pj!store
    <3>2. CASE k = "db" /\ databases' = databases \ {request[h].got[k]}
      <4>1. request[h].op = "deprovision" /\ request[h].todo = {"db"}
        BY <1>2, <1>3, <1>4, <3>2 DEF Doing
      <4>2. p \in Pj!Present /\ row[p].has["db"] = request[h].got["db"]
        BY <1>0, <1>1, <1>2, <2>1, <4>1 DEF Giving
      <4>3. Dropped(h, p)'
        BY <1>6, <1>7, <4>1 DEF Dropped
      <4> SUFFICES ASSUME "db" \in ResourceKinds, NEW q \in Pj!Present, row[q].has["db"] # None
                   PROVE  row[q].has["db"] \in databases' \/ Dropped(h, q)'
        BY <1>5 DEF Exist, Pj!Present, Pj!store
      <4>4. CASE q = p
        BY <4>3, <4>4
      <4>5. CASE q # p
        <5>1. row[q].has["db"] # row[p].has["db"]
          BY <1>2, <2>1, <4>2, <4>5 DEF Apart, Pj!Exclusive
        <5>2. row[q].has["db"] \in databases
          BY <1>2, <2>1, <2>2 DEF Exist
        <5> QED
          BY <3>2, <4>2, <5>1, <5>2
      <4> QED
        BY <4>4, <4>5
    <3> QED
      BY <1>5, <3>1, <3>2
  <2>5. Fresh(h)' /\ Giving(h)'
    BY <1>3, <1>6, <1>7 DEF Fresh, Giving, Making
  <2> QED
    BY <1>2, <2>1, <2>3, <2>4, <2>5
<1>11. ASSUME ~dirty', ~failed'
       PROVE  Linked' /\ EnvAgrees' /\ Snapshot(h)' /\ ToConnect(h)'
  <2>1. ~dirty /\ ~failed
    BY <1>5, <1>11 DEF Pj!outcome
  <2>2. \A g \in ApiHandlers, q \in Pj!Present, j \in ResourceKinds : ~Linking(g, q, j)
    BY <1>1, <1>2, <2>1 DEF Linking, Idle
  <2>3. Linked' /\ EnvAgrees'
    BY <1>2, <1>5, <2>1, <2>2 DEF Linked, EnvAgrees, ConnOf, Pj!Present, Pj!store
  <2>4. Snapshot(h)'
    BY <1>0, <1>1, <1>2, <1>3, <1>5, <1>6, <1>7, <2>1 DEF Snapshot, Making, Pj!Present, Pj!store
  <2> QED
    BY <1>3, <1>6, <1>7, <2>3, <2>4 DEF ToConnect
<1> QED
  BY <1>7, <1>8, <1>9, <1>10, <1>11, Whole

LEMMA WriteDeprovisionedStep ==
  ASSUME Pj!ProjectsAssumption, PjInv, NEW h \in ApiHandlers, Pj!WriteDeprovisioned(h)
  PROVE  PjInv'
<1>0. PICK p : p = request[h].p
  OBVIOUS
<1>1. ~Idle(h) /\ request[h].pc = "write" /\ request[h].op = "deprovision"
  BY DEF Pj!WriteDeprovisioned, Pj!At, Idle
<1>2. /\ PjTypes /\ Doing(h) /\ ConnsOwned
      /\ ~dirty => /\ \A g \in ApiHandlers \ {h} : Idle(g)
                   /\ Apart /\ Exist /\ Fresh(h) /\ Giving(h)
      /\ ~dirty /\ ~failed => Linked /\ EnvAgrees /\ Snapshot(h) /\ ToConnect(h)
  BY <1>1, AtWork
<1>3. /\ request[h] \in PjReq /\ request[h].env \in Pj!MaybeOf /\ p \in Apps
      /\ \A k \in request[h].todo : k \in ResourceKinds /\ request[h].todo = {k}
  BY <1>0, <1>1, <1>2, ReqTyped DEF Doing
<1>4. UNCHANGED <<conn, databases, buckets, updates>>
  BY DEF Pj!WriteDeprovisioned
<1>5. ASSUME p \notin Pj!Present, Pj!Return(h), Pj!Failed, UNCHANGED row  PROVE PjInv'
  <2>1. \A q \in Pj!Present : ~Dropped(h, q)
    BY <1>0, <1>5 DEF Dropped
  <2> QED
    BY <1>1, <1>2, <1>4, <1>5, <2>1, ThrownStep DEF PjTypes, Pj!Failed, Pj!store
<1>6. ASSUME NEW k \in request[h].todo, p \in Pj!Present, UNCHANGED Pj!outcome,
             row' = [row EXCEPT ![p].has[k] = None, ![p].env = request[h].env],
             Pj!Goto(h, "disconnect")
      PROVE  PjInv'
  <2> DEFINE has == [row[p].has EXCEPT ![k] = None]
             new == [row[p] EXCEPT !.has = has, !.env = request[h].env]
             u == [request[h] EXCEPT !.pc = "disconnect"]
  <2>1. row[p] \in Pj!Row /\ row[p].has \in Pj!MaybeOf
    BY <1>2, <1>6, RowTyped
  <2>2. has \in Pj!MaybeOf /\ has[k] = None /\ \A j \in ResourceKinds \ {k} : has[j] = row[p].has[j]
    <3>1. k \in ResourceKinds /\ None \in Pj!ResourceOf(k) \cup {None}
      BY <1>3, <1>6
    <3> QED
      BY <2>1, <3>1, MaybeSet
  <2>3. row' = [row EXCEPT ![p] = new]
    BY <1>6
  <2> HIDE DEF has
  <2>4. new \in Pj!Row /\ new # None /\ new.has = has /\ new.env = request[h].env
    BY <1>3, <2>1, <2>2 DEF Pj!Row, Pj!ProjectsAssumption
  <2> HIDE DEF new
  <2>5. row' \in [Apps -> Pj!Row \cup {None}] /\ row'[p] = new
        /\ (\A q \in Apps \ {p} : row'[q] = row[q]) /\ Pj!Present' = Pj!Present
    BY <1>2, <1>3, <1>6, <2>3, <2>4 DEF PjTypes, Pj!Present
  <2>6. u \in PjReq /\ u.pc = "disconnect" /\ u.todo = request[h].todo /\ u.op = "deprovision" /\ u.p = p
    BY <1>0, <1>1, <1>3 DEF PjReq, PjPcs
  <2>7. request' = [request EXCEPT ![h] = u]
    BY <1>6 DEF Pj!Goto
  <2> HIDE DEF u
  <2>8. request' \in [ApiHandlers -> PjReq] /\ request'[h] = u /\ \A g \in ApiHandlers \ {h} : request'[g] = request[g]
    BY <1>2, <2>6, <2>7, PjMoved
  <2>9. PjTypes' /\ ConnsOwned'
    BY <1>2, <1>4, <1>6, <2>5, <2>8 DEF PjTypes, ConnsOwned, Pj!outcome
  <2>10. Doing(h)'
    BY <1>3, <1>6, <2>6, <2>8 DEF Doing
  <2>11. ASSUME ~dirty'
         PROVE  ~dirty /\ (\A g \in ApiHandlers \ {h} : Idle(g)) /\ Apart' /\ Exist' /\ Fresh(h)' /\ Giving(h)'
    <3>1. ~dirty
      BY <1>6, <2>11 DEF Pj!outcome
    <3>2. \A g \in ApiHandlers, q \in Pj!Present : Dropped(g, q) => q = p /\ k = "db"
      BY <1>0, <1>2, <1>3, <1>6, <3>1 DEF Dropped, Idle
    <3>3. Apart'
      <4> SUFFICES ASSUME NEW j \in ResourceKinds \ {"minio"}, NEW q1 \in Pj!Present, NEW q2 \in Pj!Present,
                          row'[q1].has[j] # None, row'[q1].has[j] = row'[q2].has[j]
                   PROVE  q1 = q2
        BY <2>5 DEF Apart, Pj!Exclusive
      <4>1. row[q1].has[j] = row'[q1].has[j] /\ row[q2].has[j] = row'[q2].has[j]
        BY <2>2, <2>4, <2>5 DEF Pj!Present
      <4> QED
        BY <1>2, <3>1, <4>1 DEF Apart, Pj!Exclusive
    <3>4. Exist'
      BY <1>2, <1>4, <2>2, <2>4, <2>5, <3>1, <3>2 DEF Exist, Pj!Present
    <3>5. Fresh(h)' /\ Giving(h)'
      BY <2>6, <2>8 DEF Fresh, Giving, Making
    <3> QED
      BY <1>2, <3>1, <3>3, <3>4, <3>5
  <2>12. ASSUME ~dirty', ~failed'
         PROVE  Linked' /\ EnvAgrees' /\ Snapshot(h)' /\ ToConnect(h)'
    <3>1. ~dirty /\ ~failed
      BY <1>6, <2>12 DEF Pj!outcome
    <3>2. \A g \in ApiHandlers, q \in Pj!Present, j \in ResourceKinds : ~Linking(g, q, j)
      BY <1>1, <1>2, <3>1 DEF Linking, Idle
    <3>3. \A q, j : ConnOf(q, j)' = ConnOf(q, j)
      BY <1>4 DEF ConnOf
    <3>4. /\ request[h].env[k] = None
          /\ \A j \in ResourceKinds \ {k} : request[h].env[j] \in {None, row[p].has[j]}
      BY <1>0, <1>1, <1>2, <1>3, <1>6, <3>1 DEF Snapshot
    <3>5. \A q \in Pj!Present, j \in ResourceKinds : ConnOf(q, j) = {row[q].has[j]} \ {None}
      BY <1>2, <3>1, <3>2 DEF Linked
    <3>6. Linking(h, p, k)'
      BY <1>6, <2>6, <2>8 DEF Linking
    <3>7. Linked'
      <4>1. ASSUME NEW q \in Pj!Present, NEW j \in ResourceKinds
            PROVE  ConnOf(q, j)' = {row'[q].has[j]} \ {None} \/ Linking(h, q, j)'
        BY <2>2, <2>4, <2>5, <3>3, <3>5, <3>6, <4>1 DEF Pj!Present
      <4> QED
        BY <2>5, <4>1 DEF Linked
    <3>8. EnvAgrees'
      BY <1>2, <2>2, <2>4, <2>5, <3>1, <3>4 DEF EnvAgrees, Pj!Present
    <3>9. ToConnect(h)'
      <4>1. row'[p].has[k] = None /\ \A j \in request[h].todo : j = k
        <5>1. row'[p].has[k] = None
          BY <2>2, <2>4, <2>5
        <5>2. request[h].todo = {k}
          BY <1>3, <1>6
        <5> QED
          BY <5>1, <5>2
      <4> QED
        BY <2>6, <2>8, <4>1 DEF ToConnect
    <3>10. Snapshot(h)'
      BY <2>6, <2>8 DEF Snapshot, Making
    <3> QED
      BY <3>7, <3>8, <3>9, <3>10
  <2> QED
    BY <2>8, <2>9, <2>10, <2>11, <2>12, Whole
<1> QED
  BY <1>0, <1>1, <1>5, <1>6 DEF Pj!WriteDeprovisioned

LEMMA DisconnectStep ==
  ASSUME Pj!ProjectsAssumption, PjInv, NEW h \in ApiHandlers, Pj!Disconnect(h)
  PROVE  PjInv'
<1>0. PICK p : p = request[h].p
  OBVIOUS
<1>00. PICK todo : todo = request[h].todo
  OBVIOUS
<1>1. ~Idle(h) /\ request[h].pc = "disconnect"
  BY DEF Pj!Disconnect, Pj!At, Idle
<1>2. /\ PjTypes /\ Doing(h) /\ ConnsOwned
      /\ ~dirty => /\ \A g \in ApiHandlers \ {h} : Idle(g)
                   /\ Apart /\ Exist /\ Fresh(h) /\ Giving(h)
      /\ ~dirty /\ ~failed => Linked /\ EnvAgrees /\ Snapshot(h) /\ ToConnect(h)
  BY <1>1, AtWork
<1>3. /\ conn' = {c \in conn : ~(c[1] = p /\ c[2] \in todo)} /\ Pj!Return(h)
      /\ UNCHANGED <<row, databases, Pj!outcome>>
  BY <1>0, <1>00 DEF Pj!Disconnect
<1>4. /\ request' \in [ApiHandlers -> PjReq] /\ Idle(h)'
      /\ \A g \in ApiHandlers \ {h} : request'[g] = request[g]
      /\ Doing(h)' /\ Fresh(h)' /\ Giving(h)' /\ Snapshot(h)' /\ ToConnect(h)'
  BY <1>2, <1>3, PjReturned
<1>5. PjTypes' /\ ConnsOwned'
  BY <1>2, <1>3, <1>4 DEF PjTypes, ConnsOwned, Pj!outcome, Pj!Present
<1>6. ASSUME ~dirty'
      PROVE  ~dirty /\ (\A g \in ApiHandlers \ {h} : Idle(g)) /\ Apart' /\ Exist'
  <2>1. ~dirty
    BY <1>3, <1>6 DEF Pj!outcome
  <2>2. \A g \in ApiHandlers, q \in Pj!Present : ~Dropped(g, q)
    BY <1>1, <1>2, <2>1 DEF Dropped, Idle
  <2> QED
    BY <1>2, <1>3, <2>1, <2>2 DEF Apart, Pj!Exclusive, Exist, Pj!Present
<1>7. ASSUME ~dirty', ~failed'
      PROVE  Linked' /\ EnvAgrees'
  <2>1. ~dirty /\ ~failed
    BY <1>3, <1>7 DEF Pj!outcome
  <2>2. ASSUME NEW q \in Pj!Present, NEW j \in ResourceKinds
        PROVE  ConnOf(q, j)' = {row[q].has[j]} \ {None}
    <3>2. /\ q = p /\ j \in todo => ConnOf(q, j)' = {}
          /\ ~(q = p /\ j \in todo) => ConnOf(q, j)' = ConnOf(q, j)
      <4>1. CASE q = p /\ j \in todo
        <5>1. \A c \in conn' : ~(c[1] = q /\ c[2] = j)
          BY <1>3, <4>1
        <5> QED
          BY <4>1, <5>1, ConnGone DEF ConnOf
      <4>2. CASE ~(q = p /\ j \in todo)
        <5>1. \A c : c[1] = q /\ c[2] = j => (c \in conn' <=> c \in conn)
          BY <1>3, <4>2
        <5> QED
          BY <4>2, <5>1, ConnSame DEF ConnOf
      <4> QED
        BY <4>1, <4>2
    <3>3. CASE q = p /\ j \in todo
      <4>1. row[q].has[j] = None
        BY <1>0, <1>00, <1>1, <1>2, <2>1, <3>3 DEF ToConnect
      <4> QED
        BY <3>2, <3>3, <4>1
    <3>4. CASE ~(q = p /\ j \in todo)
      <4>1. \A g \in ApiHandlers : ~Linking(g, q, j)
        BY <1>0, <1>00, <1>2, <2>1, <3>4 DEF Linking, Idle
      <4> QED
        BY <1>2, <2>1, <3>2, <3>4, <4>1 DEF Linked
    <3> QED
      BY <3>3, <3>4
  <2>3. Linked'
    BY <1>3, <2>2 DEF Linked, Pj!Present
  <2>4. EnvAgrees'
    BY <1>2, <1>3, <2>1 DEF EnvAgrees, Pj!Present
  <2> QED
    BY <2>3, <2>4
<1> QED
  BY <1>4, <1>5, <1>6, <1>7, Whole

LEMMA WriteSlugStep ==
  ASSUME Pj!ProjectsAssumption, PjInv, NEW h \in ApiHandlers, Pj!WriteSlug(h)
  PROVE  PjInv'
<1>0. PICK p : p = request[h].p
  OBVIOUS
<1>1. ~Idle(h) /\ request[h].pc = "write" /\ request[h].op = "rename" /\ Pj!Return(h)
  BY DEF Pj!WriteSlug, Pj!At, Idle
<1>2. /\ PjTypes /\ Doing(h) /\ ConnsOwned
      /\ ~dirty => /\ \A g \in ApiHandlers \ {h} : Idle(g)
                   /\ Apart /\ Exist /\ Fresh(h) /\ Giving(h)
      /\ ~dirty /\ ~failed => Linked /\ EnvAgrees /\ Snapshot(h) /\ ToConnect(h)
  BY <1>1, AtWork
<1>3. request[h].slug \in Slugs /\ p \in Apps
  BY <1>0, <1>1, <1>2, ReqTyped DEF Doing
<1>4. UNCHANGED <<conn, databases, buckets, updates>>
  BY DEF Pj!WriteSlug
<1>5. ASSUME Pj!Failed, UNCHANGED row  PROVE PjInv'
  <2>1. \A q \in Pj!Present : ~Dropped(h, q)
    BY <1>1 DEF Dropped
  <2> QED
    BY <1>1, <1>2, <1>4, <1>5, <2>1, ThrownStep DEF PjTypes, Pj!Failed, Pj!store
<1>6. ASSUME p \in Pj!Present, UNCHANGED Pj!outcome, row' = [row EXCEPT ![p].slug = request[h].slug]
      PROVE  PjInv'
  <2> DEFINE new == [row[p] EXCEPT !.slug = request[h].slug]
  <2>1. row[p] \in Pj!Row
    BY <1>2, <1>6, RowTyped
  <2>2. new \in Pj!Row /\ new # None /\ new.has = row[p].has /\ new.env = row[p].env
    BY <1>3, <2>1 DEF Pj!Row, Pj!ProjectsAssumption
  <2>3. row' = [row EXCEPT ![p] = new]
    BY <1>6
  <2> HIDE DEF new
  <2>4. row' \in [Apps -> Pj!Row \cup {None}] /\ Pj!Present' = Pj!Present
        /\ \A q \in Pj!Present : row'[q].has = row[q].has /\ row'[q].env = row[q].env
    BY <1>2, <1>3, <1>6, <2>2, <2>3 DEF PjTypes, Pj!Present
  <2>5. /\ request' \in [ApiHandlers -> PjReq] /\ Idle(h)'
        /\ \A g \in ApiHandlers \ {h} : request'[g] = request[g]
        /\ Doing(h)' /\ Fresh(h)' /\ Giving(h)' /\ Snapshot(h)' /\ ToConnect(h)'
    BY <1>1, <1>2, PjReturned
  <2>6. PjTypes' /\ ConnsOwned'
    BY <1>2, <1>4, <1>6, <2>4, <2>5 DEF PjTypes, ConnsOwned, Pj!outcome
  <2>7. ASSUME ~dirty'
        PROVE  ~dirty /\ (\A g \in ApiHandlers \ {h} : Idle(g)) /\ Apart' /\ Exist'
    <3>1. ~dirty
      BY <1>6, <2>7 DEF Pj!outcome
    <3>2. \A g \in ApiHandlers, q \in Pj!Present : ~Dropped(g, q)
      BY <1>1, <1>2, <3>1 DEF Dropped, Idle
    <3> QED
      BY <1>2, <1>4, <2>4, <3>1, <3>2 DEF Apart, Pj!Exclusive, Exist
  <2>8. ASSUME ~dirty', ~failed'  PROVE Linked' /\ EnvAgrees'
    <3>1. ~dirty /\ ~failed
      BY <1>6, <2>8 DEF Pj!outcome
    <3>2. \A g \in ApiHandlers, q \in Pj!Present, j \in ResourceKinds : ~Linking(g, q, j)
      BY <1>1, <1>2, <3>1 DEF Linking, Idle
    <3> QED
      BY <1>2, <1>4, <2>4, <3>1, <3>2 DEF Linked, EnvAgrees, ConnOf
  <2> QED
    BY <2>5, <2>6, <2>7, <2>8, Whole
<1> QED
  BY <1>0, <1>5, <1>6 DEF Pj!WriteSlug

LEMMA DeleteRowStep ==
  ASSUME Pj!ProjectsAssumption, PjInv, NEW h \in ApiHandlers, Pj!DeleteRow(h)
  PROVE  PjInv'
<1>0. PICK p : p = request[h].p
  OBVIOUS
<1>1. ~Idle(h) /\ request[h].pc = "remove" /\ Pj!Return(h)
  BY DEF Pj!DeleteRow, Pj!At, Idle
<1>2. /\ PjTypes /\ Doing(h) /\ ConnsOwned
      /\ ~dirty => /\ \A g \in ApiHandlers \ {h} : Idle(g)
                   /\ Apart /\ Exist /\ Fresh(h) /\ Giving(h)
      /\ ~dirty /\ ~failed => Linked /\ EnvAgrees /\ Snapshot(h) /\ ToConnect(h)
  BY <1>1, AtWork
<1>3. p \in Apps
  BY <1>0, <1>1, <1>2, ReqTyped DEF Doing
<1>4. /\ row' = [row EXCEPT ![p] = None] /\ conn' = {c \in conn : c[1] # p}
      /\ UNCHANGED <<databases, Pj!outcome>>
  BY <1>0 DEF Pj!DeleteRow
<1>5. /\ row' \in [Apps -> Pj!Row \cup {None}] /\ Pj!Present' = Pj!Present \ {p}
      /\ \A q \in Apps \ {p} : row'[q] = row[q]
  BY <1>2, <1>3, <1>4 DEF PjTypes, Pj!Present
<1>6. /\ request' \in [ApiHandlers -> PjReq] /\ Idle(h)'
      /\ \A g \in ApiHandlers \ {h} : request'[g] = request[g]
      /\ Doing(h)' /\ Fresh(h)' /\ Giving(h)' /\ Snapshot(h)' /\ ToConnect(h)'
  BY <1>1, <1>2, PjReturned
<1>7. PjTypes' /\ ConnsOwned'
  BY <1>2, <1>4, <1>5, <1>6 DEF PjTypes, ConnsOwned, Pj!outcome
<1>8. ASSUME ~dirty'
      PROVE  ~dirty /\ (\A g \in ApiHandlers \ {h} : Idle(g)) /\ Apart' /\ Exist'
  <2>1. ~dirty
    BY <1>4, <1>8 DEF Pj!outcome
  <2>2. \A g \in ApiHandlers, q \in Pj!Present : ~Dropped(g, q)
    BY <1>1, <1>2, <2>1 DEF Dropped, Idle
  <2> QED
    BY <1>2, <1>4, <1>5, <2>1, <2>2 DEF Apart, Pj!Exclusive, Exist, Pj!Present
<1>9. ASSUME ~dirty', ~failed'  PROVE Linked' /\ EnvAgrees'
  <2>1. ~dirty /\ ~failed
    BY <1>4, <1>9 DEF Pj!outcome
  <2>2. \A g \in ApiHandlers, q \in Pj!Present, j \in ResourceKinds : ~Linking(g, q, j)
    BY <1>1, <1>2, <2>1 DEF Linking, Idle
  <2>3. ASSUME NEW q \in Pj!Present \ {p}, NEW j \in ResourceKinds
        PROVE  ConnOf(q, j)' = {row'[q].has[j]} \ {None}
    <3>2. ConnOf(q, j)' = ConnOf(q, j)
      <4>1. \A c : c[1] = q /\ c[2] = j => (c \in conn' <=> c \in conn)
        BY <1>4
      <4> QED
        BY <4>1, ConnSame DEF ConnOf
    <3>3. row'[q] = row[q]
      BY <1>5 DEF Pj!Present
    <3> QED
      BY <1>2, <2>1, <2>2, <3>2, <3>3 DEF Linked
  <2>4. Linked'
    BY <1>5, <2>3 DEF Linked
  <2>5. EnvAgrees'
    BY <1>2, <1>5, <2>1 DEF EnvAgrees, Pj!Present
  <2> QED
    BY <2>4, <2>5
<1> QED
  BY <1>6, <1>7, <1>8, <1>9, Whole

LEMMA PjFailStep ==
  ASSUME Pj!ProjectsAssumption, PjInv, NEW h \in ApiHandlers, Pj!Fail(h)
  PROVE  PjInv'
<1>1. /\ ~Idle(h) /\ Pj!Return(h) /\ failed' = TRUE /\ UNCHANGED <<Pj!store, databases>>
      /\ dirty' = (dirty \/ (request[h].op = "deprovision" /\ Pj!At(h, "write")))
  BY DEF Pj!Fail, Pj!At, Idle
<1>2. dirty' \in BOOLEAN /\ (dirty => dirty') /\ (~dirty' => \A p \in Pj!Present : ~Dropped(h, p))
  BY <1>1 DEF Dropped, Pj!At
<1> QED
  BY <1>1, <1>2, ThrownStep

(***************************************************************************)
(* A request that is read and answered later.                              *)
(***************************************************************************)
LEMMA BegunStep ==
  ASSUME PjInv, NEW h \in ApiHandlers, Idle(h), NEW u \in PjReq, request' = [request EXCEPT ![h] = u],
         UNCHANGED <<Pj!store, databases, failed>>,
         dirty' = (dirty \/ \E g \in ApiHandlers \ {h} : ~Pj!At(g, "idle")),
         Doing(h)', ~dirty => Fresh(h)' /\ Giving(h)',
         ~dirty /\ ~failed => Snapshot(h)' /\ ToConnect(h)'
  PROVE  PjInv'
<1>1. PjTypes /\ ConnsOwned /\ (~dirty => PjSerial) /\ (~dirty /\ ~failed => Agree)
  BY DEF PjInv
<1>2. request' \in [ApiHandlers -> PjReq] /\ \A g \in ApiHandlers \ {h} : request'[g] = request[g]
  BY <1>1, PjMoved
<1>3. PjTypes' /\ ConnsOwned'
  BY <1>1, <1>2 DEF PjTypes, ConnsOwned, Pj!store, Pj!Present
<1>4. ASSUME ~dirty'  PROVE ~dirty /\ \A g \in ApiHandlers : Idle(g)
  BY <1>4 DEF Pj!At, Idle
<1>5. ASSUME ~dirty'  PROVE Apart' /\ Exist'
  <2>1. \A g \in ApiHandlers, p \in Pj!Present : ~Dropped(g, p)
    BY <1>4, <1>5 DEF Dropped, Idle
  <2> QED
    BY <1>1, <1>4, <1>5, <2>1 DEF PjSerial, Apart, Pj!Exclusive, Exist, Pj!Present, Pj!store
<1>6. ASSUME ~dirty', ~failed'  PROVE Linked' /\ EnvAgrees'
  <2>1. \A g \in ApiHandlers, p \in Pj!Present, j \in ResourceKinds : ~Linking(g, p, j)
    BY <1>4, <1>6 DEF Linking, Idle
  <2> QED
    BY <1>1, <1>4, <1>6, <2>1 DEF Agree, Linked, EnvAgrees, ConnOf, Pj!Present, Pj!store
<1> QED
  BY <1>2, <1>3, <1>4, <1>5, <1>6, Whole

LEMMA BeginStep ==
  ASSUME Pj!ProjectsAssumption, PjInv, NEW h \in ApiHandlers, Pj!Begin(h)
  PROVE  PjInv'
<1>1. dirty' = (dirty \/ \E g \in ApiHandlers \ {h} : ~Pj!At(g, "idle")) /\ UNCHANGED failed
  BY DEF Pj!Begin
<1>2. /\ PjTypes /\ ConnsOwned /\ (~dirty => PjSerial) /\ (~dirty /\ ~failed => Agree)
      /\ None \notin Apps /\ None \notin Slugs
  BY DEF PjInv, Pj!ProjectsAssumption
<1>3. ASSUME NEW p \in Apps, NEW slug \in Slugs, NEW static \in BOOLEAN,
             NEW kinds \in SUBSET ResourceKinds, Pj!Create(h, p, slug, static, kinds)
      PROVE  PjInv'
  <2> DEFINE u == [Pj!NoReq EXCEPT !.op = "create", !.p = p, !.slug = slug, !.static = static,
                     !.todo = kinds, !.pc = IF kinds = {} THEN "insert" ELSE "allocate"]
  <2>1. Idle(h) /\ p \notin Pj!Present /\ request' = [request EXCEPT ![h] = u] /\ UNCHANGED <<Pj!store, databases>>
    BY <1>3 DEF Pj!Create, Pj!At, Idle, Pj!Started
  <2>2. /\ u \in PjReq /\ u.op = "create" /\ u.p = p /\ u.slug = slug /\ u.todo = kinds
        /\ u.got = Pj!NoResource /\ u.env = Pj!NoResource
        /\ u.pc \in {"insert", "allocate"} /\ (u.pc = "insert" <=> kinds = {})
    BY NothingHeld DEF Pj!NoReq, PjReq, PjPcs, Ops
  <2> HIDE DEF u
  <2>3. request'[h] = u
    BY <1>2, <2>1, <2>2, PjMoved
  <2>4. Doing(h)'
    BY <2>2, <2>3 DEF Doing
  <2>5. Fresh(h)' /\ Giving(h)'
    BY <2>2, <2>3, NothingHeld DEF Fresh, Giving
  <2>6. Snapshot(h)' /\ ToConnect(h)'
    BY <2>1, <2>2, <2>3, NothingHeld DEF Snapshot, ToConnect, Pj!Present, Pj!store
  <2> QED
    BY <1>1, <2>1, <2>2, <2>4, <2>5, <2>6, BegunStep
<1>4. ASSUME NEW p \in Apps, NEW k \in ResourceKinds, Pj!BeginProvision(h, p, k)
      PROVE  PjInv'
  <2> DEFINE u == [Pj!NoReq EXCEPT !.op = "provision", !.p = p, !.slug = row[p].slug, !.todo = {k},
                     !.env = row[p].env, !.pc = "allocate"]
  <2>1. /\ Idle(h) /\ p \in Pj!Present /\ row[p].has[k] = None
        /\ request' = [request EXCEPT ![h] = u] /\ UNCHANGED <<Pj!store, databases>>
    BY <1>4 DEF Pj!BeginProvision, Pj!At, Idle
  <2>2. row[p].slug \in Slugs /\ row[p].env \in Pj!MaybeOf
    BY <1>2, <2>1, RowTyped
  <2>3. /\ u \in PjReq /\ u.op = "provision" /\ u.p = p /\ u.slug = row[p].slug /\ u.todo = {k}
        /\ u.got = Pj!NoResource /\ u.env = row[p].env /\ u.pc = "allocate"
    BY <2>2, NothingHeld DEF Pj!NoReq, PjReq, PjPcs, Ops
  <2> HIDE DEF u
  <2>4. request'[h] = u
    BY <1>2, <2>1, <2>3, PjMoved
  <2>5. Pj!Got(h)' = {}
    BY <2>3, <2>4, NothingHeld DEF Pj!Got
  <2>6. Doing(h)'
    BY <2>2, <2>3, <2>4, <2>5 DEF Doing
  <2>7. Fresh(h)' /\ Giving(h)'
    BY <2>3, <2>4, NothingHeld DEF Fresh, Giving
  <2>8. ASSUME ~dirty, ~failed  PROVE Snapshot(h)' /\ ToConnect(h)'
    <3>1. \A j \in ResourceKinds : row[p].env[j] \in {None, row[p].has[j]}
      BY <1>2, <2>1, <2>8 DEF Agree, EnvAgrees
    <3> QED
      BY <2>1, <2>3, <2>4, <2>5, <3>1 DEF Snapshot, ToConnect, Pj!Present, Pj!store
  <2> QED
    BY <1>1, <2>1, <2>3, <2>6, <2>7, <2>8, BegunStep
<1>5. ASSUME NEW p \in Apps, NEW k \in ResourceKinds, Pj!BeginDeprovision(h, p, k)
      PROVE  PjInv'
  <2> DEFINE got == [Pj!NoResource EXCEPT ![k] = row[p].has[k]]
             nextEnv == [row[p].env EXCEPT ![k] = None]
             u == [Pj!NoReq EXCEPT !.op = "deprovision", !.p = p, !.todo = {k}, !.got = got,
                     !.env = nextEnv, !.pc = "drop"]
  <2>1. /\ Idle(h) /\ p \in Pj!Present /\ row[p].has[k] # None /\ UNCHANGED <<Pj!store, databases>>
        /\ request' = [request EXCEPT ![h] =
             [Pj!NoReq EXCEPT !.op = "deprovision", !.p = p, !.todo = {k}, !.got[k] = row[p].has[k],
                !.env = [row[p].env EXCEPT ![k] = None], !.pc = "drop"]]
    BY <1>5 DEF Pj!BeginDeprovision, Pj!At, Idle
  <2>2. row[p].has \in Pj!MaybeOf /\ row[p].env \in Pj!MaybeOf
    BY <1>2, <2>1, RowTyped
  <2>3. row[p].has[k] \in Pj!ResourceOf(k) \cup {None} /\ None \in Pj!ResourceOf(k) \cup {None}
    BY <2>2, MaybeIs
  <2>4. /\ got \in Pj!MaybeOf /\ got[k] = row[p].has[k]
        /\ nextEnv \in Pj!MaybeOf /\ nextEnv[k] = None /\ \A j \in ResourceKinds \ {k} : nextEnv[j] = row[p].env[j]
    <3>1. got \in Pj!MaybeOf /\ got[k] = row[p].has[k]
      BY <2>3, NothingHeld, MaybeSet
    <3>2. nextEnv \in Pj!MaybeOf /\ nextEnv[k] = None /\ \A j \in ResourceKinds \ {k} : nextEnv[j] = row[p].env[j]
      BY <2>2, <2>3, MaybeSet
    <3> QED
      BY <3>1, <3>2
  <2>5. request' = [request EXCEPT ![h] = u]
    BY <2>1, NoReqTyped
  <2> HIDE DEF got, nextEnv
  <2>6. /\ u \in PjReq /\ u.op = "deprovision" /\ u.p = p /\ u.todo = {k} /\ u.got = got
        /\ u.env = nextEnv /\ u.pc = "drop"
    BY <2>4 DEF Pj!NoReq, PjReq, PjPcs, Ops
  <2> HIDE DEF u
  <2>7. request'[h] = u
    BY <1>2, <2>5, <2>6, PjMoved
  <2>8. Doing(h)'
    BY <2>6, <2>7 DEF Doing
  <2>9. Fresh(h)' /\ Giving(h)'
    BY <2>1, <2>4, <2>6, <2>7 DEF Fresh, Giving, Making, Pj!Present, Pj!store
  <2>10. ASSUME ~dirty, ~failed  PROVE Snapshot(h)' /\ ToConnect(h)'
    <3>1. \A j \in ResourceKinds : row[p].env[j] \in {None, row[p].has[j]}
      BY <1>2, <2>1, <2>10 DEF Agree, EnvAgrees
    <3> QED
      <4>1. \A j \in ResourceKinds : IF j \in {k} THEN nextEnv[j] = None ELSE nextEnv[j] \in {None, row[p].has[j]}
        BY <2>4, <3>1
      <4> QED
        BY <2>1, <2>6, <2>7, <4>1 DEF Snapshot, ToConnect, Making, Pj!Present, Pj!store
  <2> QED
    BY <1>1, <2>1, <2>5, <2>6, <2>8, <2>9, <2>10, BegunStep
<1>6. ASSUME NEW p \in Apps, NEW k \in ResourceKinds, Pj!UpdateEnv(h, p, k)
      PROVE  PjInv'
  <2> DEFINE nextEnv == [row[p].env EXCEPT ![k] = None]
             new == [row[p] EXCEPT !.env = nextEnv]
  <2>1. Idle(h) /\ p \in Pj!Present /\ UNCHANGED <<conn, databases, request>> /\ row' = [row EXCEPT ![p] = new]
    BY <1>6 DEF Pj!UpdateEnv, Pj!At, Idle
  <2>2. row[p] \in Pj!Row /\ row[p].env \in Pj!MaybeOf
    BY <1>2, <2>1, RowTyped
  <2>3. k \in ResourceKinds /\ None \in Pj!ResourceOf(k) \cup {None}
    OBVIOUS
  <2>4. nextEnv \in Pj!MaybeOf /\ nextEnv[k] = None /\ \A j \in ResourceKinds \ {k} : nextEnv[j] = row[p].env[j]
    <3>1. PICK f \in Pj!MaybeOf : f = row[p].env
      BY <2>2
    <3>2. [f EXCEPT ![k] = None] \in Pj!MaybeOf /\ [f EXCEPT ![k] = None][k] = None
          /\ \A j \in ResourceKinds \ {k} : [f EXCEPT ![k] = None][j] = f[j]
      BY <2>3, MaybeSet
    <3> QED
      BY <3>1, <3>2
  <2> HIDE DEF nextEnv
  <2>5. new \in Pj!Row /\ new # None /\ new.has = row[p].has /\ new.env = nextEnv
    BY <2>2, <2>4 DEF Pj!Row, Pj!ProjectsAssumption
  <2> HIDE DEF new
  <2>6. row' \in [Apps -> Pj!Row \cup {None}] /\ Pj!Present' = Pj!Present /\ row'[p].env = nextEnv
        /\ (\A q \in Pj!Present : row'[q].has = row[q].has)
        /\ \A q \in Pj!Present \ {p} : row'[q].env = row[q].env
    BY <1>2, <2>1, <2>5 DEF PjTypes, Pj!Present
  <2>7. PjTypes' /\ ConnsOwned' /\ Doing(h)'
    BY <1>1, <1>2, <2>1, <2>6 DEF PjTypes, ConnsOwned, Doing, Idle, Pj!Got, PjInv
  <2>8. ASSUME ~dirty'  PROVE ~dirty /\ \A g \in ApiHandlers : Idle(g)
    BY <1>1, <2>1, <2>8 DEF Pj!At, Idle
  <2>9. ASSUME ~dirty'  PROVE Apart' /\ Exist' /\ Fresh(h)' /\ Giving(h)'
    <3>1. \A g \in ApiHandlers, q \in Pj!Present : ~Dropped(g, q)
      BY <2>8, <2>9 DEF Dropped, Idle
    <3>2. Apart' /\ Exist'
      BY <1>2, <2>1, <2>6, <2>8, <2>9, <3>1 DEF PjSerial, Apart, Pj!Exclusive, Exist
    <3> QED
      BY <2>1, <3>2 DEF Fresh, Giving, Making, Idle
  <2>10. ASSUME ~dirty', ~failed'  PROVE Linked' /\ EnvAgrees' /\ Snapshot(h)' /\ ToConnect(h)'
    <3>1. \A g \in ApiHandlers, q \in Pj!Present, j \in ResourceKinds : ~Linking(g, q, j)
      BY <2>8, <2>10 DEF Linking, Idle
    <3>2. Agree
      BY <1>1, <1>2, <2>8, <2>10
    <3>3. Linked'
      BY <2>1, <2>6, <3>1, <3>2 DEF Agree, Linked, ConnOf
    <3>4. EnvAgrees'
      BY <2>4, <2>6, <3>2 DEF Agree, EnvAgrees
    <3> QED
      BY <2>1, <3>3, <3>4 DEF Snapshot, ToConnect, Making, Idle
  <2> QED
    BY <2>1, <2>7, <2>8, <2>9, <2>10, Whole
<1>7. ASSUME NEW p \in Apps, NEW slug \in Slugs, Pj!BeginRename(h, p, slug)
      PROVE  PjInv'
  <2> DEFINE u == [Pj!NoReq EXCEPT !.op = "rename", !.p = p, !.slug = slug, !.pc = "write"]
  <2>1. Idle(h) /\ request' = [request EXCEPT ![h] = u] /\ UNCHANGED <<Pj!store, databases>>
    BY <1>7 DEF Pj!BeginRename, Pj!At, Idle
  <2>2. u \in PjReq /\ u.op = "rename" /\ u.p = p /\ u.slug = slug /\ u.pc = "write"
    BY NothingHeld DEF Pj!NoReq, PjReq, PjPcs, Ops
  <2> HIDE DEF u
  <2>3. request'[h] = u
    BY <1>2, <2>1, <2>2, PjMoved
  <2>4. Doing(h)' /\ Fresh(h)' /\ Giving(h)' /\ Snapshot(h)' /\ ToConnect(h)'
    BY <2>2, <2>3 DEF Doing, Fresh, Giving, Snapshot, ToConnect, Making
  <2> QED
    BY <1>1, <2>1, <2>2, <2>4, BegunStep
<1>8. ASSUME NEW p \in Apps, Pj!BeginDelete(h, p)
      PROVE  PjInv'
  <2> DEFINE todo == {k \in ResourceKinds \ {"db"} : row[p].has[k] # None}
             u == [Pj!NoReq EXCEPT !.op = "delete", !.p = p, !.todo = todo, !.got = row[p].has,
                     !.pc = IF todo = {} THEN "remove" ELSE "drop"]
  <2>1. /\ Idle(h) /\ p \in Pj!Present
        /\ request' = [request EXCEPT ![h] = u] /\ UNCHANGED <<Pj!store, databases>>
    BY <1>8 DEF Pj!BeginDelete, Pj!At, Idle
  <2>2. row[p].has \in Pj!MaybeOf
    BY <1>2, <2>1, RowTyped
  <2>3. /\ u \in PjReq /\ u.op = "delete" /\ u.p = p /\ u.todo = todo
        /\ u.pc \in {"remove", "drop"} /\ (u.pc = "drop" => todo # {}) /\ "db" \notin todo
    BY <2>2, NothingHeld DEF Pj!NoReq, PjReq, PjPcs, Ops
  <2> HIDE DEF u, todo
  <2>4. request'[h] = u
    BY <1>2, <2>1, <2>3, PjMoved
  <2>5. Doing(h)' /\ Fresh(h)' /\ Giving(h)' /\ Snapshot(h)' /\ ToConnect(h)'
    BY <2>3, <2>4 DEF Doing, Fresh, Giving, Snapshot, ToConnect, Making
  <2> QED
    BY <1>1, <2>1, <2>3, <2>5, BegunStep
<1> QED
  BY <1>3, <1>4, <1>5, <1>6, <1>7, <1>8 DEF Pj!Begin

LEMMA PjInvInit == Pj!ProjectsAssumption /\ Pj!Init => PjInv
<1> SUFFICES ASSUME Pj!ProjectsAssumption, Pj!Init  PROVE PjInv
  OBVIOUS
<1>1. \A h \in ApiHandlers : request[h] = Pj!NoReq
  BY DEF Pj!Init
<1>2. \A h \in ApiHandlers : request[h].pc = "idle" /\ request[h].op = "none"
  BY <1>1, NoReqTyped
<1>3. Pj!Present = {} /\ conn = {}
  BY DEF Pj!Init, Pj!Present
<1>4. PjTypes
  BY NoReqTyped DEF Pj!Init, PjTypes
<1>5. \A h \in ApiHandlers : Doing(h) /\ Fresh(h) /\ Giving(h) /\ Snapshot(h) /\ ToConnect(h)
  BY <1>2 DEF Doing, Fresh, Giving, Snapshot, ToConnect, Making
<1>6. ConnsOwned /\ PjAlone /\ Apart /\ Exist /\ Linked /\ EnvAgrees
  BY <1>2, <1>3 DEF ConnsOwned, PjAlone, Idle, Apart, Pj!Exclusive, Exist, Linked, EnvAgrees
<1> QED
  BY <1>4, <1>5, <1>6 DEF PjInv, PjSerial, Agree

LEMMA PjInvStep == Pj!ProjectsAssumption /\ PjInv /\ [Pj!Next]_(Pj!vars) => PjInv'
<1> SUFFICES ASSUME Pj!ProjectsAssumption, PjInv, [Pj!Next]_(Pj!vars)  PROVE PjInv'
  OBVIOUS
<1>1. CASE UNCHANGED Pj!vars
  <2>1. UNCHANGED <<row, conn, databases, failed, dirty, request>>
    BY <1>1 DEF Pj!vars, Pj!store, Pj!outcome
  <2>2. PjTypes' /\ ConnsOwned' /\ (\A h \in ApiHandlers : Doing(h)')
    BY <2>1 DEF PjInv, PjTypes, ConnsOwned, Pj!Present, Doing, Pj!Got
  <2>3. ASSUME ~dirty'  PROVE PjSerial'
    <3>1. PjSerial
      BY <2>1, <2>3 DEF PjInv
    <3>2. PjAlone' /\ Apart' /\ Exist'
      BY <2>1, <3>1 DEF PjSerial, PjAlone, Idle, Apart, Pj!Exclusive, Exist, Dropped, Pj!Present
    <3>3. \A h \in ApiHandlers : Fresh(h)' /\ Giving(h)'
      BY <2>1, <3>1 DEF PjSerial, Fresh, Giving, Making, Pj!Present
    <3> QED
      BY <3>2, <3>3 DEF PjSerial
  <2>4. ASSUME ~dirty', ~failed'  PROVE Agree'
    <3>1. Agree
      BY <2>1, <2>4 DEF PjInv
    <3>2. Linked' /\ EnvAgrees'
      BY <2>1, <3>1 DEF Agree, Linked, Linking, EnvAgrees, ConnOf, Pj!Present
    <3>3. \A h \in ApiHandlers : Snapshot(h)' /\ ToConnect(h)'
      BY <2>1, <3>1 DEF Agree, Snapshot, ToConnect, Making, Pj!Got, ConnOf, Pj!Present
    <3> QED
      BY <3>2, <3>3 DEF Agree
  <2> QED
    BY <2>2, <2>3, <2>4 DEF PjInv
<1>2. ASSUME NEW h \in ApiHandlers, Pj!Step(h)  PROVE PjInv'
  BY <1>2, BeginStep, AllocateStep, ProvisionStep, InsertProjectStep, ConnectStep,
     WriteProvisionedStep, DropStep, WriteDeprovisionedStep, DisconnectStep, WriteSlugStep,
     DeleteRowStep, PjFailStep DEF Pj!Step
<1> QED
  BY <1>1, <1>2 DEF Pj!Next

LEMMA PjInvSuffices == PjInv => Pj!SerialResourcesExclusive /\ Pj!SerialRowsAgree
<1> SUFFICES ASSUME PjInv  PROVE Pj!SerialResourcesExclusive /\ Pj!SerialRowsAgree
  OBVIOUS
<1>1. Pj!SerialResourcesExclusive
  BY DEF PjInv, PjSerial, Apart, Pj!SerialResourcesExclusive
<1>2. ASSUME ~failed, ~dirty, \A h \in ApiHandlers : request[h].pc = "idle"  PROVE Pj!RowsAgree
  <2>1. Linked /\ EnvAgrees /\ Exist
    BY <1>2 DEF PjInv, PjSerial, Agree
  <2>2. ASSUME NEW p \in Pj!Present, NEW k \in ResourceKinds
        PROVE  /\ {c[3] : c \in {d \in conn : d[1] = p /\ d[2] = k}} = {row[p].has[k]} \ {None}
               /\ row[p].env[k] \in {None, row[p].has[k]}
               /\ k = "db" /\ row[p].has[k] # None => row[p].has[k] \in databases
    <3>1. \A h \in ApiHandlers : ~Linking(h, p, k) /\ ~Dropped(h, p)
      BY <1>2 DEF Linking, Dropped
    <3>2. ConnOf(p, k) = {row[p].has[k]} \ {None}
      BY <2>1, <3>1 DEF Linked
    <3> QED
      BY <2>1, <3>1, <3>2 DEF ConnOf, ConnsIn, EnvAgrees, Exist
  <2> QED
    BY <2>2 DEF Pj!RowsAgree
<1> QED
  BY <1>1, <1>2 DEF Pj!SerialRowsAgree

(***************************************************************************)
(* Of the projects alone, for any projects, slugs, resources and requests: *)
(* while requests are serial and none stops between the drop of a database *)
(* and the row, no two projects have one database or Redis index; if none  *)
(* failed either, rows, connections and variables agree.                   *)
(***************************************************************************)
THEOREM RowsAccounted ==
  Pj!ProjectsAssumption => (Pj!Spec => [](Pj!SerialResourcesExclusive /\ Pj!SerialRowsAgree))
<1> SUFFICES ASSUME Pj!ProjectsAssumption
             PROVE  Pj!Spec => [](Pj!SerialResourcesExclusive /\ Pj!SerialRowsAgree)
  OBVIOUS
<1>1. Pj!Init => PjInv
  BY PjInvInit
<1>2. PjInv /\ [Pj!Next]_(Pj!vars) => PjInv'
  BY PjInvStep
<1> QED
  BY <1>1, <1>2, PjInvSuffices, PTL DEF Pj!Spec

----------------------------------------------------------------------------
(* The users and their invites.                                            *)

AcReq == [pc : {"idle", "owner", "member", "mark"}, email : Emails \cup {None},
          invite : Ac!InviteIds \cup {0}, role : Ac!Role \cup {None}]

AcTypes ==
  /\ user \in [Ac!UserIds -> Ac!User \cup {None}] /\ invite \in [Ac!InviteIds -> Ac!Invite \cup {None}]
  /\ request \in [Requests -> AcReq] /\ ids \in Nat /\ owners \in Nat
  /\ accounts \in [Ac!InviteIds -> Nat] /\ overlap \in BOOLEAN /\ emptied \in BOOLEAN

\* What a handler is doing.
Handles(h) ==
  /\ request[h].pc \in {"owner", "member"} => request[h].email \in Emails
  /\ request[h].pc = "member" => request[h].role \in Ac!Role
  /\ IF request[h].pc \in {"member", "mark"} THEN request[h].invite \in Ac!InviteIds
     ELSE request[h].invite = 0

\* A set-up that is about to make the owner is alone, and there is none yet.
Owner(h) == request[h].pc = "owner"
OwnerInv ==
  /\ ~overlap => \A g, h \in Requests : Owner(g) /\ Owner(h) => g = h
  /\ ~overlap /\ ~emptied =>
       /\ owners <= 1 /\ (owners # 0 => Ac!Users # {})
       /\ \A h \in Requests : Owner(h) => owners = 0

(***************************************************************************)
(* An account was made from an invite that is not marked only while the    *)
(* acceptance that made it is about to mark it; until then nobody else     *)
(* holds the invite, unless acceptances met or one stopped there (reused). *)
(***************************************************************************)
Holds(h, i) == request[h].invite = i
InviteInv ==
  \A i \in Ac!InviteIds :
    /\ invite[i] = None => accounts[i] = 0 /\ \A h \in Requests : ~Holds(h, i)
    /\ \A h \in Requests : Holds(h, i) /\ request[h].pc = "mark" => accounts[i] # 0
    /\ invite[i] # None /\ invite[i].used => accounts[i] # 0
    /\ i \notin reused =>
         /\ \A g, h \in Requests : Holds(g, i) /\ Holds(h, i) => g = h
         /\ \A h \in Requests : Holds(h, i) /\ request[h].pc = "member" => accounts[i] = 0
         /\ accounts[i] <= 1
         /\ accounts[i] # 0 /\ ~invite[i].used =>
              \E h \in Requests : Holds(h, i) /\ request[h].pc = "mark"

AcInv ==
  /\ AcTypes
  /\ \A h \in Requests : Handles(h)
  /\ OwnerInv
  /\ InviteInv

LEMMA IdleTyped ==
  /\ Ac!NoReq \in AcReq /\ Ac!NoReq.pc = "idle" /\ Ac!NoReq.invite = 0
  /\ 0 \notin Ac!InviteIds
BY DEF Ac!NoReq, AcReq, Ac!InviteIds

LEMMA AcMoved ==
  ASSUME AcTypes, NEW h \in Requests, NEW u \in AcReq, request' = [request EXCEPT ![h] = u]
  PROVE  /\ request' \in [Requests -> AcReq] /\ request'[h] = u
         /\ \A g \in Requests \ {h} : request'[g] = request[g]
BY DEF AcTypes

LEMMA AcReturned ==
  ASSUME AcTypes, NEW h \in Requests, Ac!Return(h)
  PROVE  /\ request' \in [Requests -> AcReq] /\ request'[h].pc = "idle" /\ request'[h].invite = 0
         /\ \A g \in Requests \ {h} : request'[g] = request[g]
         /\ Handles(h)'
<1>1. request' \in [Requests -> AcReq] /\ request'[h] = Ac!NoReq /\ \A g \in Requests \ {h} : request'[g] = request[g]
  BY AcMoved, IdleTyped DEF Ac!Return
<1> QED
  BY <1>1, IdleTyped DEF Handles

LEMMA OthersHandle ==
  ASSUME NEW h \in Requests, \A g \in Requests : Handles(g),
         \A g \in Requests \ {h} : request'[g] = request[g], Handles(h)'
  PROVE  \A g \in Requests : Handles(g)'
BY DEF Handles

LEMMA Parameters ==
  ASSUME Ac!AccountsAssumption
  PROVE  /\ MaxUsers \in Nat /\ MaxInvites \in Nat
         /\ None \notin Emails /\ None \notin Ac!User /\ None \notin Ac!Invite
BY DEF Ac!AccountsAssumption

(***************************************************************************)
(* A user is added under an id that was not used.                          *)
(***************************************************************************)
LEMMA Added ==
  ASSUME Ac!AccountsAssumption, AcTypes, NEW email \in Emails, NEW role \in Ac!Role,
         Ac!NewUser(email, role)
  PROVE  /\ user' \in [Ac!UserIds -> Ac!User \cup {None}] /\ ids' \in Nat /\ Ac!Users' # {}
<1>1. ids + 1 \in Ac!UserIds /\ ids' \in Nat
  BY Parameters DEF Ac!NewUser, Ac!UserIds, AcTypes
<1> DEFINE new == [email |-> email, role |-> role]
<1>2. new \in Ac!User /\ new # None
  BY Parameters DEF Ac!User
<1>3. user' = [user EXCEPT ![ids + 1] = new]
  BY DEF Ac!NewUser
<1> HIDE DEF new
<1>4. user' \in [Ac!UserIds -> Ac!User \cup {None}] /\ user'[ids + 1] = new
  BY <1>1, <1>2, <1>3 DEF AcTypes
<1>5. ids + 1 \in Ac!Users'
  BY <1>1, <1>2, <1>4 DEF Ac!Users
<1> QED
  BY <1>1, <1>4, <1>5

LEMMA SetupStep ==
  ASSUME Ac!AccountsAssumption, AcInv, NEW h \in Requests, NEW email \in Emails, Ac!Setup(h, email)
  PROVE  AcInv'
<1> DEFINE u == [Ac!NoReq EXCEPT !.pc = "owner", !.email = email]
<1>1. u \in AcReq /\ u.pc = "owner" /\ u.email = email /\ u.invite = 0
  BY DEF Ac!NoReq, AcReq, Ac!InviteIds
<1>2. /\ Ac!Users = {} /\ request' = [request EXCEPT ![h] = u] /\ request[h].pc = "idle"
      /\ overlap' = (overlap \/ \E g \in Requests : request[g].pc = "owner")
      /\ UNCHANGED <<user, invite, tokens, ids, owners, accounts, reused, emptied>>
  BY DEF Ac!Setup, Ac!rows
<1> HIDE DEF u
<1>3. AcTypes /\ (\A g \in Requests : Handles(g)) /\ OwnerInv /\ InviteInv
  BY DEF AcInv
<1>4. request' \in [Requests -> AcReq] /\ request'[h] = u /\ \A g \in Requests \ {h} : request'[g] = request[g]
  BY <1>1, <1>2, <1>3, AcMoved
<1>5. AcTypes'
  BY <1>2, <1>3, <1>4 DEF AcTypes
<1>6. Handles(h)'
  BY <1>1, <1>4 DEF Handles
<1>7. OwnerInv'
  <2>1. Ac!Users' = Ac!Users
    BY <1>2 DEF Ac!Users
  <2>2. owners \in Nat
    BY <1>3 DEF AcTypes
  <2> QED
    BY <1>1, <1>2, <1>3, <1>4, <2>1, <2>2 DEF OwnerInv, Owner
<1>8. InviteInv'
  <2>1. \A i \in Ac!InviteIds : ~Holds(h, i) /\ ~Holds(h, i)'
    BY <1>1, <1>2, <1>3, <1>4, IdleTyped DEF Holds, Handles
  <2> QED
    BY <1>2, <1>3, <1>4, <2>1 DEF InviteInv, Holds
<1> QED
  BY <1>3, <1>4, <1>5, <1>6, <1>7, <1>8, OthersHandle DEF AcInv

LEMMA CreateOwnerStep ==
  ASSUME Ac!AccountsAssumption, AcInv, NEW h \in Requests, Ac!CreateOwner(h)
  PROVE  AcInv'
<1>1. AcTypes /\ (\A g \in Requests : Handles(g)) /\ OwnerInv /\ InviteInv
  BY DEF AcInv
<1>2. /\ request[h].pc = "owner" /\ Ac!Return(h) /\ UNCHANGED <<accounts, overlap, reused, emptied, invite>>
      /\ \/ Ac!NewUser(request[h].email, "admin") /\ owners' = owners + 1
         \/ UNCHANGED <<user, ids, owners>>
  BY DEF Ac!CreateOwner, Ac!rows
<1>3. /\ request' \in [Requests -> AcReq] /\ request'[h].pc = "idle" /\ request'[h].invite = 0
      /\ \A g \in Requests \ {h} : request'[g] = request[g]
      /\ Handles(h)'
  BY <1>1, <1>2, AcReturned
<1>4. request[h].email \in Emails /\ "admin" \in Ac!Role
  BY <1>1, <1>2 DEF Handles, Ac!Role
<1>5. /\ user' \in [Ac!UserIds -> Ac!User \cup {None}] /\ ids' \in Nat
      /\ \/ owners' = owners + 1 /\ Ac!Users' # {}
         \/ owners' = owners /\ Ac!Users' = Ac!Users
  <2>1. CASE Ac!NewUser(request[h].email, "admin") /\ owners' = owners + 1
    BY <1>1, <1>4, <2>1, Added
  <2>2. CASE UNCHANGED <<user, ids, owners>>
    BY <1>1, <2>2 DEF AcTypes, Ac!Users
  <2> QED
    BY <1>2, <2>1, <2>2
<1>6. owners \in Nat
  BY <1>1 DEF AcTypes
<1>7. AcTypes'
  BY <1>1, <1>2, <1>3, <1>5, <1>6 DEF AcTypes
<1>8. OwnerInv'
  BY <1>1, <1>2, <1>3, <1>5, <1>6 DEF OwnerInv, Owner
<1>9. InviteInv'
  <2>1. \A i \in Ac!InviteIds : ~Holds(h, i) /\ ~Holds(h, i)'
    BY <1>1, <1>2, <1>3, IdleTyped DEF Holds, Handles
  <2> QED
    BY <1>1, <1>2, <1>3, <2>1 DEF InviteInv, Holds
<1> QED
  BY <1>1, <1>3, <1>7, <1>8, <1>9, OthersHandle DEF AcInv

LEMMA AcceptInviteStep ==
  ASSUME Ac!AccountsAssumption, AcInv, NEW h \in Requests, NEW i \in Ac!InviteIds, NEW email \in Emails,
         Ac!AcceptInvite(h, i, email)
  PROVE  AcInv'
<1> DEFINE u == [pc |-> "member", email |-> email, invite |-> i, role |-> invite[i].role]
<1>1. AcTypes /\ (\A g \in Requests : Handles(g)) /\ OwnerInv /\ InviteInv
  BY DEF AcInv
<1>2. /\ request[h].pc = "idle" /\ invite[i] # None /\ ~invite[i].used
      /\ request' = [request EXCEPT ![h] = u]
      /\ reused' = reused \cup IF \E g \in Requests : request[g].invite = i THEN {i} ELSE {}
      /\ UNCHANGED <<user, invite, tokens, ids, owners, accounts, overlap, emptied>>
  BY DEF Ac!AcceptInvite, Ac!Unused, Ac!rows
<1>3. invite[i].role \in Ac!Role
  BY <1>1, <1>2 DEF AcTypes, Ac!Invite
<1>4. u \in AcReq /\ u.pc = "member" /\ u.email = email /\ u.invite = i /\ u.role \in Ac!Role
  BY <1>3 DEF AcReq
<1> HIDE DEF u
<1>5. request' \in [Requests -> AcReq] /\ request'[h] = u /\ \A g \in Requests \ {h} : request'[g] = request[g]
  BY <1>1, <1>2, <1>4, AcMoved
<1>6. AcTypes'
  BY <1>1, <1>2, <1>5 DEF AcTypes
<1>7. Handles(h)'
  BY <1>4, <1>5 DEF Handles
<1>8. OwnerInv'
  <2>1. Ac!Users' = Ac!Users
    BY <1>2 DEF Ac!Users
  <2> QED
    BY <1>1, <1>2, <1>4, <1>5, <2>1 DEF OwnerInv, Owner
<1>9. InviteInv'
  <2>1. \A j \in Ac!InviteIds : ~Holds(h, j) /\ (Holds(h, j)' <=> j = i)
    BY <1>1, <1>2, <1>4, <1>5, IdleTyped DEF Holds, Handles
  <2>2. \A g \in Requests \ {h}, j \in Ac!InviteIds : Holds(g, j)' <=> Holds(g, j)
    BY <1>5 DEF Holds
  <2>3. i \notin reused' => i \notin reused /\ (\A g \in Requests : ~Holds(g, i)) /\ accounts[i] = 0
    BY <1>1, <1>2 DEF InviteInv, Holds
  <2>4. \A j \in Ac!InviteIds : j # i /\ j \notin reused' => j \notin reused
    BY <1>2
  <2> SUFFICES ASSUME NEW j \in Ac!InviteIds
               PROVE  InviteInv!(j)'
    BY DEF InviteInv
  <2> QED
    BY <1>1, <1>2, <1>4, <1>5, <2>1, <2>2, <2>3, <2>4 DEF InviteInv
<1> QED
  BY <1>1, <1>5, <1>6, <1>7, <1>8, <1>9, OthersHandle DEF AcInv

LEMMA CreateUserStep ==
  ASSUME Ac!AccountsAssumption, AcInv, NEW h \in Requests, Ac!CreateUser(h)
  PROVE  AcInv'
<1>0. PICK i : i = request[h].invite
  OBVIOUS
<1>1. AcTypes /\ (\A g \in Requests : Handles(g)) /\ OwnerInv /\ InviteInv
  BY DEF AcInv
<1>2. request[h].pc = "member" /\ UNCHANGED <<owners, overlap, reused, emptied, invite>>
  BY DEF Ac!CreateUser, Ac!rows
<1>3. i \in Ac!InviteIds /\ request[h].email \in Emails /\ request[h].role \in Ac!Role /\ request[h] \in AcReq
  BY <1>0, <1>1, <1>2 DEF Handles, AcTypes
<1>4. ASSUME Ac!NewUser(request[h].email, request[h].role),
             accounts' = [accounts EXCEPT ![i] = @ + 1],
             request' = [request EXCEPT ![h].pc = "mark"]
      PROVE  AcInv'
  <2> DEFINE u == [request[h] EXCEPT !.pc = "mark"]
  <2>1. u \in AcReq /\ u.pc = "mark" /\ u.invite = i
    BY <1>0, <1>3 DEF AcReq
  <2>2. request' = [request EXCEPT ![h] = u]
    BY <1>4
  <2> HIDE DEF u
  <2>3. request' \in [Requests -> AcReq] /\ request'[h] = u /\ \A g \in Requests \ {h} : request'[g] = request[g]
    BY <1>1, <2>1, <2>2, AcMoved
  <2>4. /\ user' \in [Ac!UserIds -> Ac!User \cup {None}] /\ ids' \in Nat /\ Ac!Users' # {}
    BY <1>1, <1>3, <1>4, Added
  <2>5. accounts' \in [Ac!InviteIds -> Nat] /\ accounts'[i] = accounts[i] + 1 /\ accounts[i] \in Nat
        /\ \A j \in Ac!InviteIds \ {i} : accounts'[j] = accounts[j]
    BY <1>1, <1>3, <1>4 DEF AcTypes
  <2>6. AcTypes'
    BY <1>1, <1>2, <2>3, <2>4, <2>5 DEF AcTypes
  <2>7. Handles(h)'
    BY <1>3, <2>1, <2>3 DEF Handles
  <2>8. OwnerInv'
    BY <1>1, <1>2, <2>1, <2>3, <2>4 DEF OwnerInv, Owner
  <2>9. InviteInv'
    <3>1. \A g \in Requests, j \in Ac!InviteIds : Holds(g, j)' <=> Holds(g, j)
      BY <1>0, <2>1, <2>3 DEF Holds
    <3>2. \A g \in Requests \ {h} : request'[g].pc = request[g].pc
      BY <2>3
    <3>3. Holds(h, i) /\ request'[h].pc = "mark" /\ \A j \in Ac!InviteIds : Holds(h, j) => j = i
      BY <1>0, <2>1, <2>3 DEF Holds
    <3> SUFFICES ASSUME NEW j \in Ac!InviteIds  PROVE InviteInv!(j)'
      BY DEF InviteInv
    <3>4. CASE j = i
      BY <1>1, <1>2, <2>5, <3>1, <3>2, <3>3, <3>4 DEF InviteInv
    <3>5. CASE j # i
      BY <1>1, <1>2, <2>5, <3>1, <3>2, <3>3, <3>5 DEF InviteInv
    <3> QED
      BY <3>4, <3>5
  <2> QED
    BY <1>1, <2>3, <2>6, <2>7, <2>8, <2>9, OthersHandle DEF AcInv
<1>5. ASSUME Ac!Return(h), UNCHANGED <<user, tokens, ids, accounts>>  PROVE AcInv'
  <2>1. /\ request' \in [Requests -> AcReq] /\ request'[h].pc = "idle" /\ request'[h].invite = 0
        /\ \A g \in Requests \ {h} : request'[g] = request[g]
        /\ Handles(h)'
    BY <1>1, <1>5, AcReturned
  <2>2. AcTypes'
    BY <1>1, <1>2, <1>5, <2>1 DEF AcTypes
  <2>3. OwnerInv'
    BY <1>1, <1>2, <1>5, <2>1 DEF OwnerInv, Owner, Ac!Users
  <2>4. InviteInv'
    <3>1. \A j \in Ac!InviteIds : ~Holds(h, j)'
      BY <2>1, IdleTyped DEF Holds
    <3>2. \A g \in Requests \ {h}, j \in Ac!InviteIds : Holds(g, j)' <=> Holds(g, j)
      BY <2>1 DEF Holds
    <3> SUFFICES ASSUME NEW j \in Ac!InviteIds  PROVE InviteInv!(j)'
      BY DEF InviteInv
    <3> QED
      BY <1>1, <1>2, <1>5, <2>1, <3>1, <3>2 DEF InviteInv
  <2> QED
    BY <1>1, <2>1, <2>2, <2>3, <2>4, OthersHandle DEF AcInv
<1> QED
  BY <1>0, <1>4, <1>5 DEF Ac!CreateUser, Ac!rows

LEMMA MarkUsedStep ==
  ASSUME Ac!AccountsAssumption, AcInv, NEW h \in Requests, Ac!MarkUsed(h)
  PROVE  AcInv'
<1>0. PICK i : i = request[h].invite
  OBVIOUS
<1>1. AcTypes /\ (\A g \in Requests : Handles(g)) /\ OwnerInv /\ InviteInv
  BY DEF AcInv
<1>2. /\ request[h].pc = "mark" /\ Ac!Return(h) /\ UNCHANGED <<user, ids, owners, accounts, overlap, reused, emptied>>
      /\ invite' = [invite EXCEPT ![i].used = TRUE]
  BY <1>0 DEF Ac!MarkUsed, Ac!history
<1>3. i \in Ac!InviteIds /\ Holds(h, i)
  BY <1>0, <1>1, <1>2 DEF Handles, Holds
<1>4. /\ request' \in [Requests -> AcReq] /\ request'[h].pc = "idle" /\ request'[h].invite = 0
      /\ \A g \in Requests \ {h} : request'[g] = request[g]
      /\ Handles(h)'
  BY <1>1, <1>2, AcReturned
<1>5. accounts[i] # 0 /\ invite[i] # None /\ invite[i] \in Ac!Invite
  BY <1>1, <1>2, <1>3 DEF InviteInv, AcTypes
<1> DEFINE new == [invite[i] EXCEPT !.used = TRUE]
<1>6. new \in Ac!Invite /\ new # None /\ new.used = TRUE
  BY <1>5, Parameters DEF Ac!Invite
<1>7. invite' = [invite EXCEPT ![i] = new]
  BY <1>2
<1> HIDE DEF new
<1>8. invite' \in [Ac!InviteIds -> Ac!Invite \cup {None}] /\ invite'[i] = new
      /\ \A j \in Ac!InviteIds \ {i} : invite'[j] = invite[j]
  BY <1>1, <1>3, <1>6, <1>7 DEF AcTypes
<1>9. AcTypes'
  BY <1>1, <1>2, <1>4, <1>8 DEF AcTypes
<1>10. OwnerInv'
  BY <1>1, <1>2, <1>4 DEF OwnerInv, Owner, Ac!Users
<1>11. InviteInv'
  <2>1. \A j \in Ac!InviteIds : ~Holds(h, j)' /\ (Holds(h, j) => j = i)
    BY <1>0, <1>4, IdleTyped DEF Holds
  <2>2. \A g \in Requests \ {h}, j \in Ac!InviteIds : Holds(g, j)' <=> Holds(g, j)
    BY <1>4 DEF Holds
  <2> SUFFICES ASSUME NEW j \in Ac!InviteIds  PROVE InviteInv!(j)'
    BY DEF InviteInv
  <2>3. CASE j = i
    BY <1>1, <1>2, <1>3, <1>4, <1>5, <1>6, <1>8, <2>1, <2>2, <2>3 DEF InviteInv
  <2>4. CASE j # i
    BY <1>1, <1>2, <1>3, <1>4, <1>8, <2>1, <2>2, <2>4 DEF InviteInv
  <2> QED
    BY <2>3, <2>4
<1> QED
  BY <1>1, <1>4, <1>9, <1>10, <1>11, OthersHandle DEF AcInv

LEMMA AcFailStep ==
  ASSUME Ac!AccountsAssumption, AcInv, NEW h \in Requests, Ac!Fail(h)
  PROVE  AcInv'
<1>1. AcTypes /\ (\A g \in Requests : Handles(g)) /\ OwnerInv /\ InviteInv
  BY DEF AcInv
<1>2. /\ Ac!Return(h) /\ UNCHANGED <<user, invite, ids, owners, accounts, overlap, emptied>>
      /\ reused' = reused \cup IF request[h].pc = "mark" THEN {request[h].invite} ELSE {}
  BY DEF Ac!Fail, Ac!rows
<1>3. /\ request' \in [Requests -> AcReq] /\ request'[h].pc = "idle" /\ request'[h].invite = 0
      /\ \A g \in Requests \ {h} : request'[g] = request[g]
      /\ Handles(h)'
  BY <1>1, <1>2, AcReturned
<1>4. AcTypes'
  BY <1>1, <1>2, <1>3 DEF AcTypes
<1>5. OwnerInv'
  BY <1>1, <1>2, <1>3 DEF OwnerInv, Owner, Ac!Users
<1>6. InviteInv'
  <2>1. \A j \in Ac!InviteIds : ~Holds(h, j)'
    BY <1>3, IdleTyped DEF Holds
  <2>2. \A g \in Requests \ {h}, j \in Ac!InviteIds : Holds(g, j)' <=> Holds(g, j)
    BY <1>3 DEF Holds
  <2>3. \A j \in Ac!InviteIds : j \notin reused' => j \notin reused /\ (Holds(h, j) => request[h].pc # "mark")
    BY <1>2 DEF Holds
  <2> SUFFICES ASSUME NEW j \in Ac!InviteIds  PROVE InviteInv!(j)'
    BY DEF InviteInv
  <2> QED
    BY <1>1, <1>2, <1>3, <2>1, <2>2, <2>3 DEF InviteInv
<1> QED
  BY <1>1, <1>3, <1>4, <1>5, <1>6, OthersHandle DEF AcInv

(***************************************************************************)
(* The steps that change no request.                                       *)
(***************************************************************************)
LEMMA UserRow ==
  ASSUME Ac!AccountsAssumption, AcTypes, NEW u \in Ac!UserIds
  PROVE  user[u] # None => user[u] \in Ac!User
BY Parameters DEF AcTypes

LEMMA InviteRow ==
  ASSUME Ac!AccountsAssumption, AcTypes, NEW i \in Ac!InviteIds
  PROVE  invite[i] # None => invite[i] \in Ac!Invite
BY Parameters DEF AcTypes

LEMMA TokensStep ==
  ASSUME AcInv, UNCHANGED <<user, invite, ids, request, Ac!history>>
  PROVE  AcInv'
BY DEF AcInv, AcTypes, Handles, OwnerInv, Owner, Ac!Users, InviteInv, Holds, Ac!history

\* An invite that starts out unused, or keeps its mark.
LEMMA InvitesStep ==
  ASSUME Ac!AccountsAssumption, AcInv, NEW i \in Ac!InviteIds, NEW new \in Ac!Invite,
         invite' = [invite EXCEPT ![i] = new],
         IF invite[i] = None THEN ~new.used ELSE new.used = invite[i].used,
         UNCHANGED <<user, ids, request, Ac!history>>
  PROVE  AcInv'
<1>1. AcTypes /\ (\A g \in Requests : Handles(g)) /\ OwnerInv /\ InviteInv
  BY DEF AcInv
<1>2. UNCHANGED <<user, ids, request, owners, accounts, overlap, reused, emptied>>
  BY DEF Ac!history
<1>3. new # None
  BY Parameters
<1>4. invite' \in [Ac!InviteIds -> Ac!Invite \cup {None}] /\ invite'[i] = new
      /\ \A j \in Ac!InviteIds \ {i} : invite'[j] = invite[j]
  BY <1>1 DEF AcTypes
<1>5. AcTypes'
  BY <1>1, <1>2, <1>4 DEF AcTypes
<1>6. (\A g \in Requests : Handles(g))' /\ OwnerInv'
  BY <1>1, <1>2 DEF Handles, OwnerInv, Owner, Ac!Users
<1>7. InviteInv'
  <2>1. \A g \in Requests, j \in Ac!InviteIds : Holds(g, j)' <=> Holds(g, j)
    BY <1>2 DEF Holds
  <2> SUFFICES ASSUME NEW j \in Ac!InviteIds  PROVE InviteInv!(j)'
    BY DEF InviteInv
  <2>2. CASE j # i
    BY <1>1, <1>2, <1>4, <2>1, <2>2 DEF InviteInv
  <2>3. CASE j = i /\ invite[i] = None
    BY <1>1, <1>2, <1>3, <1>4, <2>1, <2>3 DEF InviteInv
  <2>4. CASE j = i /\ invite[i] # None
    BY <1>1, <1>2, <1>3, <1>4, <2>1, <2>4 DEF InviteInv
  <2> QED
    BY <2>2, <2>3, <2>4
<1> QED
  BY <1>1, <1>5, <1>6, <1>7 DEF AcInv

LEMMA CreateInviteStep ==
  ASSUME Ac!AccountsAssumption, AcInv, NEW t, NEW i \in Ac!InviteIds, NEW role \in Ac!Role,
         Ac!CreateInvite(t, i, role)
  PROVE  AcInv'
<1> DEFINE new == [role |-> role, by |-> t, used |-> FALSE, expired |-> FALSE]
<1>1. /\ t \in Ac!UserIds /\ invite[i] = None /\ invite' = [invite EXCEPT ![i] = new]
      /\ UNCHANGED <<user, ids, request, Ac!history>>
  BY DEF Ac!CreateInvite, Ac!Users
<1>2. new \in Ac!Invite /\ new.used = FALSE
  BY <1>1 DEF Ac!Invite
<1> HIDE DEF new
<1> QED
  BY <1>1, <1>2, InvitesStep

LEMMA InviteExpiresStep ==
  ASSUME Ac!AccountsAssumption, AcInv, NEW i \in Ac!InviteIds, Ac!InviteExpires(i)
  PROVE  AcInv'
<1> DEFINE new == [invite[i] EXCEPT !.expired = TRUE]
<1>1. invite[i] # None /\ invite' = [invite EXCEPT ![i] = new] /\ UNCHANGED <<user, ids, request, Ac!history>>
  BY DEF Ac!InviteExpires
<1>2. invite[i] \in Ac!Invite
  BY <1>1, InviteRow DEF AcInv
<1>3. new \in Ac!Invite /\ new.used = invite[i].used
  BY <1>2 DEF Ac!Invite
<1> HIDE DEF new
<1> QED
  BY <1>1, <1>3, InvitesStep

\* A change of the users that keeps the others, and one of them while nothing says otherwise.
LEMMA UsersStep ==
  ASSUME AcInv, user' \in [Ac!UserIds -> Ac!User \cup {None}],
         emptied' \in BOOLEAN, emptied => emptied', ~emptied' => (Ac!Users # {} => Ac!Users' # {}),
         UNCHANGED <<invite, tokens, ids, request, owners, accounts, overlap, reused>>
  PROVE  AcInv'
<1>1. AcTypes /\ (\A g \in Requests : Handles(g)) /\ OwnerInv /\ InviteInv
  BY DEF AcInv
<1>2. AcTypes'
  BY <1>1 DEF AcTypes
<1>3. (\A g \in Requests : Handles(g))' /\ InviteInv'
  BY <1>1 DEF Handles, InviteInv, Holds
<1>4. OwnerInv'
  BY <1>1 DEF OwnerInv, Owner
<1> QED
  BY <1>2, <1>3, <1>4 DEF AcInv

LEMMA UpdateRoleStep ==
  ASSUME Ac!AccountsAssumption, AcInv, NEW u \in Ac!UserIds, NEW role \in Ac!Role, Ac!UpdateRole(u, role)
  PROVE  AcInv'
<1> DEFINE new == [user[u] EXCEPT !.role = role]
<1>1. AcTypes
  BY DEF AcInv
<1>2. /\ user[u] # None /\ user' = [user EXCEPT ![u] = new] /\ UNCHANGED <<invite, tokens, ids, request>>
      /\ UNCHANGED <<owners, accounts, overlap, reused, emptied>>
  BY DEF Ac!UpdateRole, Ac!Users, Ac!history
<1>3. user[u] \in Ac!User
  BY <1>1, <1>2, UserRow
<1>4. new \in Ac!User /\ new # None
  BY <1>3, Parameters DEF Ac!User
<1> HIDE DEF new
<1>5. user' \in [Ac!UserIds -> Ac!User \cup {None}] /\ user'[u] = new
  BY <1>1, <1>2, <1>4 DEF AcTypes
<1>6. u \in Ac!Users'
  BY <1>4, <1>5 DEF Ac!Users
<1>7. emptied' \in BOOLEAN
  BY <1>1, <1>2 DEF AcTypes
<1> QED
  BY <1>2, <1>5, <1>6, <1>7, UsersStep

LEMMA DeleteUserStep ==
  ASSUME Ac!AccountsAssumption, AcInv, NEW u \in Ac!UserIds, Ac!DeleteUser(u)
  PROVE  AcInv'
<1>1. AcTypes
  BY DEF AcInv
<1>2. /\ u \in Ac!Users /\ user' = [user EXCEPT ![u] = None]
      /\ emptied' = (emptied \/ Ac!Users = {u})
      /\ UNCHANGED <<invite, tokens, ids, request, owners, accounts, overlap, reused>>
  BY DEF Ac!DeleteUser
<1>3. user' \in [Ac!UserIds -> Ac!User \cup {None}] /\ \A v \in Ac!UserIds \ {u} : user'[v] = user[v]
  BY <1>1, <1>2 DEF AcTypes
<1>4. ASSUME ~emptied'  PROVE Ac!Users' # {}
  <2>1. PICK v \in Ac!Users : v # u
    BY <1>2, <1>4
  <2>2. v \in Ac!Users'
    BY <1>3, <2>1 DEF Ac!Users
  <2> QED
    BY <2>2
<1>5. emptied' \in BOOLEAN /\ (emptied => emptied')
  BY <1>1, <1>2, Zenon DEF AcTypes
<1> QED
  BY <1>2, <1>3, <1>4, <1>5, UsersStep

LEMMA AcInvInit ==
  ASSUME Ac!AccountsAssumption, Ac!Init
  PROVE  AcInv
<1>1. /\ user = [u \in Ac!UserIds |-> None] /\ invite = [i \in Ac!InviteIds |-> None] /\ ids = 0
      /\ \A h \in Requests : request[h] = Ac!NoReq
      /\ owners = 0 /\ accounts = [i \in Ac!InviteIds |-> 0] /\ overlap = FALSE /\ reused = {}
      /\ emptied = FALSE /\ request \in [Requests -> AcReq]
  BY IdleTyped DEF Ac!Init
<1>2. AcTypes
  BY <1>1 DEF AcTypes
<1>3. \A h \in Requests : Handles(h) /\ ~Owner(h) /\ request[h].pc = "idle" /\ request[h].invite = 0
  BY <1>1, IdleTyped DEF Handles, Owner
<1>4. OwnerInv
  BY <1>1, <1>3 DEF OwnerInv
<1>5. \A h \in Requests, i \in Ac!InviteIds : ~Holds(h, i)
  BY <1>3, IdleTyped DEF Holds
<1>6. InviteInv
  BY <1>1, <1>5 DEF InviteInv
<1> QED
  BY <1>2, <1>3, <1>4, <1>6 DEF AcInv

LEMMA AcInvStep ==
  ASSUME Ac!AccountsAssumption, AcInv, [Ac!Next]_(Ac!vars)
  PROVE  AcInv'
<1>1. ASSUME NEW h \in Requests, NEW e \in Emails, Ac!Setup(h, e)  PROVE AcInv'
  BY <1>1, SetupStep
<1>2. ASSUME NEW h \in Requests, NEW e \in Emails, NEW i \in Ac!InviteIds, Ac!AcceptInvite(h, i, e)
      PROVE  AcInv'
  BY <1>2, AcceptInviteStep
<1>3. ASSUME NEW h \in Requests, Ac!CreateOwner(h)  PROVE AcInv'
  BY <1>3, CreateOwnerStep
<1>4. ASSUME NEW h \in Requests, Ac!CreateUser(h)  PROVE AcInv'
  BY <1>4, CreateUserStep
<1>5. ASSUME NEW h \in Requests, Ac!MarkUsed(h)  PROVE AcInv'
  BY <1>5, MarkUsedStep
<1>6. ASSUME NEW h \in Requests, Ac!Fail(h)  PROVE AcInv'
  BY <1>6, AcFailStep
<1>7. ASSUME NEW u \in Ac!UserIds, Ac!Login(u)  PROVE AcInv'
  BY <1>7, TokensStep DEF Ac!Login
<1>8. ASSUME NEW u \in Ac!UserIds, Ac!DeleteUser(u)  PROVE AcInv'
  BY <1>8, DeleteUserStep
<1>9. ASSUME NEW u \in Ac!UserIds, NEW r \in Ac!Role, Ac!UpdateRole(u, r)  PROVE AcInv'
  BY <1>9, UpdateRoleStep
<1>10. ASSUME NEW t \in tokens, Ac!TokenExpires(t)  PROVE AcInv'
  BY <1>10, TokensStep DEF Ac!TokenExpires
<1>11. ASSUME NEW t \in tokens, NEW i \in Ac!InviteIds, NEW r \in Ac!Role, Ac!CreateInvite(t, i, r)
       PROVE  AcInv'
  BY <1>11, CreateInviteStep
<1>12. ASSUME NEW i \in Ac!InviteIds, Ac!InviteExpires(i)  PROVE AcInv'
  BY <1>12, InviteExpiresStep
<1>13. ASSUME UNCHANGED Ac!vars  PROVE AcInv'
  BY <1>13, TokensStep DEF Ac!vars, Ac!rows
<1> QED
  BY <1>1, <1>2, <1>3, <1>4, <1>5, <1>6, <1>7, <1>8, <1>9, <1>10, <1>11, <1>12, <1>13 DEF Ac!Next

LEMMA AcInvSuffices ==
  ASSUME AcInv
  PROVE  Ac!OneOwner /\ Ac!InvitesAccounted
<1>1. accounts \in [Ac!InviteIds -> Nat]
  BY DEF AcInv, AcTypes
<1>2. Ac!OneOwner
  BY DEF AcInv, OwnerInv, Ac!OneOwner
<1>3. ASSUME NEW i \in Ac!InviteIds
      PROVE  /\ i \notin reused => accounts[i] <= 1
             /\ invite[i] # None /\ invite[i].used => accounts[i] >= 1
  BY <1>1 DEF AcInv, InviteInv
<1> QED
  BY <1>2, <1>3 DEF Ac!InvitesAccounted

(***************************************************************************)
(* Of the users alone, for any addresses, users, invites and requests:     *)
(* set-ups that do not meet make one owner as long as a user is left, an   *)
(* invite makes one account unless acceptances of it meet or one stops     *)
(* before the mark, and none is used up without an account.                *)
(***************************************************************************)
THEOREM AccountsAccounted ==
  Ac!AccountsAssumption => (Ac!Spec => [](Ac!OneOwner /\ Ac!InvitesAccounted))
<1> SUFFICES ASSUME Ac!AccountsAssumption  PROVE Ac!Spec => [](Ac!OneOwner /\ Ac!InvitesAccounted)
  OBVIOUS
<1>1. Ac!Init => AcInv
  BY AcInvInit
<1>2. AcInv /\ [Ac!Next]_(Ac!vars) => AcInv'
  BY AcInvStep
<1>3. AcInv => Ac!OneOwner /\ Ac!InvitesAccounted
  BY AcInvSuffices
<1> QED
  BY <1>1, <1>2, <1>3, PTL DEF Ac!Spec

----------------------------------------------------------------------------
(* The sum.                                                                *)

(***************************************************************************)
(* Nothing but the component that runs takes a step, and turn stays.       *)
(***************************************************************************)
LEMMA OnlyItsOwnSteps ==
  ASSUME [ServicesNext]_services
  PROVE  /\ UNCHANGED turn
         /\ turn = "tails" => [Lt!Next]_(Lt!vars)
         /\ turn = "pool" => [Cp!Next]_(Cp!vars)
         /\ turn = "static" => [Ss!Next]_(Ss!vars)
         /\ turn = "process" => [Ap!Next]_(Ap!vars)
         /\ turn = "nginx" => [Ng!Next]_(Ng!vars)
         /\ turn = "projects" => [Pj!Next]_(Pj!vars)
         /\ turn = "accounts" => [Ac!Next]_(Ac!vars)
         /\ turn = "hooks" => [Wh!Next]_(Wh!vars)
         /\ turn = "deliveries" => [Dv!Next]_(Dv!vars)
         /\ turn = "deploy" => [Dp!Next]_(Dp!vars)
<1>1. CASE UNCHANGED services
  <2>1. /\ UNCHANGED <<tailed, pooled, sited, processed, served, provided, invited, slots>>
        /\ UNCHANGED <<turn, calm, row, user, deploys, request, worker, updates, overlap>>
    <3>1. /\ UNCHANGED <<tailed, pooled, sited, processed, served, provided, invited, slots>>
          /\ UNCHANGED turn /\ UNCHANGED shared
      BY <1>1, Zenon DEF services
    <3>2. UNCHANGED <<calm, row, user, deploys, request, worker, updates, overlap>>
      BY <3>1, Zenon DEF shared
    <3> QED
      BY <3>1, <3>2
  <2>2. UNCHANGED Lt!vars /\ UNCHANGED Cp!vars /\ UNCHANGED Ss!vars
    BY <2>1 DEF tailed, pooled, sited, Lt!vars, Lt!clients, Lt!processes, Lt!log,
                Cp!vars, Cp!pool, Ss!vars
  <2>3. UNCHANGED Ap!vars /\ UNCHANGED Ng!vars
    BY <2>1 DEF processed, served, Ap!vars, Ap!rows, Ap!files, Ap!bounds, Ap!history, Ng!vars,
                Ng!files, Ng!bounds
  <2>4. UNCHANGED Wh!vars /\ UNCHANGED Dv!vars /\ UNCHANGED Dp!vars
    BY <2>1 DEF slots, Wh!vars, Wh!hooks, Wh!events, Dv!vars, Dv!hooks, Dv!events,
                Dp!vars, Dp!rows, Dp!jobs
  <2>5. UNCHANGED Pj!vars /\ UNCHANGED Ac!vars
    BY <2>1 DEF provided, invited, Pj!vars, Pj!store, Pj!outcome, Ac!vars, Ac!rows, Ac!history
  <2> QED
    BY <2>1, <2>2, <2>3, <2>4, <2>5
<1>2. CASE ServicesNext
  BY <1>2, Zenon DEF ServicesNext, Runs
<1> QED
  BY <1>1, <1>2

(***************************************************************************)
(* Of each component the sum starts in an initial state.                   *)
(***************************************************************************)
LEMMA OwnStart ==
  ASSUME ServicesInit
  PROVE  /\ turn = "tails" => Lt!Init
         /\ turn = "pool" => Cp!Init
         /\ turn = "static" => Ss!Init
         /\ turn = "process" => Ap!Init
         /\ turn = "nginx" => Ng!Init
         /\ turn = "projects" => Pj!Init
         /\ turn = "accounts" => Ac!Init
         /\ turn = "hooks" => Wh!Init
         /\ turn = "deliveries" => Dv!Init
         /\ turn = "deploy" => Dp!Init
BY Zenon DEF ServicesInit

(***************************************************************************)
(* When the component that runs does not move, nothing does.               *)
(***************************************************************************)
LEMMA NoOtherSteps ==
  ASSUME [ServicesNext]_services
  PROVE  /\ turn = "static" /\ UNCHANGED Ss!vars => UNCHANGED services
         /\ turn = "nginx" /\ UNCHANGED Ng!vars => UNCHANGED services
         /\ turn = "deliveries" /\ UNCHANGED Dv!vars => UNCHANGED services
         /\ turn = "deploy" /\ UNCHANGED Dp!vars => UNCHANGED services
<1> USE DEF ServicesNext, Runs, services, shared
<1>1. ASSUME turn = "static", UNCHANGED Ss!vars  PROVE UNCHANGED services
  BY <1>1 DEF Ss!vars, sited
<1>2. ASSUME turn = "nginx", UNCHANGED Ng!vars  PROVE UNCHANGED services
  BY <1>2 DEF Ng!vars, Ng!files, Ng!bounds, served
<1>3. ASSUME turn = "deliveries", UNCHANGED Dv!vars  PROVE UNCHANGED services
  BY <1>3 DEF Dv!vars, Dv!hooks, Dv!events, slots
<1>4. ASSUME turn = "deploy", UNCHANGED Dp!vars  PROVE UNCHANGED services
  BY <1>4 DEF Dp!vars, Dp!rows, Dp!jobs, slots
<1> QED
  BY <1>1, <1>2, <1>3, <1>4

(***************************************************************************)
(* However many clients come, go and reload, and whatever is edited under  *)
(* queries: a room with viewers has a tail, a query an open client made    *)
(* from the row, and no client is left open (TailsAndClients).             *)
(***************************************************************************)
THEOREM TailsAndClientsHold == ServicesAssumption /\ ServicesSpec => []TailsAndClients
<1> SUFFICES ASSUME ServicesAssumption  PROVE ServicesSpec => []TailsAndClients
  OBVIOUS
<1>1. ServicesSpec => [](turn = "tails" => Lt!RoomIsServed /\ Lt!TailsFollowRoom)
  <2>1. ServicesInit => (turn = "tails" => Lt!Init)
    BY OwnStart
  <2>2. [ServicesNext]_services =>
          ((turn = "tails") <=> (turn = "tails")') /\ (turn = "tails" => [Lt!Next]_(Lt!vars))
    BY OnlyItsOwnSteps
  <2>3. Lt!Spec => []Lt!RoomIsServed
    BY ViewersAreServed DEF ServicesAssumption
  <2>4. Lt!Spec => []Lt!TailsFollowRoom
    BY TailsAsWatched DEF ServicesAssumption
  <2> QED
    BY <2>1, <2>2, <2>3, <2>4, PTL DEF ServicesSpec, Lt!Spec
<1>2. ServicesSpec => [](turn = "pool" => Cp!QueriesReachTheRow /\ Cp!NoClientLost)
  <2>1. ServicesInit => (turn = "pool" => Cp!Init)
    BY OwnStart
  <2>2. [ServicesNext]_services =>
          ((turn = "pool") <=> (turn = "pool")') /\ (turn = "pool" => [Cp!Next]_(Cp!vars))
    BY OnlyItsOwnSteps
  <2>3. Cp!Spec => []Cp!NoClientLost
    BY NoneLost DEF ServicesAssumption
  <2>4. Cp!Spec => []Cp!QueriesReachTheRow
    BY QueriesServed DEF ServicesAssumption
  <2> QED
    BY <2>1, <2>2, <2>3, <2>4, PTL DEF ServicesSpec, Cp!Spec
<1> QED
  BY <1>1, <1>2, PTL DEF TailsAndClients

(***************************************************************************)
(* For any deliveries, filters and administrators: GitHub signs with the   *)
(* secret the guard knows, serial changes leave no hook over, and no event *)
(* is deployed twice (DeliveriesAccounted).                                *)
(***************************************************************************)
THEOREM DeliveriesAreAccounted == ServicesAssumption /\ ServicesSpec => []DeliveriesAccounted
<1> SUFFICES ASSUME ServicesAssumption  PROVE ServicesSpec => []DeliveriesAccounted
  OBVIOUS
<1>1. ServicesSpec => [](turn = "hooks" => Wh!HooksAccounted)
  <2>1. ServicesInit => (turn = "hooks" => Wh!Init)
    BY OwnStart
  <2>2. [ServicesNext]_services =>
          ((turn = "hooks") <=> (turn = "hooks")') /\ (turn = "hooks" => [Wh!Next]_(Wh!vars))
    BY OnlyItsOwnSteps
  <2>3. Wh!Spec => [](Wh!TypeOK /\ Wh!OneDeploymentPerDelivery /\ Wh!HooksAccounted)
    BY Wh!DeliveredOnce DEF ServicesAssumption
  <2> QED
    BY <2>1, <2>2, <2>3, PTL DEF ServicesSpec, Wh!Spec
<1>2. ServicesSpec => [](turn = "deliveries" => Dv!HooksAccounted /\ Dv!OneDeploymentPerDelivery)
  <2>1. ServicesInit => (turn = "deliveries" => Dv!Init)
    BY OwnStart
  <2>2. [ServicesNext]_services =>
          ((turn = "deliveries") <=> (turn = "deliveries")') /\ (turn = "deliveries" => [Dv!Next]_(Dv!vars))
    BY OnlyItsOwnSteps
  <2>3. Dv!Spec => [](Dv!TypeOK /\ Dv!OneDeploymentPerDelivery /\ Dv!HooksAccounted)
    BY Dv!DeliveredOnce DEF ServicesAssumption
  <2> QED
    BY <2>1, <2>2, <2>3, PTL DEF ServicesSpec, Dv!Spec
<1> QED
  BY <1>1, <1>2, PTL DEF DeliveriesAccounted

(***************************************************************************)
(* For any sites, settings and requests: while writers neither overlap nor *)
(* fail, nginx serves what the rows say, or that less the locations a      *)
(* deployment has dropped, and PM2 runs what the row and the               *)
(* files say (RunsAsConfigured).                                           *)
(***************************************************************************)
THEOREM RunAsConfigured == ServicesAssumption /\ ServicesSpec => []RunsAsConfigured
<1> SUFFICES ASSUME ServicesAssumption  PROVE ServicesSpec => []RunsAsConfigured
  OBVIOUS
<1>1. ServicesSpec => [](turn = "nginx" => Ng!ServedAsConfigured)
  <2>1. ServicesInit => (turn = "nginx" => Ng!Init)
    BY OwnStart
  <2>2. [ServicesNext]_services =>
          ((turn = "nginx") <=> (turn = "nginx")') /\ (turn = "nginx" => [Ng!Next]_(Ng!vars))
    BY OnlyItsOwnSteps
  <2>3. Ng!Spec => []Ng!ServedAsConfigured /\ [][Ng!RejectionRestoresStep]_(Ng!vars)
    BY SitesServed DEF ServicesAssumption
  <2> QED
    BY <2>1, <2>2, <2>3, PTL DEF ServicesSpec, Ng!Spec
<1>2. ServicesSpec => [](turn = "process" => Ap!StatusHonest /\ Ap!FilesCurrent)
  <2>1. ServicesInit => (turn = "process" => Ap!Init)
    BY OwnStart
  <2>2. [ServicesNext]_services =>
          ((turn = "process") <=> (turn = "process")') /\ (turn = "process" => [Ap!Next]_(Ap!vars))
    BY OnlyItsOwnSteps
  <2>3. Ap!Spec => [](Ap!StatusHonest /\ Ap!FilesCurrent)
    BY ProcessFollowed DEF ServicesAssumption
  <2> QED
    BY <2>1, <2>2, <2>3, PTL DEF ServicesSpec, Ap!Spec
<1> QED
  BY <1>1, <1>2, PTL DEF RunsAsConfigured

(***************************************************************************)
(* For any projects, slugs, resources, addresses and invites: serial       *)
(* requests give no database or Redis index twice and leave rows,          *)
(* connections and variables agreed; set-ups that do not meet make one     *)
(* owner, and an invite makes one account (ResourcesAccounted).            *)
(***************************************************************************)
THEOREM ResourcesAreAccounted == ServicesAssumption /\ ServicesSpec => []ResourcesAccounted
<1> SUFFICES ASSUME ServicesAssumption  PROVE ServicesSpec => []ResourcesAccounted
  OBVIOUS
<1>1. ServicesSpec => [](turn = "projects" => Pj!SerialResourcesExclusive /\ Pj!SerialRowsAgree)
  <2>1. ServicesInit => (turn = "projects" => Pj!Init)
    BY OwnStart
  <2>2. [ServicesNext]_services =>
          ((turn = "projects") <=> (turn = "projects")') /\ (turn = "projects" => [Pj!Next]_(Pj!vars))
    BY OnlyItsOwnSteps
  <2>3. Pj!Spec => [](Pj!SerialResourcesExclusive /\ Pj!SerialRowsAgree)
    BY RowsAccounted DEF ServicesAssumption
  <2> QED
    BY <2>1, <2>2, <2>3, PTL DEF ServicesSpec, Pj!Spec
<1>2. ServicesSpec => [](turn = "accounts" => Ac!OneOwner /\ Ac!InvitesAccounted)
  <2>1. ServicesInit => (turn = "accounts" => Ac!Init)
    BY OwnStart
  <2>2. [ServicesNext]_services =>
          ((turn = "accounts") <=> (turn = "accounts")') /\ (turn = "accounts" => [Ac!Next]_(Ac!vars))
    BY OnlyItsOwnSteps
  <2>3. Ac!Spec => [](Ac!OneOwner /\ Ac!InvitesAccounted)
    BY AccountsAccounted DEF ServicesAssumption
  <2> QED
    BY <2>1, <2>2, <2>3, PTL DEF ServicesSpec, Ac!Spec
<1> QED
  BY <1>1, <1>2, PTL DEF ResourcesAccounted

(***************************************************************************)
(* However a pipeline is edited under its deployments, stages run in the   *)
(* order the worker loaded, and a FAILED deployment shows where to resume  *)
(* (EditedStagesInOrder).                                                  *)
(***************************************************************************)
THEOREM EditedStagesStayInOrder == ServicesAssumption /\ ServicesSpec => []EditedStagesInOrder
<1> SUFFICES ASSUME ServicesAssumption  PROVE ServicesSpec => []EditedStagesInOrder
  OBVIOUS
<1>1. ServicesSpec => [](turn = "deploy" => Dp!StageOrder /\ Dp!RetryTargetsFailure)
  <2>1. ServicesInit => (turn = "deploy" => Dp!Init)
    BY OwnStart
  <2>2. [ServicesNext]_services =>
          ((turn = "deploy") <=> (turn = "deploy")') /\ (turn = "deploy" => [Dp!Next]_(Dp!vars))
    BY OnlyItsOwnSteps
  <2>3. Dp!Spec => []Dp!StagesInOrder
    BY Dp!StagesRunInOrder DEF ServicesAssumption
  <2>4. Dp!StagesInOrder => Dp!StageOrder /\ Dp!RetryTargetsFailure
    BY DEF Dp!StagesInOrder
  <2> QED
    BY <2>1, <2>2, <2>3, <2>4, PTL DEF ServicesSpec, Dp!Spec
<1> QED
  BY <1>1, PTL DEF EditedStagesInOrder

(***************************************************************************)
(* No step writes SUCCESS unearned, leaves another file or row than a      *)
(* rejected nginx update found (or new files nginx refuses, but where the  *)
(* zones of a cache were lost), rewrites a settled webhook event, takes    *)
(* the index page from a site but while other files replace it, or reports *)
(* as published what it did not find (StepsHonest).                        *)
(***************************************************************************)
THEOREM StepsAreHonest == ServicesAssumption /\ ServicesSpec => StepsHonest
<1> SUFFICES ASSUME ServicesAssumption  PROVE ServicesSpec => StepsHonest
  OBVIOUS
<1>1. ServicesSpec => [][turn = "deploy" => Dp!SuccessEarnedStep]_services
  <2>1. ServicesInit => (turn = "deploy" => Dp!Init)
    BY OwnStart
  <2>2. [ServicesNext]_services =>
          ((turn = "deploy") <=> (turn = "deploy")') /\ (turn = "deploy" => [Dp!Next]_(Dp!vars))
    BY OnlyItsOwnSteps
  <2>3. Dp!Spec => [][Dp!SuccessEarnedStep]_(Dp!vars)
    BY Dp!SuccessIsEarned DEF ServicesAssumption, Dp!SuccessEarned
  <2>4. [ServicesNext]_services /\ (turn = "deploy" => [Dp!SuccessEarnedStep]_(Dp!vars)) =>
          [turn = "deploy" => Dp!SuccessEarnedStep]_services
    BY NoOtherSteps
  <2> QED
    BY <2>1, <2>2, <2>3, <2>4, PTL DEF ServicesSpec, Dp!Spec
<1>2. ServicesSpec => [][turn = "nginx" => Ng!RejectionRestoresStep]_services
  <2>1. ServicesInit => (turn = "nginx" => Ng!Init)
    BY OwnStart
  <2>2. [ServicesNext]_services =>
          ((turn = "nginx") <=> (turn = "nginx")') /\ (turn = "nginx" => [Ng!Next]_(Ng!vars))
    BY OnlyItsOwnSteps
  <2>3. Ng!Spec => []Ng!ServedAsConfigured /\ [][Ng!RejectionRestoresStep]_(Ng!vars)
    BY SitesServed DEF ServicesAssumption
  <2>4. [ServicesNext]_services /\ (turn = "nginx" => [Ng!RejectionRestoresStep]_(Ng!vars)) =>
          [turn = "nginx" => Ng!RejectionRestoresStep]_services
    BY NoOtherSteps
  <2> QED
    BY <2>1, <2>2, <2>3, <2>4, PTL DEF ServicesSpec, Ng!Spec
<1>3. ServicesSpec => [][turn = "deliveries" => Dv!SettledEventsKeptStep]_services
  <2>1. ServicesInit => (turn = "deliveries" => Dv!Init)
    BY OwnStart
  <2>2. [ServicesNext]_services =>
          ((turn = "deliveries") <=> (turn = "deliveries")') /\ (turn = "deliveries" => [Dv!Next]_(Dv!vars))
    BY OnlyItsOwnSteps
  <2>3. Dv!Spec => [][Dv!SettledEventsKeptStep]_(Dv!vars)
    BY Dv!SettledStaysSettled DEF ServicesAssumption
  <2>4. [ServicesNext]_services /\ (turn = "deliveries" => [Dv!SettledEventsKeptStep]_(Dv!vars)) =>
          [turn = "deliveries" => Dv!SettledEventsKeptStep]_services
    BY NoOtherSteps
  <2> QED
    BY <2>1, <2>2, <2>3, <2>4, PTL DEF ServicesSpec, Dv!Spec
<1>4. ServicesSpec => [][turn = "static" => Ss!SiteKeepsIndexStep]_services
  <2>1. ServicesInit => (turn = "static" => Ss!Init)
    BY OwnStart
  <2>2. [ServicesNext]_services =>
          ((turn = "static") <=> (turn = "static")') /\ (turn = "static" => [Ss!Next]_(Ss!vars))
    BY OnlyItsOwnSteps
  <2>3. Ss!Spec => [][Ss!SiteKeepsIndexStep]_(Ss!vars)
    BY IndexIsKept DEF ServicesAssumption
  <2>4. [ServicesNext]_services /\ (turn = "static" => [Ss!SiteKeepsIndexStep]_(Ss!vars)) =>
          [turn = "static" => Ss!SiteKeepsIndexStep]_services
    BY NoOtherSteps
  <2> QED
    BY <2>1, <2>2, <2>3, <2>4, PTL DEF ServicesSpec, Ss!Spec
<1> QED
  BY <1>1, <1>2, <1>3, <1>4, PTL DEF StepsHonest

----------------------------------------------------------------------------
(* The ports.                                                              *)

\* What TypeOK says of one handler's locals.
Request == [pc : PC, p : Project \cup {Free}, n : Nat]
HoldsPort == {"claiming", "inserting", "saving", "freeing"}
RequestOK(q) ==
  /\ q \in Request
  /\ q.pc # "idle" => q.p \in Project
  /\ q.pc \in HoldsPort => q.n \in Port

\* TypeOK, split into the tables and the handlers.
LEMMA TypeOKSplit ==
  TypeOK <=> /\ alloc \in [Port -> Project \cup {Free, NoEntry}]
             /\ status \in [Project -> {"new", "present", "deleted"}]
             /\ port \in [Project -> Port \cup {0}]
             /\ req \in [Handlers -> Request]
             /\ \A h \in Handlers : RequestOK(req[h])
             /\ serial \in BOOLEAN
BY DEF TypeOK, Request, RequestOK, HoldsPort

\* A step of handler h replaces its locals by well typed ones.
LEMMA RequestStep ==
  ASSUME TypeOK, NEW h \in Handlers, NEW q, RequestOK(q), req' = [req EXCEPT ![h] = q]
  PROVE  /\ req' \in [Handlers -> Request]
         /\ \A g \in Handlers : RequestOK(req'[g])
         /\ req'[h] = q
         /\ \A g \in Handlers \ {h} : req'[g] = req[g]
<1>1. q \in Request
  BY DEF RequestOK
<1> QED
  BY <1>1, TypeOKSplit

\* Goto keeps the project and replaces program counter and port.
LEMMA GotoStep ==
  ASSUME TypeOK, NEW h \in Handlers, req[h].pc # "idle",
         NEW l \in PC \ {"idle"}, NEW n \in Nat, l \in HoldsPort => n \in Port,
         Goto(h, l, n)
  PROVE  /\ req' = [req EXCEPT ![h] = [pc |-> l, p |-> req[h].p, n |-> n]]
         /\ RequestOK([pc |-> l, p |-> req[h].p, n |-> n])
         /\ req' \in [Handlers -> Request]
         /\ \A g \in Handlers : RequestOK(req'[g])
         /\ req'[h] = [pc |-> l, p |-> req[h].p, n |-> n]
         /\ \A g \in Handlers \ {h} : req'[g] = req[g]
<1> DEFINE q == [pc |-> l, p |-> req[h].p, n |-> n]
<1>1. req \in [Handlers -> Request] /\ RequestOK(req[h])
  BY TypeOKSplit
<1>2. RequestOK(q)
  BY <1>1 DEF RequestOK, Request
<1>3. req' = [req EXCEPT ![h] = q]
  BY DEF Goto
<1> HIDE DEF q
<1>4. /\ req' \in [Handlers -> Request]
      /\ \A g \in Handlers : RequestOK(req'[g])
      /\ req'[h] = q
      /\ \A g \in Handlers \ {h} : req'[g] = req[g]
  BY <1>2, <1>3, RequestStep
<1> QED
  BY <1>2, <1>3, <1>4 DEF q

\* A handler that returns is idle.
LEMMA ReturnStep ==
  ASSUME TypeOK, NEW h \in Handlers, Return(h)
  PROVE  /\ req' \in [Handlers -> Request]
         /\ \A g \in Handlers : RequestOK(req'[g])
         /\ req'[h] = NoReq
         /\ \A g \in Handlers \ {h} : req'[g] = req[g]
<1>1. RequestOK(NoReq)
  BY DEF RequestOK, Request, NoReq, PC, HoldsPort
<1> QED
  BY <1>1, RequestStep DEF Return

\* Ports are natural numbers, and 0 is none of them.
LEMMA PortsAreNat == Port \subseteq Nat \ {0}
BY PortAssumption DEF Port
----------------------------------------------------------------------------
(* Types.                                                                  *)

\* The initial state is well typed.
LEMMA TypeInit == Init => TypeOK
BY DEF Init, TypeOK, NoReq, PC

\* Every step keeps the types.
LEMMA TypeStep == TypeOK /\ [Next]_vars => TypeOK'
<1> SUFFICES ASSUME TypeOK, [Next]_vars PROVE TypeOK'
  OBVIOUS
<1> DEFINE TypedRequests == /\ req' \in [Handlers -> Request]
                            /\ \A g \in Handlers : RequestOK(req'[g])
           TypedTables == /\ alloc' \in [Port -> Project \cup {Free, NoEntry}]
                          /\ status' \in [Project -> {"new", "present", "deleted"}]
                          /\ port' \in [Project -> Port \cup {0}]
<1>1. CASE UNCHANGED vars
  BY <1>1 DEF vars, TypeOK
<1>2. ASSUME NEW h \in Handlers, Step(h) PROVE TypedTables /\ TypedRequests
  <2> USE TypeOKSplit, PortsAreNat DEF At
  <2>1. ASSUME NEW p \in Project, Create(h, p) PROVE TypedTables /\ TypedRequests
    <3>1. PICK q \in Request : RequestOK(q) /\ req' = [req EXCEPT ![h] = q]
      BY <2>1, PortAssumption DEF Create, Request, RequestOK, PC, HoldsPort
    <3>2. TypedRequests
      BY <3>1, RequestStep
    <3> QED
      BY <2>1, <3>2 DEF Create
  <2>2. ASSUME NEW p \in Project, Delete(h, p) PROVE TypedTables /\ TypedRequests
    <3>1. RequestOK([pc |-> "releasing", p |-> p, n |-> 0])
      BY DEF Request, RequestOK, PC, HoldsPort
    <3>2. TypedRequests
      BY <2>2, <3>1, RequestStep DEF Delete
    <3> QED
      BY <2>2, <3>2 DEF Delete
  <2>3. CASE FindFree(h)
    BY <2>3, GotoStep DEF FindFree, PC, HoldsPort
  <2>4. CASE FindNext(h)
    <3>1. TypedRequests
      <4>1. PICK next \in MinPort..(MaxPort + 1) :
              /\ IF Rows = {} THEN next = MinPort
                              ELSE next - 1 \in Rows /\ \A n \in Rows : n < next
              /\ IF next > MaxPort THEN Return(h) ELSE Goto(h, "inserting", next)
        BY <2>4 DEF FindNext
      <4>2. CASE next > MaxPort
        BY <4>1, <4>2, ReturnStep
      <4>3. CASE ~(next > MaxPort)
        <5>1. next \in Port
          BY <4>3, PortAssumption DEF Port
        <5> QED
          BY <2>4, <4>1, <4>3, <5>1, GotoStep DEF FindNext, PC, HoldsPort
      <4> QED
        BY <4>2, <4>3
    <3> QED
      BY <2>4, <3>1 DEF FindNext
  <2>5. CASE CheckPort(h)
    <3>1. \/ Return(h)
          \/ req[h].n \in Port /\ (Goto(h, "claiming", req[h].n) \/ Goto(h, "inserting", req[h].n))
      BY <2>5 DEF CheckPort
    <3>2. TypedRequests
      BY <2>5, <3>1, ReturnStep, GotoStep DEF CheckPort, PC, HoldsPort
    <3> QED
      BY <2>5, <3>2 DEF CheckPort
  <2>6. CASE Claim(h)
    <3>1. req[h].p \in Project /\ req[h].n \in Port
      BY <2>6 DEF Claim, RequestOK, HoldsPort
    <3>2. TypedRequests
      BY <2>6, <3>1, ReturnStep, GotoStep DEF Claim, PC, HoldsPort
    <3> QED
      BY <2>6, <3>1, <3>2 DEF Claim
  <2>7. CASE Insert(h)
    <3>1. req[h].p \in Project /\ req[h].n \in Port
      BY <2>7 DEF Insert, RequestOK, HoldsPort
    <3>2. TypedRequests
      BY <2>7, <3>1, ReturnStep, GotoStep DEF Insert, PC, HoldsPort
    <3> QED
      BY <2>7, <3>1, <3>2 DEF Insert
  <2>8. CASE SavePort(h)
    <3>1. req[h].p \in Project /\ req[h].n \in Port
      BY <2>8 DEF SavePort, RequestOK, HoldsPort
    <3> QED
      BY <2>8, <3>1, ReturnStep DEF SavePort
  <2>9. CASE FindOwned(h)
    BY <2>9, GotoStep DEF FindOwned, PC, HoldsPort
  <2>10. CASE FreeRow(h)
    BY <2>10, GotoStep DEF FreeRow, PC, HoldsPort
  <2>11. CASE DeleteRow(h)
    <3>1. req[h].p \in Project
      BY <2>11 DEF DeleteRow, RequestOK
    <3> QED
      BY <2>11, <3>1, ReturnStep DEF DeleteRow
  <2>12. CASE Fail(h)
    BY <2>12, ReturnStep DEF Fail
  <2> QED
    BY <1>2, <2>1, <2>2, <2>3, <2>4, <2>5, <2>6, <2>7, <2>8, <2>9, <2>10, <2>11, <2>12
    DEF Step
<1>3. ASSUME TypedTables, TypedRequests, serial' \in BOOLEAN PROVE TypeOK'
  BY <1>3 DEF TypeOK, Request, RequestOK, HoldsPort
<1>4. Next => serial' \in BOOLEAN
  BY DEF Next
<1> QED
  BY <1>1, <1>2, <1>3, <1>4 DEF Next

\* Every port a handler works on and every port of a project is of the range.
THEOREM TypeCorrect == Spec => []TypeOK
BY TypeInit, TypeStep, PTL DEF Spec
----------------------------------------------------------------------------
(* One row per project, for all interleavings of requests and failures.    *)

Creating == {"finding", "last", "checking", "claiming", "inserting"}

\* The project a handler creates owns no row yet, and no other handler
\* creates it; what owns a row is not new.
CreatorInv ==
  \A h \in Handlers : req[h].pc \in Creating =>
    /\ \A n \in Port : alloc[n] # req[h].p
    /\ status[req[h].p] # "new"
    /\ \A g \in Handlers : req[g].pc \in Creating /\ req[g].p = req[h].p => g = h
OwnersCreated ==
  \A n \in Port : alloc[n] \in Project => status[alloc[n]] # "new"

RowInv == TypeOK /\ OneRowPerProject /\ CreatorInv /\ OwnersCreated

\* It holds initially: there are no rows and no requests.
LEMMA RowInvInit == Init => RowInv
BY TypeInit, PortAssumption
DEF Init, RowInv, OneRowPerProject, CreatorInv, OwnersCreated, Creating, NoReq

\* What every action does to the handlers other than its own.
LEMMA OthersKept ==
  ASSUME TypeOK, NEW h \in Handlers, Step(h)
  PROVE  \A g \in Handlers \ {h} : req'[g] = req[g]
BY DEF Step, Create, Delete, FindFree, FindNext, CheckPort, Claim, Insert, SavePort,
       FindOwned, FreeRow, DeleteRow, Fail, Goto, Return, TypeOK

\* Where Goto and Return leave the handler.
LEMMA WhereTo ==
  ASSUME TypeOK, NEW h \in Handlers
  PROVE  /\ \A l, n : Goto(h, l, n) => /\ req'[h].pc = l
                                       /\ req'[h].p = req[h].p
                                       /\ req'[h].n = n
         /\ Return(h) => req'[h] = NoReq
BY DEF TypeOK, Goto, Return

\* Every step keeps it: rows only change owner from nobody to the project of
\* a creating handler, which then stops creating.
LEMMA RowInvStep == RowInv /\ [Next]_vars => RowInv'
<1> SUFFICES ASSUME RowInv, [Next]_vars
             PROVE  OneRowPerProject' /\ CreatorInv' /\ OwnersCreated'
  BY TypeStep DEF RowInv
<1> USE DEF RowInv
<1>1. CASE UNCHANGED vars
  BY <1>1 DEF vars, OneRowPerProject, CreatorInv, OwnersCreated
<1>2. ASSUME NEW h \in Handlers, Step(h)
      PROVE  OneRowPerProject' /\ CreatorInv' /\ OwnersCreated'
  <2>0. /\ TypeOK' /\ req' \in [Handlers -> Request]
        /\ \A g \in Handlers \ {h} : req'[g] = req[g]
        /\ RequestOK(req[h]) /\ RequestOK(req'[h])
    <3>1. TypeOK'
      BY TypeStep
    <3>2. req' \in [Handlers -> Request] /\ RequestOK(req'[h])
      BY <3>1 DEF TypeOK, Request, RequestOK, HoldsPort
    <3> QED
      BY <1>2, <3>1, <3>2, OthersKept, TypeOKSplit
  <2>1. ASSUME NEW p \in Project, Create(h, p)
        PROVE  OneRowPerProject' /\ CreatorInv' /\ OwnersCreated'
    <3>1. /\ alloc' = alloc /\ status[p] = "new"
          /\ status' = [status EXCEPT ![p] = "present"]
          /\ req'[h].p = p
      BY <2>1, <2>0 DEF Create, TypeOK
    <3>2. \A n \in Port : alloc[n] # p
      BY <3>1 DEF OwnersCreated
    <3>3. \A g \in Handlers \ {h} : req[g].pc \in Creating => req[g].p # p
      BY <3>1 DEF CreatorInv
    <3>4. CreatorInv'
      BY <2>0, <3>1, <3>2, <3>3, TypeOKSplit DEF CreatorInv, RequestOK, Creating
    <3> QED
      BY <3>1, <3>4, TypeOKSplit DEF OneRowPerProject, OwnersCreated
  <2>2. ASSUME alloc' = alloc, status' = status,
               req'[h].pc \in Creating => req[h].pc \in Creating /\ req'[h].p = req[h].p
        PROVE  OneRowPerProject' /\ CreatorInv' /\ OwnersCreated'
    <3>1. CreatorInv'
      BY <2>0, <2>2 DEF CreatorInv
    <3> QED
      BY <2>2, <3>1 DEF OneRowPerProject, OwnersCreated
  <2>3. ASSUME req[h].pc \in Creating, req'[h].pc \notin Creating,
               status' = status, status[req[h].p] = "present",
               req[h].n \in Port, alloc' = [alloc EXCEPT ![req[h].n] = req[h].p]
        PROVE  OneRowPerProject' /\ CreatorInv' /\ OwnersCreated'
    <3>1. req[h].p \in Project /\ \A n \in Port : alloc[n] # req[h].p
      BY <2>0, <2>3 DEF CreatorInv, RequestOK, Creating
    <3>2. \A n \in Port : alloc'[n] = IF n = req[h].n THEN req[h].p ELSE alloc[n]
      BY <2>3, TypeOKSplit
    <3>3. OneRowPerProject' /\ OwnersCreated'
      BY <2>3, <3>1, <3>2 DEF OneRowPerProject, OwnersCreated
    <3>4. CreatorInv'
      BY <2>0, <2>3, <3>1, <3>2 DEF CreatorInv
    <3> QED
      BY <3>3, <3>4
  <2>4. ASSUME \A n \in Port : alloc'[n] = alloc[n] \/ alloc'[n] = Free,
               \A p \in Project : status'[p] = "new" => status[p] = "new",
               req'[h].pc \notin Creating
        PROVE  OneRowPerProject' /\ CreatorInv' /\ OwnersCreated'
    <3>1. OneRowPerProject' /\ OwnersCreated'
      BY <2>4, PortAssumption DEF OneRowPerProject, OwnersCreated
    <3>2. ASSUME NEW g \in Handlers, req'[g].pc \in Creating
          PROVE  g # h /\ req'[g] = req[g] /\ req[g].p \in Project
      BY <2>0, <2>4, <3>2, TypeOKSplit DEF RequestOK, Creating
    <3>3. CreatorInv'
      BY <2>4, <3>2, PortAssumption DEF CreatorInv
    <3> QED
      BY <3>1, <3>3
  <2>5. ASSUME NEW p \in Project, Delete(h, p)
        PROVE  OneRowPerProject' /\ CreatorInv' /\ OwnersCreated'
    BY <2>2, <2>5, TypeOKSplit DEF Delete, Creating
  <2>6. CASE FindFree(h)
    BY <2>2, <2>6, WhereTo DEF FindFree, At, Creating
  <2>7. CASE FindNext(h)
    BY <2>2, <2>7, WhereTo DEF FindNext, At, Creating, NoReq
  <2>8. CASE CheckPort(h)
    BY <2>2, <2>8, WhereTo DEF CheckPort, At, Creating, NoReq
  <2>9. CASE Claim(h)
    <3>1. req[h].n \in Port
      BY <2>0, <2>9 DEF Claim, At, RequestOK, HoldsPort
    <3> QED
      BY <2>2, <2>3, <2>9, <3>1, WhereTo DEF Claim, At, Creating, NoReq
  <2>10. CASE Insert(h)
    <3>1. req[h].n \in Port
      BY <2>0, <2>10 DEF Insert, At, RequestOK, HoldsPort
    <3> QED
      BY <2>2, <2>3, <2>10, <3>1, WhereTo DEF Insert, At, Creating, NoReq
  <2>11. CASE SavePort(h)
    BY <2>2, <2>11, WhereTo DEF SavePort, Creating, NoReq
  <2>12. CASE FindOwned(h)
    BY <2>2, <2>12, WhereTo DEF FindOwned, Creating
  <2>13. CASE FreeRow(h)
    BY <2>4, <2>13, WhereTo, TypeOKSplit DEF FreeRow, Creating
  <2>14. CASE DeleteRow(h)
    BY <2>4, <2>14, WhereTo, TypeOKSplit DEF DeleteRow, Creating, NoReq
  <2>15. CASE Fail(h)
    BY <2>2, <2>15, WhereTo DEF Fail, Creating, NoReq
  <2> QED
    BY <1>2, <2>1, <2>5, <2>6, <2>7, <2>8, <2>9, <2>10, <2>11, <2>12, <2>13, <2>14, <2>15
    DEF Step
<1> QED
  BY <1>1, <1>2 DEF Next

\* Whatever requests interleave and fail, no project owns two allocation rows.
THEOREM NeverTwoRows == Spec => []OneRowPerProject
<1>1. RowInv => OneRowPerProject
  BY DEF RowInv
<1> QED
  BY <1>1, RowInvInit, RowInvStep, PTL DEF Spec

----------------------------------------------------------------------------
(* No port of two projects, as long as requests do not overlap.            *)

\* A project's port is its own row's, or freed by the delete under way.
PortsOwned == \A p \in Project : port[p] # 0 => alloc[port[p]] \in {p, Free}

\* What the one request in flight relies on is still true.
RequestsCurrent ==
  \A h \in Handlers :
    /\ req[h].pc = "claiming" => alloc[req[h].n] = Free
    /\ req[h].pc \in {"saving", "freeing"} => alloc[req[h].n] = req[h].p

SerialInv == TypeOK /\ PortsOwned /\ RequestsCurrent

\* It holds initially: there are no ports and no requests.
LEMMA SerialInvInit == Init => SerialInv
BY TypeInit DEF Init, SerialInv, PortsOwned, RequestsCurrent, NoReq

\* With no delete left half way, owned ports are exclusive.
LEMMA SerialInvCorrect == SerialInv /\ Serial => PortsExclusive
<1> SUFFICES ASSUME SerialInv, Serial, NEW p \in Project, NEW q \in Project,
                    port[p] # 0, port[p] = port[q]
             PROVE  p = q
  BY DEF PortsExclusive
<1>1. alloc[port[p]] \in {p, Free} \cap {q, Free}
  BY DEF SerialInv, PortsOwned
<1>2. CASE alloc[port[p]] = Free
  <2>1. PICK g \in Handlers : req[g].pc = "deleting" /\ req[g].p = p
    BY <1>2 DEF Serial, HalfDeleted
  <2>2. PICK h \in Handlers : req[h].pc = "deleting" /\ req[h].p = q
    BY <1>2 DEF Serial, HalfDeleted
  <2> QED
    BY <2>1, <2>2 DEF Serial
<1> QED
  BY <1>1, <1>2, PortAssumption

\* The step of one request keeps it when requests do not overlap: whoever
\* else has a port does not have it from the row this step writes.
LEMMA SerialInvStep == SerialInv /\ Serial /\ Serial' /\ [Next]_vars => SerialInv'
<1> SUFFICES ASSUME SerialInv, Serial, Serial', [Next]_vars
             PROVE  PortsOwned' /\ RequestsCurrent'
  BY TypeStep DEF SerialInv
<1> USE DEF SerialInv
<1>1. CASE UNCHANGED vars
  BY <1>1 DEF vars, PortsOwned, RequestsCurrent
<1>2. ASSUME NEW h \in Handlers, Step(h) PROVE PortsOwned' /\ RequestsCurrent'
  <2>1. /\ \A g \in Handlers \ {h} : req'[g] = req[g]
        /\ RequestOK(req[h])
        /\ alloc \in [Port -> Project \cup {Free, NoEntry}]
        /\ port \in [Project -> Port \cup {0}]
    BY <1>2, OthersKept, TypeOKSplit
  <2>2. \A g \in Handlers \ {h} : req'[g].pc = "idle"
    <3>1. req[h].pc = "idle" => req'[h].pc # "idle"
      BY <1>2, TypeOKSplit
      DEF Step, At, Create, Delete, FindFree, FindNext, CheckPort, Claim, Insert,
          SavePort, FindOwned, FreeRow, DeleteRow, Fail
    <3> QED
      BY <2>1, <3>1 DEF Serial
  \* No project has the port of a row that is free while h works on creation.
  <2>3. ASSUME req[h].pc \notin {"idle", "deleting"}, NEW p \in Project, port[p] # 0
        PROVE  alloc[port[p]] = p
    <3>1. alloc[port[p]] # Free
      BY <2>3 DEF Serial, HalfDeleted
    <3> QED
      BY <2>3, <3>1 DEF PortsOwned
  <2>4. ASSUME alloc' = alloc, port' = port,
               req'[h].pc = "claiming" => alloc[req'[h].n] = Free,
               req'[h].pc \in {"saving", "freeing"} => alloc[req'[h].n] = req'[h].p
        PROVE  PortsOwned' /\ RequestsCurrent'
    BY <2>2, <2>4 DEF PortsOwned, RequestsCurrent
  <2>5. ASSUME NEW p \in Project, Create(h, p) PROVE PortsOwned' /\ RequestsCurrent'
    BY <2>4, <2>5, TypeOKSplit DEF Create
  <2>6. ASSUME NEW p \in Project, Delete(h, p) PROVE PortsOwned' /\ RequestsCurrent'
    BY <2>4, <2>6, TypeOKSplit DEF Delete
  <2>7. CASE FindFree(h)
    BY <2>4, <2>7, WhereTo DEF FindFree
  <2>8. CASE FindNext(h)
    BY <2>4, <2>8, WhereTo DEF FindNext, NoReq
  <2>9. CASE CheckPort(h)
    BY <2>4, <2>9, WhereTo DEF CheckPort, NoReq
  <2>10. ASSUME req[h].n \in Port, req[h].pc \in {"claiming", "inserting"},
                alloc[req[h].n] \in {Free, NoEntry}, port' = port,
                alloc' = [alloc EXCEPT ![req[h].n] = req[h].p],
                Goto(h, "saving", req[h].n)
         PROVE  PortsOwned' /\ RequestsCurrent'
    <3>1. \A p \in Project : port[p] # 0 => port[p] # req[h].n
      BY <2>3, <2>10, PortAssumption
    <3>2. PortsOwned'
      BY <2>1, <2>10, <3>1 DEF PortsOwned
    <3>3. RequestsCurrent'
      BY <2>1, <2>2, <2>10, WhereTo DEF RequestsCurrent
    <3> QED
      BY <3>2, <3>3
  <2>11. CASE Claim(h)
    <3>1. req[h].n \in Port /\ alloc[req[h].n] = Free
      BY <2>1, <2>11 DEF Claim, At, RequestOK, HoldsPort, RequestsCurrent
    <3> QED
      BY <2>4, <2>10, <2>11, <3>1, WhereTo DEF Claim, At, NoReq
  <2>12. CASE Insert(h)
    <3>1. req[h].n \in Port
      BY <2>1, <2>12 DEF Insert, At, RequestOK, HoldsPort
    <3> QED
      BY <2>4, <2>10, <2>12, <3>1, WhereTo DEF Insert, At, NoReq
  <2>13. CASE SavePort(h)
    <3>1. req'[h].pc = "idle" /\ alloc' = alloc
      BY <2>13, WhereTo DEF SavePort, NoReq
    <3>2. RequestsCurrent'
      BY <2>2, <3>1 DEF RequestsCurrent
    <3>3. alloc[req[h].n] = req[h].p
      BY <2>13 DEF SavePort, At, RequestsCurrent
    <3>4. PortsOwned'
      BY <2>1, <2>13, <3>1, <3>3 DEF SavePort, PortsOwned
    <3> QED
      BY <3>2, <3>4
  <2>14. CASE FindOwned(h)
    BY <2>4, <2>14, WhereTo DEF FindOwned
  <2>15. CASE FreeRow(h)
    <3>1. PortsOwned'
      BY <2>1, <2>15 DEF FreeRow, PortsOwned
    <3>2. RequestsCurrent'
      BY <2>2, <2>15, WhereTo DEF FreeRow, RequestsCurrent
    <3> QED
      BY <3>1, <3>2
  <2>16. CASE DeleteRow(h)
    <3>1. \A p \in Project : port'[p] # 0 => port'[p] = port[p] /\ p # req[h].p
      BY <2>1, <2>16 DEF DeleteRow
    <3>2. \A n \in Port : alloc'[n] = IF alloc[n] = req[h].p THEN Free ELSE alloc[n]
      BY <2>16 DEF DeleteRow
    <3>3. PortsOwned'
      BY <2>1, <3>1, <3>2 DEF PortsOwned
    <3>4. RequestsCurrent'
      BY <2>2, <2>16, WhereTo DEF DeleteRow, RequestsCurrent, NoReq
    <3> QED
      BY <3>3, <3>4
  <2>17. CASE Fail(h)
    BY <2>4, <2>17, WhereTo DEF Fail, NoReq
  <2> QED
    BY <1>2, <2>5, <2>6, <2>7, <2>8, <2>9, <2>11, <2>12, <2>13, <2>14, <2>15, <2>16, <2>17
    DEF Step
<1> QED
  BY <1>1, <1>2 DEF Next

\* What holds as long as the requests have been serial.
SerialHistory == serial => SerialInv /\ Serial

\* Initially there are no requests and no ports.
LEMMA SerialInit == Init => Serial
BY DEF Init, Serial, HalfDeleted, NoReq

\* serial stays TRUE only through steps between two serial states.
LEMMA SerialHistoryStep == SerialHistory /\ [Next]_vars => SerialHistory'
<1> SUFFICES ASSUME SerialHistory, [Next]_vars, serial'
             PROVE  SerialInv' /\ Serial'
  BY DEF SerialHistory
<1>1. CASE UNCHANGED vars
  <2>1. serial /\ Serial' = Serial
    BY <1>1 DEF vars, Serial, HalfDeleted
  <2> QED
    BY <2>1, SerialInvStep DEF SerialHistory
<1>2. CASE Next
  <2>1. serial /\ Serial'
    BY <1>2 DEF Next
  <2> QED
    BY <2>1, SerialInvStep DEF SerialHistory
<1> QED
  BY <1>1, <1>2

\* As long as requests do not overlap and no delete stops half way, projects
\* never share a port.
THEOREM SerialExclusive == Spec => []SerialRequestsExclusive
<1>1. Init => SerialHistory
  BY SerialInvInit, SerialInit DEF SerialHistory
<1>2. SerialHistory => SerialRequestsExclusive
  BY SerialInvCorrect DEF SerialHistory, SerialRequestsExclusive
<1> QED
  BY <1>1, <1>2, SerialHistoryStep, PTL DEF Spec
===============================================================================
