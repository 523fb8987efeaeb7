------------------------------- MODULE LogTails -------------------------------
(***************************************************************************)
(* The live logs of ONE project: LogsGateway's room of socket clients and  *)
(* LogsService's tail processes, which write every line to the room.       *)
(*                                                                         *)
(* One of the two log files is modelled; each has its tail, and the code   *)
(* does with one what it does with the other.  startTail looks for tails   *)
(* under the project's id, but stores them under the id with the file's    *)
(* type: it finds none, ever, and the check is left out.  A tail ends by   *)
(* being killed only.                                                      *)
(***************************************************************************)
EXTENDS Naturals, FiniteSets

CONSTANTS
  Client,
  MaxJoins   \* bound: joins (and so tails)

LogTailsAssumption == MaxJoins \in Nat

TailId == 1..MaxJoins

VARIABLES
  project,  \* whether it exists
  watching, \* clients with a log page (useLiveLogs)
  room,     \* clients in the room logs:<project>
  starting, \* calls of startTail that wait for the project's row
  joins,    \* joins so far
  live,     \* tail processes that run
  logged,   \* whether the log file is there: PM2 makes it at the first start
  unlogged, \* the first of the room came before the log file
  closing,  \* tails killed whose "close" event has not come yet
  tails,    \* the entry of the map: a tail, or 0
  calm      \* no leave or join overtook the start or the end of a tail

clients == <<watching, room>>
processes == <<live, closing, tails>>
log == <<logged, unlogged>>
vars == <<project, clients, starting, joins, log, processes, calm>>

TypeOK ==
  /\ project \in BOOLEAN
  /\ watching \subseteq Client /\ room \subseteq Client
  /\ starting \in 0..MaxJoins /\ joins \in 0..MaxJoins
  /\ logged \in BOOLEAN /\ unlogged \in BOOLEAN
  /\ live \subseteq TailId /\ closing \subseteq TailId
  /\ tails \in TailId \cup {0}
  /\ calm \in BOOLEAN

Init ==
  /\ project = TRUE
  /\ watching = {} /\ room = {}
  /\ starting = 0 /\ joins = 0
  /\ logged \in BOOLEAN /\ unlogged = FALSE
  /\ live = {} /\ closing = {} /\ tails = 0
  /\ calm = TRUE

Settled == starting = 0 /\ closing = {}

\* A page opens: handleJoinLogs, where the first of the room asks for tails.
Join(c) ==
  /\ c \notin watching
  /\ joins < MaxJoins /\ joins' = joins + 1
  /\ watching' = watching \cup {c}
  /\ room' = room \cup {c}
  /\ starting' = IF Cardinality(room') = 1 THEN starting + 1 ELSE starting
  /\ unlogged' = IF Cardinality(room') = 1 THEN ~logged ELSE unlogged
  /\ calm' = (calm /\ Settled)
  /\ UNCHANGED <<project, logged, processes>>

\* startTail goes on, whoever is still there: a new tail, stored over the
\* one that is stored; none without the project, or without the log file.
StartTail ==
  /\ starting > 0 /\ starting' = starting - 1
  /\ IF project /\ logged
       THEN \E t \in TailId \ (live \cup closing) :
              /\ \A u \in TailId \ (live \cup closing) : t <= u
              /\ live' = live \cup {t}
              /\ tails' = t
       ELSE UNCHANGED <<live, tails>>
  /\ UNCHANGED <<project, clients, joins, log, closing, calm>>

\* Mutant: whoever leaves.
StopTail_any(left) ==
  IF tails # 0
    THEN live' = live \ {tails} /\ closing' = closing \cup {tails} /\ tails' = 0
    ELSE UNCHANGED processes

\* stopTail, once the room is empty.
StopTail(left) ==
  IF left = {} /\ tails # 0
    THEN live' = live \ {tails} /\ closing' = closing \cup {tails} /\ tails' = 0
    ELSE UNCHANGED processes

\* The page closes: handleLeaveLogs, or handleDisconnect of its socket.
Leave(c) ==
  /\ c \in room
  /\ watching' = watching \ {c}
  /\ room' = room \ {c}
  /\ StopTail(room')
  /\ calm' = (calm /\ starting = 0)
  /\ UNCHANGED <<project, starting, joins, log>>

\* The connection breaks, and comes back: the page does not join again.
Reconnect(c) ==
  /\ c \in room
  /\ room' = room \ {c}
  /\ StopTail(room')
  /\ calm' = (calm /\ starting = 0)
  /\ UNCHANGED <<project, watching, starting, joins, log>>

CloseStale(c) ==
  /\ c \in watching \ room
  /\ watching' = watching \ {c}
  /\ UNCHANGED <<project, room, starting, joins, log, processes, calm>>

\* A tail's "close" event deletes the entry, whosever it is.
Closed(t) ==
  /\ t \in closing
  /\ closing' = closing \ {t}
  /\ tails' = 0
  /\ UNCHANGED <<project, clients, starting, joins, log, live, calm>>

DeleteProject ==
  /\ project /\ project' = FALSE
  /\ UNCHANGED <<clients, starting, joins, log, processes, calm>>

\* The application is started for the first time: nobody looks for its log.
FirstStart ==
  /\ ~logged /\ logged' = TRUE
  /\ UNCHANGED <<project, clients, starting, joins, unlogged, processes, calm>>

Next ==
  \/ \E c \in Client : Join(c) \/ Leave(c) \/ Reconnect(c) \/ CloseStale(c)
  \/ StartTail \/ (\E t \in TailId : Closed(t)) \/ DeleteProject
  \/ FirstStart

Spec == Init /\ [][Next]_vars

----------------------------------------------------------------------------
(***************************************************************************)
(* Whatever joins, leaves and breaks at whatever moment: once the starts   *)
(* are through, a room with clients has a tail that writes to it (of a     *)
(* project that exists) -- for all that no tail is looked up before it is  *)
(* started again.  Not so a room whose first client came before the log    *)
(* file: startTail skips a missing file, and nobody who comes later asks   *)
(* again while the room is not empty.                                      *)
(***************************************************************************)
RoomIsServed == room # {} /\ starting = 0 /\ project /\ ~unlogged => live # {}

(***************************************************************************)
(* "Start the tail on subscribing, stop it on unsubscribing" (runtime      *)
(* tools design, line 206): as long as no client comes or goes while a     *)
(* tail starts or ends, there is one tail at most, so that each line is    *)
(* sent once, none for an empty room, and one for a room that was entered  *)
(* when the log file was there.                                            *)
(***************************************************************************)
TailsFollowRoom ==
  calm /\ starting = 0 /\ project =>
    /\ live = (IF tails = 0 THEN {} ELSE {tails})
    /\ room = {} => tails = 0
    /\ room # {} /\ ~unlogged => tails # 0
=============================================================================
