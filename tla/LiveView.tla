------------------------------ MODULE LiveView ------------------------------
(***************************************************************************)
(* A page that follows a running job (frontend/src/hooks): it joins the    *)
(* job's room on a shared socket, joins again when the socket reconnects,  *)
(* and, where the hook polls, asks the REST API for the row as well.       *)
(* Messages to the room reach only who is in it; an answer to a poll is    *)
(* as old as the moment the server read the row.  The worker writes a      *)
(* status to the row and then emits it; a cancellation only writes it, and *)
(* the worker may write over it.                                           *)
(***************************************************************************)
EXTENDS Naturals, Sequences

CONSTANTS
  Hooks,    \* the hooks to run, a subset of AllHooks
  MaxDrops, \* connections lost and polls failed (bound)
  MaxPolls, \* polls whose answer is outstanding at once (bound)
  MaxRestarts \* ended rows that are written again (bound)

\* What tells the hooks apart: an interval that polls, and a first poll when
\* the page opens.  The pages of deployments and task runs poll through
\* their query instead of the hook.
MigrationHook == [polls |-> TRUE, first |-> TRUE]
ImportHook == [polls |-> TRUE, first |-> FALSE]
StorageImportHook == [polls |-> TRUE, first |-> FALSE]
DeploymentHook == [polls |-> FALSE, first |-> FALSE]
TaskRunHook == [polls |-> FALSE, first |-> FALSE]
AllHooks == {MigrationHook, ImportHook, StorageImportHook, DeploymentHook, TaskRunHook}

LiveViewAssumption ==
  /\ Hooks \subseteq AllHooks
  /\ MaxDrops \in Nat /\ MaxPolls \in Nat \ {0} /\ MaxRestarts \in Nat

Status == {"PENDING", "RUNNING", "DONE"} \* DONE: COMPLETED, FAILED or CANCELLED

VARIABLES
  hook,
  row,       \* status in the database
  toEmit,    \* statuses written and not emitted yet
  restarts,  \* how often the row was written again after its end
  socket,    \* [up, joined]: the page's connection and the server's room
  requests,  \* "join" requests under way
  messages,  \* statuses under way to the page, oldest first
  answers,   \* answers to polls under way, in any order
  timer,     \* the polling interval is set
  mounted, shown, notified, drops

vars ==
  <<hook, row, toEmit, restarts, socket, requests, messages, answers, timer, mounted,
  shown, notified, drops>>
server == <<row, toEmit, restarts>>
page == <<timer, mounted, shown, notified>>
wire == <<socket, requests, messages, answers, drops>>

TypeOK ==
  /\ hook \in AllHooks /\ row \in Status /\ restarts \in 0..MaxRestarts
  /\ toEmit \in Seq(Status) /\ messages \in Seq(Status)
  /\ socket \in [up : BOOLEAN, joined : BOOLEAN]
  /\ requests \in 0..(MaxDrops + 1)
  /\ answers \in [Status -> 0..MaxPolls]
  /\ timer \in BOOLEAN /\ mounted \in BOOLEAN /\ notified \in BOOLEAN
  /\ shown \in Status \cup {""} /\ drops \in 0..MaxDrops

\* The page opens at any point of the job's life.
Init ==
  /\ hook \in Hooks /\ row \in Status /\ toEmit = <<>> /\ restarts = 0
  /\ socket = [up |-> TRUE, joined |-> FALSE] /\ requests = 1
  /\ messages = <<>>
  /\ answers = [s \in Status |-> IF hook.first /\ s = row THEN 1 ELSE 0]
  /\ timer = hook.polls /\ mounted = TRUE /\ shown = "" /\ notified = FALSE /\ drops = 0
----------------------------------------------------------------------------
(***************************************************************************)
(* The server.                                                             *)
(***************************************************************************)
Write ==
  /\ row # "DONE"
  /\ \/ /\ row' \in {"RUNNING", "DONE"} \ {row}
        /\ toEmit' = Append(toEmit, row')
     \/ row' = "DONE" /\ UNCHANGED toEmit \* a cancellation, or a sweep
  /\ UNCHANGED <<hook, restarts, page, wire>>

\* The workers look at the status before they write and not when: what a
\* cancellation wrote, they overwrite, and a job that is delivered again
\* runs again, also when its row has ended.
Rewrite ==
  /\ row = "DONE" /\ restarts < MaxRestarts
  /\ row' \in {"RUNNING", "DONE"}
  /\ toEmit' = Append(toEmit, row') /\ restarts' = restarts + 1
  /\ UNCHANGED <<hook, page, wire>>

Emit ==
  /\ toEmit # <<>> /\ toEmit' = Tail(toEmit)
  /\ messages' = IF socket.joined THEN Append(messages, Head(toEmit)) ELSE messages
  /\ UNCHANGED <<hook, row, restarts, page, socket, requests, answers, drops>>

Join ==
  /\ requests > 0 /\ socket.up /\ requests' = requests - 1
  /\ socket' = [socket EXCEPT !.joined = mounted]
  /\ UNCHANGED <<hook, server, page, messages, answers, drops>>

\* The room and everything on the wire go with the connection, and what the
\* backend has not emitted when it is the backend that stops.
Drop ==
  /\ socket.up /\ drops < MaxDrops /\ drops' = drops + 1
  /\ socket' = [up |-> FALSE, joined |-> FALSE] /\ requests' = 0 /\ messages' = <<>>
  /\ toEmit' \in {toEmit, <<>>}
  /\ UNCHANGED <<hook, row, restarts, page, answers>>

Reconnect ==
  /\ ~socket.up /\ socket' = [socket EXCEPT !.up = TRUE]
  /\ requests' = IF mounted THEN 1 ELSE 0
  /\ UNCHANGED <<hook, server, page, messages, answers, drops>>
----------------------------------------------------------------------------
(***************************************************************************)
(* The page.  handleDone shows any status that arrives; a final one stops  *)
(* the interval and calls onComplete.  Answers under way still arrive.     *)
(***************************************************************************)
Show(s) ==
  /\ shown' = s
  /\ IF s = "DONE" THEN timer' = FALSE /\ notified' = TRUE ELSE UNCHANGED <<timer, notified>>

Receive ==
  /\ messages # <<>> /\ messages' = Tail(messages)
  /\ IF mounted THEN Show(Head(messages)) ELSE UNCHANGED <<timer, shown, notified>>
  /\ UNCHANGED <<hook, server, mounted, socket, requests, answers, drops>>

Outstanding == answers["PENDING"] + answers["RUNNING"] + answers["DONE"]

Poll ==
  /\ mounted /\ timer /\ Outstanding < MaxPolls
  /\ answers' = [answers EXCEPT ![row] = @ + 1]
  /\ UNCHANGED <<hook, server, page, socket, requests, messages, drops>>

Answer(s) ==
  /\ answers[s] > 0 /\ answers' = [answers EXCEPT ![s] = @ - 1]
  /\ IF mounted THEN Show(s) ELSE UNCHANGED <<timer, shown, notified>>
  /\ UNCHANGED <<hook, server, mounted, socket, requests, messages, drops>>

\* The request fails; the hook swallows the error.
Fail(s) ==
  /\ drops < MaxDrops /\ drops' = drops + 1
  /\ answers[s] > 0 /\ answers' = [answers EXCEPT ![s] = @ - 1]
  /\ UNCHANGED <<hook, server, page, socket, requests, messages>>

Unmount ==
  /\ mounted /\ mounted' = FALSE /\ timer' = FALSE
  /\ socket' = [socket EXCEPT !.joined = FALSE] /\ requests' = 0
  /\ UNCHANGED <<hook, server, shown, notified, messages, answers, drops>>
----------------------------------------------------------------------------
Next ==
  \/ Write \/ Rewrite \/ Emit \/ Join \/ Drop \/ Reconnect \/ Receive \/ Poll \/ Unmount
  \/ \E s \in Status : Answer(s) \/ Fail(s)

Spec == Init /\ [][Next]_vars

(***************************************************************************)
(* The job ends, each time it runs; the interval ticks; polls are answered *)
(* or fail.  Nothing is assumed of the socket, nor of rewrites.            *)
(***************************************************************************)
Fairness ==
  /\ WF_vars(Write) /\ WF_vars(Emit) /\ WF_vars(Poll)
  /\ WF_vars(\E s \in Status : Answer(s) \/ Fail(s))

FairSpec == Spec /\ Fairness
----------------------------------------------------------------------------
(***************************************************************************)
(* A page that polls learns the end of the job whatever the socket does    *)
(* ("covers cases where WebSocket can't connect or job finishes before WS  *)
(* joins", use-storage-import-progress.ts:52).                             *)
(***************************************************************************)
Ignorant == mounted /\ hook.polls /\ ~notified

PageLearnsEnd == Ignorant ~> ~Ignorant

(***************************************************************************)
(* A page never announces an end before the row has had one, and while its *)
(* interval is off it has announced one or does not poll at all: no job is *)
(* left that nobody has watched to an end.  (The end may not be the last:  *)
(* after it the page no longer asks, and a row that runs again is followed *)
(* by the socket alone.)                                                   *)
(***************************************************************************)
WatchedToTheEnd ==
  /\ notified => row = "DONE" \/ restarts > 0
  /\ mounted /\ hook.polls /\ ~timer => notified
=============================================================================
