------------------------------ MODULE Webhooks ------------------------------
(***************************************************************************)
(* The webhooks of ONE project: WebhooksService with the two receivers     *)
(* (the repository's own hook behind WebhookSignatureGuard, the GitHub App *)
(* behind its own secret) and GitHubProvider's calls to GitHub.            *)
(*                                                                         *)
(* Every await is an interleaving point.  GitHub signs what hook k sends   *)
(* with the secret k was registered with, written k too.  A branch or path *)
(* filter is the set of the names its patterns match.                      *)
(***************************************************************************)
EXTENDS Naturals, FiniteSets

CONSTANTS
  Payload,     \* what the deliveries carry, a function of their X-GitHub-Delivery id
  Filters,     \* the events and filters a configuration may have
  MaxReplays,  \* bound: replays of each delivery
  Processors,  \* deliveries and replays in processing at once
  Admins,      \* configuration requests in flight at once
  MaxHooks     \* bound: hooks ever registered at GitHub

WebhooksAssumption ==
  /\ MaxReplays \in Nat /\ MaxHooks \in Nat
  /\ \A f \in Filters : DOMAIN f = {"events", "branches", "paths"}

Delivery == DOMAIN Payload
Replay == Delivery \X (1..MaxReplays)   \* "replay-" and random bytes
Event == Delivery \cup Replay
Origin(e) == IF e \in Delivery THEN e ELSE e[1]
Hook == 1..MaxHooks
App == MaxHooks + 1        \* a delivery of the GitHub App

VARIABLES
  project,   \* whether the project exists
  config,    \* its WebhookConfig row
  github,    \* the hooks GitHub has for the project's callback URL
  made,      \* hooks registered so far
  sender,    \* which hook (or App, 0: nothing yet) sent each delivery
  event,     \* status of the WebhookEvent rows
  deployed,  \* deployments created on behalf of each event
  proc,      \* locals of the processing of a delivery
  admin,     \* locals of the configuration requests
  calm,      \* requests were serial, none failed, no crash
  crashed

hooks == <<config, github, made>>
events == <<sender, event, deployed>>
vars == <<project, hooks, events, proc, admin, calm, crashed>>

NoFilters == [events |-> {}, branches |-> {}, paths |-> {}]
NoConfig == [hook |-> 0, secret |-> 0, enabled |-> FALSE, filters |-> NoFilters]
NoEvent == <<>>
NoProc == [pc |-> "idle", e |-> NoEvent, route |-> "hook", filters |-> NoFilters]
NoAdmin == [pc |-> "idle", op |-> "none", hook |-> 0, enabled |-> FALSE, filters |-> NoFilters]
Op == {"create", "toggle", "filters", "events", "delete", "regenerate"}

Status == {"none", "RECEIVED", "FILTERED", "TRIGGERED", "REPLAYED", "FAILED"}
Settled == Status \ {"none", "RECEIVED"}

TypeOK ==
  /\ project \in BOOLEAN
  /\ config \in [hook : Hook \cup {0}, secret : Hook \cup {0}, enabled : BOOLEAN,
                 filters : Filters \cup {NoFilters}]
  /\ github \subseteq Hook
  /\ made \in 0..MaxHooks
  /\ sender \in [Event -> Hook \cup {0, App}]
  /\ event \in [Event -> Status]
  /\ deployed \in [Event -> Nat]
  /\ proc \in [Processors ->
       [pc : {"idle", "config", "find", "insert", "filter", "trigger", "link", "fail"},
        e : Event \cup {NoEvent}, route : {"hook", "app", "replay"},
        filters : Filters \cup {NoFilters}]]
  /\ admin \in [Admins ->
       [pc : {"idle", "register", "insert", "patch", "write", "unhook"},
        op : Op \cup {"none"}, hook : Hook \cup {0}, enabled : BOOLEAN,
        filters : Filters \cup {NoFilters}]]
  /\ calm \in BOOLEAN /\ crashed \in BOOLEAN

Init ==
  /\ project = TRUE
  /\ config = NoConfig
  /\ github = {} /\ made = 0
  /\ sender = [e \in Event |-> 0]
  /\ event = [e \in Event |-> "none"]
  /\ deployed = [e \in Event |-> 0]
  /\ proc = [p \in Processors |-> NoProc]
  /\ admin = [a \in Admins |-> NoAdmin]
  /\ calm = TRUE
  /\ crashed = FALSE

Configured == config # NoConfig
Used(e) == event[e] # "none" \/ \E p \in Processors : proc[p].e = e

----------------------------------------------------------------------------
(* Receiving.                                                              *)

\* GitHub delivers e, or delivers it again; WebhookSignatureGuard wants an
\* enabled configuration whose secret the delivery is signed with.
Receive(p, e) ==
  /\ proc[p].pc = "idle"
  /\ \E k \in IF sender[e] = 0 THEN github ELSE {sender[e]} \ {App} :
       /\ Configured /\ config.enabled /\ config.secret = k
       /\ sender' = [sender EXCEPT ![e] = k]
       /\ proc' = [proc EXCEPT ![p] = [NoProc EXCEPT !.pc = "config", !.e = e]]
  /\ UNCHANGED <<project, hooks, event, deployed, admin, calm, crashed>>

\* The App's receiver has a secret of its own; the project is found by its
\* repository, whatever its configuration says.
ReceiveApp(p, e) ==
  /\ proc[p].pc = "idle"
  /\ sender[e] \in {0, App}
  /\ project
  /\ sender' = [sender EXCEPT ![e] = App]
  /\ proc' = [proc EXCEPT ![p] = [NoProc EXCEPT !.pc = "find", !.e = e, !.route = "app"]]
  /\ UNCHANGED <<project, hooks, event, deployed, admin, calm, crashed>>

\* replayEvent: any stored event, under a new id, as if its hook had sent it.
ReplayEvent(p, e, r) ==
  /\ proc[p].pc = "idle"
  /\ Origin(r) = Origin(e)
  /\ event[e] # "none"
  /\ ~Used(r)
  /\ proc' = [proc EXCEPT ![p] = [NoProc EXCEPT !.pc = "config", !.e = r, !.route = "replay"]]
  /\ UNCHANGED <<project, hooks, events, admin, calm, crashed>>

----------------------------------------------------------------------------
(* processWebhookEvent and processAppWebhookEvent.                         *)

Goto(p, pc) == proc' = [proc EXCEPT ![p].pc = pc]
Leave(p) == proc' = [proc EXCEPT ![p] = NoProc]

\* The configuration is read once, before anything else ...
ReadConfig(p) ==
  /\ proc[p].pc = "config"
  /\ IF Configured /\ config.enabled
       THEN proc' = [proc EXCEPT ![p].pc = "find", ![p].filters = config.filters]
       ELSE Leave(p)
  /\ UNCHANGED events

\* ... a known delivery id ends the processing ...
FindEvent(p) ==
  /\ proc[p].pc = "find"
  /\ IF event[proc[p].e] = "none" THEN Goto(p, "insert") ELSE Leave(p)
  /\ UNCHANGED events

\* Mutant: an upsert.
InsertEvent_upsert(p) ==
  /\ proc[p].pc = "insert"
  /\ IF project
       THEN event' = [event EXCEPT ![proc[p].e] = "RECEIVED"] /\ Goto(p, "filter")
       ELSE Leave(p) /\ UNCHANGED event
  /\ UNCHANGED <<sender, deployed>>

\* ... and so does the unique index, or the project being gone.
InsertEvent(p) ==
  /\ proc[p].pc = "insert"
  /\ IF project /\ event[proc[p].e] = "none"
       THEN /\ event' = [event EXCEPT ![proc[p].e] = "RECEIVED"]
            /\ Goto(p, "filter")
       ELSE Leave(p) /\ UNCHANGED event
  /\ UNCHANGED <<sender, deployed>>

\* parsePayload: a push or a merge names a branch (in a set, empty when there
\* is none), only a push has files.
BranchOf(d) == IF d.event \in {"push", "pull_request", "release"} THEN d.branch ELSE {}
FilesOf(d) == IF d.event = "push" THEN d.files ELSE {}

AppEvents == {"push", "pull_request", "release", "create", "delete"}

\* The status is written if the row is still there.
WriteStatus(e, status) ==
  event' = IF event[e] = "none" THEN event ELSE [event EXCEPT ![e] = status]

\* The WebhooksFilterService; a pull request counts once it is merged.
MatchEvent(d, allowed) == d.event \in allowed /\ (d.event = "pull_request" => d.merged)
MatchBranch(d, branches) == branches = {} \/ (BranchOf(d) # {} /\ BranchOf(d) \subseteq branches)
MatchPaths(d, paths) == paths = {} \/ FilesOf(d) = {} \/ FilesOf(d) \cap paths # {}

Passes(d, allowed, f) ==
  MatchEvent(d, allowed) /\ MatchBranch(d, f.branches) /\ MatchPaths(d, f.paths)

\* The App's deliveries are filtered by the configuration of now, if any,
\* and whatever events it lists.
PassesFilters(p) ==
  LET d == Payload[Origin(proc[p].e)] IN
    IF proc[p].route = "app"
      THEN Passes(d, AppEvents, config.filters)
      ELSE Passes(d, proc[p].filters.events, proc[p].filters)

Filter(p) ==
  /\ proc[p].pc = "filter"
  /\ IF PassesFilters(p)
       THEN Goto(p, "trigger") /\ UNCHANGED event
       ELSE WriteStatus(proc[p].e, "FILTERED") /\ Leave(p)
  /\ UNCHANGED <<sender, deployed>>

\* DeployService.trigger: it fails before its row is there, or after (the
\* queue does not take the job), or succeeds.
Trigger(p) ==
  /\ proc[p].pc = "trigger"
  /\ \/ Goto(p, "fail") /\ UNCHANGED deployed
     \/ /\ project
        /\ deployed' = [deployed EXCEPT ![proc[p].e] = @ + 1]
        /\ Goto(p, "link") \/ Goto(p, "fail")
  /\ UNCHANGED <<sender, event>>

Link(p) ==
  /\ proc[p].pc = "link"
  /\ WriteStatus(proc[p].e, IF proc[p].route = "replay" THEN "REPLAYED" ELSE "TRIGGERED")
  /\ Leave(p)
  /\ UNCHANGED <<sender, deployed>>

WriteFailed(p) ==
  /\ proc[p].pc = "fail"
  /\ WriteStatus(proc[p].e, "FAILED")
  /\ Leave(p)
  /\ UNCHANGED <<sender, deployed>>

Process(p) ==
  /\ \/ ReadConfig(p) \/ FindEvent(p) \/ InsertEvent(p) \/ Filter(p) \/ Trigger(p)
     \/ Link(p) \/ WriteFailed(p)
  /\ UNCHANGED <<project, hooks, admin, calm, crashed>>

----------------------------------------------------------------------------
(* Configuration requests.                                                 *)

Step(a, pc) == admin' = [admin EXCEPT ![a].pc = pc]
Done(a) == admin' = [admin EXCEPT ![a] = NoAdmin]
Fails(a) == Done(a) /\ calm' = FALSE

\* createConfig only without a configuration, the others only with one; an
\* updateConfig that changes the events asks GitHub first.
Begin(a) ==
  /\ admin[a].pc = "idle"
  /\ project
  /\ \E op \in Op, enabled \in BOOLEAN, f \in Filters \cup {NoFilters} :
       /\ (op = "create") = ~Configured
       /\ op # "toggle" => ~enabled
       /\ (op \in {"create", "filters", "events"}) = (f # NoFilters)
       /\ op \in {"create", "regenerate"} => made < MaxHooks
       /\ admin' = [admin EXCEPT ![a] =
            [pc |-> CASE op = "create" -> "register"
                      [] op = "events" -> "patch"
                      [] op \in {"toggle", "filters"} -> "write"
                      [] OTHER -> "unhook",
             op |-> op, hook |-> config.hook, enabled |-> enabled, filters |-> f]]
  /\ calm' = (calm /\ \A b \in Admins : admin[b].pc = "idle")
  /\ UNCHANGED hooks

\* registerWebhook (create, regenerate).
Register(a) ==
  /\ admin[a].pc = "register"
  /\ \/ Fails(a) /\ UNCHANGED <<github, made>>
     \/ /\ made < MaxHooks
        /\ made' = made + 1
        /\ github' = github \cup {made + 1}
        /\ admin' = [admin EXCEPT ![a].hook = made + 1,
                       ![a].pc = IF admin[a].op = "create" THEN "insert" ELSE "write"]
        /\ UNCHANGED calm
  /\ UNCHANGED config

\* deleteWebhook (delete, regenerate): its errors are swallowed.
Unhook(a) ==
  /\ admin[a].pc = "unhook"
  /\ \/ github' = github \ {admin[a].hook} /\ UNCHANGED calm
     \/ admin[a].hook \in github /\ calm' = FALSE /\ UNCHANGED github
  /\ Step(a, IF admin[a].op = "delete" THEN "write" ELSE "register")
  /\ UNCHANGED <<config, made>>

\* The insert of createConfig; projectId is unique.
InsertConfig(a) ==
  /\ admin[a].pc = "insert"
  /\ IF project /\ ~Configured
       THEN /\ config' = [hook |-> admin[a].hook, secret |-> admin[a].hook,
                          enabled |-> TRUE, filters |-> admin[a].filters]
            /\ Done(a) /\ UNCHANGED calm
       ELSE Fails(a) /\ UNCHANGED config
  /\ UNCHANGED <<github, made>>

\* updateWebhook: an error of GitHub (the hook is gone) ends the update.
Patch(a) ==
  /\ admin[a].pc = "patch"
  /\ \/ admin[a].hook \in github /\ Step(a, "write") /\ UNCHANGED calm
     \/ Fails(a)
  /\ UNCHANGED hooks

\* The updates of the row fail when it is gone.
WriteConfig(a) ==
  /\ admin[a].pc = "write"
  /\ config' =
       IF ~Configured THEN config
       ELSE CASE admin[a].op = "toggle" -> [config EXCEPT !.enabled = admin[a].enabled]
              [] admin[a].op \in {"filters", "events"} ->
                   [config EXCEPT !.filters = admin[a].filters]
              [] admin[a].op = "regenerate" ->
                   [config EXCEPT !.hook = admin[a].hook, !.secret = admin[a].hook]
              [] admin[a].op = "delete" -> NoConfig
  /\ Done(a)
  /\ calm' = (calm /\ Configured)
  /\ UNCHANGED <<github, made>>

Administer(a) ==
  /\ \/ Begin(a) \/ Register(a) \/ Unhook(a) \/ InsertConfig(a) \/ Patch(a)
     \/ WriteConfig(a)
  /\ UNCHANGED <<project, events, proc, crashed>>

----------------------------------------------------------------------------
\* The project's rows cascade; its hook at GitHub stays.  (Bound: a crash or
\* a deletion, not both.)
DeleteProject ==
  /\ project /\ ~crashed
  /\ project' = FALSE
  /\ config' = NoConfig
  /\ sender' = [e \in Event |-> 0]
  /\ event' = [e \in Event |-> "none"]
  /\ deployed' = [e \in Event |-> 0]
  /\ calm' = FALSE
  /\ UNCHANGED <<github, made, proc, admin, crashed>>

\* The backend stops (bound: once) and forgets what it had begun.
Crash ==
  /\ project /\ ~crashed
  /\ crashed' = TRUE
  /\ calm' = FALSE
  /\ proc' = [p \in Processors |-> NoProc]
  /\ admin' = [a \in Admins |-> NoAdmin]
  /\ UNCHANGED <<project, hooks, events>>

Next ==
  \/ \E p \in Processors, e \in Delivery : Receive(p, e) \/ ReceiveApp(p, e)
  \/ \E p \in Processors, e \in Event, r \in Replay : ReplayEvent(p, e, r)
  \/ \E p \in Processors : Process(p)
  \/ \E a \in Admins : Administer(a)
  \/ DeleteProject
  \/ Crash

Spec == Init /\ [][Next]_vars

\* The event loop runs what was received to its end; nobody need administer.
Fairness == \A p \in Processors : WF_vars(Process(p))

FairSpec == Spec /\ Fairness

----------------------------------------------------------------------------
(***************************************************************************)
(* "Duplicate delivery IDs rejected" (webhooks design, line 256): however  *)
(* often and concurrently GitHub sends a delivery, one event comes of it   *)
(* and at most one deployment.                                             *)
(***************************************************************************)
OneDeploymentPerDelivery ==
  \A e \in Event :
    /\ deployed[e] <= 1
    /\ event[e] \in {"TRIGGERED", "REPLAYED"} => deployed[e] = 1
    /\ event[e] \in {"none", "FILTERED"} => deployed[e] = 0

(***************************************************************************)
(* Whatever creates, regenerations and deletes race: a configured hook     *)
(* that GitHub still has is one whose signatures the guard accepts.  And   *)
(* after serial requests none of which failed, the hooks at GitHub are     *)
(* exactly the configured one.                                             *)
(***************************************************************************)
HooksAccounted ==
  /\ config.hook \in github => config.secret = config.hook
  /\ calm /\ (\A a \in Admins : admin[a].pc = "idle")
       => github = IF Configured THEN {config.hook} ELSE {}

(***************************************************************************)
(* A replay makes an event of its own: a settled event stays as it is, as  *)
(* long as the project exists ("remains unchanged for audit trail").       *)
(***************************************************************************)
SettledEventsKeptStep ==
  project' => \A e \in Event : event[e] \in Settled => event'[e] = event[e]

(***************************************************************************)
(* A received event is settled, unless the backend stops meanwhile: then   *)
(* it stays RECEIVED, and GitHub's redelivery is dropped as a duplicate.   *)
(***************************************************************************)
Unsettled(e) == event[e] = "RECEIVED" /\ ~crashed

ReceivedSettles == \A e \in Event : Unsettled(e) ~> ~Unsettled(e)
=============================================================================
