---------------------------- MODULE Webhooks_proofs ----------------------------
(***************************************************************************)
(* Proofs about Webhooks, for every set of deliveries, filters, processors *)
(* and requests, and every number of replays and hooks.                    *)
(***************************************************************************)
EXTENDS Webhooks, TLAPS

\* The sets of TypeOK.
Config == [hook : Hook \cup {0}, secret : Hook \cup {0}, enabled : BOOLEAN,
           filters : Filters \cup {NoFilters}]
ProcPc == {"idle", "config", "find", "insert", "filter", "trigger", "link", "fail"}
Proc == [pc : ProcPc, e : Event \cup {NoEvent}, route : {"hook", "app", "replay"},
         filters : Filters \cup {NoFilters}]
AdminPc == {"idle", "register", "insert", "patch", "write", "unhook"}
Admin == [pc : AdminPc, op : Op \cup {"none"}, hook : Hook \cup {0}, enabled : BOOLEAN,
          filters : Filters \cup {NoFilters}]

Types ==
  /\ project \in BOOLEAN /\ config \in Config /\ github \subseteq Hook /\ made \in 0..MaxHooks
  /\ sender \in [Event -> Hook \cup {0, App}] /\ event \in [Event -> Status]
  /\ deployed \in [Event -> Nat]
  /\ proc \in [Processors -> Proc] /\ admin \in [Admins -> Admin]
  /\ calm \in BOOLEAN /\ crashed \in BOOLEAN

LEMMA TypeOKSplit == TypeOK <=> Types
BY DEF TypeOK, Types, Config, Proc, ProcPc, Admin, AdminPc

(***************************************************************************)
(* Past the insert a processor holds the event it made, not settled yet,   *)
(* and nobody else holds it; what has been deployed for the event is what  *)
(* the processor's place says.  Once the project is deleted there are no   *)
(* events any more, nor deployments.                                       *)
(***************************************************************************)
Past(p) == proc[p].pc \in {"filter", "trigger", "link", "fail"}

Held ==
  /\ \A p \in Processors : proc[p].pc # "idle" => proc[p].e \in Event
  /\ \A p, q \in Processors : Past(p) /\ Past(q) /\ proc[p].e = proc[q].e => p = q
  /\ \A p \in Processors : project /\ Past(p) =>
       /\ event[proc[p].e] = "RECEIVED"
       /\ proc[p].pc \in {"filter", "trigger"} => deployed[proc[p].e] = 0
       /\ proc[p].pc = "link" => deployed[proc[p].e] = 1
  /\ ~project => \A e \in Event : event[e] = "none" /\ deployed[e] = 0

(***************************************************************************)
(* The secret is the one of the hook.  While requests are serial the hook  *)
(* at GitHub is the configured one, or the one the request at work has     *)
(* registered, or none between its call that removes it and the next.      *)
(***************************************************************************)
Idle(a) == admin[a].pc = "idle"

AtWork(a) ==
  LET u == admin[a] IN
    /\ u.pc = "register" => github = {} /\ (u.op = "create") = ~Configured
    /\ u.pc = "insert" => github = {u.hook} /\ ~Configured
    /\ u.pc = "patch" => Configured /\ github = {config.hook}
    /\ u.pc = "unhook" => Configured /\ github = {config.hook} /\ u.hook = config.hook
    /\ u.pc = "write" =>
         /\ Configured
         /\ github = CASE u.op = "regenerate" -> {u.hook}
                       [] u.op = "delete" -> {}
                       [] OTHER -> {config.hook}

Signed ==
  /\ config.secret = config.hook
  /\ Configured => config.hook # 0
  /\ \A a \in Admins : admin[a].pc = "insert" => admin[a].hook # 0
  /\ \A a \in Admins : admin[a].pc = "write" /\ admin[a].op = "regenerate" => admin[a].hook # 0
  /\ \A a \in Admins : admin[a].pc = "register" => admin[a].op \in {"create", "regenerate"}
  /\ \A a \in Admins : admin[a].pc = "patch" => admin[a].op = "events"
  /\ \A a \in Admins : admin[a].pc = "unhook" => admin[a].op \in {"delete", "regenerate"}
  /\ \A a \in Admins : admin[a].pc = "write" =>
       admin[a].op \in {"toggle", "filters", "events", "delete", "regenerate"}

Serial ==
  calm =>
    /\ \A a, b \in Admins : Idle(a) \/ Idle(b) \/ a = b
    /\ (\A a \in Admins : Idle(a)) => github = IF Configured THEN {config.hook} ELSE {}
    /\ \A a \in Admins : AtWork(a)

IInv == TypeOK /\ OneDeploymentPerDelivery /\ Held /\ Signed /\ Serial

LEMMA Bounds == WebhooksAssumption => MaxReplays \in Nat /\ MaxHooks \in Nat
BY DEF WebhooksAssumption

\* The invariant holds of a project without a configuration.
LEMMA IInvInit == WebhooksAssumption /\ Init => IInv
<1> SUFFICES ASSUME WebhooksAssumption, Init  PROVE IInv
  OBVIOUS
<1>1. NoConfig \in Config /\ NoProc \in Proc /\ NoAdmin \in Admin
  BY DEF Config, Proc, ProcPc, Admin, AdminPc, NoConfig, NoProc, NoAdmin
<1>2. project \in BOOLEAN /\ calm \in BOOLEAN /\ crashed \in BOOLEAN
  BY Zenon DEF Init
<1>6. config \in Config /\ github \subseteq Hook /\ made \in 0..MaxHooks
  BY <1>1, Bounds DEF Init
<1>3. /\ sender \in [Event -> Hook \cup {0, App}] /\ event \in [Event -> Status]
      /\ deployed \in [Event -> Nat]
  BY DEF Init, Status
<1>4. proc \in [Processors -> Proc] /\ admin \in [Admins -> Admin]
  BY <1>1 DEF Init
<1>5. TypeOK
  BY <1>2, <1>3, <1>4, <1>6, TypeOKSplit DEF Types
<1> QED
  BY <1>5 DEF Init, IInv, OneDeploymentPerDelivery, Held, Past, Signed, Serial, Idle, AtWork, NoProc, NoAdmin, NoConfig,
    Configured

----------------------------------------------------------------------------
(* Deliveries.                                                             *)

\* What a processor that moves leaves of the others.
LEMMA Moved ==
  ASSUME NEW p \in Processors, NEW u \in Proc, proc \in [Processors -> Proc],
         proc' = [proc EXCEPT ![p] = u]
  PROVE  /\ proc' \in [Processors -> Proc] /\ proc'[p] = u
         /\ \A q \in Processors \ {p} : proc'[q] = proc[q]
OBVIOUS

\* Whatever receives, processes or replays: what it makes of its own place.
LEMMA ReceiverMoves ==
  ASSUME WebhooksAssumption, IInv, NEW p \in Processors,
         \/ \E e \in Delivery : Receive(p, e) \/ ReceiveApp(p, e)
         \/ \E e \in Event, r \in Replay : ReplayEvent(p, e, r)
  PROVE  /\ sender' \in [Event -> Hook \cup {0, App}]
         /\ proc' \in [Processors -> Proc] /\ proc'[p].e \in Event
         /\ proc'[p].pc \in {"config", "find"}
         /\ \A q \in Processors \ {p} : proc'[q] = proc[q]
         /\ UNCHANGED <<project, hooks, event, deployed, admin, calm, crashed>>
<1> USE DEF Event
<1>1. ASSUME NEW e \in Delivery, Receive(p, e)  PROVE sender' \in [Event -> Hook \cup {0, App}]
  BY <1>1, TypeOKSplit DEF Types, IInv, Receive
<1>2. ASSUME NEW e \in Delivery, ReceiveApp(p, e)  PROVE sender' \in [Event -> Hook \cup {0, App}]
  BY <1>2, TypeOKSplit DEF Types, IInv, ReceiveApp
<1>3. ASSUME NEW e \in Event, NEW u \in Proc, u.e = e, u.pc \in {"config", "find"},
             proc' = [proc EXCEPT ![p] = u]
      PROVE  /\ proc' \in [Processors -> Proc] /\ proc'[p].e \in Event
             /\ proc'[p].pc \in {"config", "find"}
             /\ \A q \in Processors \ {p} : proc'[q] = proc[q]
  BY <1>3, Moved, TypeOKSplit DEF Types, IInv
<1>4. ASSUME NEW e \in Event
      PROVE  /\ [NoProc EXCEPT !.pc = "config", !.e = e] \in Proc
             /\ [NoProc EXCEPT !.pc = "find", !.e = e, !.route = "app"] \in Proc
             /\ [NoProc EXCEPT !.pc = "config", !.e = e, !.route = "replay"] \in Proc
  BY DEF NoProc, Proc, ProcPc
<1>5. ASSUME NEW e \in Event
      PROVE  /\ [NoProc EXCEPT !.pc = "config", !.e = e].e = e
             /\ [NoProc EXCEPT !.pc = "config", !.e = e].pc = "config"
             /\ [NoProc EXCEPT !.pc = "find", !.e = e, !.route = "app"].e = e
             /\ [NoProc EXCEPT !.pc = "find", !.e = e, !.route = "app"].pc = "find"
             /\ [NoProc EXCEPT !.pc = "config", !.e = e, !.route = "replay"].e = e
             /\ [NoProc EXCEPT !.pc = "config", !.e = e, !.route = "replay"].pc = "config"
  BY DEF NoProc
<1>6. ASSUME NEW e \in Delivery, Receive(p, e)
      PROVE  /\ proc' \in [Processors -> Proc] /\ proc'[p].e \in Event
             /\ proc'[p].pc \in {"config", "find"}
             /\ \A q \in Processors \ {p} : proc'[q] = proc[q]
  <2> DEFINE u == [NoProc EXCEPT !.pc = "config", !.e = e]
  <2>1. u \in Proc /\ u.e = e /\ u.pc = "config" /\ proc' = [proc EXCEPT ![p] = u]
    BY <1>4, <1>5, <1>6 DEF Receive
  <2> HIDE DEF u
  <2> QED
    BY <1>3, <2>1
<1>7. ASSUME NEW e \in Delivery, ReceiveApp(p, e)
      PROVE  /\ proc' \in [Processors -> Proc] /\ proc'[p].e \in Event
             /\ proc'[p].pc \in {"config", "find"}
             /\ \A q \in Processors \ {p} : proc'[q] = proc[q]
  <2> DEFINE u == [NoProc EXCEPT !.pc = "find", !.e = e, !.route = "app"]
  <2>1. u \in Proc /\ u.e = e /\ u.pc = "find" /\ proc' = [proc EXCEPT ![p] = u]
    BY <1>4, <1>5, <1>7 DEF ReceiveApp
  <2> HIDE DEF u
  <2> QED
    BY <1>3, <2>1
<1>8. ASSUME NEW e \in Event, NEW r \in Replay, ReplayEvent(p, e, r)
      PROVE  /\ proc' \in [Processors -> Proc] /\ proc'[p].e \in Event
             /\ proc'[p].pc \in {"config", "find"}
             /\ \A q \in Processors \ {p} : proc'[q] = proc[q]
  <2> DEFINE u == [NoProc EXCEPT !.pc = "config", !.e = r, !.route = "replay"]
  <2>1. u \in Proc /\ u.e = r /\ u.pc = "config" /\ proc' = [proc EXCEPT ![p] = u]
    BY <1>4, <1>5, <1>8 DEF ReplayEvent
  <2> HIDE DEF u
  <2> QED
    BY <1>3, <2>1
<1> QED
  BY <1>1, <1>2, <1>6, <1>7, <1>8, TypeOKSplit DEF Types, IInv, Receive, ReceiveApp, ReplayEvent, hooks, events

\* Going on, a processor keeps the event it has; leaving, it forgets it.
LEMMA GoneOn ==
  ASSUME NEW p \in Processors, proc \in [Processors -> Proc], NEW pc \in ProcPc, Goto(p, pc)
  PROVE  /\ proc' \in [Processors -> Proc] /\ proc'[p].pc = pc /\ proc'[p].e = proc[p].e
         /\ \A q \in Processors \ {p} : proc'[q] = proc[q]
<1> DEFINE u == [proc[p] EXCEPT !.pc = pc]
<1>1. u \in Proc /\ u.pc = pc /\ u.e = proc[p].e
  BY DEF Proc
<1>2. proc' = [proc EXCEPT ![p] = u]
  BY DEF Goto
<1> HIDE DEF u
<1> QED
  BY <1>1, <1>2, Moved

LEMMA GoneAway ==
  ASSUME NEW p \in Processors, proc \in [Processors -> Proc], Leave(p)
  PROVE  /\ proc' \in [Processors -> Proc] /\ proc'[p].pc = "idle"
         /\ \A q \in Processors \ {p} : proc'[q] = proc[q]
<1>1. NoProc \in Proc /\ NoProc.pc = "idle"
  BY DEF NoProc, Proc, ProcPc
<1> QED
  BY <1>1, Moved DEF Leave

\* What a status written says of the events.
LEMMA Written ==
  ASSUME event \in [Event -> Status], NEW e \in Event, NEW s \in Status \ {"none"},
         WriteStatus(e, s)
  PROVE  /\ event' \in [Event -> Status]
         /\ event'[e] = IF event[e] = "none" THEN "none" ELSE s
         /\ \A d \in Event \ {e} : event'[d] = event[d]
BY DEF WriteStatus

\* Which event a step of the processing is about, and how it leaves the rest.
Elsewhere(p) ==
  /\ \A q \in Processors \ {p} : proc'[q] = proc[q]
  /\ \A d \in Event \ {proc[p].e} : event'[d] = event[d] /\ deployed'[d] = deployed[d]
  /\ sender' = sender

Typed ==
  /\ proc' \in [Processors -> Proc] /\ event' \in [Event -> Status]
  /\ deployed' \in [Event -> Nat]

LEMMA ReadOrFind ==
  ASSUME IInv, NEW p \in Processors, ReadConfig(p) \/ FindEvent(p)
  PROVE  /\ Typed /\ Elsewhere(p) /\ UNCHANGED events
         /\ \/ proc'[p].pc = "idle"
            \/ proc'[p].pc \in {"find", "insert"} /\ proc'[p].e = proc[p].e
<1>1. CASE ReadConfig(p) /\ Configured /\ config.enabled
  <2> DEFINE u == [proc[p] EXCEPT !.pc = "find", !.filters = config.filters]
  <2>1. u \in Proc /\ u.pc = "find" /\ u.e = proc[p].e
    BY TypeOKSplit DEF Types, IInv, Proc, ProcPc, Config
  <2>2. proc' = [proc EXCEPT ![p] = u]
    BY <1>1 DEF ReadConfig
  <2> HIDE DEF u
  <2> QED
    BY <1>1, <2>1, <2>2, Moved, TypeOKSplit DEF Types, IInv, ReadConfig, events, Typed, Elsewhere
<1>2. CASE ReadConfig(p) /\ ~(Configured /\ config.enabled)
  BY <1>2, GoneAway, TypeOKSplit DEF Types, IInv, ReadConfig, events, Typed, Elsewhere
<1>3. CASE FindEvent(p)
  BY <1>3, GoneAway, GoneOn, TypeOKSplit DEF Types, IInv, FindEvent, events, Typed, Elsewhere, ProcPc
<1> QED
  BY <1>1, <1>2, <1>3 DEF ReadConfig

LEMMA Inserts ==
  ASSUME IInv, NEW p \in Processors, InsertEvent(p)
  PROVE  /\ Typed /\ Elsewhere(p) /\ deployed' = deployed
         /\ \/ proc'[p].pc = "idle" /\ event' = event
            \/ /\ project /\ event[proc[p].e] = "none" /\ event'[proc[p].e] = "RECEIVED"
               /\ proc'[p].pc = "filter" /\ proc'[p].e = proc[p].e
<1>1. proc[p].e \in Event
  BY DEF IInv, Held, InsertEvent
<1>2. CASE project /\ event[proc[p].e] = "none"
  BY <1>1, <1>2, GoneOn, TypeOKSplit
     DEF Types, IInv, InsertEvent, Typed, Elsewhere, ProcPc, Status
<1>3. CASE ~(project /\ event[proc[p].e] = "none")
  BY <1>3, GoneAway, TypeOKSplit DEF Types, IInv, InsertEvent, Typed, Elsewhere
<1> QED
  BY <1>2, <1>3

LEMMA Settles ==
  ASSUME IInv, NEW p \in Processors,
         \/ Filter(p) /\ ~PassesFilters(p)
         \/ Link(p) \/ WriteFailed(p)
  PROVE  /\ Typed /\ Elsewhere(p) /\ deployed' = deployed /\ proc'[p].pc = "idle"
         /\ event'[proc[p].e] \in {event[proc[p].e]} \cup Settled
         /\ event'[proc[p].e] # event[proc[p].e] =>
              /\ event[proc[p].e] # "none"
              /\ event'[proc[p].e] \in CASE proc[p].pc = "filter" -> {"FILTERED"}
                                        [] proc[p].pc = "link" -> {"TRIGGERED", "REPLAYED"}
                                        [] OTHER -> {"FAILED"}
<1>1. proc[p].e \in Event
  BY DEF IInv, Held, Filter, Link, WriteFailed
<1>2. CASE Filter(p) /\ ~PassesFilters(p)
  <2>1. Leave(p) /\ WriteStatus(proc[p].e, "FILTERED") /\ UNCHANGED <<sender, deployed>>
        /\ proc[p].pc = "filter"
    BY <1>2 DEF Filter
  <2> QED
    BY <1>1, <2>1, GoneAway, Written, TypeOKSplit DEF Types, IInv, Typed, Elsewhere, Status, Settled
<1>3. CASE Link(p)
  <2>1. PICK s \in {"TRIGGERED", "REPLAYED"} : WriteStatus(proc[p].e, s)
    BY <1>3 DEF Link
  <2>2. Leave(p) /\ UNCHANGED <<sender, deployed>> /\ proc[p].pc = "link"
    BY <1>3 DEF Link
  <2> QED
    BY <1>1, <2>1, <2>2, GoneAway, Written, TypeOKSplit DEF Types, IInv, Typed, Elsewhere, Status, Settled
<1>4. CASE WriteFailed(p)
  <2>1. Leave(p) /\ WriteStatus(proc[p].e, "FAILED") /\ UNCHANGED <<sender, deployed>>
        /\ proc[p].pc = "fail"
    BY <1>4 DEF WriteFailed
  <2> QED
    BY <1>1, <2>1, GoneAway, Written, TypeOKSplit DEF Types, IInv, Typed, Elsewhere, Status, Settled
<1> QED
  BY <1>2, <1>3, <1>4

LEMMA Triggers ==
  ASSUME IInv, NEW p \in Processors, (Filter(p) /\ PassesFilters(p)) \/ Trigger(p)
  PROVE  /\ Typed /\ Elsewhere(p) /\ event' = event /\ proc'[p].e = proc[p].e
         /\ \/ /\ deployed' = deployed /\ proc[p].pc \in {"filter", "trigger"}
               /\ proc'[p].pc \in {"trigger", "fail"}
            \/ /\ project /\ deployed'[proc[p].e] = deployed[proc[p].e] + 1
               /\ proc[p].pc = "trigger" /\ proc'[p].pc \in {"link", "fail"}
<1>1. proc[p].e \in Event
  BY DEF IInv, Held, Filter, Trigger
<1>2. CASE Filter(p) /\ PassesFilters(p)
  BY <1>2, GoneOn, TypeOKSplit DEF Types, IInv, Filter, Typed, Elsewhere, ProcPc
<1>3. CASE Trigger(p) /\ deployed' = deployed
  <2>1. PICK pc \in {"fail"} : Goto(p, pc)
    BY <1>1, <1>3, TypeOKSplit DEF Types, IInv, Trigger
  <2> QED
    BY <1>3, <2>1, GoneOn, TypeOKSplit DEF Types, IInv, Trigger, Typed, Elsewhere, ProcPc
<1>4. CASE Trigger(p) /\ deployed' # deployed
  <2>1. PICK pc \in {"link", "fail"} : Goto(p, pc)
    BY <1>4 DEF Trigger
  <2>2. project /\ deployed' = [deployed EXCEPT ![proc[p].e] = @ + 1]
    BY <1>4 DEF Trigger
  <2>3. /\ deployed' \in [Event -> Nat] /\ deployed'[proc[p].e] = deployed[proc[p].e] + 1
        /\ \A d \in Event \ {proc[p].e} : deployed'[d] = deployed[d]
    BY <1>1, <2>2, TypeOKSplit DEF Types, IInv
  <2> QED
    BY <1>4, <2>1, <2>2, <2>3, GoneOn, TypeOKSplit DEF Types, IInv, Trigger, Typed, Elsewhere, ProcPc
<1> QED
  BY <1>2, <1>3, <1>4

\* A step of the processing keeps what is known of events and deployments.
LEMMA HeldStep ==
  ASSUME IInv, NEW p \in Processors, Process(p)
  PROVE  TypeOK' /\ OneDeploymentPerDelivery' /\ Held'
<1> SUFFICES ASSUME Typed, Elsewhere(p), UNCHANGED <<project, hooks, admin, calm, crashed>>,
                    \/ /\ UNCHANGED events
                       /\ \/ proc'[p].pc = "idle"
                          \/ proc'[p].pc \in {"find", "insert"} /\ proc'[p].e = proc[p].e
                    \/ /\ deployed' = deployed
                       /\ \/ proc'[p].pc = "idle" /\ event' = event
                          \/ /\ project /\ event[proc[p].e] = "none"
                             /\ event'[proc[p].e] = "RECEIVED"
                             /\ proc'[p].pc = "filter" /\ proc'[p].e = proc[p].e
                    \/ /\ deployed' = deployed /\ proc'[p].pc = "idle" /\ Past(p)
                       /\ event'[proc[p].e] # event[proc[p].e] =>
                            /\ event[proc[p].e] # "none"
                            /\ event'[proc[p].e] \in
                                 CASE proc[p].pc = "filter" -> {"FILTERED"}
                                   [] proc[p].pc = "link" -> {"TRIGGERED", "REPLAYED"}
                                   [] OTHER -> {"FAILED"}
                    \/ /\ event' = event /\ proc'[p].e = proc[p].e /\ Past(p)
                       /\ \/ /\ deployed' = deployed /\ proc[p].pc \in {"filter", "trigger"}
                             /\ proc'[p].pc \in {"trigger", "fail"}
                          \/ /\ project /\ deployed'[proc[p].e] = deployed[proc[p].e] + 1
                             /\ proc[p].pc = "trigger" /\ proc'[p].pc \in {"link", "fail"},
                    proc[p].e \in Event
             PROVE  TypeOK' /\ OneDeploymentPerDelivery' /\ Held'
  <2>1. UNCHANGED <<project, hooks, admin, calm, crashed>> /\ proc[p].e \in Event
    BY DEF Process, IInv, Held, ReadConfig, FindEvent, InsertEvent, Filter, Trigger, Link, WriteFailed
  <2>2. CASE ReadConfig(p) \/ FindEvent(p)
    BY <2>1, <2>2, ReadOrFind
  <2>3. CASE InsertEvent(p)
    BY <2>1, <2>3, Inserts
  <2>4. CASE Filter(p) /\ ~PassesFilters(p)
    BY <2>1, <2>4, Settles DEF Past, Filter
  <2>5. CASE Link(p) \/ WriteFailed(p)
    BY <2>1, <2>5, Settles DEF Past, Link, WriteFailed
  <2>6. CASE (Filter(p) /\ PassesFilters(p)) \/ Trigger(p)
    BY <2>1, <2>6, Triggers DEF Past, Filter, Trigger
  <2> QED
    BY <2>2, <2>3, <2>4, <2>5, <2>6 DEF Process
<1>1. TypeOK'
  <2>1. Types'
    BY TypeOKSplit DEF Types, IInv, Typed, Elsewhere, hooks, Config, Proc, Admin
  <2> QED
    BY <2>1, TypeOKSplit, PTL
<1>2. OneDeploymentPerDelivery'
  BY DEF IInv, OneDeploymentPerDelivery, Held, Past, Typed, Elsewhere, events
<1>3. Held'
  BY DEF IInv, OneDeploymentPerDelivery, Held, Past, Typed, Elsewhere, events
<1> QED
  BY <1>1, <1>2, <1>3

----------------------------------------------------------------------------
(* Configuration requests.                                                 *)

\* What a request that moves leaves of the others.
LEMMA AdminMoved ==
  ASSUME NEW a \in Admins, NEW u \in Admin, admin \in [Admins -> Admin],
         admin' = [admin EXCEPT ![a] = u]
  PROVE  /\ admin' \in [Admins -> Admin] /\ admin'[a] = u
         /\ \A b \in Admins \ {a} : admin'[b] = admin[b]
OBVIOUS

\* A request ends, or goes on with what it has.
LEMMA AdminDone ==
  ASSUME NEW a \in Admins, admin \in [Admins -> Admin], Done(a)
  PROVE  /\ admin' \in [Admins -> Admin] /\ admin'[a].pc = "idle"
         /\ \A b \in Admins \ {a} : admin'[b] = admin[b]
<1>1. NoAdmin \in Admin /\ NoAdmin.pc = "idle"
  BY DEF NoAdmin, Admin, AdminPc
<1> QED
  BY <1>1, AdminMoved DEF Done

LEMMA AdminSteps ==
  ASSUME NEW a \in Admins, admin \in [Admins -> Admin], NEW pc \in AdminPc, Step(a, pc)
  PROVE  /\ admin' \in [Admins -> Admin] /\ admin'[a].pc = pc
         /\ admin'[a].op = admin[a].op /\ admin'[a].hook = admin[a].hook
         /\ \A b \in Admins \ {a} : admin'[b] = admin[b]
<1> DEFINE u == [admin[a] EXCEPT !.pc = pc]
<1>1. u \in Admin /\ u.pc = pc /\ u.op = admin[a].op /\ u.hook = admin[a].hook
  BY DEF Admin
<1>2. admin' = [admin EXCEPT ![a] = u]
  BY DEF Step
<1> HIDE DEF u
<1> QED
  BY <1>1, <1>2, AdminMoved

(***************************************************************************)
(* What a step of request a does to the hooks and to its own place, and    *)
(* that it leaves every other request alone; a step that keeps the calm is *)
(* one of the only request at work.                                        *)
(***************************************************************************)
HooksTyped ==
  /\ config' \in Config /\ github' \subseteq Hook /\ made' \in 0..MaxHooks
  /\ admin' \in [Admins -> Admin] /\ calm' \in BOOLEAN

Alone(a) ==
  /\ \A b \in Admins \ {a} : admin'[b] = admin[b]
  /\ calm' => calm /\ \A b \in Admins \ {a} : Idle(b)

\* A request at work while all is calm is the only one.
LEMMA AtWorkAlone ==
  ASSUME IInv, NEW a \in Admins, ~Idle(a), calm
  PROVE  \A b \in Admins \ {a} : Idle(b)
BY DEF IInv, Serial, Idle

\* What remains to show of such a step.
LEMMA SerialFrom ==
  ASSUME IInv, NEW a \in Admins, Alone(a),
         calm' /\ Idle(a)' => github' = IF Configured' THEN {config'.hook} ELSE {},
         calm' => AtWork(a)'
  PROVE  Serial'
<1> SUFFICES ASSUME calm'
             PROVE  /\ \A b, c \in Admins : Idle(b)' \/ Idle(c)' \/ b = c
                    /\ (\A b \in Admins : Idle(b)') =>
                         github' = IF Configured' THEN {config'.hook} ELSE {}
                    /\ \A b \in Admins : AtWork(b)'
  BY DEF Serial
<1>1. \A b \in Admins \ {a} : Idle(b)'
  BY DEF Alone, Idle
<1> QED
  BY <1>1 DEF Idle, AtWork

LEMMA BeginStep ==
  ASSUME IInv, NEW a \in Admins, Begin(a)
  PROVE  HooksTyped /\ Signed' /\ Serial'
<1>1. PICK op \in Op, enabled \in BOOLEAN, f \in Filters \cup {NoFilters} :
        /\ (op = "create") = ~Configured
        /\ op # "toggle" => ~enabled
        /\ (op \in {"create", "filters", "events"}) = (f # NoFilters)
        /\ op \in {"create", "regenerate"} => made < MaxHooks
        /\ admin' = [admin EXCEPT ![a] =
             [pc |-> CASE op = "create" -> "register"
                       [] op = "events" -> "patch"
                       [] op \in {"toggle", "filters"} -> "write"
                       [] OTHER -> "unhook",
              op |-> op, hook |-> config.hook, enabled |-> enabled, filters |-> f]]
  BY DEF Begin
<1> DEFINE pc == CASE op = "create" -> "register"
                   [] op = "events" -> "patch"
                   [] op \in {"toggle", "filters"} -> "write"
                   [] OTHER -> "unhook"
           u == [pc |-> pc, op |-> op, hook |-> config.hook, enabled |-> enabled, filters |-> f]
<1>2. u \in Admin /\ u.pc = pc /\ u.op = op /\ u.hook = config.hook
  BY TypeOKSplit DEF IInv, Types, Config, Admin, AdminPc, Op
<1> HIDE DEF u
<1>3. /\ admin' \in [Admins -> Admin] /\ admin'[a].pc = pc /\ admin'[a].op = op
      /\ admin'[a].hook = config.hook
      /\ \A b \in Admins \ {a} : admin'[b] = admin[b]
  BY <1>1, <1>2, AdminMoved, TypeOKSplit DEF IInv, Types, u
<1>4. UNCHANGED hooks /\ calm' = (calm /\ \A b \in Admins : admin[b].pc = "idle")
  BY DEF Begin
<1>5. HooksTyped
  BY <1>3, <1>4, TypeOKSplit DEF IInv, Types, HooksTyped, hooks
<1>6. Signed'
  BY <1>1, <1>3, <1>4 DEF IInv, Signed, hooks, Configured, Op
<1>7. Alone(a)
  BY <1>3, <1>4 DEF Alone, Idle
<1>8. ASSUME calm'  PROVE AtWork(a)' /\ ~Idle(a)'
  <2>1. github = IF Configured THEN {config.hook} ELSE {}
    BY <1>4, <1>8 DEF IInv, Serial, Idle
  <2> QED
    BY <1>1, <1>3, <1>4, <2>1 DEF AtWork, Idle, hooks, Configured, Op
<1> QED
  BY <1>5, <1>6, <1>7, <1>8, SerialFrom

LEMMA RegisterStep ==
  ASSUME WebhooksAssumption, IInv, NEW a \in Admins, Register(a)
  PROVE  HooksTyped /\ Signed' /\ Serial'
<1>1. CASE Fails(a) /\ UNCHANGED <<github, made>>
  <2>1. /\ admin' \in [Admins -> Admin] /\ admin'[a].pc = "idle"
        /\ \A b \in Admins \ {a} : admin'[b] = admin[b]
    BY <1>1, AdminDone, TypeOKSplit DEF Types, IInv, Fails
  <2>2. calm' = FALSE /\ UNCHANGED hooks
    BY <1>1 DEF Fails, Register, hooks
  <2> QED
    BY <2>1, <2>2, TypeOKSplit DEF Types, IInv, HooksTyped, Signed, Serial, hooks, Configured
<1>2. CASE /\ made < MaxHooks
           /\ made' = made + 1
           /\ github' = github \cup {made + 1}
           /\ admin' = [admin EXCEPT ![a].hook = made + 1,
                          ![a].pc = IF admin[a].op = "create" THEN "insert" ELSE "write"]
           /\ UNCHANGED calm
  <2> DEFINE pc == IF admin[a].op = "create" THEN "insert" ELSE "write"
             u == [admin[a] EXCEPT !.hook = made + 1, !.pc = pc]
  <2>1. made + 1 \in Hook /\ made + 1 # 0 /\ made + 1 \in 0..MaxHooks
    BY <1>2, Bounds, TypeOKSplit DEF Types, IInv, Hook
  <2>2. u \in Admin /\ u.pc = pc /\ u.op = admin[a].op /\ u.hook = made + 1
    BY <2>1, TypeOKSplit DEF Types, IInv, Admin, AdminPc
  <2>3. admin' = [admin EXCEPT ![a] = u]
    BY <1>2
  <2> HIDE DEF u
  <2>4. /\ admin' \in [Admins -> Admin] /\ admin'[a].pc = pc /\ admin'[a].op = admin[a].op
        /\ admin'[a].hook = made + 1
        /\ \A b \in Admins \ {a} : admin'[b] = admin[b]
    BY <2>2, <2>3, AdminMoved, TypeOKSplit DEF Types, IInv
  <2>5. admin[a].pc = "register" /\ config' = config
    BY DEF Register
  <2>6. HooksTyped
    BY <1>2, <2>1, <2>4, <2>5, TypeOKSplit DEF Types, IInv, HooksTyped
  <2>7. Signed'
    BY <2>1, <2>4, <2>5 DEF IInv, Signed, Configured
  <2>8. Alone(a)
    BY <1>2, <2>4, <2>5, AtWorkAlone DEF Alone, Idle
  <2>9. ASSUME calm'  PROVE AtWork(a)' /\ ~Idle(a)'
    <3>1. AtWork(a) /\ admin[a].op \in {"create", "regenerate"}
      BY <1>2, <2>5, <2>9 DEF IInv, Serial, Signed
    <3> QED
      BY <1>2, <2>4, <2>5, <3>1 DEF AtWork, Idle, Configured
  <2> QED
    BY <2>6, <2>7, <2>8, <2>9, SerialFrom
<1> QED
  BY <1>1, <1>2 DEF Register

LEMMA UnhookStep ==
  ASSUME IInv, NEW a \in Admins, Unhook(a)
  PROVE  HooksTyped /\ Signed' /\ Serial'
<1> DEFINE pc == IF admin[a].op = "delete" THEN "write" ELSE "register"
<1>1. /\ admin' \in [Admins -> Admin] /\ admin'[a].pc = pc
      /\ admin'[a].op = admin[a].op /\ admin'[a].hook = admin[a].hook
      /\ \A b \in Admins \ {a} : admin'[b] = admin[b]
  BY AdminSteps, TypeOKSplit DEF Types, IInv, Unhook, AdminPc
<1>2. admin[a].pc = "unhook" /\ UNCHANGED <<config, made>>
  BY DEF Unhook
<1>3. \/ github' = github \ {admin[a].hook} /\ calm' = calm
      \/ calm' = FALSE /\ github' = github
  BY DEF Unhook
<1>4. HooksTyped
  BY <1>1, <1>2, <1>3, TypeOKSplit DEF Types, IInv, HooksTyped
<1>5. Signed'
  BY <1>1, <1>2 DEF IInv, Signed, Configured
<1>6. Alone(a)
  BY <1>1, <1>2, <1>3, AtWorkAlone DEF Alone, Idle
<1>7. ASSUME calm'  PROVE AtWork(a)' /\ ~Idle(a)'
  <2>1. AtWork(a) /\ admin[a].op \in {"delete", "regenerate"}
    BY <1>2, <1>3, <1>7 DEF IInv, Serial, Signed
  <2>2. github' = {}
    BY <1>2, <1>3, <1>7, <2>1 DEF AtWork
  <2> QED
    BY <1>1, <1>2, <2>1, <2>2 DEF AtWork, Idle, Configured
<1> QED
  BY <1>4, <1>5, <1>6, <1>7, SerialFrom

LEMMA InsertConfigStep ==
  ASSUME IInv, NEW a \in Admins, InsertConfig(a)
  PROVE  HooksTyped /\ Signed' /\ Serial'
<1>1. admin[a].pc = "insert" /\ UNCHANGED <<github, made>> /\ admin[a] \in Admin
  BY TypeOKSplit DEF Types, IInv, InsertConfig
<1>2. /\ admin' \in [Admins -> Admin] /\ admin'[a].pc = "idle"
      /\ \A b \in Admins \ {a} : admin'[b] = admin[b]
  BY AdminDone, TypeOKSplit DEF Types, IInv, InsertConfig, Fails
<1>3. CASE calm' = FALSE /\ config' = config
  BY <1>1, <1>2, <1>3, TypeOKSplit
     DEF Types, IInv, HooksTyped, Signed, Serial, Configured
<1>4. CASE /\ ~Configured /\ calm' = calm
           /\ config' = [hook |-> admin[a].hook, secret |-> admin[a].hook,
                         enabled |-> TRUE, filters |-> admin[a].filters]
  <2>1. config'.hook = admin[a].hook /\ config'.secret = admin[a].hook /\ config' \in Config
    BY <1>1, <1>4 DEF Admin, Config
  <2>2. admin[a].hook # 0
    BY <1>1 DEF IInv, Signed
  <2>3. config' # NoConfig
    BY <2>1, <2>2 DEF NoConfig
  <2>4. HooksTyped
    BY <1>1, <1>2, <1>4, <2>1, TypeOKSplit DEF Types, IInv, HooksTyped
  <2>5. Signed'
    BY <1>2, <2>1, <2>2 DEF IInv, Signed
  <2>6. Alone(a)
    BY <1>1, <1>2, <1>4, AtWorkAlone DEF Alone, Idle
  <2>7. ASSUME calm'  PROVE AtWork(a)' /\ github' = IF Configured' THEN {config'.hook} ELSE {}
    <3>1. AtWork(a)
      BY <1>4, <2>7 DEF IInv, Serial
    <3> QED
      BY <1>1, <1>2, <2>1, <2>3, <3>1 DEF AtWork, Configured
  <2> QED
    BY <2>4, <2>5, <2>6, <2>7, SerialFrom
<1> QED
  BY <1>3, <1>4 DEF InsertConfig, Fails

LEMMA PatchStep ==
  ASSUME IInv, NEW a \in Admins, Patch(a)
  PROVE  HooksTyped /\ Signed' /\ Serial'
<1>1. admin[a].pc = "patch" /\ UNCHANGED hooks
  BY DEF Patch
<1>2. CASE Fails(a)
  <2>1. /\ admin' \in [Admins -> Admin] /\ admin'[a].pc = "idle"
        /\ \A b \in Admins \ {a} : admin'[b] = admin[b]
    BY <1>2, AdminDone, TypeOKSplit DEF Types, IInv, Fails
  <2>2. calm' = FALSE
    BY <1>2 DEF Fails
  <2> QED
    BY <1>1, <2>1, <2>2, TypeOKSplit DEF Types, IInv, HooksTyped, Signed, Serial, hooks, Configured
<1>3. CASE Step(a, "write") /\ UNCHANGED calm
  <2>1. /\ admin' \in [Admins -> Admin] /\ admin'[a].pc = "write"
        /\ admin'[a].op = admin[a].op /\ admin'[a].hook = admin[a].hook
        /\ \A b \in Admins \ {a} : admin'[b] = admin[b]
    BY <1>3, AdminSteps, TypeOKSplit DEF Types, IInv, AdminPc
  <2>2. admin[a].op = "events"
    BY <1>1 DEF IInv, Signed
  <2>3. HooksTyped
    BY <1>1, <1>3, <2>1, TypeOKSplit DEF Types, IInv, HooksTyped, hooks
  <2>4. Signed'
    BY <1>1, <2>1, <2>2 DEF IInv, Signed, hooks, Configured
  <2>5. Alone(a)
    BY <1>1, <1>3, <2>1, AtWorkAlone DEF Alone, Idle
  <2>6. ASSUME calm'  PROVE AtWork(a)' /\ ~Idle(a)'
    <3>1. AtWork(a)
      BY <1>3, <2>6 DEF IInv, Serial
    <3> QED
      BY <1>1, <2>1, <2>2, <3>1 DEF AtWork, Idle, Configured, hooks
  <2> QED
    BY <2>3, <2>4, <2>5, <2>6, SerialFrom
<1> QED
  BY <1>2, <1>3 DEF Patch

LEMMA WriteConfigStep ==
  ASSUME IInv, NEW a \in Admins, WriteConfig(a)
  PROVE  HooksTyped /\ Signed' /\ Serial'
<1>1. /\ admin[a].pc = "write" /\ UNCHANGED <<github, made>> /\ admin[a] \in Admin
      /\ config \in Config /\ calm' = (calm /\ Configured)
  BY TypeOKSplit DEF Types, IInv, WriteConfig
<1>2. /\ admin' \in [Admins -> Admin] /\ admin'[a].pc = "idle"
      /\ \A b \in Admins \ {a} : admin'[b] = admin[b]
  BY AdminDone, TypeOKSplit DEF Types, IInv, WriteConfig
<1>3. admin[a].op \in {"toggle", "filters", "events", "delete", "regenerate"}
  BY <1>1 DEF IInv, Signed
<1>4. \/ /\ ~Configured \/ admin[a].op \notin {"delete", "regenerate"}
         /\ config' \in Config /\ config'.hook = config.hook /\ config'.secret = config.secret
         /\ ~Configured => config' = config
      \/ /\ Configured /\ admin[a].op = "regenerate" /\ config' \in Config
         /\ config'.hook = admin[a].hook /\ config'.secret = admin[a].hook
      \/ Configured /\ admin[a].op = "delete" /\ config' = NoConfig
  <2>1. CASE ~Configured
    BY <1>1, <2>1 DEF WriteConfig
  <2>2. CASE Configured /\ admin[a].op = "toggle"
    BY <1>1, <2>2 DEF WriteConfig, Config, Admin
  <2>3. CASE Configured /\ admin[a].op \in {"filters", "events"}
    BY <1>1, <2>3 DEF WriteConfig, Config, Admin
  <2>4. CASE Configured /\ admin[a].op = "regenerate"
    BY <1>1, <2>4 DEF WriteConfig, Config, Admin
  <2>5. CASE Configured /\ admin[a].op = "delete"
    BY <1>1, <2>5 DEF WriteConfig
  <2> QED
    BY <1>3, <2>1, <2>2, <2>3, <2>4, <2>5
<1>5. NoConfig \in Config /\ NoConfig.hook = 0 /\ NoConfig.secret = 0
  BY DEF NoConfig, Config
<1>6. Configured /\ admin[a].op = "regenerate" => admin[a].hook # 0
  BY <1>1 DEF IInv, Signed
<1>7. HooksTyped
  BY <1>1, <1>2, <1>4, <1>5, TypeOKSplit DEF Types, IInv, HooksTyped
<1>8. Signed'
  BY <1>2, <1>4, <1>5, <1>6 DEF IInv, Signed, Configured
<1>9. Alone(a)
  BY <1>1, <1>2, AtWorkAlone DEF Alone, Idle
<1>10. ASSUME calm'  PROVE AtWork(a)' /\ github' = IF Configured' THEN {config'.hook} ELSE {}
  <2>1. AtWork(a) /\ Configured /\ config.hook # 0
    BY <1>1, <1>10 DEF IInv, Serial, Signed
  <2>2. github = CASE admin[a].op = "regenerate" -> {admin[a].hook}
                   [] admin[a].op = "delete" -> {}
                   [] OTHER -> {config.hook}
    BY <1>1, <2>1 DEF AtWork
  <2>3. Configured' = (config'.hook # 0)
    BY <1>4, <1>5, <1>6, <2>1 DEF Configured
  <2> QED
    BY <1>1, <1>2, <1>3, <1>4, <1>5, <1>6, <2>1, <2>2, <2>3 DEF AtWork
<1> QED
  BY <1>7, <1>8, <1>9, <1>10, SerialFrom

----------------------------------------------------------------------------
(* All steps.                                                              *)

\* Configuration requests leave deliveries alone, and deliveries them.
LEMMA AdministerStep ==
  ASSUME WebhooksAssumption, IInv, NEW a \in Admins, Administer(a)
  PROVE  IInv'
<1>1. UNCHANGED <<project, events, proc, crashed>>
  BY DEF Administer
<1>2. HooksTyped /\ Signed' /\ Serial'
  BY BeginStep, RegisterStep, UnhookStep, InsertConfigStep, PatchStep, WriteConfigStep
     DEF Administer
<1>3. TypeOK'
  <2>1. Types'
    BY <1>1, <1>2, TypeOKSplit DEF Types, IInv, HooksTyped, events
  <2> QED
    BY <2>1, TypeOKSplit, PTL
<1>4. OneDeploymentPerDelivery' /\ Held'
  BY <1>1 DEF IInv, OneDeploymentPerDelivery, Held, Past, events
<1> QED
  BY <1>2, <1>3, <1>4 DEF IInv

LEMMA HooksKept ==
  ASSUME IInv, UNCHANGED <<hooks, admin, calm>>
  PROVE  Signed' /\ Serial'
BY DEF IInv, Signed, Serial, AtWork, Idle, Configured, hooks

\* A delivery received or replayed begins its processing.
LEMMA ReceiverStep ==
  ASSUME WebhooksAssumption, IInv, NEW p \in Processors,
         \/ \E e \in Delivery : Receive(p, e) \/ ReceiveApp(p, e)
         \/ \E e \in Event, r \in Replay : ReplayEvent(p, e, r)
  PROVE  IInv'
<1>1. /\ sender' \in [Event -> Hook \cup {0, App}]
      /\ proc' \in [Processors -> Proc] /\ proc'[p].e \in Event
      /\ proc'[p].pc \in {"config", "find"}
      /\ \A q \in Processors \ {p} : proc'[q] = proc[q]
      /\ UNCHANGED <<project, hooks, event, deployed, admin, calm, crashed>>
  BY ReceiverMoves
<1>2. TypeOK'
  <2>1. Types'
    BY <1>1, TypeOKSplit DEF Types, IInv, hooks
  <2> QED
    BY <2>1, TypeOKSplit, PTL
<1>3. OneDeploymentPerDelivery' /\ Held'
  BY <1>1 DEF IInv, OneDeploymentPerDelivery, Held, Past
<1> QED
  BY <1>1, <1>2, <1>3, HooksKept DEF IInv

\* The project deleted, or the backend stopped.
LEMMA EndStep ==
  ASSUME WebhooksAssumption, IInv, DeleteProject \/ Crash
  PROVE  IInv'
<1>1. NoConfig \in Config /\ NoProc \in Proc /\ NoAdmin \in Admin
  BY DEF Config, Proc, ProcPc, Admin, AdminPc, NoConfig, NoProc, NoAdmin
<1>2. CASE DeleteProject
  <2>1. /\ sender' \in [Event -> Hook \cup {0, App}] /\ event' \in [Event -> Status]
        /\ deployed' \in [Event -> Nat] /\ project' \in BOOLEAN /\ calm' \in BOOLEAN
    BY <1>2 DEF DeleteProject, Status
  <2>2. Types'
    BY <1>1, <1>2, <2>1, TypeOKSplit DEF Types, IInv, DeleteProject
  <2>3. TypeOK'
    BY <2>2, TypeOKSplit, PTL
  <2>4. OneDeploymentPerDelivery' /\ Held'
    BY <1>2 DEF DeleteProject, IInv, OneDeploymentPerDelivery, Held, Past
  <2>5. Signed' /\ Serial'
    BY <1>2 DEF DeleteProject, IInv, Signed, Serial, NoConfig, Configured
  <2> QED
    BY <2>3, <2>4, <2>5 DEF IInv
<1>3. CASE Crash
  <2>1. proc' \in [Processors -> Proc] /\ admin' \in [Admins -> Admin]
    BY <1>1, <1>3 DEF Crash
  <2>2. crashed' \in BOOLEAN /\ calm' \in BOOLEAN
    BY <1>3, Zenon DEF Crash
  <2>3. Types'
    BY <1>3, <2>1, <2>2, TypeOKSplit DEF Types, IInv, Crash, hooks, events
  <2>4. TypeOK'
    BY <2>3, TypeOKSplit, PTL
  <2>5. OneDeploymentPerDelivery' /\ Held'
    BY <1>3 DEF Crash, IInv, OneDeploymentPerDelivery, Held, Past, NoProc, events
  <2>6. Signed' /\ Serial'
    BY <1>3 DEF Crash, IInv, Signed, Serial, NoAdmin, Configured, hooks
  <2> QED
    BY <2>4, <2>5, <2>6 DEF IInv
<1> QED
  BY <1>2, <1>3

LEMMA IInvStep == WebhooksAssumption /\ IInv /\ [Next]_vars => IInv'
<1> SUFFICES ASSUME WebhooksAssumption, IInv, [Next]_vars  PROVE IInv'
  OBVIOUS
<1>1. ASSUME NEW p \in Processors, Process(p)  PROVE IInv'
  BY <1>1, HeldStep, HooksKept DEF Process, IInv
<1>2. CASE UNCHANGED vars
  BY <1>2 DEF vars, hooks, events, IInv, TypeOK, OneDeploymentPerDelivery, Held, Past, Signed,
    Serial, AtWork, Idle, Configured
<1> QED
  BY <1>1, <1>2, ReceiverStep, AdministerStep, EndStep DEF Next

\* The invariant says what the properties say.
LEMMA IInvSuffices == IInv => TypeOK /\ OneDeploymentPerDelivery /\ HooksAccounted
BY DEF IInv, Signed, Serial, Idle, HooksAccounted

(***************************************************************************)
(* Steps of a processor write a status only where it is RECEIVED: what is  *)
(* settled stays as it is while there is a project.                        *)
(***************************************************************************)
LEMMA SettledKept == WebhooksAssumption /\ IInv /\ [Next]_vars => SettledEventsKeptStep
<1> SUFFICES ASSUME WebhooksAssumption, IInv, [Next]_vars, project', NEW e \in Event,
                    event[e] \in Settled
             PROVE  event'[e] = event[e]
  BY DEF SettledEventsKeptStep
<1>1. ASSUME NEW p \in Processors, Process(p)  PROVE event'[e] = event[e]
  <2>1. project
    BY <1>1 DEF Process
  <2>2. CASE ReadConfig(p) \/ FindEvent(p)
    BY <2>2, ReadOrFind DEF events
  <2>3. CASE InsertEvent(p)
    BY <2>3, Inserts DEF Elsewhere, Settled
  <2>4. CASE Filter(p) /\ ~PassesFilters(p)
    <3>1. event[proc[p].e] = "RECEIVED"
      BY <2>1, <2>4 DEF IInv, Held, Past, Filter
    <3> QED
      BY <2>4, <3>1, Settles DEF Elsewhere, Settled
  <2>5. CASE Link(p) \/ WriteFailed(p)
    <3>1. event[proc[p].e] = "RECEIVED"
      BY <2>1, <2>5 DEF IInv, Held, Past, Link, WriteFailed
    <3> QED
      BY <2>5, <3>1, Settles DEF Elsewhere, Settled
  <2>6. CASE (Filter(p) /\ PassesFilters(p)) \/ Trigger(p)
    BY <2>6, Triggers
  <2> QED
    BY <1>1, <2>2, <2>3, <2>4, <2>5, <2>6 DEF Process
<1>2. CASE \E a \in Admins : Administer(a)
  BY <1>2 DEF Administer, events
<1>3. CASE DeleteProject
  BY <1>3 DEF DeleteProject
<1>4. CASE Crash \/ UNCHANGED vars
  BY <1>4 DEF Crash, vars, events
<1>5. CASE \E p \in Processors, d \in Delivery : Receive(p, d) \/ ReceiveApp(p, d)
  BY <1>5 DEF Receive, ReceiveApp
<1>6. CASE \E p \in Processors, d \in Event, r \in Replay : ReplayEvent(p, d, r)
  BY <1>6 DEF ReplayEvent, events
<1> QED
  BY <1>1, <1>2, <1>3, <1>4, <1>5, <1>6 DEF Next

(***************************************************************************)
(* Of every delivery and every replay comes one deployment at most, and    *)
(* the hook at GitHub is the configured one, signed with its secret,       *)
(* whatever is delivered, redelivered, replayed and configured meanwhile.  *)
(***************************************************************************)
THEOREM DeliveredOnce ==
  WebhooksAssumption /\ Spec => [](TypeOK /\ OneDeploymentPerDelivery /\ HooksAccounted)
<1> SUFFICES ASSUME WebhooksAssumption
             PROVE  Spec => [](TypeOK /\ OneDeploymentPerDelivery /\ HooksAccounted)
  OBVIOUS
<1>1. Init => IInv
  BY IInvInit
<1>2. IInv /\ [Next]_vars => IInv'
  BY IInvStep
<1> QED
  BY <1>1, <1>2, IInvSuffices, PTL DEF Spec

(***************************************************************************)
(* What became of an event is never rewritten while its project is there.  *)
(***************************************************************************)
THEOREM SettledStaysSettled ==
  WebhooksAssumption /\ Spec => [][SettledEventsKeptStep]_vars
<1> SUFFICES ASSUME WebhooksAssumption  PROVE Spec => [][SettledEventsKeptStep]_vars
  OBVIOUS
<1>1. Init => IInv
  BY IInvInit
<1>2. IInv /\ [Next]_vars => IInv'
  BY IInvStep
<1>3. IInv /\ [Next]_vars => [SettledEventsKeptStep]_vars
  BY SettledKept
<1> QED
  BY <1>1, <1>2, <1>3, PTL DEF Spec
=============================================================================
