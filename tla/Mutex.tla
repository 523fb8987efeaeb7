------------------------------- MODULE Mutex -------------------------------
(***************************************************************************)
(* What the project lock promises to the queue processors that call        *)
(* ProjectLockService.withLock for one project: their callbacks run one    *)
(* at a time.  "inside" is the set of callers whose callback is running.   *)
(***************************************************************************)
CONSTANT Callers

VARIABLE inside

Init == inside = {}

Enter(c) == inside = {} /\ inside' = {c}

Leave(c) == c \in inside /\ inside' = inside \ {c}

\* The one backend process dies and every callback with it.
Crash == inside' = {}

Next == Crash \/ \E c \in Callers : Enter(c) \/ Leave(c)

Spec == Init /\ [][Next]_inside

TypeOK == inside \in SUBSET Callers

\* At most one callback runs at any moment.
Exclusive == \A c, d \in inside : c = d
============================================================================
