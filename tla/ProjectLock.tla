---------------------------- MODULE ProjectLock ----------------------------
(***************************************************************************)
(* ProjectLockService (src/backend/src/common/project-lock.service.ts):    *)
(* the Redis key "project-lock:<projectId>" of ONE project, and the        *)
(* callers of withLock for that project (the deploy and the task           *)
(* processor of the single backend process, one per queue).                *)
(*                                                                         *)
(* Time advances in ticks.  The key lives TTL ticks from the SET that      *)
(* created it.  A callback may outlive its lease: the TTL is not renewed,  *)
(* so the key then expires under it.  Ages and waits saturate at TTL and   *)
(* MaxWait: nothing in the code tells larger values apart.                 *)
(***************************************************************************)
EXTENDS Integers

CONSTANTS
  Callers,  \* the withLock calls that compete for the project
  Token,    \* the values randomUUID() can return
  NoToken,  \* no key in Redis / no token held
  TTL,      \* ttlMs, in ticks
  MaxWait   \* maxWaitMs, in ticks

ASSUME LockAssumption ==
  /\ TTL \in Nat \ {0}
  /\ MaxWait \in Nat
  /\ NoToken \notin Token

VARIABLES
  key,     \* the token stored in Redis, or NoToken
  left,    \* ticks until Redis expires the key
  pc,      \* where each withLock call is
  tok,     \* the token each caller's "token" variable holds
  age,     \* ticks since the caller's successful SET, at most TTL
  waited   \* ticks since the caller entered withLock, at most MaxWait

vars == <<key, left, pc, tok, age, waited>>

PC == {"idle", "waiting", "critical", "timedOut"}

TypeOK ==
  /\ key \in Token \cup {NoToken}
  /\ left \in 0..TTL
  /\ pc \in [Callers -> PC]
  /\ tok \in [Callers -> Token \cup {NoToken}]
  /\ age \in [Callers -> 0..TTL]
  /\ waited \in [Callers -> 0..MaxWait]

----------------------------------------------------------------------------
Init ==
  /\ key = NoToken
  /\ left = 0
  /\ pc = [c \in Callers |-> "idle"]
  /\ tok = [c \in Callers |-> NoToken]
  /\ age = [c \in Callers |-> 0]
  /\ waited = [c \in Callers |-> 0]

\* A job calls withLock and computes its deadline.
Start(c) ==
  /\ pc[c] \in {"idle", "timedOut"}
  /\ pc' = [pc EXCEPT ![c] = "waiting"]
  /\ waited' = [waited EXCEPT ![c] = 0]
  /\ UNCHANGED <<key, left, tok, age>>

\* A UUID never equals one still in use, in Redis or in a caller.
Fresh(t) == t # key /\ \A c \in Callers : tok[c] # t

\* Mutant: SET without NX.
Acquire_overwrite(c) ==
  /\ pc[c] = "waiting"
  /\ \E t \in Token : Fresh(t) /\ key' = t /\ tok' = [tok EXCEPT ![c] = t]
  /\ left' = TTL
  /\ pc' = [pc EXCEPT ![c] = "critical"]
  /\ age' = [age EXCEPT ![c] = 0]
  /\ UNCHANGED waited

\* SET key token PX ttl NX answers OK: the callback starts.
Acquire(c) ==
  /\ pc[c] = "waiting"
  /\ key = NoToken
  /\ \E t \in Token :
       /\ Fresh(t)
       /\ key' = t
       /\ tok' = [tok EXCEPT ![c] = t]
  /\ left' = TTL
  /\ pc' = [pc EXCEPT ![c] = "critical"]
  /\ age' = [age EXCEPT ![c] = 0]
  /\ UNCHANGED waited

\* Mutants: the deadline is never reached; it is compared off by one.
GiveUp_never(c) == waited[c] > MaxWait /\ UNCHANGED vars
GiveUp_early(c) ==
  /\ pc[c] = "waiting"
  /\ key # NoToken
  /\ waited[c] + 1 >= MaxWait
  /\ pc' = [pc EXCEPT ![c] = "timedOut"]
  /\ UNCHANGED <<key, left, tok, age, waited>>

\* SET NX answers null at or after the deadline: withLock throws.  (Before
\* the deadline a failed SET only sleeps, which changes nothing here.)
GiveUp(c) ==
  /\ pc[c] = "waiting"
  /\ key # NoToken
  /\ waited[c] >= MaxWait
  /\ pc' = [pc EXCEPT ![c] = "timedOut"]
  /\ UNCHANGED <<key, left, tok, age, waited>>

\* Mutant: a plain DEL.
Delete_always(t) == key' = NoToken /\ left' = 0

\* RELEASE_SCRIPT: delete the key only if it still holds the caller's token.
CompareAndDelete(t) ==
  IF key = t THEN key' = NoToken /\ left' = 0 ELSE UNCHANGED <<key, left>>

\* The callback returned or threw: the finally block runs the script.
Release(c) ==
  /\ pc[c] = "critical"
  /\ CompareAndDelete(tok[c])
  /\ pc' = [pc EXCEPT ![c] = "idle"]
  /\ tok' = [tok EXCEPT ![c] = NoToken]
  /\ UNCHANGED <<age, waited>>

\* The backend process dies: no finally block runs, the key stays in Redis.
Crash ==
  /\ pc' = [c \in Callers |-> "idle"]
  /\ tok' = [c \in Callers |-> NoToken]
  /\ UNCHANGED <<key, left, age, waited>>

\* Mutant: the lease of a holder is accounted one tick too long.
Tick_nocap ==
  /\ left' = left - 1
  /\ UNCHANGED <<key, pc, tok, age, waited>>

\* One tick passes; Redis expires the key when its time is up.
Tick ==
  /\ left' = IF left > 0 THEN left - 1 ELSE 0
  /\ key' = IF left > 1 THEN key ELSE NoToken
  /\ age' = [c \in Callers |->
              IF pc[c] = "critical" /\ age[c] < TTL THEN age[c] + 1 ELSE age[c]]
  /\ waited' = [c \in Callers |->
              IF pc[c] = "waiting" /\ waited[c] < MaxWait
                THEN waited[c] + 1 ELSE waited[c]]
  /\ UNCHANGED <<pc, tok>>

Next ==
  \/ Tick
  \/ Crash
  \/ \E c \in Callers : Start(c) \/ Acquire(c) \/ GiveUp(c) \/ Release(c)

Spec == Init /\ [][Next]_vars

\* Time passes, and a waiting caller keeps polling (setTimeout loop).  A
\* callback need not end.
Fairness ==
  /\ WF_vars(Tick)
  /\ \A c \in Callers : WF_vars(Acquire(c) \/ GiveUp(c))

FairSpec == Spec /\ Fairness

----------------------------------------------------------------------------
Overran(c) == age[c] = TTL

(***************************************************************************)
(* A callback still within its TTL owns the Redis key: nothing another     *)
(* caller does (a late release after an overrun, a crash, an expiry of an  *)
(* earlier key) takes the lease away from it.                              *)
(***************************************************************************)
LeaseHeld ==
  \A c \in Callers : pc[c] = "critical" /\ ~Overran(c) => key = tok[c]

(***************************************************************************)
(* The doc comment on ttlMs (lines 15-20): two callbacks overlap only if   *)
(* one of them has exceeded the TTL.                                       *)
(***************************************************************************)
OverlapNeedsOverrun ==
  \A c, d \in Callers :
    c # d /\ pc[c] = "critical" /\ pc[d] = "critical" => Overran(c) \/ Overran(d)

(***************************************************************************)
(* With maxWait at least the TTL (both default to one hour) a caller that  *)
(* times out lost the key to a caller that took it after the wait began:   *)
(* a key left behind by a crashed holder alone never makes a job fail.     *)
(***************************************************************************)
TimeoutMeansContention ==
  [][\A c \in Callers :
       pc[c] = "waiting" /\ pc'[c] = "timedOut" => TTL - left < waited[c]]_vars

(***************************************************************************)
(* Every call of withLock leaves its wait loop, whether or not the current *)
(* holder ever returns.                                                    *)
(***************************************************************************)
WaitEnds == \A c \in Callers : pc[c] = "waiting" ~> pc[c] # "waiting"

----------------------------------------------------------------------------
(***************************************************************************)
(* The documented condition of use: no callback outlives its TTL.  Under   *)
(* it the lease lock implements the abstract mutex.                        *)
(***************************************************************************)
NoOverrun == \A c \in Callers : pc[c] = "critical" => ~Overran(c)

BoundedSpec == Init /\ [][Next /\ NoOverrun']_vars

Inside == {c \in Callers : pc[c] = "critical"}

Abstract == INSTANCE Mutex WITH inside <- Inside

ImplementsMutex == Abstract!Spec
============================================================================
