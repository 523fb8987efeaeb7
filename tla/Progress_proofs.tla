---------------------------- MODULE Progress_proofs ----------------------------
(***************************************************************************)
(* Proofs about the components whose work must end, for every value of     *)
(* their constants: the project lock, the imports of data (Dm...) and of   *)
(* files (Si...), the page that follows a job (Lv...), and their sum.  The *)
(* proofs about the webhooks are in Webhooks_proofs.  The last sections    *)
(* are about what is run on the server from outside (Servers), for every   *)
(* number of releases, sources, runs and installations and every set of    *)
(* faults: the upgrades, the scripts, the installer and their sum.         *)
(***************************************************************************)
EXTENDS Progress, Servers, Sequences, FiniteSets, SequenceTheorems, FiniteSetTheorems,
        WellFoundedInduction, TLAPS

----------------------------------------------------------------------------
(***************************************************************************)
(* The lock, for every set of callers, every TTL and every deadline: a     *)
(* lease is kept for its whole TTL, two callbacks overlap only after an    *)
(* overrun, and without overruns the lock implements the abstract mutex.   *)
(***************************************************************************)

(***************************************************************************)
(* The lock's data is well typed in every reachable state.                 *)
(***************************************************************************)
THEOREM TypeCorrect == Spec => []TypeOK
<1>1. Init => TypeOK
  BY LockAssumption DEF Init, TypeOK, PC
<1>2. TypeOK /\ [Next]_vars => TypeOK'
  <2> SUFFICES ASSUME TypeOK, [Next]_vars  PROVE TypeOK'
    OBVIOUS
  <2> USE LockAssumption DEF TypeOK, PC
  <2>1. CASE Tick
    BY <2>1 DEF Tick
  <2>2. CASE Crash
    BY <2>2 DEF Crash
  <2>3. ASSUME NEW c \in Callers, Start(c)  PROVE TypeOK'
    BY <2>3 DEF Start
  <2>4. ASSUME NEW c \in Callers, Acquire(c)  PROVE TypeOK'
    BY <2>4 DEF Acquire
  <2>5. ASSUME NEW c \in Callers, GiveUp(c)  PROVE TypeOK'
    BY <2>5 DEF GiveUp
  <2>6. ASSUME NEW c \in Callers, Release(c)  PROVE TypeOK'
    BY <2>6 DEF Release, CompareAndDelete
  <2>7. CASE UNCHANGED vars
    BY <2>7 DEF vars
  <2> QED
    BY <2>1, <2>2, <2>3, <2>4, <2>5, <2>6, <2>7 DEF Next
<1> QED
  BY <1>1, <1>2, PTL DEF Spec

----------------------------------------------------------------------------
(***************************************************************************)
(* The strengthening that makes LeaseHeld inductive.  LeaseHeld alone does *)
(* not survive a tick (the key could expire early) or a release (two       *)
(* callers could hold one token); the four parts below exclude both.       *)
(***************************************************************************)
KeyMatchesExpiry == key = NoToken <=> left = 0

HolderHasToken ==
  \A c \in Callers : pc[c] = "critical" => tok[c] \in Token

TokensDistinct ==
  \A c, d \in Callers :
    c # d /\ pc[c] = "critical" /\ pc[d] = "critical" => tok[c] # tok[d]

LeaseExact ==
  \A c \in Callers :
    pc[c] = "critical" /\ age[c] < TTL => key = tok[c] /\ left = TTL - age[c]

IInv ==
  /\ TypeOK
  /\ KeyMatchesExpiry
  /\ HolderHasToken
  /\ TokensDistinct
  /\ LeaseExact

\* The inductive invariant holds of the empty key and the idle callers.
LEMMA IInvInit == Init => IInv
BY LockAssumption
   DEF Init, IInv, TypeOK, PC, KeyMatchesExpiry, HolderHasToken, TokensDistinct,
       LeaseExact

\* Every action keeps the inductive invariant.
LEMMA IInvStep == IInv /\ [Next]_vars => IInv'
<1> SUFFICES ASSUME IInv, [Next]_vars  PROVE IInv'
  OBVIOUS
<1> USE LockAssumption
    DEF IInv, TypeOK, PC, KeyMatchesExpiry, HolderHasToken, TokensDistinct,
        LeaseExact
<1>1. CASE Tick
  BY <1>1 DEF Tick
<1>2. CASE Crash
  BY <1>2 DEF Crash
<1>3. ASSUME NEW c \in Callers, Start(c)  PROVE IInv'
  BY <1>3 DEF Start
<1>4. ASSUME NEW c \in Callers, Acquire(c)  PROVE IInv'
  BY <1>4 DEF Acquire, Fresh
<1>5. ASSUME NEW c \in Callers, GiveUp(c)  PROVE IInv'
  BY <1>5 DEF GiveUp
<1>6. ASSUME NEW c \in Callers, Release(c)  PROVE IInv'
  BY <1>6 DEF Release, CompareAndDelete
<1>7. CASE UNCHANGED vars
  BY <1>7 DEF vars
<1> QED
  BY <1>1, <1>2, <1>3, <1>4, <1>5, <1>6, <1>7 DEF Next

\* The inductive invariant holds in every reachable state.
LEMMA IInvCorrect == Spec => []IInv
BY IInvInit, IInvStep, PTL DEF Spec

(***************************************************************************)
(* A callback within its TTL owns the key, whatever the other callers,     *)
(* crashes and expiries do.                                                *)
(***************************************************************************)
THEOREM LeaseSafety == Spec => []LeaseHeld
<1>1. IInv => LeaseHeld
  BY LockAssumption DEF IInv, TypeOK, LeaseExact, LeaseHeld, Overran
<1> QED
  BY <1>1, IInvCorrect, PTL

(***************************************************************************)
(* Two callbacks of one project overlap only if one has exceeded its TTL.  *)
(***************************************************************************)
THEOREM OverlapSafety == Spec => []OverlapNeedsOverrun
<1>1. IInv => OverlapNeedsOverrun
  BY LockAssumption
     DEF IInv, TypeOK, LeaseExact, TokensDistinct, OverlapNeedsOverrun, Overran
<1> QED
  BY <1>1, IInvCorrect, PTL

(***************************************************************************)
(* When the deadline is no shorter than the TTL, a job that times out lost *)
(* the key to a caller that took it while the job was waiting.             *)
(***************************************************************************)
THEOREM TimeoutNeedsContention ==
  ASSUME MaxWait >= TTL
  PROVE  Spec => TimeoutMeansContention
<1>1. ASSUME IInv, [Next]_vars, NEW c \in Callers,
             pc[c] = "waiting", pc'[c] = "timedOut"
      PROVE  TTL - left < waited[c]
  <2>1. GiveUp(c)
    <3>1. CASE Tick
      BY <3>1, <1>1 DEF Tick
    <3>2. CASE Crash
      BY <3>2, <1>1 DEF Crash
    <3>3. ASSUME NEW d \in Callers, Start(d)  PROVE GiveUp(c)
      BY <3>3, <1>1 DEF Start, IInv, TypeOK
    <3>4. ASSUME NEW d \in Callers, Acquire(d)  PROVE GiveUp(c)
      BY <3>4, <1>1 DEF Acquire, IInv, TypeOK
    <3>5. ASSUME NEW d \in Callers, GiveUp(d)  PROVE GiveUp(c)
      BY <3>5, <1>1 DEF GiveUp, IInv, TypeOK
    <3>6. ASSUME NEW d \in Callers, Release(d)  PROVE GiveUp(c)
      BY <3>6, <1>1 DEF Release, IInv, TypeOK
    <3>7. CASE UNCHANGED vars
      BY <3>7, <1>1 DEF vars
    <3> QED
      BY <1>1, <3>1, <3>2, <3>3, <3>4, <3>5, <3>6, <3>7 DEF Next
  <2> QED
    BY <2>1, <1>1, LockAssumption DEF GiveUp, IInv, TypeOK, KeyMatchesExpiry
<1>2. IInv /\ [Next]_vars =>
        [\A c \in Callers :
           pc[c] = "waiting" /\ pc'[c] = "timedOut" => TTL - left < waited[c]]_vars
  BY <1>1
<1> QED
  BY <1>2, IInvCorrect, PTL DEF Spec, TimeoutMeansContention

----------------------------------------------------------------------------
(***************************************************************************)
(* Under the documented condition of use (no callback outlives its TTL)    *)
(* the lease lock implements the abstract mutex.                           *)
(***************************************************************************)
LEMMA MutexInit == Init => Abstract!Init
BY DEF Init, Abstract!Init, Inside

\* A step within the leases enters, leaves or empties the mutex, or stutters.
LEMMA MutexStep ==
  IInv /\ NoOverrun /\ [Next]_vars => [Abstract!Next]_Inside
<1> SUFFICES ASSUME IInv, NoOverrun, [Next]_vars
             PROVE  Abstract!Next \/ Inside' = Inside
  OBVIOUS
<1> USE DEF IInv, TypeOK, Inside
<1>1. CASE Tick
  BY <1>1 DEF Tick
<1>2. CASE Crash
  BY <1>2 DEF Crash, Abstract!Next, Abstract!Crash
<1>3. ASSUME NEW c \in Callers, Start(c)  PROVE Inside' = Inside
  BY <1>3 DEF Start
<1>4. ASSUME NEW c \in Callers, Acquire(c)  PROVE Abstract!Enter(c)
  <2>1. Inside = {}
    BY <1>4, LockAssumption DEF Acquire, NoOverrun, Overran, LeaseExact, HolderHasToken
  <2>2. Inside' = {c}
    BY <1>4, <2>1 DEF Acquire
  <2> QED
    BY <2>1, <2>2 DEF Abstract!Enter
<1>5. ASSUME NEW c \in Callers, GiveUp(c)  PROVE Inside' = Inside
  BY <1>5 DEF GiveUp
<1>6. ASSUME NEW c \in Callers, Release(c)  PROVE Abstract!Leave(c)
  BY <1>6 DEF Release, Abstract!Leave
<1>7. CASE UNCHANGED vars
  BY <1>7 DEF vars
<1> QED
  BY <1>1, <1>2, <1>3, <1>4, <1>5, <1>6, <1>7 DEF Next, Abstract!Next

\* No callback has overrun its lease initially.
LEMMA NoOverrunInit == Init => NoOverrun
BY DEF Init, NoOverrun

\* As long as no callback outlives the TTL, callbacks run one at a time.
THEOREM LockImplementsMutex == BoundedSpec => ImplementsMutex
<1>1. [Next /\ NoOverrun']_vars => [Next]_vars
  OBVIOUS
<1>2. NoOverrun /\ [Next /\ NoOverrun']_vars => NoOverrun'
  BY DEF NoOverrun, Overran, vars
<1> QED
  BY <1>1, <1>2, NoOverrunInit, MutexInit, MutexStep, IInvInit, IInvStep, PTL
     DEF BoundedSpec, ImplementsMutex, Abstract!Spec

----------------------------------------------------------------------------
(* The imports of data. *)

\* The instance's cardinality and finiteness are those of the library's theorems.
LEMMA DmSizes == \A S : Dm!Cardinality(S) = Cardinality(S) /\ (Dm!IsFiniteSet(S) <=> IsFiniteSet(S))
BY DEF Dm!Cardinality, Cardinality, Dm!IsFiniteSet, IsFiniteSet

(***************************************************************************)
(* The sets of TypeOK, by name.                                            *)
(***************************************************************************)
DmRow == [status : {"none"} \cup Dm!Active \cup Dm!Final, kind : Dm!AllKinds,
          tables : [Table -> Dm!TableStatus]]
DmWorker == [pc : Dm!PC, m : Dm!Id \cup {0}, todo : SUBSET Table, t : Table \cup {None}]
DmRequest == [pc : {"idle", "creating", "tables", "enqueueing", "cancelling"},
              m : Dm!Id \cup {0}, kind : Dm!AllKinds]
DmJob == {"none", "waiting", "active", "stalled", "done", "failed"}

DmSets ==
  /\ dmProject \in {"withDb", "noDb", "deleted"}
  /\ dmExisting \subseteq Table
  /\ dmData \in [Table -> SUBSET {"old", "src"}]
  /\ \A t \in Table \ dmExisting : dmData[t] = {}
  /\ dmMig \in [Dm!Id -> DmRow] /\ dmJob \in [Dm!Id -> DmJob] /\ dmStalls \in [Dm!Id -> 0..1]
  /\ dmQueue \in Seq(Dm!Id) /\ dmWorker \in DmWorker /\ dmReq \in [Migrators -> DmRequest]

(***************************************************************************)
(* While there is a project, the bound holds with the requests that are    *)
(* about to insert a row counted in, so that there is a row left for each. *)
(***************************************************************************)
DmCreating == {h \in Migrators : dmReq[h].pc = "creating"}

DmRoom == dmProject # "deleted" => Cardinality(Dm!Used) + Cardinality(DmCreating) <= MaxMigrations

(***************************************************************************)
(* A request that fills in its row has it for itself: it has no job yet.   *)
(* Jobs are of rows that are there, as long as the project is.             *)
(***************************************************************************)
DmFills(h) == dmReq[h].pc \in {"tables", "enqueueing"}

DmOwnRow(h) ==
  /\ dmReq[h].m \in Dm!Id /\ dmJob[dmReq[h].m] = "none"
  /\ dmProject # "deleted" => Dm!Exists(dmReq[h].m)
  /\ \A g \in Migrators : g # h /\ DmFills(g) => dmReq[g].m # dmReq[h].m

DmRows ==
  /\ \A h \in Migrators : DmFills(h) => DmOwnRow(h)
  /\ \A h \in Migrators : dmReq[h].pc = "cancelling" => dmReq[h].m \in Dm!Id
  /\ \A k \in 1..Len(dmQueue) : dmJob[dmQueue[k]] # "none"
  /\ dmProject # "deleted" => \A m \in Dm!Id : dmJob[m] # "none" => Dm!Exists(m)

(***************************************************************************)
(* The worker is at an active job.  Until the database goes away, what it  *)
(* has copied is there; and the rows of the tables it is through with say  *)
(* what became of them.                                                    *)
(***************************************************************************)
DmAtJob ==
  /\ ~Dm!At("idle") => Dm!M \in Dm!Id /\ dmJob[Dm!M] = "active"
  /\ dmWorker.pc \in Dm!InTable => Dm!T \in dmWorker.todo
  /\ dmWorker.pc \in {"restore", "succeeded", "failed"} => Dm!Source # "REMOTE"

DmCopied ==
  dmProject # "noDb" =>
    /\ dmWorker.pc \in {"append", "copy"} => Dm!T \in dmExisting
    /\ Dm!At("completing") => "src" \in dmData[Dm!T]
    /\ Dm!At("succeeded") /\ dmMig[Dm!M].kind = <<"SQL", "ERROR">> => \A t \in Table : "src" \in dmData[t]

DmTally ==
  ~Dm!At("idle") /\ Dm!Exists(Dm!M) =>
    /\ dmWorker.pc \in {"check"} \cup Dm!InTable =>
         \A t \in Table \ dmWorker.todo : dmMig[Dm!M].tables[t] \in {"COMPLETED", "SKIPPED", "FAILED"}
    /\ Dm!At("succeeded") => \A t \in Table \ dmWorker.todo : dmMig[Dm!M].tables[t] = "COMPLETED"

\* Before a job is done, its migration is over.
DmOver == Dm!At("done") /\ dmProject = "withDb" => dmMig[Dm!M].status \in Dm!Final

DmHands == DmRoom /\ DmRows /\ DmAtJob
DmInv == DmSets /\ DmHands /\ DmCopied /\ DmTally /\ DmOver /\ Dm!DoneJobSettlesMigration

----------------------------------------------------------------------------
(* Numbers, sets and queues.                                               *)

\* A nonempty set of numbers has a least one.
LEMMA DmLeastOf ==
  ASSUME NEW S \in SUBSET Nat, S # {}
  PROVE  Dm!Least(S) \in S
<1>1. PICK x \in S : \A y \in S : ~ (<<y, x>> \in OpToRel(<, Nat))
  BY NatLessThanWellFounded, WFMin
<1>2. \A y \in S : x <= y
  <2> SUFFICES ASSUME NEW y \in S, ~ (x <= y)  PROVE FALSE
    OBVIOUS
  <2>1. x \in Nat /\ y \in Nat /\ y < x
    OBVIOUS
  <2> QED
    BY <1>1, <2>1 DEF OpToRel
<1> QED
  BY <1>2 DEF Dm!Least

\* What the bound counts is finite.
LEMMA DmFinite ==
  ASSUME Dm!MigrationAssumption
  PROVE  /\ Dm!Id \subseteq Nat \ {0} /\ MaxMigrations \in Nat \ {0}
         /\ IsFiniteSet(Dm!Id) /\ Cardinality(Dm!Id) = MaxMigrations
         /\ IsFiniteSet(Dm!Used) /\ Cardinality(Dm!Used) \in Nat
         /\ IsFiniteSet(DmCreating) /\ Cardinality(DmCreating) \in Nat
<1>1. Dm!Id \subseteq Nat \ {0} /\ MaxMigrations \in Nat \ {0}
  BY DEF Dm!MigrationAssumption, Dm!Id
<1>2. IsFiniteSet(Dm!Id) /\ Cardinality(Dm!Id) = MaxMigrations
  <2>1. MaxMigrations \in Int /\ 1 <= MaxMigrations
    BY <1>1
  <2> QED
    BY <2>1, FS_Interval DEF Dm!Id
<1>3. Dm!Used \in SUBSET Dm!Id /\ DmCreating \in SUBSET Migrators /\ IsFiniteSet(Migrators)
  BY DmSizes DEF Dm!Used, DmCreating, Dm!MigrationAssumption
<1> QED
  BY <1>1, <1>2, <1>3, FS_Subset, FS_CardinalityType

\* A row is left for every request about to insert one.
LEMMA DmNewRow ==
  ASSUME Dm!MigrationAssumption, DmRoom, dmProject # "deleted",
         NEW h \in Migrators, dmReq[h].pc = "creating"
  PROVE  Dm!Least(Dm!Id \ Dm!Used) \in Dm!Id \ Dm!Used
<1>1. h \in DmCreating
  BY DEF DmCreating
<1>2. Cardinality(DmCreating) # 0
  BY <1>1, DmFinite, FS_EmptySet
<1>3. Cardinality(Dm!Used) < MaxMigrations
  BY <1>2, DmFinite DEF DmRoom
<1>4. Dm!Id \ Dm!Used # {} /\ Dm!Id \ Dm!Used \in SUBSET Nat
  BY <1>3, DmFinite DEF Dm!Used
<1> QED
  BY <1>4, DmLeastOf

----------------------------------------------------------------------------
(* Types.                                                                  *)

\* The named sets are TypeOK.
LEMMA DmTypes == Dm!TypeOK <=> DmSets
BY DEF Dm!TypeOK, DmSets, DmRow, DmWorker, DmRequest, DmJob

\* The rows and handlers that things start from are of their types.
LEMMA DmBlanks ==
  ASSUME Dm!MigrationAssumption
  PROVE  /\ Dm!NoMig \in DmRow /\ Dm!NoReq \in DmRequest /\ Dm!Idle \in DmWorker
         /\ \A k \in Dm!AllKinds : [Dm!NoMig EXCEPT !.kind = k] \in DmRow
         /\ \A k \in Dm!AllKinds : [Dm!NoMig EXCEPT !.status = "PENDING", !.kind = k] \in DmRow
BY DEF Dm!NoMig, Dm!NoReq, Dm!Idle, DmRow, DmRequest, DmWorker, Dm!AllKinds, Dm!PC, Dm!TableStatus, Dm!Active

\* A request is written.
LEMMA DmReqStep ==
  ASSUME DmSets, NEW h \in Migrators, NEW r \in DmRequest, dmReq' = [dmReq EXCEPT ![h] = r]
  PROVE  dmReq' \in [Migrators -> DmRequest]
BY DEF DmSets

\* Requests keep the types.
LEMMA DmHandlerTypes ==
  ASSUME Dm!MigrationAssumption, DmSets, DmRoom, DmRows, Dm!HandlerStep
  PROVE  DmSets'
<1>1. ASSUME NEW h \in Migrators, NEW kind \in Kinds, Dm!Create(h, kind)  PROVE DmSets'
  <2>1. [Dm!NoReq EXCEPT !.pc = "creating", !.kind = kind] \in DmRequest
    BY DEF Dm!NoReq, DmRequest, Dm!MigrationAssumption
  <2>2. dmReq' \in [Migrators -> DmRequest]
    BY <1>1, <2>1, DmReqStep DEF Dm!Create
  <2> QED
    BY <1>1, <2>2 DEF DmSets, Dm!Create, Dm!db, Dm!jobs
<1>2. ASSUME NEW h \in Migrators, Dm!CreateRow(h)  PROVE DmSets'
  <2>1. CASE dmProject = "deleted"
    <3>1. dmReq' \in [Migrators -> DmRequest]
      BY <1>2, <2>1, DmBlanks, DmReqStep DEF Dm!CreateRow
    <3> QED
      BY <1>2, <2>1, <3>1 DEF DmSets, Dm!CreateRow, Dm!db, Dm!jobs
  <2>2. CASE dmProject # "deleted"
    <3> DEFINE m == Dm!Least(Dm!Id \ Dm!Used)
               r == [Dm!NoMig EXCEPT !.status = "PENDING", !.kind = dmReq[h].kind]
    <3>1. m \in Dm!Id
      BY <1>2, <2>2, DmNewRow DEF Dm!CreateRow
    <3>2. dmMig' = [dmMig EXCEPT ![m] = r] /\ dmReq' = [dmReq EXCEPT ![h].pc = "tables", ![h].m = m]
      BY <1>2, <2>2 DEF Dm!CreateRow
    <3>3. r \in DmRow
      BY DmBlanks DEF DmSets, DmRequest
    <3> HIDE DEF m, r
    <3>4. dmMig' \in [Dm!Id -> DmRow]
      BY <3>1, <3>2, <3>3 DEF DmSets
    <3>5. [dmReq[h] EXCEPT !.pc = "tables", !.m = m] \in DmRequest
      BY <3>1 DEF DmSets, DmRequest
    <3>6. dmReq' \in [Migrators -> DmRequest]
      BY <3>2, <3>5 DEF DmSets
    <3> QED
      BY <1>2, <3>4, <3>6 DEF DmSets, Dm!CreateRow, Dm!db, Dm!jobs
  <2> QED
    BY <2>1, <2>2
<1>3. ASSUME NEW h \in Migrators, Dm!CreateTables(h)  PROVE DmSets'
  <2> DEFINE m == dmReq[h].m
  <2>1. m \in Dm!Id
    BY <1>3 DEF Dm!CreateTables, DmRows, DmFills, DmOwnRow
  <2>2. [t \in Table |-> "PENDING"] \in [Table -> Dm!TableStatus]
    BY DEF Dm!TableStatus
  <2>3. [dmMig[m] EXCEPT !.tables = [t \in Table |-> "PENDING"]] \in DmRow
    BY <2>1, <2>2 DEF DmSets, DmRow
  <2>4. dmMig' = [dmMig EXCEPT ![m].tables = [t \in Table |-> "PENDING"]] \/ UNCHANGED dmMig
    BY <1>3 DEF Dm!CreateTables
  <2>5. dmMig' \in [Dm!Id -> DmRow]
    BY <2>1, <2>3, <2>4 DEF DmSets
  <2>6. [dmReq[h] EXCEPT !.pc = "enqueueing"] \in DmRequest
    BY DEF DmSets, DmRequest
  <2>7. dmReq' \in [Migrators -> DmRequest]
    BY <1>3, <2>6, DmBlanks DEF DmSets, Dm!CreateTables
  <2> QED
    BY <1>3, <2>5, <2>7 DEF DmSets, Dm!CreateTables, Dm!db, Dm!jobs
<1>4. ASSUME NEW h \in Migrators, Dm!Enqueue(h)  PROVE DmSets'
  <2>1. dmReq[h].m \in Dm!Id
    BY <1>4 DEF Dm!Enqueue, DmRows, DmFills, DmOwnRow
  <2>2. Append(dmQueue, dmReq[h].m) \in Seq(Dm!Id)
    BY <2>1, AppendProperties DEF DmSets
  <2>3. dmReq' \in [Migrators -> DmRequest] /\ dmJob' \in [Dm!Id -> DmJob]
    BY <1>4, DmBlanks DEF DmSets, Dm!Enqueue, DmJob
  <2> QED
    BY <1>4, <2>2, <2>3 DEF DmSets, Dm!Enqueue, Dm!db
<1>5. ASSUME NEW h \in Migrators, Dm!WriteCancelled(h)  PROVE DmSets'
  <2> DEFINE n == dmReq[h].m
  <2>3. dmMig' = dmMig \/ dmMig' = [dmMig EXCEPT ![n].status = "CANCELLED"]
    BY <1>5 DEF Dm!WriteCancelled
  <2> HIDE DEF n
  <2>4. \A m \in Dm!Id : [dmMig[m] EXCEPT !.status = "CANCELLED"] \in DmRow
    BY DEF DmSets, DmRow, Dm!Final
  <2>1. dmMig' \in [Dm!Id -> DmRow]
    BY <2>3, <2>4 DEF DmSets
  <2>2. dmReq' \in [Migrators -> DmRequest]
    BY <1>5, DmBlanks, DmReqStep DEF Dm!WriteCancelled
  <2> QED
    BY <1>5, <2>1, <2>2 DEF DmSets, Dm!WriteCancelled, Dm!db, Dm!jobs
<1>6. ASSUME NEW h \in Migrators, NEW m \in Dm!Id, Dm!Cancel(h, m)  PROVE DmSets'
  <2>1. [Dm!NoReq EXCEPT !.pc = "cancelling", !.m = m] \in DmRequest
    BY DmBlanks DEF Dm!NoReq, DmRequest
  <2>2. dmReq' \in [Migrators -> DmRequest]
    BY <1>6, <2>1, DmReqStep DEF Dm!Cancel
  <2> QED
    BY <1>6, <2>2 DEF DmSets, Dm!Cancel, Dm!db, Dm!jobs
<1> QED
  BY <1>1, <1>2, <1>3, <1>4, <1>5, <1>6 DEF Dm!HandlerStep

----------------------------------------------------------------------------
(* The worker.                                                             *)

\* What a step inside process() leaves alone.
DmMoved ==
  /\ UNCHANGED <<dmProject, dmJob, dmStalls, dmQueue, dmReq>>
  /\ dmMig' \in [Dm!Id -> DmRow] /\ dmWorker' \in DmWorker
  /\ dmExisting' \subseteq Table /\ dmData' \in [Table -> SUBSET {"old", "src"}]
  /\ \A t \in Table \ dmExisting' : dmData'[t] = {}
  /\ dmWorker'.m = Dm!M /\ dmWorker'.pc # "idle"
  /\ \A m \in Dm!Id : m # Dm!M => dmMig'[m] = dmMig[m]
  /\ dmMig'[Dm!M].kind = dmMig[Dm!M].kind
  /\ dmMig'[Dm!M].status = "none" <=> dmMig[Dm!M].status = "none"

\* The program counter moves and the rows stay.
DmGoes(place) ==
  /\ UNCHANGED dmMig /\ dmWorker' \in DmWorker /\ dmWorker'.pc = place
  /\ dmWorker'.m = Dm!M /\ dmWorker'.todo = dmWorker.todo /\ dmWorker'.t = Dm!T

\* The migration's row gets a status, or it is gone.
DmWritesStatus(s, place) ==
  \/ ~Dm!Exists(Dm!M) /\ DmGoes("catch")
  \/ /\ Dm!Exists(Dm!M) /\ dmMig' \in [Dm!Id -> DmRow] /\ dmWorker' \in DmWorker /\ dmWorker'.pc = place
     /\ dmWorker'.m = Dm!M /\ dmWorker'.todo = dmWorker.todo /\ dmWorker'.t = Dm!T
     /\ \A m \in Dm!Id : m # Dm!M => dmMig'[m] = dmMig[m]
     /\ dmMig'[Dm!M].kind = dmMig[Dm!M].kind /\ dmMig'[Dm!M].tables = dmMig[Dm!M].tables
     /\ dmMig'[Dm!M].status = s

\* A table's row gets an outcome, or it is gone.
DmWritesTable(t, s, next) ==
  \/ ~Dm!Exists(Dm!M) /\ DmGoes("catch")
  \/ /\ Dm!Exists(Dm!M) /\ dmMig' \in [Dm!Id -> DmRow] /\ dmWorker' = next
     /\ \A m \in Dm!Id : m # Dm!M => dmMig'[m] = dmMig[m]
     /\ dmMig'[Dm!M].kind = dmMig[Dm!M].kind /\ dmMig'[Dm!M].status = dmMig[Dm!M].status
     /\ dmMig'[Dm!M].tables[t] = s
     /\ \A u \in Table : u # t => dmMig'[Dm!M].tables[u] = dmMig[Dm!M].tables[u]

\* A step that only moves the worker.
LEMMA DmGotoStep ==
  ASSUME DmSets, NEW place \in Dm!PC, Dm!Goto(place), UNCHANGED dmMig
  PROVE  DmGoes(place)
BY DEF DmSets, DmWorker, Dm!Goto, DmGoes, Dm!M, Dm!T

\* A step that moves the worker and writes a status, or finds the row gone.
LEMMA DmStatusStep ==
  ASSUME DmSets, Dm!M \in Dm!Id, NEW s \in Dm!Active \cup Dm!Final, NEW place \in Dm!PC, Dm!SetStatus(s, place)
  PROVE  DmWritesStatus(s, place) /\ UNCHANGED <<dmProject, dmExisting, dmData, dmJob, dmStalls, dmQueue, dmReq>>
<1>1. UNCHANGED <<dmProject, dmExisting, dmData, dmJob, dmStalls, dmQueue, dmReq>>
  BY DEF Dm!SetStatus, Dm!Quiet, Dm!db, Dm!jobs
<1>2. CASE ~Dm!Exists(Dm!M)
  <2>1. "catch" \in Dm!PC
    BY DEF Dm!PC
  <2> QED
    BY <1>1, <1>2, <2>1, DmGotoStep DEF Dm!SetStatus, DmWritesStatus
<1>3. CASE Dm!Exists(Dm!M)
  <2>1. dmMig' = [dmMig EXCEPT ![Dm!M].status = s] /\ Dm!Goto(place)
    BY <1>3 DEF Dm!SetStatus
  <2>2. /\ dmWorker' \in DmWorker /\ dmWorker'.pc = place
        /\ dmWorker'.m = Dm!M /\ dmWorker'.todo = dmWorker.todo /\ dmWorker'.t = Dm!T
    BY <2>1 DEF DmSets, DmWorker, Dm!Goto, Dm!M, Dm!T
  <2>3. /\ [dmMig[Dm!M] EXCEPT !.status = s] \in DmRow
        /\ [dmMig[Dm!M] EXCEPT !.status = s].kind = dmMig[Dm!M].kind
        /\ [dmMig[Dm!M] EXCEPT !.status = s].tables = dmMig[Dm!M].tables
        /\ [dmMig[Dm!M] EXCEPT !.status = s].status = s
    BY DEF DmSets, DmRow
  <2>4. /\ dmMig' \in [Dm!Id -> DmRow] /\ \A m \in Dm!Id : m # Dm!M => dmMig'[m] = dmMig[m]
        /\ dmMig'[Dm!M] = [dmMig[Dm!M] EXCEPT !.status = s]
    BY <2>1, <2>3 DEF DmSets
  <2> QED
    BY <1>1, <1>3, <2>2, <2>3, <2>4 DEF DmWritesStatus
<1> QED
  BY <1>2, <1>3

\* The same for the status of one table.
LEMMA DmTableStep ==
  ASSUME DmSets, Dm!M \in Dm!Id, NEW t \in Table, NEW s \in Dm!TableStatus, NEW next,
         IF Dm!Exists(Dm!M) THEN dmMig' = [dmMig EXCEPT ![Dm!M].tables[t] = s] /\ dmWorker' = next
                      ELSE UNCHANGED dmMig /\ Dm!Goto("catch")
  PROVE  DmWritesTable(t, s, next)
<1>1. CASE ~Dm!Exists(Dm!M)
  <2>1. "catch" \in Dm!PC
    BY DEF Dm!PC
  <2> QED
    BY <1>1, <2>1, DmGotoStep DEF DmWritesTable
<1>2. CASE Dm!Exists(Dm!M)
  <2> DEFINE new == [dmMig[Dm!M].tables EXCEPT ![t] = s]
  <2>1. dmMig' = [dmMig EXCEPT ![Dm!M].tables = new] /\ dmWorker' = next
    BY <1>2 DEF DmSets, DmRow
  <2>2. dmMig[Dm!M].tables \in [Table -> Dm!TableStatus]
    BY DEF DmSets, DmRow
  <2>3. /\ new \in [Table -> Dm!TableStatus] /\ new[t] = s
        /\ \A u \in Table : u # t => new[u] = dmMig[Dm!M].tables[u]
    BY <2>2
  <2> HIDE DEF new
  <2>4. /\ [dmMig[Dm!M] EXCEPT !.tables = new] \in DmRow
        /\ [dmMig[Dm!M] EXCEPT !.tables = new].kind = dmMig[Dm!M].kind
        /\ [dmMig[Dm!M] EXCEPT !.tables = new].tables = new
        /\ [dmMig[Dm!M] EXCEPT !.tables = new].status = dmMig[Dm!M].status
    BY <2>3 DEF DmSets, DmRow
  <2>5. /\ dmMig' \in [Dm!Id -> DmRow] /\ \A m \in Dm!Id : m # Dm!M => dmMig'[m] = dmMig[m]
        /\ dmMig'[Dm!M] = [dmMig[Dm!M] EXCEPT !.tables = new]
    BY <2>1, <2>4 DEF DmSets
  <2> QED
    BY <1>2, <2>1, <2>3, <2>4, <2>5 DEF DmWritesTable
<1> QED
  BY <1>1, <1>2

DmRest == DmAtJob' /\ DmCopied' /\ DmTally' /\ DmOver'

(***************************************************************************)
(* Every step inside process() keeps what the worker knows.                *)
(***************************************************************************)
LEMMA DmProcess ==
  ASSUME DmSets, DmAtJob, DmCopied, DmTally, DmOver, Dm!WorkerStep, ~Dm!Take, ~Dm!Settle
  PROVE  DmMoved /\ DmRest
<1>1. ~Dm!At("idle") => Dm!M \in Dm!Id /\ dmJob[Dm!M] = "active"
  BY DEF DmAtJob
<1>2. dmWorker.pc \in Dm!InTable => Dm!T \in dmWorker.todo /\ Dm!T \in Table
  BY DEF DmAtJob, DmSets, DmWorker
\* Steps that write no data: only the program counter moves, ...
<1>3. ASSUME NEW place \in Dm!PC \ {"idle", "restore", "succeeded", "failed", "append", "copy", "completing", "done"},
             DmGoes(place), UNCHANGED <<dmProject, dmExisting, dmData, dmJob, dmStalls, dmQueue, dmReq>>,
             ~Dm!At("idle"), place \in Dm!InTable => dmWorker.pc \in Dm!InTable,
             place = "check" => dmWorker.pc \in {"check"} \cup Dm!InTable
      PROVE  DmMoved /\ DmRest
  BY <1>1, <1>3 DEF DmGoes, DmMoved, DmRest, DmSets, DmAtJob, DmCopied, DmTally, DmOver, Dm!At, Dm!M, Dm!T, Dm!Source, Dm!Exists
\* ... the migration's row gets a status, ...
<1>4. ASSUME NEW s \in Dm!Active \cup Dm!Final, NEW place \in {"connect", "order", "restore", "done"},
             DmWritesStatus(s, place), UNCHANGED <<dmProject, dmExisting, dmData, dmJob, dmStalls, dmQueue, dmReq>>,
             ~Dm!At("idle"), place = "restore" => Dm!Source # "REMOTE", place = "done" => s \in Dm!Final
      PROVE  DmMoved /\ DmRest
  BY <1>1, <1>4 DEF DmWritesStatus, DmGoes, Dm!InTable, Dm!Active, Dm!Final, DmMoved, DmRest, DmSets, DmAtJob, DmCopied, DmTally, DmOver, Dm!At, Dm!M, Dm!T, Dm!Source, Dm!Exists
\* ... or a table's row gets one.
<1>5. ASSUME NEW t \in Table, NEW s \in Dm!TableStatus, NEW next \in DmWorker,
             DmWritesTable(t, s, next), UNCHANGED <<dmProject, dmExisting, dmData, dmJob, dmStalls, dmQueue, dmReq>>,
             ~Dm!At("idle"), next.m = Dm!M, next.pc # "idle"
      PROVE  DmMoved
  BY <1>1, <1>5 DEF DmWritesTable, DmGoes, DmMoved, DmSets, Dm!M, Dm!Exists
<1>6. CASE Dm!ReadProject
  <2>1. CASE dmProject = "withDb"
    <3>1. DmGoes("begin")
      BY <1>6, <2>1, DmGotoStep DEF Dm!ReadProject, Dm!PC, Dm!db
    <3> QED
      BY <1>3, <1>6, <3>1 DEF Dm!ReadProject, Dm!PC, Dm!InTable, Dm!At, Dm!Quiet, Dm!db, Dm!jobs
  <2>2. CASE dmProject # "withDb"
    <3>1. DmGoes("done")
      BY <1>6, <2>2, DmGotoStep DEF Dm!ReadProject, Dm!PC, Dm!db
    <3> QED
      BY <1>1, <1>6, <2>2, <3>1 DEF Dm!ReadProject, Dm!InTable, Dm!Quiet, Dm!db, Dm!jobs, DmGoes, DmMoved, DmRest, DmSets, DmAtJob, DmCopied, DmTally, DmOver, Dm!At, Dm!M, Dm!T, Dm!Source, Dm!Exists
  <2> QED
    BY <2>1, <2>2
<1>7. CASE Dm!BeginRemote
  <2>1. DmWritesStatus("CONNECTING", "connect")
    BY <1>1, <1>7, DmStatusStep DEF Dm!BeginRemote, Dm!At, Dm!PC, Dm!Active
  <2> QED
    BY <1>1, <1>4, <1>7, <2>1, DmStatusStep DEF Dm!BeginRemote, Dm!At, Dm!PC, Dm!Active, Dm!Quiet, Dm!db, Dm!jobs, Dm!SetStatus
<1>8. CASE Dm!BeginFile
  <2>1. DmWritesStatus("MIGRATING", "restore")
    BY <1>1, <1>8, DmStatusStep DEF Dm!BeginFile, Dm!At, Dm!PC, Dm!Active
  <2> QED
    BY <1>1, <1>4, <1>8, <2>1, DmStatusStep DEF Dm!BeginFile, Dm!At, Dm!PC, Dm!Active, Dm!Quiet, Dm!db, Dm!jobs, Dm!SetStatus
<1>9. CASE Dm!Connect
  <2>1. DmGoes("analyzing") \/ DmGoes("catch")
    BY <1>9, DmGotoStep DEF Dm!Connect, Dm!Fail, Dm!PC, Dm!db
  <2> QED
    BY <1>3, <1>9, <2>1 DEF Dm!Connect, Dm!Fail, Dm!PC, Dm!InTable, Dm!At, Dm!Quiet, Dm!db, Dm!jobs
<1>10. CASE Dm!Analyze
  <2>1. DmWritesStatus("ANALYZING", "order")
    BY <1>1, <1>10, DmStatusStep DEF Dm!Analyze, Dm!At, Dm!PC, Dm!Active
  <2> QED
    BY <1>1, <1>4, <1>10, <2>1, DmStatusStep DEF Dm!Analyze, Dm!At, Dm!PC, Dm!Active, Dm!Quiet, Dm!db, Dm!jobs, Dm!SetStatus
<1>11. CASE Dm!Order
  <2>1. DmGoes("migrating") \/ DmGoes("catch")
    BY <1>11, DmGotoStep DEF Dm!Order, Dm!Fail, Dm!PC, Dm!db
  <2> QED
    BY <1>3, <1>11, <2>1 DEF Dm!Order, Dm!Fail, Dm!PC, Dm!InTable, Dm!At, Dm!Quiet, Dm!db, Dm!jobs
<1>12. CASE Dm!BeginTables
  <2>1. CASE Dm!Exists(Dm!M)
    <3>1. /\ dmWorker' \in DmWorker /\ dmWorker'.pc = "check" /\ dmWorker'.m = Dm!M
          /\ dmWorker'.todo = Table /\ dmWorker'.t = Dm!T
      BY <1>12, <2>1 DEF Dm!BeginTables, DmSets, DmWorker, Dm!PC, Dm!M, Dm!T
    <3>2. /\ dmMig' \in [Dm!Id -> DmRow] /\ \A m \in Dm!Id : m # Dm!M => dmMig'[m] = dmMig[m]
          /\ dmMig'[Dm!M].kind = dmMig[Dm!M].kind /\ dmMig'[Dm!M].status = "MIGRATING"
      <4>1. /\ [dmMig[Dm!M] EXCEPT !.status = "MIGRATING"] \in DmRow
            /\ [dmMig[Dm!M] EXCEPT !.status = "MIGRATING"].kind = dmMig[Dm!M].kind
            /\ [dmMig[Dm!M] EXCEPT !.status = "MIGRATING"].status = "MIGRATING"
        BY <1>1, <1>12 DEF Dm!BeginTables, DmSets, DmRow, Dm!Active, Dm!At
      <4>2. dmMig' = [dmMig EXCEPT ![Dm!M] = [dmMig[Dm!M] EXCEPT !.status = "MIGRATING"]] /\ Dm!M \in Dm!Id
        BY <1>1, <1>12, <2>1 DEF Dm!BeginTables, Dm!At
      <4> QED
        BY <4>1, <4>2 DEF DmSets
    <3> QED
      BY <1>1, <1>12, <2>1, <3>1, <3>2 DEF Dm!BeginTables, Dm!InTable, Dm!Quiet, Dm!db, Dm!jobs, DmMoved, DmRest, DmSets, DmAtJob, DmCopied, DmTally, DmOver, Dm!At, Dm!M, Dm!T, Dm!Source, Dm!Exists
  <2>2. CASE ~Dm!Exists(Dm!M)
    <3>1. DmGoes("catch")
      BY <1>12, <2>2, DmGotoStep DEF Dm!BeginTables, Dm!PC
    <3> QED
      BY <1>3, <1>12, <3>1 DEF Dm!BeginTables, Dm!PC, Dm!InTable, Dm!At, Dm!Quiet, Dm!db, Dm!jobs
  <2> QED
    BY <2>1, <2>2
<1>13. CASE Dm!NextTable
  <2>1. CASE dmMig[Dm!M].status = "CANCELLED"
    <3>1. DmGoes("done")
      BY <1>13, <2>1, DmGotoStep DEF Dm!NextTable, Dm!PC
    <3> QED
      BY <1>1, <1>13, <2>1, <3>1 DEF Dm!NextTable, Dm!InTable, Dm!Quiet, Dm!db, Dm!jobs, DmGoes, Dm!Final, DmMoved, DmRest, DmSets, DmAtJob, DmCopied, DmTally, DmOver, Dm!At, Dm!M, Dm!T, Dm!Source, Dm!Exists
  <2>2. CASE dmMig[Dm!M].status # "CANCELLED"
    <3>1. PICK t \in dmWorker.todo : dmWorker' = [dmWorker EXCEPT !.pc = "start", !.t = t]
      BY <1>13, <2>2 DEF Dm!NextTable
    <3>2. /\ dmWorker' \in DmWorker /\ dmWorker'.pc = "start" /\ dmWorker'.m = Dm!M
          /\ dmWorker'.todo = dmWorker.todo /\ dmWorker'.t = t
      BY <3>1 DEF DmSets, DmWorker, Dm!PC, Dm!InTable, Dm!M
    <3> QED
      BY <1>1, <1>13, <3>2 DEF Dm!NextTable, Dm!InTable, Dm!Quiet, Dm!db, Dm!jobs, DmMoved, DmRest, DmSets, DmAtJob, DmCopied, DmTally, DmOver, Dm!At, Dm!M, Dm!T, Dm!Source, Dm!Exists
  <2> QED
    BY <2>1, <2>2
<1>14. CASE Dm!StartTable
  <2> DEFINE next == [dmWorker EXCEPT !.pc = "table"]
  <2>1. /\ next \in DmWorker /\ next.pc = "table" /\ next.m = Dm!M
        /\ next.todo = dmWorker.todo /\ next.t = Dm!T
    BY DEF DmSets, DmWorker, Dm!PC, Dm!InTable, Dm!M, Dm!T
  <2>2. Dm!T \in dmWorker.todo /\ Dm!T \in Table /\ Dm!M \in Dm!Id /\ ~Dm!At("idle")
    BY <1>1, <1>2, <1>14 DEF Dm!StartTable, Dm!At, Dm!InTable
  <2>3. DmWritesTable(Dm!T, "MIGRATING", next)
    <3>1. IF Dm!Exists(Dm!M) THEN dmMig' = [dmMig EXCEPT ![Dm!M].tables[Dm!T] = "MIGRATING"] /\ dmWorker' = next
                       ELSE UNCHANGED dmMig /\ Dm!Goto("catch")
      BY <1>14 DEF Dm!StartTable, Dm!SetTable
    <3>2. "MIGRATING" \in Dm!TableStatus
      BY DEF Dm!TableStatus
    <3> HIDE DEF next
    <3> QED
      BY <2>2, <3>1, <3>2, DmTableStep
  <2>4. UNCHANGED <<dmProject, dmExisting, dmData, dmJob, dmStalls, dmQueue, dmReq>> /\ Dm!At("start")
    BY <1>14 DEF Dm!StartTable, Dm!Quiet, Dm!db, Dm!jobs
  <2> HIDE DEF next
  <2>5. DmMoved
    BY <1>5, <2>1, <2>2, <2>3, <2>4 DEF Dm!TableStatus
  <2> QED
    BY <1>1, <2>1, <2>2, <2>3, <2>4, <2>5 DEF DmWritesTable, DmGoes, Dm!InTable, DmMoved, DmRest, DmSets, DmAtJob, DmCopied, DmTally, DmOver, Dm!At, Dm!M, Dm!T, Dm!Source, Dm!Exists
<1>15. CASE Dm!Conflict
  <2>1. Dm!T \in dmWorker.todo /\ Dm!T \in Table /\ Dm!M \in Dm!Id /\ Dm!At("table") /\ UNCHANGED <<dmProject, dmJob, dmStalls, dmQueue, dmReq, dmMig>>
    BY <1>1, <1>2, <1>15 DEF Dm!Conflict, Dm!At, Dm!InTable, Dm!Quiet, Dm!jobs, Dm!Fail, Dm!db
  <2>2. CASE Dm!T \in dmExisting /\ dmExisting' = dmExisting \ {Dm!T} /\ dmData' = [dmData EXCEPT ![Dm!T] = {}] /\ Dm!Goto("create")
    <3>1. DmGoes("create")
      BY <2>1, <2>2, DmGotoStep DEF Dm!PC, Dm!InTable
    <3>2. dmExisting' \subseteq Table /\ dmData' \in [Table -> SUBSET {"old", "src"}]
          /\ \A t \in Table \ dmExisting' : dmData'[t] = {}
      BY <2>1, <2>2 DEF DmSets
    <3> QED
      BY <2>1, <3>1, <3>2 DEF DmGoes, Dm!InTable, DmMoved, DmRest, DmSets, DmAtJob, DmCopied, DmTally, DmOver, Dm!At, Dm!M, Dm!T, Dm!Source, Dm!Exists
  <2>3. ASSUME NEW place \in {"append", "skipping", "failing", "create"}, Dm!Goto(place), UNCHANGED <<dmExisting, dmData>>,
               place = "append" => Dm!T \in dmExisting
        PROVE  DmMoved /\ DmRest
    <3>1. DmGoes(place)
      BY <2>1, <2>3, DmGotoStep DEF Dm!PC, Dm!InTable
    <3> QED
      BY <2>1, <2>3, <3>1 DEF DmGoes, Dm!InTable, DmMoved, DmRest, DmSets, DmAtJob, DmCopied, DmTally, DmOver, Dm!At, Dm!M, Dm!T, Dm!Source, Dm!Exists
  <2> QED
    BY <1>15, <2>2, <2>3 DEF Dm!Conflict, Dm!Fail, Dm!db
<1>16. CASE Dm!AppendRows \/ Dm!CopyRows
  <2>1. /\ Dm!T \in dmWorker.todo /\ Dm!T \in Table /\ Dm!M \in Dm!Id /\ dmWorker.pc \in {"append", "copy"}
        /\ UNCHANGED <<dmProject, dmJob, dmStalls, dmQueue, dmReq, dmMig, dmExisting>>
    BY <1>1, <1>2, <1>16 DEF Dm!AppendRows, Dm!CopyRows, Dm!At, Dm!InTable, Dm!Quiet, Dm!jobs, Dm!Fail, Dm!db
  <2>2. CASE dmProject # "noDb" /\ dmData' = [dmData EXCEPT ![Dm!T] = @ \cup {"src"}] /\ Dm!Goto("completing")
    <3>1. DmGoes("completing")
      BY <2>1, <2>2, DmGotoStep DEF Dm!PC, Dm!InTable
    <3>2. Dm!T \in dmExisting
      BY <2>1, <2>2 DEF DmCopied
    <3>3. /\ dmData' \in [Table -> SUBSET {"old", "src"}] /\ "src" \in dmData'[Dm!T]
          /\ \A t \in Table \ dmExisting' : dmData'[t] = {}
      BY <2>1, <2>2, <3>2 DEF DmSets
    <3> QED
      BY <2>1, <3>1, <3>3 DEF DmGoes, Dm!InTable, DmMoved, DmRest, DmSets, DmAtJob, DmCopied, DmTally, DmOver, Dm!At, Dm!M, Dm!T, Dm!Source, Dm!Exists
  <2>3. CASE Dm!Goto("failing") /\ UNCHANGED dmData
    <3>1. DmGoes("failing")
      BY <2>1, <2>3, DmGotoStep DEF Dm!PC, Dm!InTable
    <3> QED
      BY <1>3, <2>1, <2>3, <3>1 DEF Dm!PC, Dm!InTable, Dm!At
  <2> QED
    BY <1>16, <2>2, <2>3 DEF Dm!AppendRows, Dm!CopyRows, Dm!Fail, Dm!db
<1>17. CASE Dm!CreateTable
  <2>1. Dm!T \in dmWorker.todo /\ Dm!T \in Table /\ Dm!M \in Dm!Id /\ Dm!At("create") /\ UNCHANGED <<dmProject, dmJob, dmStalls, dmQueue, dmReq, dmMig, dmData>>
    BY <1>1, <1>2, <1>17 DEF Dm!CreateTable, Dm!At, Dm!InTable, Dm!Quiet, Dm!jobs, Dm!Fail, Dm!db
  <2>2. CASE dmExisting' = dmExisting \cup {Dm!T} /\ Dm!Goto("copy")
    <3>1. DmGoes("copy")
      BY <2>1, <2>2, DmGotoStep DEF Dm!PC, Dm!InTable
    <3> QED
      BY <2>1, <2>2, <3>1 DEF DmGoes, Dm!InTable, DmMoved, DmRest, DmSets, DmAtJob, DmCopied, DmTally, DmOver, Dm!At, Dm!M, Dm!T, Dm!Source, Dm!Exists
  <2>3. CASE Dm!Goto("failing") /\ UNCHANGED dmExisting
    <3>1. DmGoes("failing")
      BY <2>1, <2>3, DmGotoStep DEF Dm!PC, Dm!InTable
    <3> QED
      BY <1>3, <2>1, <2>3, <3>1 DEF Dm!PC, Dm!InTable, Dm!At
  <2> QED
    BY <1>17, <2>2, <2>3 DEF Dm!CreateTable, Dm!Fail, Dm!db
<1>18. CASE Dm!EndTable
  <2> DEFINE next == [dmWorker EXCEPT !.pc = "check", !.todo = @ \ {Dm!T}, !.t = None]
             s == CASE Dm!At("completing") -> "COMPLETED" [] Dm!At("skipping") -> "SKIPPED" [] OTHER -> "FAILED"
  <2>1. /\ next \in DmWorker /\ next.pc = "check" /\ next.m = Dm!M
        /\ next.todo = dmWorker.todo \ {Dm!T}
    BY DEF DmSets, DmWorker, Dm!PC, Dm!InTable, Dm!M, Dm!T
  <2>2. Dm!T \in dmWorker.todo /\ Dm!T \in Table /\ Dm!M \in Dm!Id /\ ~Dm!At("idle")
    BY <1>1, <1>2, <1>18 DEF Dm!EndTable, Dm!At, Dm!InTable
  <2>3. s \in Dm!TableStatus /\ s \in {"COMPLETED", "SKIPPED", "FAILED"}
    BY DEF Dm!TableStatus, Dm!At
  <2>4. UNCHANGED <<dmProject, dmExisting, dmData, dmJob, dmStalls, dmQueue, dmReq>> /\ dmWorker.pc \in Dm!InTable
    BY <1>18 DEF Dm!EndTable, Dm!Quiet, Dm!db, Dm!jobs, Dm!InTable
  <2>5. IF Dm!Exists(Dm!M) THEN dmMig' = [dmMig EXCEPT ![Dm!M].tables[Dm!T] = s] /\ dmWorker' = next
                     ELSE UNCHANGED dmMig /\ Dm!Goto("catch")
    BY <1>18 DEF Dm!EndTable, Dm!SetTable
  <2> HIDE DEF next, s
  <2>6. DmWritesTable(Dm!T, s, next)
    BY <2>2, <2>3, <2>5, DmTableStep
  <2>7. DmMoved
    BY <1>5, <2>1, <2>2, <2>3, <2>4, <2>6
  <2> QED
    BY <1>1, <2>1, <2>2, <2>3, <2>4, <2>6, <2>7 DEF DmWritesTable, DmGoes, Dm!InTable, DmMoved, DmRest, DmSets, DmAtJob, DmCopied, DmTally, DmOver, Dm!At, Dm!M, Dm!T, Dm!Source, Dm!Exists
<1>19. CASE Dm!FinishRemote \/ Dm!FinishFile
  <2>1. PICK s \in {"FAILED", "COMPLETED"} : Dm!SetStatus(s, "done") /\ ~Dm!At("idle")
    BY <1>19 DEF Dm!FinishRemote, Dm!FinishFile, Dm!At
  <2>2. s \in Dm!Final /\ s \in Dm!Active \cup Dm!Final /\ "done" \in Dm!PC
    BY DEF Dm!Final, Dm!PC
  <2>3. DmWritesStatus(s, "done") /\ UNCHANGED <<dmProject, dmExisting, dmData, dmJob, dmStalls, dmQueue, dmReq>>
    BY <1>1, <2>1, <2>2, DmStatusStep
  <2> QED
    BY <1>4, <2>1, <2>2, <2>3
<1>20. CASE Dm!Restore
  <2>1. PICK D \in IF Dm!Strategy = "OVERWRITE" THEN {{}, dmExisting} ELSE {{}}, L \in SUBSET Table, ok \in BOOLEAN :
          /\ dmProject = "noDb" => L = {} /\ ~ok
          /\ ok /\ dmMig[Dm!M].kind = <<"SQL", "ERROR">> => L = Table
          /\ dmExisting' = (dmExisting \ D) \cup L
          /\ dmData' = [t \in Table |-> Dm!Cleared(D, t) \cup (IF t \in L THEN {"src"} ELSE {})]
          /\ dmWorker' = [dmWorker EXCEPT !.pc = IF ok THEN "succeeded" ELSE "failed", !.todo = Table]
    BY <1>20 DEF Dm!Restore
  <2>2. Dm!M \in Dm!Id /\ dmJob[Dm!M] = "active" /\ Dm!At("restore") /\ Dm!Source # "REMOTE"
        /\ UNCHANGED <<dmProject, dmJob, dmStalls, dmQueue, dmReq, dmMig>>
    BY <1>1, <1>20 DEF Dm!Restore, Dm!At, Dm!Quiet, Dm!jobs, DmAtJob
  <2>3. /\ dmWorker' \in DmWorker /\ dmWorker'.pc = IF ok THEN "succeeded" ELSE "failed"
        /\ dmWorker'.m = Dm!M /\ dmWorker'.todo = Table
    BY <2>1 DEF DmSets, DmWorker, Dm!PC, Dm!M
  <2>4. /\ dmExisting' \subseteq Table /\ dmData' \in [Table -> SUBSET {"old", "src"}]
        /\ \A t \in Table \ dmExisting' : dmData'[t] = {}
    BY <2>1 DEF DmSets, Dm!Cleared
  <2>5. ok /\ dmMig[Dm!M].kind = <<"SQL", "ERROR">> => \A t \in Table : "src" \in dmData'[t]
    BY <2>1
  <2> QED
    BY <2>2, <2>3, <2>4, <2>5 DEF Dm!InTable, DmMoved, DmRest, DmSets, DmAtJob, DmCopied, DmTally, DmOver, Dm!At, Dm!M, Dm!T, Dm!Source, Dm!Exists
<1>21. CASE Dm!MarkTable
  <2>1. Dm!M \in Dm!Id /\ dmJob[Dm!M] = "active" /\ dmWorker.pc \in {"succeeded", "failed"} /\ ~Dm!At("idle") /\ Dm!Source # "REMOTE"
        /\ UNCHANGED <<dmProject, dmExisting, dmData, dmJob, dmStalls, dmQueue, dmReq>>
    BY <1>1, <1>21 DEF Dm!MarkTable, Dm!At, Dm!Quiet, Dm!db, Dm!jobs, DmAtJob
  <2> DEFINE s == IF Dm!At("succeeded") THEN "COMPLETED" ELSE "FAILED"
             next(t) == [dmWorker EXCEPT !.todo = @ \ {t}]
  <2>2. PICK t \in dmWorker.todo :
          IF Dm!Exists(Dm!M) THEN dmMig' = [dmMig EXCEPT ![Dm!M].tables[t] = s] /\ dmWorker' = next(t)
                       ELSE UNCHANGED dmMig /\ Dm!Goto("catch")
    BY <1>21 DEF Dm!MarkTable
  <2>3. /\ next(t) \in DmWorker /\ next(t).pc = dmWorker.pc /\ next(t).m = Dm!M
        /\ next(t).todo = dmWorker.todo \ {t}
    BY DEF DmSets, DmWorker, Dm!M
  <2>4. s \in Dm!TableStatus /\ (Dm!At("succeeded") => s = "COMPLETED") /\ t \in Table
    BY DEF Dm!TableStatus, DmSets, DmWorker
  <2> HIDE DEF s, next
  <2>5. DmWritesTable(t, s, next(t))
    BY <2>1, <2>2, <2>4, DmTableStep
  <2>6. DmMoved
    BY <1>5, <2>1, <2>3, <2>4, <2>5 DEF Dm!At
  <2> QED
    BY <2>1, <2>3, <2>4, <2>5, <2>6 DEF DmWritesTable, DmGoes, Dm!InTable, DmMoved, DmRest, DmSets, DmAtJob, DmCopied, DmTally, DmOver, Dm!At, Dm!M, Dm!T, Dm!Source, Dm!Exists
<1>22. CASE Dm!Catch
  <2>1. Dm!At("catch") /\ Dm!M \in Dm!Id /\ UNCHANGED <<dmProject, dmExisting, dmData, dmJob, dmStalls, dmQueue, dmReq>>
    BY <1>1, <1>22 DEF Dm!Catch, Dm!At, Dm!Quiet, Dm!db, Dm!jobs
  <2>2. CASE Dm!Exists(Dm!M)
    <3>1. Dm!SetStatus("FAILED", "done")
      BY <1>22, <2>2 DEF Dm!Catch, Dm!SetStatus
    <3>2. DmWritesStatus("FAILED", "done")
      BY <2>1, <3>1, DmStatusStep DEF Dm!Final, Dm!PC
    <3> QED
      BY <1>4, <2>1, <3>2 DEF Dm!Final, Dm!At
  <2>3. CASE ~Dm!Exists(Dm!M)
    <3>1. DmGoes("abort")
      BY <1>22, <2>3, DmGotoStep DEF Dm!Catch, Dm!PC
    <3> QED
      BY <1>3, <2>1, <3>1 DEF Dm!PC, Dm!InTable, Dm!At
  <2> QED
    BY <2>2, <2>3
<1> QED
  BY <1>6, <1>7, <1>8, <1>9, <1>10, <1>11, <1>12, <1>13, <1>14, <1>15, <1>16, <1>17, <1>18, <1>19,
     <1>20, <1>21, <1>22 DEF Dm!WorkerStep

\* Faults, the re-delivery and the other writers keep the types ...
LEMMA DmEnvironmentTypes ==
  ASSUME Dm!MigrationAssumption, DmSets, DmHands, Dm!Environment
  PROVE  DmSets'
<1> USE DEF DmSets, Dm!db, Dm!jobs
<1>1. CASE Dm!Crash
  <2>1. dmJob' \in [Dm!Id -> DmJob]
    BY <1>1 DEF Dm!Crash, DmJob
  <2> QED
    BY <1>1, <2>1, DmBlanks DEF Dm!Crash
<1>2. CASE Dm!Deprovision
  BY <1>2 DEF Dm!Deprovision
<1>3. CASE Dm!DeleteProject
  <2>1. \A m \in Dm!Id : [Dm!NoMig EXCEPT !.kind = dmMig[m].kind] \in DmRow
    BY DmBlanks DEF DmRow
  <2> QED
    BY <1>3, <2>1 DEF Dm!DeleteProject
<1>4. ASSUME NEW m \in Dm!Id, Dm!Redeliver(m)  PROVE DmSets'
  <2>1. <<m>> \o dmQueue \in Seq(Dm!Id)
    OBVIOUS
  <2>2. dmJob' \in [Dm!Id -> DmJob]
    BY <1>4 DEF Dm!Redeliver, DmJob
  <2>3. dmStalls' \in [Dm!Id -> 0..1]
    BY <1>4 DEF Dm!Redeliver
  <2> QED
    BY <1>4, <2>1, <2>2, <2>3 DEF Dm!Redeliver
<1> QED
  BY <1>1, <1>2, <1>3, <1>4 DEF Dm!Environment

\* ... and so does the worker when it takes a job.
LEMMA DmTakeTypes ==
  ASSUME Dm!MigrationAssumption, DmSets, Dm!Take \/ Dm!Settle, DmAtJob
  PROVE  DmSets'
<1> USE DEF DmSets, Dm!db, Dm!jobs
<1>1. CASE Dm!Take
  <2>1. dmQueue' \in Seq(Dm!Id) /\ Head(dmQueue) \in Dm!Id
    BY <1>1, HeadTailProperties DEF Dm!Take
  <2>2. dmWorker' \in DmWorker
    BY <1>1, <2>1 DEF Dm!Take, Dm!Idle, DmWorker, Dm!PC
  <2>3. dmJob' \in [Dm!Id -> DmJob]
    BY <1>1, <2>1 DEF Dm!Take, DmJob
  <2> QED
    BY <1>1, <2>1, <2>2, <2>3 DEF Dm!Take
<1>2. CASE Dm!Settle
  <2>1. dmJob' \in [Dm!Id -> DmJob]
    BY <1>2 DEF Dm!Settle, DmJob
  <2> QED
    BY <1>2, <2>1, DmBlanks DEF Dm!Settle
<1> QED
  BY <1>1, <1>2

----------------------------------------------------------------------------
(* The bound, and who has which row.                                       *)

\* Fewer rows and requests keep the bound.
LEMMA DmRoomKept ==
  ASSUME Dm!MigrationAssumption, DmRoom, dmProject' # "deleted" => dmProject # "deleted",
         Dm!Used' \in SUBSET Dm!Used, DmCreating' \in SUBSET DmCreating
  PROVE  DmRoom'
<1>1. Cardinality(Dm!Used') <= Cardinality(Dm!Used) /\ Cardinality(Dm!Used') \in Nat
  BY DmFinite, FS_Subset, FS_CardinalityType
<1>2. Cardinality(DmCreating') <= Cardinality(DmCreating) /\ Cardinality(DmCreating') \in Nat
  BY DmFinite, FS_Subset, FS_CardinalityType
<1> QED
  BY <1>1, <1>2, DmFinite DEF DmRoom

\* Requests keep the bound: an insert takes the place it was counted with.
LEMMA DmHandlerRoom ==
  ASSUME Dm!MigrationAssumption, DmSets, DmRoom, DmRows, Dm!HandlerStep
  PROVE  DmRoom'
<1> SUFFICES ASSUME dmProject' # "deleted"  PROVE DmRoom'
  BY DEF DmRoom
<1>1. ASSUME NEW h \in Migrators, NEW kind \in Kinds, Dm!Create(h, kind)  PROVE DmRoom'
  <2>1. DmCreating' = DmCreating \cup {h} /\ h \notin DmCreating
    BY <1>1 DEF Dm!Create, DmCreating, DmSets, Dm!NoReq
  <2>2. Cardinality(DmCreating') = Cardinality(DmCreating) + 1
    BY <2>1, DmFinite, FS_AddElement
  <2>3. Dm!Used' = Dm!Used
    BY <1>1 DEF Dm!Create, Dm!Used, Dm!Exists, Dm!jobs
  <2>4. Cardinality(Dm!Used) + Cardinality(DmCreating) < MaxMigrations
    BY <1>1, DmSizes DEF Dm!Create, DmCreating
  <2> QED
    BY <2>2, <2>3, <2>4, DmFinite DEF DmRoom
<1>2. ASSUME NEW h \in Migrators, Dm!CreateRow(h)  PROVE DmRoom'
  <2> DEFINE m == Dm!Least(Dm!Id \ Dm!Used)
             r == [Dm!NoMig EXCEPT !.status = "PENDING", !.kind = dmReq[h].kind]
  <2>1. dmProject # "deleted"
    BY <1>2 DEF Dm!CreateRow
  <2>2. m \in Dm!Id \ Dm!Used
    BY <1>2, <2>1, DmNewRow DEF Dm!CreateRow
  <2>3. dmMig' = [dmMig EXCEPT ![m] = r] /\ dmReq' = [dmReq EXCEPT ![h].pc = "tables", ![h].m = m] /\ UNCHANGED dmJob
    BY <1>2, <2>1 DEF Dm!CreateRow, Dm!jobs
  <2>4. r.status = "PENDING"
    BY DEF Dm!NoMig
  <2> HIDE DEF m, r
  <2>5. Dm!Used' = Dm!Used \cup {m}
    BY <2>2, <2>3, <2>4 DEF Dm!Used, Dm!Exists, DmSets
  <2>6. Cardinality(Dm!Used') = Cardinality(Dm!Used) + 1
    BY <2>2, <2>5, DmFinite, FS_AddElement
  <2>7. DmCreating' = DmCreating \ {h} /\ h \in DmCreating
    BY <1>2, <2>3 DEF Dm!CreateRow, DmCreating, DmSets, DmRequest
  <2>8. Cardinality(DmCreating') = Cardinality(DmCreating) - 1
    BY <2>7, DmFinite, FS_RemoveElement
  <2> QED
    BY <2>1, <2>6, <2>8, DmFinite DEF DmRoom
<1>3. ASSUME NEW h \in Migrators, NEW r \in DmRequest, dmReq' = [dmReq EXCEPT ![h] = r], r.pc # "creating"
      PROVE  DmCreating' \in SUBSET DmCreating
  BY <1>3 DEF DmCreating, DmSets
<1>4. ASSUME NEW h \in Migrators, Dm!CreateTables(h)  PROVE DmRoom'
  <2>1. [dmReq[h] EXCEPT !.pc = "enqueueing"] \in DmRequest /\ [dmReq[h] EXCEPT !.pc = "enqueueing"].pc = "enqueueing"
    BY DEF DmSets, DmRequest
  <2>2. DmCreating' \in SUBSET DmCreating
    BY <1>3, <1>4, <2>1, DmBlanks DEF Dm!CreateTables, Dm!NoReq, DmSets
  <2>3. \A m \in Dm!Id : dmMig'[m].status = dmMig[m].status
    <3> DEFINE filled == [t \in Table |-> "PENDING"]
    <3>1. \A m \in Dm!Id : [dmMig[m] EXCEPT !.tables = filled].status = dmMig[m].status
      BY DEF DmSets, DmRow
    <3>2. dmMig' = [dmMig EXCEPT ![dmReq[h].m].tables = filled] \/ UNCHANGED dmMig
      BY <1>4 DEF Dm!CreateTables
    <3> HIDE DEF filled
    <3> QED
      BY <3>1, <3>2 DEF DmSets
  <2> QED
    BY <1>4, <2>2, <2>3, DmRoomKept DEF Dm!CreateTables, Dm!Used, Dm!Exists, Dm!jobs
<1>5. ASSUME NEW h \in Migrators, Dm!Enqueue(h)  PROVE DmRoom'
  <2>1. DmCreating' \in SUBSET DmCreating
    BY <1>3, <1>5, DmBlanks DEF Dm!Enqueue, Dm!NoReq
  <2>2. dmProject # "deleted" /\ Dm!Exists(dmReq[h].m) /\ dmReq[h].m \in Dm!Id
    BY <1>5 DEF Dm!Enqueue, DmRows, DmFills, DmOwnRow
  <2>3. Dm!Used' \in SUBSET Dm!Used
    BY <1>5, <2>2 DEF Dm!Enqueue, Dm!Used, Dm!Exists, DmSets
  <2> QED
    BY <2>1, <2>2, <2>3, DmRoomKept
<1>6. ASSUME NEW h \in Migrators, Dm!WriteCancelled(h)  PROVE DmRoom'
  <2>1. DmCreating' \in SUBSET DmCreating
    BY <1>3, <1>6, DmBlanks DEF Dm!WriteCancelled, Dm!NoReq
  <2>2. \A m \in Dm!Id : dmMig'[m].status # "none" => dmMig[m].status # "none"
    BY <1>6 DEF Dm!WriteCancelled, Dm!Exists, DmSets, DmRow
  <2> QED
    BY <1>6, <2>1, <2>2, DmRoomKept DEF Dm!WriteCancelled, Dm!Used, Dm!Exists, Dm!jobs
<1>7. ASSUME NEW h \in Migrators, NEW m \in Dm!Id, Dm!Cancel(h, m)  PROVE DmRoom'
  <2>1. [Dm!NoReq EXCEPT !.pc = "cancelling", !.m = m] \in DmRequest
    BY DmBlanks DEF Dm!NoReq, DmRequest
  <2>2. DmCreating' \in SUBSET DmCreating
    BY <1>3, <1>7, <2>1 DEF Dm!Cancel, Dm!NoReq
  <2> QED
    BY <1>7, <2>2, DmRoomKept DEF Dm!Cancel, Dm!Used, Dm!Exists, Dm!jobs
<1> QED
  BY <1>1, <1>2, <1>4, <1>5, <1>6, <1>7 DEF Dm!HandlerStep

\* What a request changes of the rows that have jobs, and of the jobs.
DmBeside ==
  /\ UNCHANGED <<dmProject, dmExisting, dmData, dmWorker>>
  /\ \A m \in Dm!Id : dmJob'[m] = dmJob[m] \/ (dmJob[m] = "none" /\ dmJob'[m] = "waiting")
  /\ \A m \in Dm!Id : dmJob[m] # "none" =>
       /\ dmMig'[m].kind = dmMig[m].kind /\ dmMig'[m].tables = dmMig[m].tables
       /\ \/ dmMig'[m].status = dmMig[m].status
          \/ Dm!Exists(m) /\ dmMig'[m].status = "CANCELLED"
  /\ \A m \in Dm!Id : Dm!Exists(m) => dmMig'[m].status # "none"

\* Requests work beside the worker.
LEMMA DmHandlerBeside ==
  ASSUME Dm!MigrationAssumption, DmSets, DmRoom, DmRows, Dm!HandlerStep
  PROVE  DmBeside
<1> USE DEF DmBeside, Dm!db, Dm!jobs
<1>1. ASSUME NEW h \in Migrators, NEW kind \in Kinds, Dm!Create(h, kind)  PROVE DmBeside
  BY <1>1 DEF Dm!Create, Dm!Exists
<1>2. ASSUME NEW h \in Migrators, Dm!CreateRow(h)  PROVE DmBeside
  <2>1. CASE dmProject = "deleted"
    BY <1>2, <2>1 DEF Dm!CreateRow, Dm!Exists
  <2>2. CASE dmProject # "deleted"
    <3> DEFINE m == Dm!Least(Dm!Id \ Dm!Used)
               r == [Dm!NoMig EXCEPT !.status = "PENDING", !.kind = dmReq[h].kind]
    <3>1. m \in Dm!Id \ Dm!Used
      BY <1>2, <2>2, DmNewRow DEF Dm!CreateRow
    <3>2. dmMig' = [dmMig EXCEPT ![m] = r]
      BY <1>2, <2>2 DEF Dm!CreateRow
    <3>3. r.status = "PENDING"
      BY DEF Dm!NoMig
    <3> HIDE DEF m, r
    <3>4. \A k \in Dm!Id : k # m => dmMig'[k] = dmMig[k]
      BY <3>2 DEF DmSets
    <3>5. dmMig'[m].status = "PENDING" /\ dmJob[m] = "none"
      BY <3>1, <3>2, <3>3 DEF DmSets, Dm!Used
    <3> QED
      BY <1>2, <3>4, <3>5 DEF Dm!CreateRow, Dm!Exists
  <2> QED
    BY <2>1, <2>2
<1>3. ASSUME NEW h \in Migrators, Dm!CreateTables(h)  PROVE DmBeside
  <2>1. dmReq[h].m \in Dm!Id /\ dmJob[dmReq[h].m] = "none"
    BY <1>3 DEF Dm!CreateTables, DmRows, DmFills, DmOwnRow
  <2>2. \A m \in Dm!Id : /\ m # dmReq[h].m => dmMig'[m] = dmMig[m]
                     /\ dmMig'[m].status = dmMig[m].status
    BY <1>3, <2>1 DEF Dm!CreateTables, DmSets, DmRow
  <2> QED
    BY <1>3, <2>1, <2>2 DEF Dm!CreateTables, Dm!Exists
<1>4. ASSUME NEW h \in Migrators, Dm!Enqueue(h)  PROVE DmBeside
  <2>1. dmReq[h].m \in Dm!Id /\ dmJob[dmReq[h].m] = "none"
    BY <1>4 DEF Dm!Enqueue, DmRows, DmFills, DmOwnRow
  <2> QED
    BY <1>4, <2>1 DEF Dm!Enqueue, Dm!Exists, DmSets
<1>5. ASSUME NEW h \in Migrators, Dm!WriteCancelled(h)  PROVE DmBeside
  <2>1. dmReq[h].m \in Dm!Id
    BY <1>5 DEF Dm!WriteCancelled, DmRows
  <2>2. \A m \in Dm!Id : /\ dmMig'[m].kind = dmMig[m].kind /\ dmMig'[m].tables = dmMig[m].tables
                     /\ \/ dmMig'[m].status = dmMig[m].status
                        \/ Dm!Exists(m) /\ dmMig'[m].status = "CANCELLED"
    BY <1>5, <2>1 DEF Dm!WriteCancelled, DmSets, DmRow, Dm!Exists
  <2> QED
    BY <1>5, <2>2 DEF Dm!WriteCancelled, Dm!Exists
<1>6. ASSUME NEW h \in Migrators, NEW m \in Dm!Id, Dm!Cancel(h, m)  PROVE DmBeside
  BY <1>6 DEF Dm!Cancel, Dm!Exists
<1> QED
  BY <1>1, <1>2, <1>3, <1>4, <1>5, <1>6 DEF Dm!HandlerStep

\* A row that is being filled in stays with the request that made it.
LEMMA DmHandlerRows ==
  ASSUME Dm!MigrationAssumption, DmSets, DmRoom, DmRows, Dm!HandlerStep
  PROVE  DmRows'
<1>0. DmBeside
  BY DmHandlerBeside
<1>a. \A m \in Dm!Id : dmJob[m] # "none" => dmJob'[m] # "none"
  BY <1>0 DEF DmBeside
<1>b. ASSUME UNCHANGED <<dmQueue, dmJob>>
      PROVE  /\ \A k \in 1..Len(dmQueue') : dmJob'[dmQueue'[k]] # "none"
             /\ dmProject' # "deleted" => \A m \in Dm!Id : dmJob'[m] # "none" => Dm!Exists(m)'
  BY <1>0, <1>b DEF DmRows, DmBeside, Dm!Exists
\* A request that fills in no row starts or ends.
<1>c. ASSUME NEW h \in Migrators, NEW r \in DmRequest, dmReq' = [dmReq EXCEPT ![h] = r], UNCHANGED <<dmQueue, dmJob>>,
             r.pc \notin {"tables", "enqueueing"}, r.pc = "cancelling" => r.m \in Dm!Id
      PROVE  DmRows'
  <2>1. \A g \in Migrators : dmReq'[g] = IF g = h THEN r ELSE dmReq[g]
    BY <1>c DEF DmSets
  <2> QED
    BY <1>0, <1>b, <1>c, <2>1 DEF DmRows, DmBeside, DmFills, DmOwnRow, Dm!Exists
<1>1. ASSUME NEW h \in Migrators, NEW kind \in Kinds, Dm!Create(h, kind)  PROVE DmRows'
  <2>1. [Dm!NoReq EXCEPT !.pc = "creating", !.kind = kind] \in DmRequest
    BY DEF Dm!NoReq, DmRequest, Dm!MigrationAssumption
  <2> QED
    BY <1>1, <1>c, <2>1 DEF Dm!Create, Dm!NoReq, Dm!jobs
<1>2. ASSUME NEW h \in Migrators, Dm!CreateRow(h)  PROVE DmRows'
  <2>1. CASE dmProject = "deleted"
    BY <1>2, <1>c, <2>1, DmBlanks DEF Dm!CreateRow, Dm!NoReq, Dm!jobs
  <2>2. CASE dmProject # "deleted"
    <3> DEFINE m == Dm!Least(Dm!Id \ Dm!Used)
               r == [Dm!NoMig EXCEPT !.status = "PENDING", !.kind = dmReq[h].kind]
    <3>1. m \in Dm!Id \ Dm!Used
      BY <1>2, <2>2, DmNewRow DEF Dm!CreateRow
    <3>2. dmMig' = [dmMig EXCEPT ![m] = r] /\ dmReq' = [dmReq EXCEPT ![h].pc = "tables", ![h].m = m]
          /\ UNCHANGED <<dmProject, dmQueue, dmJob>>
      BY <1>2, <2>2 DEF Dm!CreateRow, Dm!jobs
    <3>3. r.status = "PENDING"
      BY DEF Dm!NoMig
    <3> HIDE DEF m, r
    <3>4. m \in Dm!Id /\ dmMig'[m].status # "none" /\ dmJob'[m] = "none" /\ ~Dm!Exists(m)
      BY <3>1, <3>2, <3>3 DEF DmSets, Dm!Used
    <3>5. /\ dmReq'[h].pc = "tables" /\ dmReq'[h].m = m
          /\ \A g \in Migrators : g # h => dmReq'[g] = dmReq[g]
      BY <3>2 DEF DmSets, DmRequest
    <3>6. \A g \in Migrators : g # h /\ DmFills(g) => dmReq[g].m # m
      BY <2>2, <3>4 DEF DmRows, DmOwnRow
    <3>7. ASSUME NEW g \in Migrators, DmFills(g)'  PROVE DmOwnRow(g)'
      <4>1. CASE g = h
        BY <3>2, <3>4, <3>5, <3>6, <4>1 DEF DmOwnRow, DmFills, Dm!Exists
      <4>2. CASE g # h
        <5>1. DmOwnRow(g) /\ dmReq'[g] = dmReq[g] /\ dmReq[g].m # m
          BY <3>5, <3>6, <3>7, <4>2 DEF DmRows, DmFills
        <5>2. \A f \in Migrators : f # g /\ DmFills(f)' => dmReq'[f].m # dmReq'[g].m
          BY <3>5, <4>2, <5>1 DEF DmOwnRow, DmFills
        <5>3. dmProject' # "deleted" => dmMig'[dmReq[g].m].status # "none"
          BY <1>0, <3>2, <5>1 DEF DmOwnRow, DmBeside, Dm!Exists
        <5> QED
          BY <3>2, <5>1, <5>2, <5>3 DEF DmOwnRow, Dm!Exists
      <4> QED
        BY <4>1, <4>2
    <3>8. \A g \in Migrators : dmReq'[g].pc = "cancelling" => dmReq'[g].m \in Dm!Id
      BY <3>5 DEF DmRows
    <3> QED
      BY <1>b, <3>2, <3>7, <3>8 DEF DmRows
  <2> QED
    BY <2>1, <2>2
<1>3. ASSUME NEW h \in Migrators, Dm!CreateTables(h)  PROVE DmRows'
  <2>1. CASE ~Dm!Exists(dmReq[h].m)
    BY <1>3, <1>c, <2>1, DmBlanks DEF Dm!CreateTables, Dm!NoReq, Dm!jobs
  <2>2. CASE Dm!Exists(dmReq[h].m)
    <3>1. /\ \A g \in Migrators : dmReq'[g].m = dmReq[g].m /\ (DmFills(g)' <=> DmFills(g))
          /\ \A g \in Migrators : dmReq'[g].pc = "cancelling" => dmReq[g].pc = "cancelling"
      <4>1. dmReq[h].pc = "tables" /\ dmReq' = [dmReq EXCEPT ![h].pc = "enqueueing"]
        BY <1>3, <2>2 DEF Dm!CreateTables
      <4>2. /\ dmReq'[h].pc = "enqueueing" /\ dmReq'[h].m = dmReq[h].m
            /\ \A g \in Migrators : g # h => dmReq'[g] = dmReq[g]
        BY <4>1 DEF DmSets, DmRequest
      <4> QED
        BY <4>1, <4>2 DEF DmFills
    <3>2. UNCHANGED <<dmQueue, dmJob>>
      BY <1>3 DEF Dm!CreateTables, Dm!jobs
    <3> QED
      BY <1>0, <1>b, <3>1, <3>2 DEF DmRows, DmOwnRow, DmBeside, Dm!Exists
  <2> QED
    BY <2>1, <2>2
<1>4. ASSUME NEW h \in Migrators, Dm!Enqueue(h)  PROVE DmRows'
  <2> DEFINE m == dmReq[h].m
  <2>1. m \in Dm!Id /\ (dmProject # "deleted" => Dm!Exists(m)) /\ \A g \in Migrators : g # h /\ DmFills(g) => dmReq[g].m # m
    BY <1>4 DEF Dm!Enqueue, DmRows, DmFills, DmOwnRow
  <2>2. /\ dmJob'[m] = "waiting" /\ \A k \in Dm!Id : k # m => dmJob'[k] = dmJob[k]
        /\ UNCHANGED <<dmMig, dmProject>>
    BY <1>4, <2>1 DEF Dm!Enqueue, DmSets
  <2>3. dmReq'[h].pc = "idle" /\ \A g \in Migrators : g # h => dmReq'[g] = dmReq[g]
    BY <1>4 DEF Dm!Enqueue, DmSets, Dm!NoReq
  <2>4. \A k \in 1..Len(dmQueue') : dmJob'[dmQueue'[k]] # "none"
    <3>1. dmQueue' = Append(dmQueue, m) /\ dmQueue \in Seq(Dm!Id)
      BY <1>4 DEF Dm!Enqueue, DmSets
    <3>2. Len(dmQueue') = Len(dmQueue) + 1 /\ dmQueue'[Len(dmQueue) + 1] = m
          /\ \A k \in 1..Len(dmQueue) : dmQueue'[k] = dmQueue[k] /\ dmQueue[k] \in Dm!Id
      BY <2>1, <3>1, AppendProperties, LenProperties, ElementOfSeq
    <3>3. Len(dmQueue) \in Nat
      BY <3>1, LenProperties
    <3> SUFFICES ASSUME NEW k \in 1..Len(dmQueue')  PROVE dmJob'[dmQueue'[k]] # "none"
      OBVIOUS
    <3>4. k = Len(dmQueue) + 1 \/ k \in 1..Len(dmQueue)
      BY <3>2, <3>3
    <3> QED
      BY <1>a, <2>2, <3>2, <3>4 DEF DmRows
  <2> HIDE DEF m
  <2>5. ASSUME NEW g \in Migrators, DmFills(g)'  PROVE DmOwnRow(g)'
    <3>1. g # h /\ DmFills(g) /\ DmOwnRow(g) /\ dmReq'[g] = dmReq[g] /\ dmReq[g].m # m
      BY <2>1, <2>3, <2>5 DEF DmFills, DmRows
    <3> QED
      BY <2>2, <2>3, <3>1 DEF DmOwnRow, DmFills, Dm!Exists
  <2>6. \A g \in Migrators : dmReq'[g].pc = "cancelling" => dmReq'[g].m \in Dm!Id
    BY <2>3 DEF DmRows
  <2>7. dmProject' # "deleted" => \A k \in Dm!Id : dmJob'[k] # "none" => Dm!Exists(k)'
    BY <2>1, <2>2 DEF DmRows, Dm!Exists
  <2> QED
    BY <2>4, <2>5, <2>6, <2>7 DEF DmRows
<1>5. ASSUME NEW h \in Migrators, Dm!WriteCancelled(h)  PROVE DmRows'
  BY <1>5, <1>c, DmBlanks DEF Dm!WriteCancelled, Dm!NoReq, Dm!jobs
<1>6. ASSUME NEW h \in Migrators, NEW m \in Dm!Id, Dm!Cancel(h, m)  PROVE DmRows'
  <2>1. [Dm!NoReq EXCEPT !.pc = "cancelling", !.m = m] \in DmRequest
    BY DmBlanks DEF Dm!NoReq, DmRequest
  <2> QED
    BY <1>6, <1>c, <2>1 DEF Dm!Cancel, Dm!NoReq, Dm!jobs
<1> QED
  BY <1>1, <1>2, <1>3, <1>4, <1>5, <1>6 DEF Dm!HandlerStep

\* What the worker knows of its job stands while requests work beside it.
LEMMA DmHandlerRest ==
  ASSUME Dm!MigrationAssumption, DmSets, DmHands, DmCopied, DmTally, DmOver,
         Dm!DoneJobSettlesMigration, Dm!HandlerStep
  PROVE  DmRest /\ Dm!DoneJobSettlesMigration'
<1>1. DmBeside
  BY DmHandlerBeside DEF DmHands
<1>2. ~Dm!At("idle") => Dm!M \in Dm!Id /\ dmJob[Dm!M] = "active" /\ Dm!M' = Dm!M /\ dmJob'[Dm!M] = "active"
  BY <1>1 DEF DmBeside, DmHands, DmAtJob, Dm!M
<1>3. DmAtJob'
  BY <1>1, <1>2 DEF DmBeside, DmHands, DmAtJob, Dm!At, Dm!M, Dm!T, Dm!Source
<1>4. DmCopied'
  BY <1>1, <1>2 DEF DmBeside, DmCopied, Dm!At, Dm!M, Dm!T
<1>5. DmTally'
  BY <1>1, <1>2 DEF DmBeside, DmTally, Dm!At, Dm!M, Dm!Exists, Dm!InTable
<1>6. DmOver'
  BY <1>1, <1>2 DEF DmBeside, DmOver, Dm!At, Dm!M, Dm!Final
<1>7. Dm!DoneJobSettlesMigration'
  BY <1>1 DEF DmBeside, Dm!DoneJobSettlesMigration, Dm!Final
<1> QED
  BY <1>3, <1>4, <1>5, <1>6, <1>7 DEF DmRest

----------------------------------------------------------------------------
(* The whole.                                                              *)

\* A step inside process() concerns nobody else.
LEMMA DmMovedKeeps ==
  ASSUME Dm!MigrationAssumption, DmSets, DmHands, Dm!DoneJobSettlesMigration, DmMoved, ~Dm!At("idle")
  PROVE  DmSets' /\ DmRoom' /\ DmRows' /\ Dm!DoneJobSettlesMigration'
<1>1. Dm!M \in Dm!Id /\ dmJob[Dm!M] = "active"
  BY DEF DmHands, DmAtJob
<1>2. \A m \in Dm!Id : Dm!Exists(m)' <=> Dm!Exists(m)
  BY <1>1 DEF DmMoved, Dm!Exists
<1>3. DmSets'
  BY DEF DmSets, DmMoved
<1>4. Dm!Used' = Dm!Used /\ DmCreating' = DmCreating
  BY <1>2 DEF DmMoved, Dm!Used, DmCreating
<1>5. DmRoom'
  BY <1>4 DEF DmRoom, DmHands, DmMoved
<1>6. DmRows'
  BY <1>2 DEF DmRows, DmHands, DmMoved, DmFills, DmOwnRow, Dm!Exists
<1>7. Dm!DoneJobSettlesMigration'
  BY <1>1 DEF Dm!DoneJobSettlesMigration, DmMoved
<1> QED
  BY <1>3, <1>5, <1>6, <1>7

\* Taking and settling a job keep the invariant.
LEMMA DmTakeKeeps ==
  ASSUME Dm!MigrationAssumption, DmInv, Dm!Take \/ Dm!Settle
  PROVE  DmInv'
<1> USE DEF DmInv, DmHands
<1>1. DmSets'
  BY DmTakeTypes
<1>2. UNCHANGED <<dmProject, dmExisting, dmData, dmMig, dmReq>>
  BY DEF Dm!Take, Dm!Settle, Dm!db
<1>3. CASE Dm!Take
  <2> DEFINE m == Head(dmQueue)
  <2>1. m \in Dm!Id /\ dmQueue # <<>> /\ dmJob[m] # "none"
    BY <1>3, HeadTailProperties DEF Dm!Take, DmSets, DmRows
  <2>2. /\ \A k \in Dm!Id : k # m => dmJob'[k] = dmJob[k]
        /\ \/ dmMig[m].status \in {"none", "CANCELLED"} /\ dmJob'[m] = "done" /\ UNCHANGED dmWorker
           \/ dmJob'[m] = "active" /\ dmWorker' = [Dm!Idle EXCEPT !.pc = "project", !.m = m]
    BY <1>3, <2>1 DEF Dm!Take, DmSets
  <2>3. \A k \in 1..Len(dmQueue') : dmJob'[dmQueue'[k]] # "none"
    <3>1. /\ dmQueue \in Seq(Dm!Id) /\ dmQueue' = Tail(dmQueue)
      BY <1>3 DEF Dm!Take, DmSets
    <3>2. /\ Len(Tail(dmQueue)) = Len(dmQueue) - 1
          /\ \A k \in 1..Len(Tail(dmQueue)) : Tail(dmQueue)[k] = dmQueue[k + 1]
      BY <2>1, <3>1, HeadTailProperties
    <3>3. Len(dmQueue) \in Nat
      BY <3>1, LenProperties
    <3> SUFFICES ASSUME NEW k \in 1..Len(dmQueue')  PROVE dmJob'[dmQueue'[k]] # "none"
      OBVIOUS
    <3>4. k + 1 \in 1..Len(dmQueue) /\ dmQueue'[k] = dmQueue[k + 1]
      BY <3>1, <3>2, <3>3
    <3>5. dmQueue[k + 1] \in Dm!Id /\ dmJob[dmQueue[k + 1]] # "none"
      BY <3>1, <3>4, ElementOfSeq DEF DmRows
    <3> QED
      BY <2>2, <3>4, <3>5
  <2>4. \A k \in Dm!Id : dmJob'[k] = "none" <=> dmJob[k] = "none"
    BY <2>1, <2>2
  <2> HIDE DEF m
  <2>5. Dm!Used' = Dm!Used /\ DmCreating' = DmCreating
    BY <1>2, <2>4 DEF Dm!Used, DmCreating, Dm!Exists
  <2>6. DmRoom'
    BY <1>2, <2>5 DEF DmRoom
  <2>7. DmRows'
    BY <1>2, <2>3, <2>4 DEF DmRows, DmFills, DmOwnRow, Dm!Exists
  <2>8. CASE dmMig[m].status \in {"none", "CANCELLED"} /\ dmJob'[m] = "done" /\ UNCHANGED dmWorker
    <3>1. dmWorker.pc = "idle"
      BY <1>3 DEF Dm!Take, Dm!At
    <3>2. Dm!DoneJobSettlesMigration'
      BY <1>2, <2>1, <2>2, <2>8 DEF Dm!DoneJobSettlesMigration, DmRows, Dm!Exists, Dm!Final
    <3> QED
      BY <1>1, <1>2, <2>6, <2>7, <2>8, <3>1, <3>2 DEF DmAtJob, DmCopied, DmTally, DmOver, Dm!At, Dm!InTable
  <2>9. CASE dmJob'[m] = "active" /\ dmWorker' = [Dm!Idle EXCEPT !.pc = "project", !.m = m]
    <3>1. dmWorker'.pc = "project" /\ dmWorker'.m = m
      BY <2>9 DEF Dm!Idle
    <3>2. Dm!DoneJobSettlesMigration'
      BY <1>2, <2>2, <2>9 DEF Dm!DoneJobSettlesMigration
    <3> QED
      BY <1>1, <1>2, <2>1, <2>6, <2>7, <2>9, <3>1, <3>2 DEF DmAtJob, DmCopied, DmTally, DmOver, Dm!At, Dm!M, Dm!InTable
  <2> QED
    BY <2>2, <2>8, <2>9
<1>4. CASE Dm!Settle
  <2>1. Dm!M \in Dm!Id /\ dmJob[Dm!M] = "active" /\ dmWorker.pc \in {"done", "abort"}
    BY <1>4 DEF Dm!Settle, DmAtJob, Dm!At
  <2>2. /\ \A k \in Dm!Id : k # Dm!M => dmJob'[k] = dmJob[k]
        /\ dmJob'[Dm!M] = IF Dm!At("done") THEN "done" ELSE "failed"
        /\ dmWorker' = Dm!Idle /\ UNCHANGED dmQueue
    BY <1>4, <2>1 DEF Dm!Settle, DmSets
  <2>3. \A k \in Dm!Id : dmJob'[k] = "none" <=> dmJob[k] = "none"
    BY <2>1, <2>2
  <2>4. Dm!Used' = Dm!Used /\ DmCreating' = DmCreating
    BY <1>2, <2>3 DEF Dm!Used, DmCreating, Dm!Exists
  <2>5. DmRoom'
    BY <1>2, <2>4 DEF DmRoom
  <2>6. \A k \in 1..Len(dmQueue') : dmJob'[dmQueue'[k]] # "none"
    BY <2>2, <2>3, ElementOfSeq DEF DmRows, DmSets
  <2>7. DmRows'
    BY <1>2, <2>3, <2>6 DEF DmRows, DmFills, DmOwnRow, Dm!Exists
  <2>8. Dm!DoneJobSettlesMigration'
    BY <1>2, <2>1, <2>2 DEF Dm!DoneJobSettlesMigration, DmOver
  <2>9. dmWorker'.pc = "idle"
    BY <2>2 DEF Dm!Idle
  <2> QED
    BY <1>1, <2>5, <2>7, <2>8, <2>9 DEF DmAtJob, DmCopied, DmTally, DmOver, Dm!At, Dm!InTable
<1> QED
  BY <1>3, <1>4

\* Faults, the re-delivery and the other writers keep what the worker relies on.
LEMMA DmEnvironmentKeeps ==
  ASSUME Dm!MigrationAssumption, DmInv, Dm!Environment
  PROVE  DmInv'
<1> USE DEF DmInv, DmHands
<1>1. DmSets'
  BY DmEnvironmentTypes
<1>2. CASE Dm!Crash
  <2>1. dmWorker'.pc = "idle" /\ \A h \in Migrators : dmReq'[h].pc = "idle"
    BY <1>2 DEF Dm!Crash, Dm!Idle, Dm!NoReq
  <2>2. UNCHANGED <<dmProject, dmMig, dmQueue>>
    BY <1>2 DEF Dm!Crash
  <2>3. /\ \A k \in Dm!Id : dmJob'[k] = "none" <=> dmJob[k] = "none"
        /\ \A k \in Dm!Id : dmJob'[k] = "done" => dmJob[k] = "done"
    BY <1>2 DEF Dm!Crash, DmAtJob, DmSets
  <2>4. Dm!Used' = Dm!Used /\ DmCreating' = {}
    BY <2>1, <2>2, <2>3 DEF Dm!Used, DmCreating, Dm!Exists
  <2>5. DmRoom'
    BY <2>2, <2>4, DmRoomKept
  <2>6. \A k \in 1..Len(dmQueue') : dmJob'[dmQueue'[k]] # "none"
    BY <2>2, <2>3, ElementOfSeq DEF DmRows, DmSets
  <2>7. DmRows'
    BY <2>1, <2>2, <2>3, <2>6 DEF DmRows, DmFills, Dm!Exists
  <2>8. Dm!DoneJobSettlesMigration'
    BY <2>2, <2>3 DEF Dm!DoneJobSettlesMigration
  <2> QED
    BY <1>1, <2>1, <2>5, <2>7, <2>8 DEF DmAtJob, DmCopied, DmTally, DmOver, Dm!At, Dm!InTable
<1>3. CASE Dm!Deprovision
  <2>1. dmProject = "withDb" /\ dmProject' = "noDb" /\ UNCHANGED <<dmMig, dmJob, dmStalls, dmQueue, dmWorker, dmReq>>
    BY <1>3 DEF Dm!Deprovision, Dm!jobs
  <2>2. DmRoom'
    BY <2>1 DEF DmRoom, Dm!Used, DmCreating, Dm!Exists
  <2>3. DmRows'
    BY <2>1 DEF DmRows, DmFills, DmOwnRow, Dm!Exists
  <2> QED
    BY <1>1, <2>1, <2>2, <2>3 DEF DmAtJob, DmCopied, DmTally, DmOver, Dm!DoneJobSettlesMigration, Dm!At, Dm!M, Dm!T, Dm!Source, Dm!Exists
<1>4. CASE Dm!DeleteProject
  <2>1. dmProject = "withDb" /\ dmProject' = "deleted" /\ UNCHANGED <<dmExisting, dmData, dmJob, dmStalls, dmQueue, dmWorker, dmReq>>
    BY <1>4 DEF Dm!DeleteProject, Dm!jobs, Dm!db
  <2>2. \A m \in Dm!Id : dmMig'[m].kind = dmMig[m].kind /\ dmMig'[m].status = "none"
    BY <1>4 DEF Dm!DeleteProject, Dm!NoMig, DmSets
  <2>3. DmRoom'
    BY <2>1 DEF DmRoom
  <2>4. DmRows'
    BY <2>1 DEF DmRows, DmFills, DmOwnRow
  <2>5. ~Dm!At("idle") => Dm!M \in Dm!Id
    BY DEF DmAtJob
  <2>6. DmAtJob' /\ DmCopied'
    BY <2>1, <2>2, <2>5 DEF DmAtJob, DmCopied, Dm!At, Dm!M, Dm!T, Dm!Source
  <2> QED
    BY <1>1, <2>1, <2>2, <2>3, <2>4, <2>5, <2>6 DEF DmTally, DmOver, Dm!DoneJobSettlesMigration, Dm!At, Dm!M, Dm!Exists
<1>5. ASSUME NEW m \in Dm!Id, Dm!Redeliver(m)  PROVE DmInv'
  <2>1. UNCHANGED <<dmProject, dmExisting, dmData, dmMig, dmWorker, dmReq>> /\ dmJob[m] = "stalled"
    BY <1>5 DEF Dm!Redeliver, Dm!db
  <2>2. /\ \A k \in Dm!Id : k # m => dmJob'[k] = dmJob[k]
        /\ dmJob'[m] \in {"waiting", "failed"}
        /\ dmQueue' = dmQueue \/ dmQueue' = <<m>> \o dmQueue
    BY <1>5 DEF Dm!Redeliver, DmSets
  <2>3. \A k \in Dm!Id : dmJob'[k] = "none" <=> dmJob[k] = "none"
    BY <2>1, <2>2
  <2>4. \A k \in 1..Len(dmQueue') : dmJob'[dmQueue'[k]] # "none"
    <3>1. CASE dmQueue' = dmQueue
      BY <2>3, <3>1, ElementOfSeq DEF DmRows, DmSets
    <3>2. CASE dmQueue' = <<m>> \o dmQueue
      <4>1. <<m>> \in Seq(Dm!Id) /\ Len(<<m>>) = 1 /\ <<m>>[1] = m /\ dmQueue \in Seq(Dm!Id)
        BY DEF DmSets
      <4>2. /\ Len(dmQueue') = 1 + Len(dmQueue)
            /\ \A k \in 1..1 + Len(dmQueue) : dmQueue'[k] = IF k <= 1 THEN <<m>>[k] ELSE dmQueue[k - 1]
        BY <3>2, <4>1, ConcatProperties
      <4>3. Len(dmQueue) \in Nat
        BY <4>1, LenProperties
      <4> SUFFICES ASSUME NEW k \in 1..Len(dmQueue')  PROVE dmJob'[dmQueue'[k]] # "none"
        OBVIOUS
      <4>4. CASE k = 1
        BY <2>2, <4>1, <4>2, <4>4
      <4>5. CASE k # 1
        <5>1. k - 1 \in 1..Len(dmQueue) /\ dmQueue'[k] = dmQueue[k - 1]
          BY <4>2, <4>3, <4>5
        <5> QED
          BY <2>3, <4>1, <5>1, ElementOfSeq DEF DmRows
      <4> QED
        BY <4>4, <4>5
    <3> QED
      BY <2>2, <3>1, <3>2
  <2>5. Dm!Used' = Dm!Used /\ DmCreating' = DmCreating
    BY <2>1, <2>3 DEF Dm!Used, DmCreating, Dm!Exists
  <2>6. DmRoom'
    BY <2>1, <2>5 DEF DmRoom
  <2>7. DmRows'
    BY <2>1, <2>3, <2>4 DEF DmRows, DmFills, DmOwnRow, Dm!Exists
  <2>8. ~Dm!At("idle") => Dm!M # m
    BY <2>1 DEF DmAtJob
  <2>9. Dm!DoneJobSettlesMigration'
    BY <2>1, <2>2 DEF Dm!DoneJobSettlesMigration
  <2> QED
    BY <1>1, <2>1, <2>2, <2>6, <2>7, <2>8, <2>9 DEF DmAtJob, DmCopied, DmTally, DmOver, Dm!At, Dm!M, Dm!T, Dm!Source, Dm!Exists
<1> QED
  BY <1>2, <1>3, <1>4, <1>5 DEF Dm!Environment

\* The invariant holds at the start ...
LEMMA DmStart == Dm!MigrationAssumption /\ Dm!Init => DmInv
<1> SUFFICES ASSUME Dm!MigrationAssumption, Dm!Init  PROVE DmInv
  OBVIOUS
<1>1. DmSets
  <2>1. dmExisting \subseteq Table /\ dmData \in [Table -> SUBSET {"old", "src"}] /\ \A t \in Table \ dmExisting : dmData[t] = {}
    BY DEF Dm!Init
  <2>2. dmMig \in [Dm!Id -> DmRow] /\ dmReq \in [Migrators -> DmRequest] /\ dmWorker \in DmWorker
    BY DmBlanks DEF Dm!Init
  <2>3. dmJob \in [Dm!Id -> DmJob] /\ dmStalls \in [Dm!Id -> 0..1]
    BY DEF Dm!Init, DmJob
  <2>4. dmQueue \in Seq(Dm!Id) /\ dmProject \in {"withDb", "noDb", "deleted"}
    BY DEF Dm!Init
  <2> QED
    BY <2>1, <2>2, <2>3, <2>4 DEF DmSets
<1>2. Dm!Used = {} /\ DmCreating = {}
  BY DEF Dm!Init, Dm!Used, DmCreating, Dm!Exists, Dm!NoMig, Dm!NoReq
<1>3. DmRoom
  <2>1. Cardinality(Dm!Used) = 0 /\ Cardinality(DmCreating) = 0
    BY <1>2, FS_EmptySet
  <2> QED
    BY <2>1, DmFinite DEF DmRoom
<1>4. DmRows
  <2>1. Len(dmQueue) = 0
    BY DEF Dm!Init
  <2> QED
    BY <2>1 DEF Dm!Init, DmRows, DmFills, Dm!NoReq
<1>5. dmWorker.pc = "idle"
  BY DEF Dm!Init, Dm!Idle
<1> QED
  BY <1>1, <1>3, <1>4, <1>5 DEF Dm!Init, DmInv, DmHands, DmAtJob, DmCopied, DmTally, DmOver, Dm!At,
     Dm!InTable, Dm!DoneJobSettlesMigration

\* ... and is kept by every step.
LEMMA DmSteps == Dm!MigrationAssumption /\ DmInv /\ [Dm!Next]_(Dm!vars) => DmInv'
<1> SUFFICES ASSUME Dm!MigrationAssumption, DmInv, [Dm!Next]_(Dm!vars)  PROVE DmInv'
  OBVIOUS
<1>1. CASE Dm!HandlerStep
  BY <1>1, DmHandlerTypes, DmHandlerRoom, DmHandlerRows, DmHandlerRest DEF DmInv, DmHands, DmRest
<1>2. CASE Dm!Take \/ Dm!Settle
  BY <1>2, DmTakeKeeps
<1>3. CASE Dm!WorkerStep /\ ~Dm!Take /\ ~Dm!Settle
  <2>1. DmMoved /\ DmRest
    BY <1>3, DmProcess DEF DmInv, DmHands
  <2>2. ~Dm!At("idle")
    BY <1>3 DEF Dm!WorkerStep, Dm!ReadProject, Dm!BeginRemote, Dm!BeginFile, Dm!Connect, Dm!Analyze, Dm!Order, Dm!BeginTables,
       Dm!NextTable, Dm!StartTable, Dm!Conflict, Dm!AppendRows, Dm!CreateTable, Dm!CopyRows, Dm!EndTable, Dm!FinishRemote,
       Dm!Restore, Dm!MarkTable, Dm!FinishFile, Dm!Catch, Dm!At
  <2> QED
    BY <2>1, <2>2, DmMovedKeeps DEF DmInv, DmHands, DmRest
<1>4. CASE Dm!Environment
  BY <1>4, DmEnvironmentKeeps
<1>5. CASE UNCHANGED Dm!vars
  BY <1>5 DEF Dm!vars, Dm!db, Dm!jobs, DmInv, DmSets, DmHands, DmRoom, DmRows, DmFills, DmOwnRow, DmAtJob, DmCopied,
     DmTally, DmOver, Dm!DoneJobSettlesMigration, Dm!Used, DmCreating, Dm!Exists, Dm!At, Dm!M, Dm!T, Dm!Source
<1> QED
  BY <1>1, <1>2, <1>3, <1>4, <1>5 DEF Dm!Next

(***************************************************************************)
(* What every step may do to a migration's status and table rows.          *)
(***************************************************************************)
\* No step but the worker's ends of a migration or of a table reports one COMPLETED.
DmEnds == Dm!FinishRemote \/ Dm!FinishFile
DmTableEnds == Dm!EndTable \/ Dm!MarkTable

\* A write of one migration's status, or of its tables, where nothing else changes.
LEMMA DmStatusOnly ==
  ASSUME DmSets, NEW m \in Dm!Id, NEW n \in Dm!Id, NEW s \in Dm!Active \cup Dm!Final,
         dmMig' = [dmMig EXCEPT ![n].status = s]
  PROVE  /\ dmMig'[m].tables = dmMig[m].tables
         /\ m # n => dmMig'[m] = dmMig[m]
         /\ dmMig'[n].status = s
BY DEF DmSets, DmRow

\* Writing the tables of a row writes no status ...
LEMMA DmTablesOnly ==
  ASSUME DmSets, NEW m \in Dm!Id, NEW n \in Dm!Id, NEW STATE f, dmMig' = [dmMig EXCEPT ![n].tables = f]
  PROVE  /\ dmMig'[m].status = dmMig[m].status
         /\ m # n => dmMig'[m] = dmMig[m]
         /\ dmMig'[n].tables = f
BY DEF DmSets, DmRow

\* ... and writing one table writes no other.
LEMMA DmTableOnly ==
  ASSUME DmSets, NEW m \in Dm!Id, NEW n \in Dm!Id, NEW u \in Table, NEW STATE s,
         dmMig' = [dmMig EXCEPT ![n].tables[u] = s]
  PROVE  /\ dmMig'[m].status = dmMig[m].status
         /\ m # n => dmMig'[m] = dmMig[m]
         /\ \A t \in Table : dmMig'[n].tables[t] = IF t = u THEN s ELSE dmMig[n].tables[t]
<1> DEFINE f == [dmMig[n].tables EXCEPT ![u] = s]
<1>1. dmMig' = [dmMig EXCEPT ![n].tables = f]
  BY DEF DmSets, DmRow
<1>2. dmMig[n].tables \in [Table -> Dm!TableStatus]
  BY DEF DmSets, DmRow
<1>3. \A t \in Table : f[t] = IF t = u THEN s ELSE dmMig[n].tables[t]
  BY <1>2
<1> HIDE DEF f
<1>4. /\ dmMig'[m].status = dmMig[m].status
      /\ m # n => dmMig'[m] = dmMig[m]
      /\ dmMig'[n].tables = f
  BY <1>1 DEF DmSets, DmRow
<1>5. \A t \in Table : dmMig'[n].tables[t] = f[t]
  BY <1>4
<1>6. \A t \in Table : dmMig'[n].tables[t] = IF t = u THEN s ELSE dmMig[n].tables[t]
  BY <1>3, <1>5
<1> QED
  BY <1>4, <1>6

\* The handlers, and the environment, turn nothing COMPLETED.
LEMMA DmOthersEndNothing ==
  ASSUME Dm!MigrationAssumption, DmInv, Dm!HandlerStep \/ Dm!Environment, NEW m \in Dm!Id
  PROVE  /\ dmMig'[m].status = "COMPLETED" => dmMig[m].status = "COMPLETED"
         /\ \A t \in Table : dmMig'[m].tables[t] = "COMPLETED" => dmMig[m].tables[t] = "COMPLETED"
<1> DEFINE Goal == /\ dmMig'[m].status = "COMPLETED" => dmMig[m].status = "COMPLETED"
                   /\ \A t \in Table : dmMig'[m].tables[t] = "COMPLETED" => dmMig[m].tables[t] = "COMPLETED"
<1>0. dmMig \in [Dm!Id -> DmRow]
  BY DEF DmInv, DmSets
<1>1. ASSUME NEW h \in Migrators, Dm!CreateRow(h)  PROVE Goal
  <2>1. CASE dmProject = "deleted"
    BY <1>1, <2>1 DEF Dm!CreateRow
  <2>2. CASE dmProject # "deleted"
    <3> DEFINE n == Dm!Least(Dm!Id \ Dm!Used)
               new == [Dm!NoMig EXCEPT !.status = "PENDING", !.kind = dmReq[h].kind]
    <3>1. dmMig' = [dmMig EXCEPT ![n] = new]
      BY <1>1, <2>2 DEF Dm!CreateRow
    <3>2. new.status = "PENDING" /\ new.tables = [t \in Table |-> "none"]
      BY DEF Dm!NoMig
    <3> HIDE DEF n, new
    <3>3. dmMig'[m] = dmMig[m] \/ dmMig'[m] = new
      BY <1>0, <3>1
    <3> QED
      BY <3>2, <3>3
  <2> QED
    BY <2>1, <2>2
<1>2. ASSUME NEW h \in Migrators, Dm!CreateTables(h)  PROVE Goal
  <2> DEFINE n == dmReq[h].m
  <2>1. n \in Dm!Id
    BY <1>2 DEF Dm!CreateTables, DmInv, DmHands, DmRows, DmFills, DmOwnRow
  <2>2. dmMig' = dmMig \/ dmMig' = [dmMig EXCEPT ![n].tables = [t \in Table |-> "PENDING"]]
    BY <1>2 DEF Dm!CreateTables
  <2> HIDE DEF n
  <2> QED
    BY <2>1, <2>2, DmTablesOnly DEF DmInv
<1>3. ASSUME NEW h \in Migrators, Dm!WriteCancelled(h)  PROVE Goal
  <2> DEFINE n == dmReq[h].m
  <2>1. n \in Dm!Id
    BY <1>3 DEF Dm!WriteCancelled, DmInv, DmHands, DmRows
  <2>2. dmMig' = dmMig \/ dmMig' = [dmMig EXCEPT ![n].status = "CANCELLED"]
    BY <1>3 DEF Dm!WriteCancelled
  <2> HIDE DEF n
  <2> QED
    BY <2>1, <2>2, DmStatusOnly DEF DmInv, Dm!Final
<1>4. CASE Dm!DeleteProject
  BY <1>4 DEF Dm!DeleteProject, Dm!NoMig
<1>5. CASE UNCHANGED dmMig
  BY <1>5
<1>6. ASSUME Dm!HandlerStep  PROVE Goal
  BY <1>6, <1>1, <1>2, <1>3, <1>5 DEF Dm!HandlerStep, Dm!Create, Dm!Enqueue, Dm!Cancel
<1>7. ASSUME Dm!Environment  PROVE Goal
  BY <1>7, <1>4, <1>5 DEF Dm!Environment, Dm!Crash, Dm!Redeliver, Dm!Deprovision
<1> QED
  BY <1>6, <1>7

\* Of the worker's steps, four can.
LEMMA DmWorkerEnds ==
  ASSUME Dm!MigrationAssumption, DmInv, Dm!WorkerStep, NEW m \in Dm!Id
  PROVE  /\ ~DmEnds => (dmMig'[m].status = "COMPLETED" => dmMig[m].status = "COMPLETED")
         /\ ~DmTableEnds =>
              \A t \in Table : dmMig'[m].tables[t] = "COMPLETED" => dmMig[m].tables[t] = "COMPLETED"
<1> DEFINE Goal == /\ ~DmEnds => (dmMig'[m].status = "COMPLETED" => dmMig[m].status = "COMPLETED")
                   /\ ~DmTableEnds =>
                        \A t \in Table : dmMig'[m].tables[t] = "COMPLETED" => dmMig[m].tables[t] = "COMPLETED"
<1>0. ~Dm!At("idle") => Dm!M \in Dm!Id
  BY DEF DmInv, DmHands, DmAtJob
<1>1. ASSUME NEW s \in Dm!Active \cup Dm!Final, NEW place, Dm!SetStatus(s, place), s # "COMPLETED" \/ DmEnds, Dm!M \in Dm!Id
      PROVE  Goal
  <2>1. dmMig' = dmMig \/ dmMig' = [dmMig EXCEPT ![Dm!M].status = s]
    BY <1>1 DEF Dm!SetStatus
  <2> QED
    BY <1>1, <2>1, DmStatusOnly DEF DmInv
<1>2. ASSUME NEW s \in Dm!Active \cup Dm!Final, dmMig' = [dmMig EXCEPT ![Dm!M].status = s], s # "COMPLETED", Dm!M \in Dm!Id
      PROVE  Goal
  BY <1>2, DmStatusOnly DEF DmInv
<1>3. ASSUME NEW s, NEW u \in Table, dmMig' = [dmMig EXCEPT ![Dm!M].tables[u] = s], Dm!M \in Dm!Id,
             s # "COMPLETED" \/ DmTableEnds
      PROVE  Goal
  BY <1>3, DmTableOnly DEF DmInv
<1>4. CASE UNCHANGED dmMig
  BY <1>4
<1>5. CASE Dm!BeginRemote \/ Dm!BeginFile \/ Dm!Analyze
  BY <1>0, <1>1, <1>5 DEF Dm!BeginRemote, Dm!BeginFile, Dm!Analyze, Dm!At, Dm!Active
<1>6. CASE Dm!BeginTables \/ Dm!Catch
  BY <1>0, <1>2, <1>4, <1>6 DEF Dm!BeginTables, Dm!Catch, Dm!At, Dm!Active, Dm!Final
<1>7. CASE Dm!StartTable
  <2>1. Dm!T \in Table /\ Dm!M \in Dm!Id
    BY <1>0, <1>7 DEF Dm!StartTable, Dm!At, Dm!InTable, DmInv, DmHands, DmAtJob, DmSets, DmWorker
  <2> QED
    BY <2>1, <1>3, <1>4, <1>7 DEF Dm!StartTable, Dm!SetTable
<1>8. CASE Dm!EndTable
  <2>1. Dm!T \in Table /\ Dm!M \in Dm!Id
    BY <1>0, <1>8 DEF Dm!EndTable, Dm!At, Dm!InTable, DmInv, DmHands, DmAtJob, DmSets, DmWorker
  <2>2. dmMig' = dmMig \/ \E s : dmMig' = [dmMig EXCEPT ![Dm!M].tables[Dm!T] = s]
    BY <1>8 DEF Dm!EndTable, Dm!SetTable
  <2> QED
    BY <2>1, <2>2, <1>3, <1>4, <1>8 DEF DmTableEnds
<1>9. CASE Dm!MarkTable
  <2>1. dmWorker.todo \subseteq Table /\ Dm!M \in Dm!Id
    BY <1>0, <1>9 DEF Dm!MarkTable, Dm!At, DmInv, DmSets, DmWorker
  <2>2. dmMig' = dmMig \/ \E s : \E u \in Table : dmMig' = [dmMig EXCEPT ![Dm!M].tables[u] = s]
    BY <1>9, <2>1 DEF Dm!MarkTable
  <2> QED
    BY <2>1, <2>2, <1>3, <1>4, <1>9 DEF DmTableEnds
<1>10. CASE Dm!FinishRemote
  <2>1. /\ Dm!M \in Dm!Id
        /\ Dm!SetStatus(IF \E t \in Table : dmMig[Dm!M].tables[t] = "FAILED" THEN "FAILED" ELSE "COMPLETED", "done")
    BY <1>0, <1>10 DEF Dm!FinishRemote, Dm!At
  <2>2. Dm!SetStatus("FAILED", "done") \/ Dm!SetStatus("COMPLETED", "done")
    BY <2>1
  <2> QED
    BY <2>1, <2>2, <1>1, <1>10 DEF DmEnds, Dm!Final
<1>11. CASE Dm!FinishFile
  <2>1. /\ Dm!M \in Dm!Id
        /\ Dm!SetStatus(IF Dm!At("succeeded") THEN "COMPLETED" ELSE "FAILED", "done")
    BY <1>0, <1>11 DEF Dm!FinishFile, Dm!At
  <2>2. Dm!SetStatus("FAILED", "done") \/ Dm!SetStatus("COMPLETED", "done")
    BY <2>1
  <2> QED
    BY <2>1, <2>2, <1>1, <1>11 DEF DmEnds, Dm!Final
<1>12. CASE Dm!Take \/ Dm!ReadProject \/ Dm!Connect \/ Dm!Order \/ Dm!NextTable \/ Dm!Conflict \/ Dm!AppendRows
            \/ Dm!CreateTable \/ Dm!CopyRows \/ Dm!Restore \/ Dm!Settle
  BY <1>4, <1>12 DEF Dm!Take, Dm!ReadProject, Dm!Connect, Dm!Order, Dm!NextTable, Dm!Conflict, Dm!AppendRows, Dm!CreateTable,
     Dm!CopyRows, Dm!Restore, Dm!Settle, Dm!Fail
<1> QED
  BY <1>5, <1>6, <1>7, <1>8, <1>9, <1>10, <1>11, <1>12 DEF Dm!WorkerStep

\* A migration becomes COMPLETED only with every table COMPLETED or SKIPPED.
LEMMA DmCompletes ==
  ASSUME Dm!MigrationAssumption, DmInv, [Dm!Next]_(Dm!vars), NEW m \in Dm!Id,
         dmMig[m].status # "COMPLETED", dmMig'[m].status = "COMPLETED"
  PROVE  \A t \in Table : dmMig'[m].tables[t] \in {"COMPLETED", "SKIPPED"}
<1>1. Dm!WorkerStep /\ DmEnds
  BY DmOthersEndNothing, DmWorkerEnds DEF Dm!Next, Dm!vars
<1>2. Dm!M \in Dm!Id /\ ~Dm!At("idle")
  BY <1>1 DEF DmEnds, Dm!FinishRemote, Dm!FinishFile, Dm!At, DmInv, DmHands, DmAtJob
<1>3. PICK s \in {"COMPLETED", "FAILED"} : Dm!SetStatus(s, "done") /\
        (s = "COMPLETED" => /\ dmWorker.todo = {}
                            /\ \/ Dm!At("check") /\ \A t \in Table : dmMig[Dm!M].tables[t] # "FAILED"
                               \/ Dm!At("succeeded"))
  BY <1>1 DEF DmEnds, Dm!FinishRemote, Dm!FinishFile
<1>4. dmMig' = [dmMig EXCEPT ![Dm!M].status = s] /\ Dm!Exists(Dm!M)
  BY <1>3 DEF Dm!SetStatus
<1>5. m = Dm!M /\ s = "COMPLETED" /\ dmMig'[m].tables = dmMig[Dm!M].tables
  BY <1>2, <1>4, DmStatusOnly DEF DmInv, Dm!Final
<1>6. \A t \in Table : dmMig[Dm!M].tables[t] \in {"COMPLETED", "SKIPPED"}
  BY <1>2, <1>3, <1>4, <1>5 DEF DmInv, DmTally, Dm!At
<1> QED
  BY <1>5, <1>6

\* A table of a reliable source becomes COMPLETED only with its rows there.
LEMMA DmCompletesTable ==
  ASSUME Dm!MigrationAssumption, DmInv, [Dm!Next]_(Dm!vars), NEW m \in Dm!Id, NEW t \in Table, Dm!Reliable(m),
         dmMig[m].tables[t] # "COMPLETED", dmMig'[m].tables[t] = "COMPLETED"
  PROVE  "src" \in dmData[t] \/ dmProject = "noDb"
<1>1. Dm!WorkerStep /\ DmTableEnds
  BY DmOthersEndNothing, DmWorkerEnds DEF Dm!Next, Dm!vars
<1>2. Dm!M \in Dm!Id /\ ~Dm!At("idle")
  BY <1>1 DEF DmTableEnds, Dm!EndTable, Dm!MarkTable, Dm!At, DmInv, DmHands, DmAtJob
<1>3. CASE Dm!EndTable
  <2>1. Dm!T \in Table
    BY <1>3 DEF Dm!EndTable, Dm!At, Dm!InTable, DmInv, DmHands, DmAtJob, DmSets, DmWorker
  <2> DEFINE s == CASE Dm!At("completing") -> "COMPLETED"
                    [] Dm!At("skipping") -> "SKIPPED"
                    [] OTHER -> "FAILED"
  <2>2. dmMig' = [dmMig EXCEPT ![Dm!M].tables[Dm!T] = s]
    BY <1>3 DEF Dm!EndTable, Dm!SetTable
  <2>3. s = "COMPLETED" => Dm!At("completing")
    BY DEF Dm!At
  <2> HIDE DEF s
  <2>4. m = Dm!M /\ t = Dm!T /\ s = "COMPLETED"
    BY <1>2, <2>1, <2>2, DmTableOnly DEF DmInv
  <2> QED
    BY <2>3, <2>4 DEF DmInv, DmCopied
<1>4. CASE Dm!MarkTable
  <2> DEFINE s == IF Dm!At("succeeded") THEN "COMPLETED" ELSE "FAILED"
  <2>1. PICK u \in dmWorker.todo : dmMig' = [dmMig EXCEPT ![Dm!M].tables[u] = s]
    BY <1>4 DEF Dm!MarkTable
  <2>2. u \in Table
    BY DEF DmInv, DmSets, DmWorker
  <2>3. s = "COMPLETED" => Dm!At("succeeded")
    OBVIOUS
  <2> HIDE DEF s
  <2>4. m = Dm!M /\ t = u /\ s = "COMPLETED"
    BY <1>2, <2>1, <2>2, DmTableOnly DEF DmInv
  <2>5. dmMig[Dm!M].kind = <<"SQL", "ERROR">>
    BY <1>4, <2>4 DEF Dm!MarkTable, Dm!Reliable, DmInv, DmHands, DmAtJob, Dm!Source
  <2> QED
    BY <2>3, <2>4, <2>5 DEF DmInv, DmCopied
<1> QED
  BY <1>1, <1>3, <1>4 DEF DmTableEnds

----------------------------------------------------------------------------
(* Imports of files.                                                       *)

SiJob == {"none", "waiting", "active", "stalled", "done", "failed"}
SiPC == {"idle", "run", "service", "list", "check", "stat", "put", "error",
         "unlink", "counts", "complete", "catch", "done", "abort"}
SiWorker == [pc : SiPC, m : Si!Id \cup {0}, todo : SUBSET Item, item : Item \cup {None},
             unseen : BOOLEAN]
SiRequest == [pc : {"idle", "creating", "enqueueing", "cancelling"}, m : Si!Id \cup {0}, new : Si!Row]

SiSets ==
  /\ siProject \in {"present", "noBucket", "deleted"}
  /\ siBucket \in [Key -> {"none", "old", "src"}]
  /\ siTemp \in [Si!Id -> SUBSET Item]
  /\ siImp \in [Si!Id -> Si!Row] /\ siJob \in [Si!Id -> SiJob] /\ siStalls \in [Si!Id -> 0..1]
  /\ siQueue \in Seq(Si!Id) /\ siWorker \in SiWorker /\ siReq \in [Importers -> SiRequest]

(***************************************************************************)
(* A request that is about to add the job of its row has the row for       *)
(* itself; only jobs that were added are in the queue.                     *)
(***************************************************************************)
SiAdds(h) == siReq[h].pc = "enqueueing"

SiOwnRow(h) ==
  /\ siReq[h].m \in Si!Id /\ siJob[siReq[h].m] = "none"
  /\ siProject # "deleted" => Si!Exists(siReq[h].m)
  /\ \A g \in Importers : g # h /\ SiAdds(g) => siReq[g].m # siReq[h].m

SiRows ==
  /\ \A h \in Importers : SiAdds(h) => SiOwnRow(h)
  /\ \A h \in Importers : siReq[h].pc = "creating" => siReq[h].new.status = "PENDING"
  /\ \A h \in Importers : siReq[h].pc = "cancelling" => siReq[h].m \in Si!Id
  /\ \A k \in 1..Len(siQueue) : siJob[siQueue[k]] # "none"

(***************************************************************************)
(* The worker is at an active job, and at an item it has not done.  An     *)
(* object it is about to write replaces nothing it has seen, or the import *)
(* is one that overwrites.                                                 *)
(***************************************************************************)
SiAtItem == {"stat", "put", "unlink", "error"}

SiAtJob ==
  /\ ~Si!At("idle") => Si!M \in Si!Id /\ siJob[Si!M] = "active"
  /\ siWorker.pc \in SiAtItem => Si!I \in siWorker.todo
  /\ Si!At("complete") => siWorker.todo = {}
  /\ Si!At("put") /\ siProject # "noBucket" => 
       Si!Strategy = "OVERWRITE" \/ siWorker.unseen \/ siBucket[Si!K] # "old"

(***************************************************************************)
(* While there is a bucket, the items the worker is through with are in    *)
(* it, unless they were URLs that may be passed over.                      *)
(***************************************************************************)
SiHeld ==
  siProject # "noBucket" =>
    /\ Si!At("unlink") => siBucket[Si!K] # "none"
    /\ siWorker.pc \in SiAtItem \cup {"check", "complete"}
         /\ (Si!Source # "URL" \/ Si!Strategy = "ERROR") =>
         \A i \in Item \ siWorker.todo : siBucket[KeyOf[i]] # "none"

SiInv == SiSets /\ SiRows /\ SiAtJob /\ SiHeld

\* The named sets are TypeOK.
LEMMA SiTypes == Si!TypeOK <=> SiSets
<1>1. /\ SiWorker = [pc : {"idle", "run", "service", "list", "check", "stat", "put", "error",
                          "unlink", "counts", "complete", "catch", "done", "abort"},
                    m : Si!Id \cup {0}, todo : SUBSET Item, item : Item \cup {None},
             unseen : BOOLEAN]
      /\ SiRequest = [pc : {"idle", "creating", "enqueueing", "cancelling"},
                      m : Si!Id \cup {0}, new : Si!Row]
      /\ SiJob = {"none", "waiting", "active", "stalled", "done", "failed"}
  BY DEF SiWorker, SiRequest, SiJob, SiPC
<1> QED
  BY <1>1 DEF Si!TypeOK, SiSets

\* The rows and handlers that things start from are of their types.
LEMMA SiBlanks ==
  /\ Si!NoImp \in Si!Row /\ Si!NoReq \in SiRequest /\ Si!Idle \in SiWorker
  /\ Si!NoReq.pc = "idle" /\ Si!Idle.pc = "idle"
BY DEF Si!NoImp, Si!NoReq, Si!Idle, Si!Row, SiRequest, SiWorker, SiPC, Si!AllSources

\* A key of an item is a key of the bucket.
LEMMA SiKeys ==
  ASSUME Si!StorageImportAssumption
  PROVE  \A i \in Item : KeyOf[i] \in Key
BY DEF Si!StorageImportAssumption

----------------------------------------------------------------------------
(* Requests.                                                               *)

\* What a request leaves alone, and what it may write beside the worker.
SiBeside ==
  /\ UNCHANGED <<siProject, siBucket, siWorker>>
  /\ \A m \in Si!Id : siJob[m] # "none" => siJob'[m] = siJob[m]
  /\ \A m \in Si!Id : siJob[m] # "none" =>
       siImp'[m].source = siImp[m].source /\ siImp'[m].strategy = siImp[m].strategy

\* What leaves the worker, the bucket and the jobs alone keeps what it relies on.
LEMMA SiBesideKeeps ==
  ASSUME Si!StorageImportAssumption, SiSets, SiAtJob, SiHeld, SiBeside
  PROVE  SiAtJob' /\ SiHeld'
<1>1. ~Si!At("idle") =>
        /\ Si!M \in Si!Id /\ siJob[Si!M] = "active" /\ siJob'[Si!M] = "active"
        /\ siImp'[Si!M].source = Si!Source /\ siImp'[Si!M].strategy = Si!Strategy
  BY DEF SiAtJob, SiBeside, Si!Source, Si!Strategy
<1>2. UNCHANGED <<siProject, siBucket, siWorker>>
  BY DEF SiBeside
<1> QED
  BY <1>1, <1>2 DEF SiAtJob, SiHeld, SiAtItem, Si!At, Si!M, Si!I, Si!K, Si!Source, Si!Strategy

\* A request that is not about to add a job starts or ends.
LEMMA SiAddsNothing ==
  ASSUME SiSets, SiRows, NEW h \in Importers, NEW STATE r, r \in SiRequest,
         siReq' = [siReq EXCEPT ![h] = r], UNCHANGED <<siQueue, siJob, siProject>>,
         \A m \in Si!Id : Si!Exists(m) => Si!Exists(m)',
         r.pc # "enqueueing", r.pc = "creating" => r.new.status = "PENDING",
         r.pc = "cancelling" => r.m \in Si!Id
  PROVE  siReq' \in [Importers -> SiRequest] /\ SiRows'
<1>1. \A g \in Importers : siReq'[g] = IF g = h THEN r ELSE siReq[g]
  BY DEF SiSets
<1>2. siReq' \in [Importers -> SiRequest]
  BY DEF SiSets
<1>3. \A k \in 1..Len(siQueue') : siJob'[siQueue'[k]] # "none"
  BY DEF SiRows
<1>4. ASSUME NEW g \in Importers, SiAdds(g)'  PROVE SiOwnRow(g)'
  <2>1. g # h /\ SiAdds(g) /\ siReq'[g] = siReq[g]
    BY <1>1, <1>4 DEF SiAdds
  <2>2. SiOwnRow(g)
    BY <2>1 DEF SiRows
  <2>3. \A f \in Importers : f # g /\ SiAdds(f)' => siReq'[f].m # siReq'[g].m
    BY <1>1, <2>1, <2>2 DEF SiOwnRow, SiAdds
  <2> QED
    BY <2>1, <2>2, <2>3 DEF SiOwnRow
<1> QED
  BY <1>1, <1>2, <1>3, <1>4 DEF SiRows

\* Requests keep the invariant.
LEMMA SiHandlersKeep ==
  ASSUME Si!StorageImportAssumption, SiInv, Si!HandlerStep
  PROVE  SiSets' /\ SiRows' /\ SiBeside
<1> USE DEF SiInv, Si!jobs
<1>1. ASSUME NEW h \in Importers, NEW source \in Sources, NEW strategy \in Strategies,
             Si!Create(h, source, strategy)
      PROVE  SiSets' /\ SiRows' /\ SiBeside
  <2> DEFINE r == [pc |-> "creating", m |-> 0,
                   new |-> [status |-> "PENDING", source |-> source, strategy |-> strategy]]
  <2>1. r \in SiRequest
    BY DEF SiRequest, Si!Row, Si!Active, Si!StorageImportAssumption
  <2>2. /\ siReq' = [siReq EXCEPT ![h] = r] /\ r.pc = "creating" /\ r.new.status = "PENDING"
        /\ UNCHANGED <<siProject, siBucket, siTemp, siImp, siJob, siStalls, siQueue, siWorker>>
    BY <1>1 DEF Si!Create
  <2> HIDE DEF r
  <2>3. siReq' \in [Importers -> SiRequest] /\ SiRows'
    BY <2>1, <2>2, SiAddsNothing DEF Si!Exists
  <2> QED
    BY <2>2, <2>3 DEF SiSets, SiBeside
<1>2. ASSUME NEW h \in Importers, Si!CreateRow(h)  PROVE SiSets' /\ SiRows' /\ SiBeside
  <2>0. UNCHANGED <<siProject, siBucket, siJob, siStalls, siQueue, siWorker>>
    BY <1>2 DEF Si!CreateRow
  <2>1. CASE siProject = "deleted"
    <3>1. siReq' = [siReq EXCEPT ![h] = Si!NoReq] /\ UNCHANGED <<siImp, siTemp>>
      BY <1>2, <2>1 DEF Si!CreateRow
    <3>2. siReq' \in [Importers -> SiRequest] /\ SiRows'
      BY <2>0, <3>1, SiBlanks, SiAddsNothing DEF Si!Exists
    <3> QED
      BY <2>0, <3>1, <3>2 DEF SiSets, SiBeside
  <2>2. CASE siProject # "deleted"
    <3>1. PICK m \in Si!Id \ Si!Used :
            /\ siImp' = [siImp EXCEPT ![m] = siReq[h].new]
            /\ siTemp' = [siTemp EXCEPT ![m] =
                 IF siReq[h].new.source \in {"FILES", "ARCHIVE"} THEN Item ELSE {}]
            /\ siReq' = [siReq EXCEPT ![h].pc = "enqueueing", ![h].m = m]
      BY <1>2, <2>2 DEF Si!CreateRow
    <3>2. m \in Si!Id /\ ~Si!Exists(m) /\ siJob[m] = "none"
      BY <3>1 DEF Si!Used
    <3>3. siReq[h].new \in Si!Row /\ siReq[h].new.status = "PENDING"
      BY <1>2 DEF Si!CreateRow, SiSets, SiRequest, SiRows
    <3>4. /\ siReq' \in [Importers -> SiRequest]
          /\ siReq'[h].pc = "enqueueing" /\ siReq'[h].m = m
          /\ \A g \in Importers : g # h => siReq'[g] = siReq[g]
      BY <3>1, <3>2 DEF SiSets, SiRequest
    <3>5. /\ siImp' \in [Si!Id -> Si!Row] /\ siImp'[m].status = "PENDING"
          /\ \A i \in Si!Id : i # m => siImp'[i] = siImp[i]
      BY <3>1, <3>2, <3>3 DEF SiSets
    <3>6. siTemp' \in [Si!Id -> SUBSET Item]
      BY <3>1, <3>2 DEF SiSets
    <3>7. \A g \in Importers : g # h /\ SiAdds(g) => siReq[g].m # m
      BY <2>2, <3>2 DEF SiRows, SiOwnRow
    <3>8. ASSUME NEW g \in Importers, SiAdds(g)'  PROVE SiOwnRow(g)'
      <4>1. CASE g = h
        BY <2>0, <3>2, <3>4, <3>5, <3>7, <4>1 DEF SiOwnRow, SiAdds, Si!Exists
      <4>2. CASE g # h
        <5>1. SiOwnRow(g) /\ siReq'[g] = siReq[g] /\ siReq[g].m # m
          BY <3>4, <3>7, <3>8, <4>2 DEF SiRows, SiAdds
        <5>2. \A f \in Importers : f # g /\ SiAdds(f)' => siReq'[f].m # siReq'[g].m
          BY <3>4, <4>2, <5>1 DEF SiOwnRow, SiAdds
        <5> QED
          BY <2>0, <3>5, <5>1, <5>2 DEF SiOwnRow, Si!Exists
      <4> QED
        BY <4>1, <4>2
    <3>9. SiRows'
      BY <2>0, <3>4, <3>8 DEF SiRows
    <3>10. SiBeside
      BY <2>0, <3>2, <3>5 DEF SiBeside
    <3> QED
      BY <2>0, <3>4, <3>5, <3>6, <3>9, <3>10 DEF SiSets
  <2> QED
    BY <2>1, <2>2
<1>3. ASSUME NEW h \in Importers, Si!Enqueue(h)  PROVE SiSets' /\ SiRows' /\ SiBeside
  <2> DEFINE m == siReq[h].m
  <2>1. /\ m \in Si!Id /\ siJob[m] = "none"
        /\ \A g \in Importers : g # h /\ SiAdds(g) => siReq[g].m # m
    BY <1>3 DEF Si!Enqueue, SiRows, SiAdds, SiOwnRow
  <2>2. /\ siQueue' = Append(siQueue, m) /\ siQueue \in Seq(Si!Id)
        /\ UNCHANGED <<siProject, siBucket, siTemp, siImp, siStalls, siWorker>>
    BY <1>3 DEF Si!Enqueue, SiSets
  <2>3. /\ siJob' \in [Si!Id -> SiJob] /\ siJob'[m] = "waiting"
        /\ \A k \in Si!Id : k # m => siJob'[k] = siJob[k]
    BY <1>3, <2>1 DEF Si!Enqueue, SiSets, SiJob
  <2>4. /\ siReq' \in [Importers -> SiRequest] /\ siReq'[h].pc = "idle"
        /\ \A g \in Importers : g # h => siReq'[g] = siReq[g]
    BY <1>3, SiBlanks DEF Si!Enqueue, SiSets
  <2>5. siQueue' \in Seq(Si!Id) /\ \A k \in 1..Len(siQueue') : siJob'[siQueue'[k]] # "none"
    <3>1. /\ siQueue' \in Seq(Si!Id) /\ Len(siQueue') = Len(siQueue) + 1 /\ siQueue'[Len(siQueue) + 1] = m
          /\ \A k \in 1..Len(siQueue) : siQueue'[k] = siQueue[k] /\ siQueue[k] \in Si!Id
      BY <2>1, <2>2, AppendProperties, LenProperties, ElementOfSeq
    <3>2. Len(siQueue) \in Nat
      BY <2>2, LenProperties
    <3> SUFFICES ASSUME NEW k \in 1..Len(siQueue')  PROVE siJob'[siQueue'[k]] # "none"
      BY <3>1
    <3>3. k = Len(siQueue) + 1 \/ k \in 1..Len(siQueue)
      BY <3>1, <3>2
    <3> QED
      BY <2>3, <3>1, <3>3 DEF SiRows
  <2> HIDE DEF m
  <2>6. ASSUME NEW g \in Importers, SiAdds(g)'  PROVE SiOwnRow(g)'
    <3>1. g # h /\ SiAdds(g) /\ SiOwnRow(g) /\ siReq'[g] = siReq[g] /\ siReq[g].m # m
      BY <2>1, <2>4, <2>6 DEF SiAdds, SiRows
    <3> QED
      BY <2>2, <2>3, <2>4, <3>1 DEF SiOwnRow, SiAdds, Si!Exists
  <2>7. SiRows'
    BY <2>4, <2>5, <2>6 DEF SiRows
  <2>8. SiBeside
    BY <2>1, <2>2, <2>3 DEF SiBeside
  <2> QED
    BY <2>2, <2>3, <2>4, <2>5, <2>7, <2>8 DEF SiSets
<1>4. ASSUME NEW h \in Importers, Si!WriteCancelled(h)  PROVE SiSets' /\ SiRows' /\ SiBeside
  <2> DEFINE m == siReq[h].m
  <2>1. m \in Si!Id
    BY <1>4 DEF Si!WriteCancelled, SiRows
  <2>2. /\ siReq' = [siReq EXCEPT ![h] = Si!NoReq]
        /\ UNCHANGED <<siProject, siBucket, siTemp, siJob, siStalls, siQueue, siWorker>>
        /\ siImp' = siImp \/ siImp' = [siImp EXCEPT ![m].status = "CANCELLED"]
    BY <1>4 DEF Si!WriteCancelled
  <2> HIDE DEF m
  <2>3. /\ siImp' \in [Si!Id -> Si!Row]
        /\ \A i \in Si!Id :
             /\ siImp'[i].source = siImp[i].source /\ siImp'[i].strategy = siImp[i].strategy
             /\ Si!Exists(i) => Si!Exists(i)'
    <3> DEFINE r == [siImp[m] EXCEPT !.status = "CANCELLED"]
    <3>1. /\ r \in Si!Row /\ r.status = "CANCELLED"
          /\ r.source = siImp[m].source /\ r.strategy = siImp[m].strategy
      BY <2>1 DEF SiSets, Si!Row
    <3>2. siImp' = siImp \/ siImp' = [siImp EXCEPT ![m] = r]
      BY <2>2
    <3> HIDE DEF r
    <3> QED
      BY <2>1, <3>1, <3>2 DEF SiSets, Si!Exists
  <2>4. siReq' \in [Importers -> SiRequest] /\ SiRows'
    BY <2>2, <2>3, SiBlanks, SiAddsNothing
  <2> QED
    BY <2>2, <2>3, <2>4 DEF SiSets, SiBeside
<1>5. ASSUME NEW h \in Importers, NEW m \in Si!Id, Si!Cancel(h, m)  PROVE SiSets' /\ SiRows' /\ SiBeside
  <2> DEFINE r == [Si!NoReq EXCEPT !.pc = "cancelling", !.m = m]
  <2>1. r \in SiRequest /\ r.pc = "cancelling" /\ r.m = m
    BY SiBlanks DEF SiRequest, Si!NoReq
  <2>2. /\ siReq' = [siReq EXCEPT ![h] = r]
        /\ UNCHANGED <<siProject, siBucket, siTemp, siImp, siJob, siStalls, siQueue, siWorker>>
    BY <1>5 DEF Si!Cancel
  <2> HIDE DEF r
  <2>3. siReq' \in [Importers -> SiRequest] /\ SiRows'
    BY <2>1, <2>2, SiAddsNothing DEF Si!Exists
  <2> QED
    BY <2>2, <2>3 DEF SiSets, SiBeside
<1> QED
  BY <1>1, <1>2, <1>3, <1>4, <1>5 DEF Si!HandlerStep

----------------------------------------------------------------------------
(* process().                                                              *)

\* What all its steps leave alone.
SiKeeps ==
  /\ UNCHANGED <<siProject, siJob, siStalls, siQueue, siReq>>
  /\ siImp' \in [Si!Id -> Si!Row]
  /\ \A m \in Si!Id :
       /\ siImp'[m].source = siImp[m].source /\ siImp'[m].strategy = siImp[m].strategy
       /\ Si!Exists(m) <=> Si!Exists(m)'

SiGoes(place, todo, item) ==
  /\ siWorker' \in SiWorker /\ siWorker'.pc = place /\ siWorker'.m = Si!M
  /\ siWorker'.todo = todo /\ siWorker'.item = item

\* Where a step may leave the worker.
SiLanding(place, todo, item) ==
  /\ place # "idle"
  /\ place \in SiAtItem => item \in todo
  /\ place = "complete" => todo = {}
  /\ place = "put" /\ siProject # "noBucket" => 
       Si!Strategy = "OVERWRITE" \/ siWorker'.unseen \/ siBucket'[KeyOf[item]] # "old"
  /\ place = "unlink" /\ siProject # "noBucket" => siBucket'[KeyOf[item]] # "none"
  /\ siProject # "noBucket" /\ place \in SiAtItem \cup {"check", "complete"}
       /\ (Si!Source # "URL" \/ Si!Strategy = "ERROR") =>
       \A i \in Item \ todo : siBucket'[KeyOf[i]] # "none"

\* A step to a place where all that the place relies on holds keeps the invariant.
LEMMA SiLands ==
  ASSUME SiSets, SiAtJob, ~Si!At("idle"), SiKeeps,
         NEW STATE place, NEW STATE todo, NEW STATE item,
         SiGoes(place, todo, item), SiLanding(place, todo, item)
  PROVE  SiAtJob' /\ SiHeld'
<1>1. Si!M \in Si!Id /\ siJob[Si!M] = "active"
  BY DEF SiAtJob
<1>2. /\ siWorker'.pc = place /\ siWorker'.m = Si!M /\ siWorker'.todo = todo /\ siWorker'.item = item
      /\ UNCHANGED <<siProject, siJob>>
      /\ siImp'[Si!M].source = Si!Source /\ siImp'[Si!M].strategy = Si!Strategy
  BY <1>1 DEF SiGoes, SiKeeps, Si!Source, Si!Strategy
<1>3. SiAtJob'
  BY <1>1, <1>2 DEF SiLanding, SiAtJob, Si!At, Si!M, Si!I, Si!K, Si!Strategy
<1>4. SiHeld'
  BY <1>1, <1>2 DEF SiLanding, SiHeld, Si!At, Si!M, Si!I, Si!K, Si!Source, Si!Strategy
<1> QED
  BY <1>3, <1>4

\* The steps of the worker that only move it ...
LEMMA SiGotoStep ==
  ASSUME SiSets, NEW place \in SiPC, Si!Goto(place)
  PROVE  SiGoes(place, siWorker.todo, Si!I)
BY DEF SiSets, SiWorker, Si!Goto, SiGoes, Si!M, Si!I

\* ... on to the next item ...
LEMMA SiDoneStep ==
  ASSUME SiSets, Si!ItemDone
  PROVE  SiGoes("check", siWorker.todo \ {Si!I}, None)
BY DEF SiSets, SiWorker, Si!ItemDone, SiGoes, Si!M, Si!I, SiPC

\* ... or change nothing the invariant is about,
LEMMA SiQuietStep ==
  ASSUME SiSets, Si!Quiet, UNCHANGED siImp
  PROVE  SiKeeps
BY DEF SiSets, Si!Quiet, SiKeeps, Si!jobs, Si!Exists

\* and those that write a status, or find the row gone.
LEMMA SiStatusStep ==
  ASSUME SiSets, Si!M \in Si!Id, NEW s \in {"RUNNING", "COMPLETED", "FAILED"},
         NEW next \in SiPC, NEW gone \in SiPC, Si!SetStatus(s, next, gone)
  PROVE  /\ SiKeeps /\ UNCHANGED <<siBucket, siTemp>>
         /\ \/ SiGoes(next, siWorker.todo, Si!I)
            \/ SiGoes(gone, siWorker.todo, Si!I)
<1>1. UNCHANGED <<siProject, siJob, siStalls, siQueue, siReq, siBucket, siTemp>>
  BY DEF Si!SetStatus, Si!Quiet, Si!jobs
<1>2. CASE ~Si!Exists(Si!M)
  <2>1. UNCHANGED siImp /\ SiGoes(gone, siWorker.todo, Si!I)
    BY <1>2, SiGotoStep DEF Si!SetStatus
  <2> QED
    BY <1>1, <2>1 DEF SiKeeps, SiSets, Si!Exists
<1>3. CASE Si!Exists(Si!M)
  <2> DEFINE r == [siImp[Si!M] EXCEPT !.status = s]
  <2>1. siImp' = [siImp EXCEPT ![Si!M] = r] /\ SiGoes(next, siWorker.todo, Si!I)
    BY <1>3, SiGotoStep DEF Si!SetStatus
  <2>2. /\ r \in Si!Row /\ r.status = s
        /\ r.source = siImp[Si!M].source /\ r.strategy = siImp[Si!M].strategy
    BY DEF SiSets, Si!Row, Si!Active
  <2> HIDE DEF r
  <2>3. SiKeeps
    BY <1>1, <1>3, <2>1, <2>2 DEF SiKeeps, SiSets, Si!Exists
  <2> QED
    BY <1>1, <2>1, <2>3
<1> QED
  BY <1>2, <1>3

\* A step inside process() and what it leads to.
SiStep ==
  /\ SiKeeps /\ siBucket' \in [Key -> {"none", "old", "src"}] /\ siTemp' \in [Si!Id -> SUBSET Item]
  /\ siWorker' \in SiWorker /\ SiAtJob' /\ SiHeld'

\* The worker goes on, and the row is not written.
LEMMA SiGoesOn ==
  ASSUME SiSets, SiAtJob, ~Si!At("idle"), UNCHANGED siImp, Si!Quiet,
         siBucket' \in [Key -> {"none", "old", "src"}], siTemp' \in [Si!Id -> SUBSET Item],
         NEW STATE place, NEW STATE todo, NEW STATE item,
         SiGoes(place, todo, item), SiLanding(place, todo, item)
  PROVE  SiStep
<1>1. SiKeeps
  BY SiQuietStep
<1>2. SiAtJob' /\ SiHeld'
  BY <1>1, SiLands
<1> QED
  BY <1>1, <1>2 DEF SiGoes, SiStep

SiRunning == Si!WorkerStep /\ ~Si!Take /\ ~Si!Settle

\* The worker at its items keeps the invariant ...
LEMMA SiProcess ==
  ASSUME Si!StorageImportAssumption, SiInv, SiRunning
  PROVE  SiInv'
<1> USE DEF SiInv
<1> SUFFICES SiStep
  <2>1. SiStep => SiSets'
    BY DEF SiStep, SiKeeps, SiSets
  <2>2. SiStep => SiRows'
    BY DEF SiStep, SiKeeps, SiRows, SiAdds, SiOwnRow, SiSets
  <2> QED
    BY <2>1, <2>2 DEF SiStep
<1>0. ~Si!At("idle")
  BY DEF SiRunning, Si!WorkerStep, Si!Run, Si!GetService, Si!List, Si!NextItem, Si!Stat, Si!Put, Si!Unlink, Si!ItemFails, Si!WriteCounts,
     Si!Complete, Si!Catch, Si!At
<1>a. Si!M \in Si!Id /\ siWorker.todo \subseteq Item
  BY <1>0 DEF SiAtJob, SiSets, SiWorker
<1>b. siWorker.pc \in SiAtItem => Si!I \in siWorker.todo /\ Si!I \in Item /\ Si!K \in Key
  BY <1>a, SiKeys DEF SiAtJob, Si!K
<1>c. siBucket \in [Key -> {"none", "old", "src"}] /\ siTemp \in [Si!Id -> SUBSET Item]
  BY DEF SiSets
\* The row is written, or is gone.
<1>1. ASSUME NEW s \in {"RUNNING", "COMPLETED", "FAILED"}, NEW next \in {"service", "done"},
             NEW gone \in {"abort", "catch"}, Si!SetStatus(s, next, gone)
      PROVE  SiStep
  <2>1. next \in SiPC /\ gone \in SiPC
    BY DEF SiPC
  <2>2. SiLanding(next, siWorker.todo, Si!I) /\ SiLanding(gone, siWorker.todo, Si!I)
    BY DEF SiLanding, SiAtItem
  <2>3. SiKeeps /\ UNCHANGED <<siBucket, siTemp>>
        /\ (SiGoes(next, siWorker.todo, Si!I) \/ SiGoes(gone, siWorker.todo, Si!I))
    BY <1>1, <1>a, <2>1, SiStatusStep
  <2>4. SiAtJob' /\ SiHeld'
    BY <1>0, <2>2, <2>3, SiLands
  <2> QED
    BY <1>c, <2>3, <2>4 DEF SiGoes, SiStep
<1>3. CASE Si!Run \/ Si!Complete \/ Si!Catch
  BY <1>1, <1>3 DEF Si!Run, Si!Complete, Si!Catch
<1>4. CASE Si!GetService
  <2>1. \E place \in {"list", "catch"} : Si!Goto(place) /\ UNCHANGED <<siBucket, siTemp, siImp>> /\ Si!Quiet
    BY <1>4 DEF Si!GetService, Si!Reads
  <2>2. PICK place \in {"list", "catch"} : Si!Goto(place) /\ UNCHANGED <<siBucket, siTemp, siImp>> /\ Si!Quiet
    BY <2>1
  <2>3. SiGoes(place, siWorker.todo, Si!I) /\ SiLanding(place, siWorker.todo, Si!I)
    BY <2>2, SiGotoStep DEF SiLanding, SiAtItem, SiPC
  <2> QED
    BY <1>0, <1>c, SiGoesOn, <2>2, <2>3
<1>5. CASE Si!List
  <2>1. UNCHANGED <<siBucket, siTemp, siImp>> /\ Si!Quiet
    BY <1>5 DEF Si!List, Si!Reads
  <2>2. CASE Si!Goto("catch")
    <3>1. SiGoes("catch", siWorker.todo, Si!I) /\ SiLanding("catch", siWorker.todo, Si!I)
      BY <2>2, SiGotoStep DEF SiLanding, SiAtItem, SiPC
    <3> QED
      BY <1>0, <1>c, SiGoesOn, <2>1, <3>1
  <2>3. CASE siWorker' = [siWorker EXCEPT !.pc = "check", !.todo = Item]
    <3>1. SiGoes("check", Item, Si!I)
      BY <2>3 DEF SiGoes, SiSets, SiWorker, SiPC, Si!M, Si!I
    <3>2. SiLanding("check", Item, Si!I)
      BY DEF SiLanding, SiAtItem
    <3> QED
      BY <1>0, <1>c, SiGoesOn, <2>1, <3>1, <3>2
  <2> QED
    BY <1>5, <2>2, <2>3 DEF Si!List
<1>6. CASE Si!NextItem
  <2>1. UNCHANGED <<siBucket, siTemp, siImp>> /\ Si!Quiet
    BY <1>6 DEF Si!NextItem, Si!Reads
  <2>2. CASE Si!Goto("done")
    <3>1. SiGoes("done", siWorker.todo, Si!I) /\ SiLanding("done", siWorker.todo, Si!I)
      BY <2>2, SiGotoStep DEF SiLanding, SiAtItem, SiPC
    <3> QED
      BY <1>0, <1>c, SiGoesOn, <2>1, <3>1
  <2>3. ASSUME NEW i \in siWorker.todo, siWorker' = [siWorker EXCEPT !.pc = "stat", !.item = i]  PROVE SiStep
    <3>1. SiGoes("stat", siWorker.todo, i)
      BY <2>3 DEF SiGoes, SiSets, SiWorker, SiPC, Si!M, Si!I
    <3>2. SiLanding("stat", siWorker.todo, i)
      BY <1>6, <2>1 DEF SiLanding, SiAtItem, Si!NextItem, Si!At, SiHeld
    <3> QED
      BY <1>0, <1>c, SiGoesOn, <2>1, <3>1, <3>2
  <2> QED
    BY <1>6, <2>2, <2>3 DEF Si!NextItem
\* An item is done: its object is there, or it was a URL that may be passed over.
<1>7. ASSUME siWorker.pc \in SiAtItem, Si!ItemDone, UNCHANGED siImp, Si!Quiet,
             siBucket' \in [Key -> {"none", "old", "src"}], siTemp' \in [Si!Id -> SUBSET Item],
             \A k \in Key : siBucket[k] # "none" => siBucket'[k] # "none",
             siProject # "noBucket" /\ (Si!Source # "URL" \/ Si!Strategy = "ERROR") => siBucket'[Si!K] # "none"
      PROVE  SiStep
  <2>1. SiGoes("check", siWorker.todo \ {Si!I}, None)
    BY <1>7, SiDoneStep
  <2>2. ASSUME siProject # "noBucket", Si!Source # "URL" \/ Si!Strategy = "ERROR", NEW i \in Item \ (siWorker.todo \ {Si!I})
        PROVE  siBucket'[KeyOf[i]] # "none"
    <3>1. CASE i = Si!I
      BY <1>7, <2>2, <3>1 DEF Si!K
    <3>2. CASE i \notin siWorker.todo
      BY <1>7, <2>2, <3>2, SiKeys DEF SiHeld
    <3> QED
      BY <3>1, <3>2
  <2>3. SiLanding("check", siWorker.todo \ {Si!I}, None)
    BY <2>2 DEF SiLanding, SiAtItem
  <2> QED
    BY <1>0, <1>7, SiGoesOn, <2>1, <2>3
<1>8. CASE Si!Stat
  <2>1. UNCHANGED <<siBucket, siTemp, siImp>> /\ Si!Quiet /\ siWorker.pc = "stat"
    BY <1>8 DEF Si!Stat, Si!Reads, Si!At
  <2>2. CASE Si!ItemDone /\ siProject # "noBucket" /\ siBucket[Si!K] # "none"
    BY <1>7, <1>c, <2>1, <2>2 DEF SiAtItem
  <2>3. CASE Si!Goto("error")
    <3>1. SiGoes("error", siWorker.todo, Si!I)
      BY <2>3, SiGotoStep DEF SiPC
    <3>2. SiLanding("error", siWorker.todo, Si!I)
      BY <1>b, <2>1 DEF SiLanding, SiAtItem, SiHeld
    <3> QED
      BY <1>0, <1>c, SiGoesOn, <2>1, <3>1, <3>2
  <2>4. ASSUME NEW exists \in {Si!Present, FALSE}, ~exists \/ Si!Strategy = "OVERWRITE",
               siWorker' = [siWorker EXCEPT !.pc = "put", !.unseen = Si!Present /\ ~exists]
        PROVE  SiStep
    <3>1. Si!Present \in BOOLEAN
      BY DEF Si!Present
    <3>2. SiGoes("put", siWorker.todo, Si!I) /\ siWorker'.unseen = (Si!Present /\ ~exists)
      BY <2>4, <3>1 DEF SiGoes, SiSets, SiWorker, SiPC, Si!M, Si!I
    <3>3. siProject # "noBucket" => Si!Strategy = "OVERWRITE" \/ siWorker'.unseen \/ siBucket'[Si!K] # "old"
      BY <2>1, <2>4, <3>2 DEF Si!Present
    <3>4. SiLanding("put", siWorker.todo, Si!I)
      BY <1>b, <2>1, <3>3 DEF SiLanding, SiAtItem, SiHeld, Si!K
    <3> QED
      BY <1>0, <1>c, SiGoesOn, <2>1, <3>2, <3>4
  <2>5. Si!Strategy \in {"SKIP", "OVERWRITE", "ERROR"}
    BY <1>a DEF SiSets, Si!Row, Si!Strategy
  <2>6. PICK exists \in {Si!Present, FALSE} :
          CASE exists /\ Si!Strategy = "SKIP" -> Si!ItemDone
            [] exists /\ Si!Strategy = "ERROR" -> Si!Goto("error")
            [] OTHER -> siWorker' = [siWorker EXCEPT !.pc = "put", !.unseen = Si!Present /\ ~exists]
    BY <1>8 DEF Si!Stat
  <2>7. CASE exists /\ Si!Strategy = "SKIP"
    BY <2>2, <2>6, <2>7 DEF Si!Present
  <2>8. CASE exists /\ Si!Strategy = "ERROR"
    BY <2>3, <2>6, <2>8
  <2>9. CASE ~exists \/ Si!Strategy = "OVERWRITE"
    BY <2>4, <2>6, <2>9
  <2> QED
    BY <2>5, <2>7, <2>8, <2>9
<1>9. CASE Si!Put
  <2>1. UNCHANGED <<siTemp, siImp>> /\ Si!Quiet /\ siWorker.pc = "put"
    BY <1>9 DEF Si!Put, Si!At
  <2>2. CASE Si!Goto("error") /\ UNCHANGED siBucket
    <3>1. SiGoes("error", siWorker.todo, Si!I)
      BY <2>2, SiGotoStep DEF SiPC
    <3>2. SiLanding("error", siWorker.todo, Si!I)
      BY <1>b, <2>1, <2>2 DEF SiLanding, SiAtItem, SiHeld
    <3> QED
      BY <1>0, <1>c, SiGoesOn, <2>1, <2>2, <3>1, <3>2
  <2>3. ASSUME siBucket' = [siBucket EXCEPT ![Si!K] = "src"], Si!Goto("unlink") \/ Si!ItemDone  PROVE SiStep
    <3>1. /\ siBucket' \in [Key -> {"none", "old", "src"}] /\ siBucket'[Si!K] = "src"
          /\ \A k \in Key : siBucket[k] # "none" => siBucket'[k] # "none"
      BY <1>b, <1>c, <2>1, <2>3 DEF SiAtItem
    <3>2. CASE Si!ItemDone
      BY <1>7, <1>c, <2>1, <3>1, <3>2 DEF SiAtItem
    <3>3. CASE Si!Goto("unlink")
      <4>1. SiGoes("unlink", siWorker.todo, Si!I)
        BY <3>3, SiGotoStep DEF SiPC
      <4>2. SiLanding("unlink", siWorker.todo, Si!I)
        BY <1>b, <2>1, <3>1, SiKeys DEF SiLanding, SiAtItem, SiHeld, Si!K
      <4> QED
        BY <1>0, <1>c, SiGoesOn, <2>1, <3>1, <4>1, <4>2
    <3> QED
      BY <2>3, <3>2, <3>3
  <2> QED
    BY <1>9, <2>2, <2>3 DEF Si!Put
<1>10. CASE Si!Unlink
  <2>1. siWorker.pc = "unlink" /\ Si!ItemDone /\ UNCHANGED <<siBucket, siImp>> /\ Si!Quiet
    BY <1>10 DEF Si!Unlink, Si!At
  <2>2. siTemp' \in [Si!Id -> SUBSET Item]
    BY <1>10, <1>c DEF Si!Unlink
  <2> QED
    BY <1>7, <1>c, <2>1, <2>2 DEF SiAtItem, SiHeld, Si!At
<1>11. CASE Si!ItemFails
  <2>1. UNCHANGED <<siBucket, siTemp, siImp>> /\ Si!Quiet /\ siWorker.pc = "error"
    BY <1>11 DEF Si!ItemFails, Si!Reads, Si!At
  <2>2. CASE Si!ItemDone /\ Si!Source = "URL" /\ Si!Strategy # "ERROR"
    BY <1>7, <1>c, <2>1, <2>2 DEF SiAtItem
  <2>3. CASE Si!Goto("catch")
    <3>1. SiGoes("catch", siWorker.todo, Si!I) /\ SiLanding("catch", siWorker.todo, Si!I)
      BY <2>3, SiGotoStep DEF SiLanding, SiAtItem, SiPC
    <3> QED
      BY <1>0, <1>c, SiGoesOn, <2>1, <3>1
  <2> QED
    BY <1>11, <2>2, <2>3 DEF Si!ItemFails
<1>12. CASE Si!WriteCounts
  <2>1. siWorker.pc = "check" /\ siWorker.todo = {} /\ UNCHANGED <<siBucket, siImp>> /\ Si!Quiet
    BY <1>12 DEF Si!WriteCounts, Si!At
  <2>2. siTemp' \in [Si!Id -> SUBSET Item]
    BY <1>12, <1>c DEF Si!WriteCounts
  <2>3. PICK place \in {"complete", "catch"} : Si!Goto(place)
    BY <1>12 DEF Si!WriteCounts
  <2>4. SiGoes(place, siWorker.todo, Si!I)
    BY <2>3, SiGotoStep DEF SiPC
  <2>5. SiLanding(place, siWorker.todo, Si!I)
    BY <2>1 DEF SiLanding, SiAtItem, SiHeld
  <2> QED
    BY <1>0, <1>c, SiGoesOn, <2>1, <2>2, <2>4, <2>5
<1> QED
  BY <1>3, <1>4, <1>5, <1>6, <1>8, <1>9, <1>10, <1>11, <1>12 DEF SiRunning, Si!WorkerStep

----------------------------------------------------------------------------
(* The queue and the environment.                                          *)

\* ... and so it does when it takes a job,
LEMMA SiTakeKeeps ==
  ASSUME SiInv, Si!Take
  PROVE  SiInv'
<1> USE DEF SiInv, Si!jobs
<1> DEFINE m == Head(siQueue)
<1>1. siQueue \in Seq(Si!Id) /\ siQueue # <<>> /\ siQueue' = Tail(siQueue) /\ siWorker.pc = "idle"
      /\ UNCHANGED <<siProject, siBucket, siTemp, siImp, siStalls, siReq>>
  BY DEF Si!Take, SiSets, Si!At
<1>2. m \in Si!Id /\ siJob[m] # "none" /\ siQueue' \in Seq(Si!Id)
  BY <1>1, HeadTailProperties DEF SiRows
<1>3. /\ siJob' \in [Si!Id -> SiJob] /\ \A k \in Si!Id : k # m => siJob'[k] = siJob[k]
      /\ \/ siJob'[m] = "done" /\ UNCHANGED siWorker
         \/ siJob'[m] = "active" /\ siWorker' = [Si!Idle EXCEPT !.pc = "run", !.m = m]
  BY <1>2 DEF Si!Take, SiSets, SiJob
<1>4. \A k \in 1..Len(siQueue') : siJob'[siQueue'[k]] # "none"
  <2>1. /\ Len(Tail(siQueue)) = Len(siQueue) - 1
        /\ \A k \in 1..Len(Tail(siQueue)) : Tail(siQueue)[k] = siQueue[k + 1]
    BY <1>1, HeadTailProperties
  <2>2. Len(siQueue) \in Nat
    BY <1>1, LenProperties
  <2> SUFFICES ASSUME NEW k \in 1..Len(siQueue')  PROVE siJob'[siQueue'[k]] # "none"
    OBVIOUS
  <2>3. k + 1 \in 1..Len(siQueue) /\ siQueue'[k] = siQueue[k + 1]
    BY <1>1, <2>1, <2>2
  <2>4. siQueue[k + 1] \in Si!Id /\ siJob[siQueue[k + 1]] # "none"
    BY <1>1, <2>3, ElementOfSeq DEF SiRows
  <2> QED
    BY <1>3, <2>3, <2>4
<1> HIDE DEF m
<1>5. \A k \in Si!Id : siJob'[k] = "none" <=> siJob[k] = "none"
  BY <1>2, <1>3
<1>6. SiRows'
  BY <1>1, <1>4, <1>5 DEF SiRows, SiAdds, SiOwnRow, Si!Exists
<1>7. CASE siJob'[m] = "done" /\ UNCHANGED siWorker
  BY <1>1, <1>2, <1>3, <1>6, <1>7 DEF SiSets, SiAtJob, SiHeld, SiAtItem, Si!At
<1>8. CASE siJob'[m] = "active" /\ siWorker' = [Si!Idle EXCEPT !.pc = "run", !.m = m]
  <2>1. siWorker' \in SiWorker /\ siWorker'.pc = "run" /\ siWorker'.m = m
    BY <1>2, <1>8 DEF Si!Idle, SiWorker, SiPC
  <2> QED
    BY <1>1, <1>2, <1>3, <1>6, <1>8, <2>1 DEF SiSets, SiAtJob, SiHeld, SiAtItem, Si!At, Si!M
<1> QED
  BY <1>3, <1>7, <1>8

\* when it settles one,
LEMMA SiSettleKeeps ==
  ASSUME SiInv, Si!Settle
  PROVE  SiInv'
<1> USE DEF SiInv
<1>1. UNCHANGED <<siProject, siBucket, siTemp, siImp, siStalls, siQueue, siReq>>
  BY DEF Si!Settle
<1>2. Si!M \in Si!Id /\ siJob[Si!M] = "active"
  BY DEF Si!Settle, SiAtJob, Si!At
<1>3. /\ siJob' \in [Si!Id -> SiJob] /\ siJob'[Si!M] # "none" /\ \A k \in Si!Id : k # Si!M => siJob'[k] = siJob[k]
      /\ siWorker' \in SiWorker /\ siWorker'.pc = "idle"
  BY <1>2, SiBlanks DEF Si!Settle, SiSets, SiJob
<1>4. \A k \in Si!Id : siJob'[k] = "none" <=> siJob[k] = "none"
  BY <1>2, <1>3
<1>5. \A k \in 1..Len(siQueue') : siJob'[siQueue'[k]] # "none"
  BY <1>1, <1>4, ElementOfSeq DEF SiRows, SiSets
<1>6. SiRows'
  BY <1>1, <1>4, <1>5 DEF SiRows, SiAdds, SiOwnRow, Si!Exists
<1> QED
  BY <1>1, <1>3, <1>6 DEF SiSets, SiAtJob, SiHeld, SiAtItem, Si!At

\* when a stalled one comes again,
LEMMA SiRedeliverKeeps ==
  ASSUME SiInv, NEW m \in Si!Id, Si!Redeliver(m)
  PROVE  SiInv'
<1> USE DEF SiInv
<1>1. UNCHANGED <<siProject, siBucket, siTemp, siImp, siWorker, siReq>> /\ siJob[m] = "stalled"
  BY DEF Si!Redeliver
<1>2. /\ \A k \in Si!Id : k # m => siJob'[k] = siJob[k]
      /\ siJob'[m] \in {"waiting", "failed"}
      /\ siQueue' = siQueue \/ siQueue' = <<m>> \o siQueue
      /\ siJob' \in [Si!Id -> SiJob] /\ siStalls' \in [Si!Id -> 0..1]
  <2>1. siJob' = [siJob EXCEPT ![m] = "waiting"] \/ siJob' = [siJob EXCEPT ![m] = "failed"]
    BY DEF Si!Redeliver
  <2>2. siStalls' = siStalls \/ siStalls' = [siStalls EXCEPT ![m] = 1]
    BY DEF Si!Redeliver
  <2>3. siQueue' = siQueue \/ siQueue' = <<m>> \o siQueue
    BY DEF Si!Redeliver
  <2> QED
    BY <2>1, <2>2, <2>3 DEF SiSets, SiJob
<1>3. \A k \in Si!Id : siJob'[k] = "none" <=> siJob[k] = "none"
  BY <1>1, <1>2
<1>4. siQueue' \in Seq(Si!Id) /\ \A k \in 1..Len(siQueue') : siJob'[siQueue'[k]] # "none"
  <2>1. CASE siQueue' = siQueue
    BY <1>3, <2>1, ElementOfSeq DEF SiRows, SiSets
  <2>2. CASE siQueue' = <<m>> \o siQueue
    <3>1. <<m>> \in Seq(Si!Id) /\ Len(<<m>>) = 1 /\ <<m>>[1] = m /\ siQueue \in Seq(Si!Id)
      BY DEF SiSets
    <3>2. /\ siQueue' \in Seq(Si!Id) /\ Len(siQueue') = 1 + Len(siQueue)
          /\ \A k \in 1..1 + Len(siQueue) : siQueue'[k] = IF k <= 1 THEN <<m>>[k] ELSE siQueue[k - 1]
      BY <2>2, <3>1, ConcatProperties
    <3>3. Len(siQueue) \in Nat
      BY <3>1, LenProperties
    <3> SUFFICES ASSUME NEW k \in 1..Len(siQueue')  PROVE siJob'[siQueue'[k]] # "none"
      BY <3>2
    <3>4. CASE k = 1
      BY <1>2, <3>1, <3>2, <3>4
    <3>5. CASE k # 1
      <4>1. k - 1 \in 1..Len(siQueue) /\ siQueue'[k] = siQueue[k - 1]
        BY <3>2, <3>3, <3>5
      <4> QED
        BY <1>3, <3>1, <4>1, ElementOfSeq DEF SiRows
    <3> QED
      BY <3>4, <3>5
  <2> QED
    BY <1>2, <2>1, <2>2
<1>5. SiRows'
  BY <1>1, <1>3, <1>4 DEF SiRows, SiAdds, SiOwnRow, Si!Exists
<1>6. ~Si!At("idle") => Si!M # m
  BY <1>1 DEF SiAtJob
<1> QED
  BY <1>1, <1>2, <1>4, <1>5, <1>6 DEF SiSets, SiAtJob, SiHeld, SiAtItem, Si!At, Si!M, Si!I, Si!K, Si!Source, Si!Strategy

\* and in every fault, sweep and request of others.
LEMMA SiEnvironmentKeeps ==
  ASSUME Si!StorageImportAssumption, SiInv, Si!Environment
  PROVE  SiInv'
<1> USE DEF SiInv, Si!jobs
<1>1. CASE Si!Crash
  <2>1. /\ siWorker' \in SiWorker /\ siWorker'.pc = "idle"
        /\ siReq' \in [Importers -> SiRequest] /\ \A h \in Importers : siReq'[h].pc = "idle"
    BY <1>1, SiBlanks DEF Si!Crash
  <2>2. UNCHANGED <<siProject, siBucket, siTemp, siImp, siStalls, siQueue>>
    BY <1>1 DEF Si!Crash
  <2>a. siJob' = siJob \/ (Si!M \in Si!Id /\ siJob[Si!M] = "active" /\ siJob' = [siJob EXCEPT ![Si!M] = "stalled"])
    BY <1>1 DEF Si!Crash, SiAtJob
  <2>3. siJob' \in [Si!Id -> SiJob] /\ \A k \in Si!Id : siJob'[k] = "none" <=> siJob[k] = "none"
    BY <2>a DEF SiSets, SiJob
  <2>4. \A k \in 1..Len(siQueue') : siJob'[siQueue'[k]] # "none"
    BY <2>2, <2>3, ElementOfSeq DEF SiRows, SiSets
  <2>5. SiRows'
    BY <2>1, <2>2, <2>3, <2>4 DEF SiRows, SiAdds
  <2> QED
    BY <2>1, <2>2, <2>3, <2>5 DEF SiSets, SiAtJob, SiHeld, SiAtItem, Si!At
<1>2. CASE Si!CleanTempFiles
  <2>1. UNCHANGED <<siProject, siBucket, siImp, siJob, siStalls, siQueue, siWorker, siReq>>
    BY <1>2 DEF Si!CleanTempFiles
  <2>2. siTemp' \in [Si!Id -> SUBSET Item]
    BY <1>2 DEF Si!CleanTempFiles, SiSets
  <2> QED
    BY <2>1, <2>2 DEF SiSets, SiRows, SiAdds, SiOwnRow, SiAtJob, SiHeld, SiAtItem, Si!At, Si!M, Si!I, Si!K, Si!Source,
       Si!Strategy, Si!Exists
<1>3. CASE Si!Deprovision
  <2>1. siProject # "deleted" /\ siProject' = "noBucket" /\ UNCHANGED <<siTemp, siImp, siJob, siStalls, siQueue, siWorker, siReq>>
    BY <1>3 DEF Si!Deprovision
  <2>2. siBucket' \in [Key -> {"none", "old", "src"}]
    BY <1>3 DEF Si!Deprovision
  <2>3. SiRows'
    BY <2>1 DEF SiRows, SiAdds, SiOwnRow, Si!Exists
  <2> QED
    BY <2>1, <2>2, <2>3 DEF SiSets, SiAtJob, SiHeld, SiAtItem, Si!At, Si!M, Si!I
<1>4. CASE Si!DeleteProject
  <2>1. siProject = "present" /\ siProject' = "deleted" /\ UNCHANGED <<siBucket, siTemp, siJob, siStalls, siQueue, siWorker, siReq>>
    BY <1>4 DEF Si!DeleteProject
  <2>2. /\ siImp' \in [Si!Id -> Si!Row]
        /\ \A m \in Si!Id : siImp'[m].source = siImp[m].source /\ siImp'[m].strategy = siImp[m].strategy
    BY <1>4 DEF Si!DeleteProject, SiSets, Si!Row
  <2>3. SiRows'
    BY <2>1 DEF SiRows, SiAdds, SiOwnRow
  <2>4. ~Si!At("idle") => Si!M \in Si!Id
    BY DEF SiAtJob
  <2> QED
    BY <2>1, <2>2, <2>3, <2>4 DEF SiSets, SiAtJob, SiHeld, SiAtItem, Si!At, Si!M, Si!I, Si!K, Si!Source, Si!Strategy
<1>5. ASSUME NEW k \in Key, Si!Upload(k)  PROVE SiInv'
  <2>1. /\ siProject # "noBucket" /\ siBucket' = [siBucket EXCEPT ![k] = "old"]
        /\ siWorker' = [siWorker EXCEPT !.unseen = @ \/ (Si!At("put") /\ Si!K = k)]
        /\ UNCHANGED <<siProject, siTemp, siImp, siJob, siStalls, siQueue, siReq>>
    BY <1>5 DEF Si!Upload
  <2>2. /\ siBucket' \in [Key -> {"none", "old", "src"}]
        /\ \A l \in Key : siBucket'[l] = IF l = k THEN "old" ELSE siBucket[l]
    BY <2>1 DEF SiSets
  <2>3. /\ siWorker' \in SiWorker /\ siWorker'.pc = siWorker.pc /\ siWorker'.m = Si!M
        /\ siWorker'.todo = siWorker.todo /\ siWorker'.item = Si!I
        /\ siWorker.unseen => siWorker'.unseen
        /\ Si!At("put") /\ Si!K = k => siWorker'.unseen
    <3> DEFINE u == siWorker.unseen \/ (Si!At("put") /\ Si!K = k)
    <3>1. u \in BOOLEAN /\ siWorker' = [siWorker EXCEPT !.unseen = u]
      BY <2>1 DEF SiSets, SiWorker
    <3>2. (siWorker.unseen => u) /\ (Si!At("put") /\ Si!K = k => u)
      OBVIOUS
    <3> HIDE DEF u
    <3>3. /\ siWorker' \in SiWorker /\ siWorker'.pc = siWorker.pc /\ siWorker'.m = Si!M
          /\ siWorker'.todo = siWorker.todo /\ siWorker'.item = Si!I /\ siWorker'.unseen = u
      BY <3>1 DEF SiSets, SiWorker, Si!M, Si!I
    <3> QED
      BY <3>2, <3>3
  <2>4. SiRows'
    BY <2>1 DEF SiRows, SiAdds, SiOwnRow, Si!Exists
  <2>5. siWorker.pc \in SiAtItem => Si!I \in Item /\ Si!K \in Key
    <3>1. ~Si!At("idle") => siWorker.todo \subseteq Item
      BY DEF SiSets, SiWorker
    <3> QED
      BY <3>1, SiKeys DEF SiAtJob, SiAtItem, Si!At, Si!K
  <2>6. SiAtJob'
    <3>1. Si!At("put") => Si!Strategy = "OVERWRITE" \/ siWorker'.unseen \/ siBucket'[Si!K] # "old"
      BY <2>1, <2>2, <2>3, <2>5 DEF SiAtJob, SiAtItem, Si!At
    <3> QED
      BY <2>1, <2>3, <3>1 DEF SiAtJob, Si!At, Si!M, Si!I, Si!K, Si!Strategy
  <2>7. SiHeld'
    <3>1. \A l \in Key : siBucket[l] # "none" => siBucket'[l] # "none"
      BY <2>2
    <3>2. Si!At("unlink") => siBucket'[Si!K] # "none"
      BY <2>1, <2>5, <3>1 DEF SiHeld, SiAtItem, Si!At
    <3>3. siWorker.pc \in SiAtItem \cup {"check", "complete"}
            /\ (Si!Source # "URL" \/ Si!Strategy = "ERROR") =>
          \A i \in Item \ siWorker.todo : siBucket'[KeyOf[i]] # "none"
      BY <2>1, <3>1, SiKeys DEF SiHeld
    <3> QED
      BY <2>1, <2>3, <3>2, <3>3 DEF SiHeld, Si!At, Si!M, Si!I, Si!K, Si!Source, Si!Strategy
  <2> QED
    BY <2>1, <2>2, <2>3, <2>4, <2>6, <2>7 DEF SiSets
<1> QED
  BY <1>1, <1>2, <1>3, <1>4, <1>5, SiRedeliverKeeps DEF Si!Environment

\* The invariant holds at the start ...
LEMMA SiStart == Si!StorageImportAssumption /\ Si!Init => SiInv
<1> SUFFICES ASSUME Si!StorageImportAssumption, Si!Init  PROVE SiInv
  OBVIOUS
<1>1. /\ siBucket \in [Key -> {"none", "old", "src"}] /\ siTemp \in [Si!Id -> SUBSET Item]
      /\ siJob \in [Si!Id -> SiJob] /\ siStalls \in [Si!Id -> 0..1] /\ siQueue \in Seq(Si!Id)
  BY DEF Si!Init, SiJob
<1>2. siImp \in [Si!Id -> Si!Row] /\ siWorker \in SiWorker /\ siWorker.pc = "idle"
      /\ siReq \in [Importers -> SiRequest] /\ \A h \in Importers : siReq[h].pc = "idle"
  BY SiBlanks DEF Si!Init
<1>3. SiSets
  BY <1>1, <1>2 DEF Si!Init, SiSets
<1>4. Len(siQueue) = 0
  BY DEF Si!Init
<1> QED
  BY <1>2, <1>3, <1>4 DEF SiInv, SiRows, SiAdds, SiAtJob, SiHeld, SiAtItem, Si!At

\* ... and is kept by every step.
LEMMA SiSteps == Si!StorageImportAssumption /\ SiInv /\ [Si!Next]_(Si!vars) => SiInv'
<1> SUFFICES ASSUME Si!StorageImportAssumption, SiInv, [Si!Next]_(Si!vars)  PROVE SiInv'
  OBVIOUS
<1>1. CASE Si!HandlerStep
  BY <1>1, SiHandlersKeep, SiBesideKeeps DEF SiInv
<1>2. CASE Si!WorkerStep
  BY <1>2, SiTakeKeeps, SiSettleKeeps, SiProcess DEF SiRunning
<1>3. CASE Si!Environment
  BY <1>3, SiEnvironmentKeeps
<1>4. CASE UNCHANGED Si!vars
  BY <1>4 DEF Si!vars, Si!jobs, SiInv, SiSets, SiRows, SiAdds, SiOwnRow, SiAtJob, SiHeld, SiAtItem, Si!At, Si!M, Si!I, Si!K,
     Si!Source, Si!Strategy, Si!Exists
<1> QED
  BY <1>1, <1>2, <1>3, <1>4 DEF Si!Next

----------------------------------------------------------------------------
(* What an end may say, and what may be replaced.                          *)

\* A write of one row's status.
LEMMA SiStatusOnly ==
  ASSUME SiSets, NEW m \in Si!Id, NEW n \in Si!Id, NEW s, siImp' = [siImp EXCEPT ![n].status = s]
  PROVE  /\ m # n => siImp'[m] = siImp[m]
         /\ siImp'[n].status = s
BY DEF SiSets, Si!Row

\* Only the worker completes an import, and only at the end.
LEMMA SiCompletes ==
  ASSUME Si!StorageImportAssumption, SiInv, [Si!Next]_(Si!vars), NEW m \in Si!Id, Si!Completes(m)
  PROVE  m = Si!M /\ Si!At("complete")
<1> USE DEF SiInv
<1>0. siImp \in [Si!Id -> Si!Row] /\ siImp[m].status # "COMPLETED" /\ siImp'[m].status = "COMPLETED"
  BY DEF SiSets, Si!Completes
<1>1. ASSUME NEW h \in Importers, Si!CreateRow(h)  PROVE FALSE
  <2>1. PICK n \in Si!Id : siImp' = [siImp EXCEPT ![n] = siReq[h].new]
    BY <1>0, <1>1 DEF Si!CreateRow
  <2>2. siReq[h].new.status = "PENDING"
    BY <1>1 DEF Si!CreateRow, SiRows
  <2> QED
    BY <1>0, <2>1, <2>2
<1>2. ASSUME NEW h \in Importers, Si!WriteCancelled(h)  PROVE FALSE
  <2>1. siReq[h].m \in Si!Id
    BY <1>2 DEF Si!WriteCancelled, SiRows
  <2>2. siImp' = [siImp EXCEPT ![siReq[h].m].status = "CANCELLED"]
    BY <1>0, <1>2 DEF Si!WriteCancelled
  <2> QED
    BY <1>0, <2>1, <2>2, SiStatusOnly
<1>3. ~Si!DeleteProject
  BY <1>0 DEF Si!DeleteProject, Si!Row
<1>4. ~UNCHANGED siImp
  BY <1>0
<1>5. Si!Run \/ Si!Complete \/ Si!Catch
  BY <1>1, <1>2, <1>3, <1>4 DEF Si!Next, Si!vars, Si!HandlerStep, Si!Create, Si!Enqueue, Si!Cancel, Si!Environment, Si!Crash,
     Si!CleanTempFiles, Si!Deprovision, Si!Upload, Si!Redeliver, Si!WorkerStep, Si!Take, Si!GetService, Si!List, Si!NextItem, Si!Stat, Si!Put,
     Si!Unlink, Si!ItemFails, Si!WriteCounts, Si!Settle, Si!Reads
<1>6. Si!M \in Si!Id
  BY <1>5 DEF Si!Run, Si!Complete, Si!Catch, Si!At, SiAtJob
<1>7. ASSUME NEW s, NEW next, NEW gone, Si!SetStatus(s, next, gone)  PROVE m = Si!M /\ s = "COMPLETED"
  <2>1. siImp' = [siImp EXCEPT ![Si!M].status = s]
    BY <1>4, <1>7 DEF Si!SetStatus
  <2> QED
    BY <1>0, <1>6, <2>1, SiStatusOnly
<1> QED
  BY <1>5, <1>7 DEF Si!Run, Si!Complete, Si!Catch

\* An import becomes COMPLETED only with its items in the bucket.
LEMMA SiCompletesWhole ==
  ASSUME Si!StorageImportAssumption, SiInv, [Si!Next]_(Si!vars), NEW m \in Si!Id, Si!Completes(m), siProject # "noBucket",
         siImp[m].source # "URL" \/ siImp[m].strategy = "ERROR"
  PROVE  \A i \in Item : siBucket[KeyOf[i]] # "none"
<1>1. m = Si!M /\ Si!At("complete")
  BY SiCompletes
<1>2. siWorker.todo = {}
  BY <1>1 DEF SiInv, SiAtJob
<1> QED
  BY <1>1, <1>2 DEF SiInv, SiHeld, Si!At, Si!Source, Si!Strategy

\* An object that was there before is replaced only by an import that overwrites,
\* or that has not seen it.
LEMMA SiReplaces ==
  ASSUME Si!StorageImportAssumption, SiInv, [Si!Next]_(Si!vars), NEW k \in Key, siBucket[k] = "old", siBucket'[k] = "src"
  PROVE  Si!Strategy = "OVERWRITE" \/ siWorker.unseen
<1>1. ~UNCHANGED siBucket /\ ~Si!Deprovision /\ ~\E l \in Key : Si!Upload(l)
  <2>1. \A l \in Key : ~Si!Upload(l)
    BY DEF Si!Upload, SiInv, SiSets
  <2> QED
    BY <2>1 DEF Si!Deprovision
<1>2. Si!Put
  BY <1>1 DEF Si!Next, Si!vars, Si!HandlerStep, Si!Create, Si!CreateRow, Si!Enqueue, Si!Cancel, Si!WriteCancelled, Si!Environment, Si!Crash,
     Si!CleanTempFiles, Si!DeleteProject, Si!Redeliver, Si!WorkerStep, Si!Take, Si!Run, Si!GetService, Si!List, Si!NextItem, Si!Stat,
     Si!Unlink, Si!ItemFails, Si!WriteCounts, Si!Complete, Si!Catch, Si!Settle, Si!SetStatus, Si!Reads
<1>3. siProject # "noBucket" /\ siBucket' = [siBucket EXCEPT ![Si!K] = "src"] /\ Si!At("put")
  BY <1>1, <1>2 DEF Si!Put
<1>4. k = Si!K
  BY <1>3 DEF SiInv, SiSets
<1> QED
  BY <1>3, <1>4 DEF SiInv, SiAtJob

----------------------------------------------------------------------------
(* The page that follows a job.                                            *)

(***************************************************************************)
(* The bound on polls counts the answers of every age.                     *)
(***************************************************************************)
LvPolls == lvAnswers \in [Lv!Status -> Nat] /\ Lv!Outstanding <= MaxPolls
LvWire == lvSocket \in [up : BOOLEAN, joined : BOOLEAN] /\ lvRequests \in {0, 1} /\ lvDrops \in 0..MaxDrops
LvPage == /\ lvTimer \in BOOLEAN /\ lvMounted \in BOOLEAN /\ lvNotified \in BOOLEAN
          /\ lvShown \in Lv!Status \cup {""} /\ lvHook \in Lv!AllHooks
LvServer == lvRestarts \in 0..MaxRestarts /\ lvRow \in Lv!Status /\ lvToEmit \in Seq(Lv!Status) /\ lvMessages \in Seq(Lv!Status)

LvSets == LvPolls /\ LvWire /\ LvPage /\ LvServer

(***************************************************************************)
(* Before the row has said DONE, nothing under way does: no status to      *)
(* emit, no message, no answer.                                            *)
(***************************************************************************)
LvEnded == lvRow = "DONE" \/ lvRestarts > 0

LvUnderWay ==
  ~LvEnded =>
    /\ lvToEmit \in Seq({"PENDING", "RUNNING"}) /\ lvMessages \in Seq({"PENDING", "RUNNING"})
    /\ lvAnswers["DONE"] = 0

LvInv == LvSets /\ LvUnderWay /\ Lv!WatchedToTheEnd

\* The named sets and bounds give TypeOK: the answers of one age are at most all of them.
LEMMA LvTypes == Lv!LiveViewAssumption /\ LvSets => Lv!TypeOK
<1> SUFFICES ASSUME Lv!LiveViewAssumption, LvSets  PROVE Lv!TypeOK
  OBVIOUS
<1>1. lvAnswers["PENDING"] \in Nat /\ lvAnswers["RUNNING"] \in Nat /\ lvAnswers["DONE"] \in Nat /\ MaxPolls \in Nat
  BY DEF LvSets, LvPolls, Lv!Status, Lv!LiveViewAssumption
<1>2. lvAnswers["PENDING"] + lvAnswers["RUNNING"] + lvAnswers["DONE"] <= MaxPolls
  BY DEF LvSets, LvPolls, Lv!Outstanding
<1>3. lvAnswers["PENDING"] <= MaxPolls /\ lvAnswers["RUNNING"] <= MaxPolls /\ lvAnswers["DONE"] <= MaxPolls
  BY <1>1, <1>2
<1>4. lvAnswers \in [Lv!Status -> 0..MaxPolls]
  <2>1. \A s \in Lv!Status : lvAnswers[s] \in 0..MaxPolls
    BY <1>1, <1>3 DEF Lv!Status
  <2> QED
    BY <2>1 DEF LvSets, LvPolls
<1>5. lvRequests \in 0..(MaxDrops + 1)
  <2>1. MaxDrops \in Nat /\ lvRequests \in {0, 1}
    BY DEF LvSets, LvWire, Lv!LiveViewAssumption
  <2> QED
    BY <2>1
<1> QED
  BY <1>4, <1>5 DEF LvSets, LvWire, LvPage, LvServer, Lv!TypeOK

\* Taking the oldest of a queue, and adding to it.
LEMMA LvQueues ==
  ASSUME NEW S, NEW q \in Seq(S)
  PROVE  /\ q # <<>> => Head(q) \in S /\ Tail(q) \in Seq(S)
         /\ \A s \in S : Append(q, s) \in Seq(S)
BY HeadTailProperties, AppendProperties

\* The invariant holds at the start ...
LEMMA LvStart == Lv!LiveViewAssumption /\ Lv!Init => LvInv
<1> SUFFICES ASSUME Lv!LiveViewAssumption, Lv!Init  PROVE LvInv
  OBVIOUS
<1>1. lvHook \in Lv!AllHooks /\ lvRow \in Lv!Status /\ MaxPolls \in Nat /\ MaxPolls # 0
  BY DEF Lv!Init, Lv!LiveViewAssumption
<1>2. lvHook.polls \in BOOLEAN /\ lvHook.first \in BOOLEAN
  <2>1. \/ lvHook = [polls |-> TRUE, first |-> TRUE] \/ lvHook = [polls |-> TRUE, first |-> FALSE]
        \/ lvHook = [polls |-> FALSE, first |-> FALSE]
    BY <1>1 DEF Lv!AllHooks, Lv!MigrationHook, Lv!ImportHook, Lv!StorageImportHook, Lv!DeploymentHook, Lv!TaskRunHook
  <2>2. ASSUME NEW p \in BOOLEAN, NEW f \in BOOLEAN, lvHook = [polls |-> p, first |-> f]
        PROVE  lvHook.polls \in BOOLEAN /\ lvHook.first \in BOOLEAN
    BY <2>2
  <2> QED
    BY <2>1, <2>2
<1>3. /\ lvAnswers \in [Lv!Status -> Nat]
      /\ \A s \in Lv!Status : lvAnswers[s] = IF lvHook.first /\ s = lvRow THEN 1 ELSE 0
  BY DEF Lv!Init
<1>4. Lv!Outstanding <= 1
  BY <1>1, <1>3 DEF Lv!Status, Lv!Outstanding
<1>5. Lv!Outstanding <= MaxPolls
  <2>1. Lv!Outstanding \in Nat
    BY <1>3 DEF Lv!Status, Lv!Outstanding
  <2> QED
    BY <1>1, <1>4, <2>1
<1>6. lvRow # "DONE" => lvAnswers["DONE"] = 0
  BY <1>3 DEF Lv!Status
<1>9. lvRestarts \in 0..MaxRestarts
  <2>1. lvRestarts = 0 /\ MaxRestarts \in Nat
    BY DEF Lv!Init, Lv!LiveViewAssumption
  <2> QED
    BY <2>1
<1>7. <<>> \in Seq(Lv!Status) /\ <<>> \in Seq({"PENDING", "RUNNING"})
  OBVIOUS
<1>8. LvSets
  <2>1. LvPolls
    BY <1>3, <1>5 DEF LvPolls
  <2>2. LvWire
    <3>1. lvDrops \in 0..MaxDrops
      <4>1. lvDrops = 0 /\ MaxDrops \in Nat
        BY DEF Lv!Init, Lv!LiveViewAssumption
      <4> QED
        BY <4>1
    <3> QED
      BY <3>1 DEF Lv!Init, LvWire
  <2>3. LvPage
    BY <1>1, <1>2 DEF Lv!Init, LvPage
  <2>4. LvServer
    BY <1>1, <1>7, <1>9 DEF Lv!Init, LvServer
  <2> QED
    BY <2>1, <2>2, <2>3, <2>4 DEF LvSets
<1> QED
  BY <1>2, <1>6, <1>7, <1>8 DEF Lv!Init, LvInv, LvUnderWay, LvEnded, Lv!WatchedToTheEnd

\* An answer to a poll arrives or is lost.
LEMMA LvAnswered ==
  ASSUME LvSets, Lv!LiveViewAssumption, NEW s \in Lv!Status, lvAnswers[s] > 0,
         lvAnswers' = [lvAnswers EXCEPT ![s] = @ - 1]
  PROVE  /\ lvAnswers' \in [Lv!Status -> Nat] /\ Lv!Outstanding' <= MaxPolls
         /\ lvAnswers["DONE"] = 0 => lvAnswers'["DONE"] = 0
<1>1. lvAnswers \in [Lv!Status -> Nat] /\ MaxPolls \in Nat
  BY DEF LvSets, LvPolls, Lv!LiveViewAssumption
<1>2. lvAnswers[s] - 1 \in Nat /\ lvAnswers[s] - 1 <= lvAnswers[s]
  BY <1>1
<1>3. \A t \in Lv!Status : lvAnswers'[t] \in Nat /\ lvAnswers'[t] <= lvAnswers[t]
  BY <1>1, <1>2
<1>4. lvAnswers' \in [Lv!Status -> Nat]
  BY <1>1, <1>2
<1>5. /\ lvAnswers["PENDING"] \in Nat /\ lvAnswers["RUNNING"] \in Nat /\ lvAnswers["DONE"] \in Nat
      /\ lvAnswers'["PENDING"] \in Nat /\ lvAnswers'["RUNNING"] \in Nat /\ lvAnswers'["DONE"] \in Nat
      /\ lvAnswers'["PENDING"] <= lvAnswers["PENDING"] /\ lvAnswers'["RUNNING"] <= lvAnswers["RUNNING"]
      /\ lvAnswers'["DONE"] <= lvAnswers["DONE"]
  BY <1>1, <1>3 DEF Lv!Status
<1>6. Lv!Outstanding' <= MaxPolls
  <2>1. lvAnswers["PENDING"] + lvAnswers["RUNNING"] + lvAnswers["DONE"] <= MaxPolls
    BY DEF LvSets, LvPolls, Lv!Outstanding
  <2>2. lvAnswers'["PENDING"] + lvAnswers'["RUNNING"] + lvAnswers'["DONE"] <= MaxPolls
    BY <1>1, <1>5, <2>1
  <2> QED
    BY <2>2 DEF Lv!Outstanding
<1> QED
  BY <1>4, <1>5, <1>6

\* ... and is kept by every step.
LEMMA LvSteps == Lv!LiveViewAssumption /\ LvInv /\ [Lv!Next]_(Lv!vars) => LvInv'
<1> SUFFICES ASSUME Lv!LiveViewAssumption, LvInv, [Lv!Next]_(Lv!vars)  PROVE LvInv'
  OBVIOUS
<1> USE DEF LvInv, Lv!server, Lv!page, Lv!wire
<1>1. CASE Lv!Write
  <2>1. /\ lvRow' \in Lv!Status /\ lvRow # "DONE"
        /\ lvToEmit' = Append(lvToEmit, lvRow') \/ (lvRow' = "DONE" /\ lvToEmit' = lvToEmit)
    BY <1>1 DEF Lv!Write, Lv!Status
  <2>2. lvToEmit' \in Seq(Lv!Status) /\ (~LvEnded' => lvToEmit' \in Seq({"PENDING", "RUNNING"}))
    <3>1. UNCHANGED lvRestarts
      BY <1>1 DEF Lv!Write
    <3>2. ~LvEnded' => ~LvEnded /\ lvRow' \in {"PENDING", "RUNNING"}
      BY <2>1, <3>1 DEF LvEnded, Lv!Status
    <3>3. lvToEmit \in Seq(Lv!Status) /\ (~LvEnded => lvToEmit \in Seq({"PENDING", "RUNNING"}))
      BY DEF LvSets, LvServer, LvUnderWay, LvEnded
    <3>4. lvToEmit' \in Seq(Lv!Status)
      BY <2>1, <3>3, LvQueues
    <3>5. ASSUME ~LvEnded'  PROVE lvToEmit' \in Seq({"PENDING", "RUNNING"})
      <4>1. lvToEmit' = Append(lvToEmit, lvRow') /\ lvRow' \in {"PENDING", "RUNNING"} /\ lvToEmit \in Seq({"PENDING", "RUNNING"})
        BY <2>1, <3>2, <3>3, <3>5
      <4> QED
        BY <4>1, LvQueues
    <3> QED
      BY <3>4, <3>5
  <2>3. /\ UNCHANGED <<lvHook, lvTimer, lvMounted, lvShown, lvNotified, lvSocket, lvRequests, lvMessages, lvAnswers, lvDrops>>
        /\ UNCHANGED lvRestarts
    BY <1>1 DEF Lv!Write
  <2> QED
    BY <2>1, <2>2, <2>3 DEF LvSets, LvPolls, LvWire, LvPage, LvServer, LvUnderWay, LvEnded, Lv!WatchedToTheEnd, Lv!Outstanding
<1>0. CASE Lv!Rewrite
  <2>1. /\ lvRow' \in Lv!Status /\ lvToEmit' = Append(lvToEmit, lvRow')
        /\ lvRestarts < MaxRestarts /\ lvRestarts' = lvRestarts + 1
        /\ UNCHANGED <<lvHook, lvTimer, lvMounted, lvShown, lvNotified, lvSocket, lvRequests, lvMessages, lvAnswers, lvDrops>>
    BY <1>0 DEF Lv!Rewrite, Lv!Status
  <2>2. lvToEmit' \in Seq(Lv!Status)
    BY <2>1, LvQueues DEF LvSets, LvServer
  <2>3. lvRestarts' \in 0..MaxRestarts /\ lvRestarts' > 0
    BY <2>1 DEF LvSets, LvServer, Lv!LiveViewAssumption
  <2>4. LvUnderWay'
    BY <2>3 DEF LvUnderWay, LvEnded
  <2>5. Lv!WatchedToTheEnd'
    BY <2>1, <2>3 DEF Lv!WatchedToTheEnd
  <2>6. LvServer'
    BY <2>1, <2>2, <2>3 DEF LvSets, LvServer
  <2> QED
    BY <2>1, <2>4, <2>5, <2>6 DEF LvSets, LvPolls, LvWire, LvPage, Lv!Outstanding
<1>2. CASE Lv!Emit
  <2>1. /\ lvToEmit # <<>> /\ lvToEmit' = Tail(lvToEmit)
        /\ lvMessages' = IF lvSocket.joined THEN Append(lvMessages, Head(lvToEmit)) ELSE lvMessages
        /\ UNCHANGED <<lvHook, lvRow, lvRestarts, lvTimer, lvMounted, lvShown, lvNotified, lvSocket, lvRequests, lvAnswers, lvDrops>>
    BY <1>2 DEF Lv!Emit
  <2>2. lvToEmit' \in Seq(Lv!Status) /\ lvMessages' \in Seq(Lv!Status)
    BY <2>1, LvQueues DEF LvSets, LvServer
  <2>3. ~LvEnded => lvToEmit' \in Seq({"PENDING", "RUNNING"}) /\ lvMessages' \in Seq({"PENDING", "RUNNING"})
    BY <2>1, LvQueues DEF LvUnderWay, LvEnded
  <2> QED
    BY <2>1, <2>2, <2>3 DEF LvSets, LvPolls, LvWire, LvPage, LvServer, LvUnderWay, LvEnded, Lv!WatchedToTheEnd, Lv!Outstanding
<1>3. CASE Lv!Join \/ Lv!Drop \/ Lv!Reconnect
  <2>1. UNCHANGED <<lvHook, lvRow, lvRestarts, lvTimer, lvMounted, lvShown, lvNotified, lvAnswers>>
    BY <1>3 DEF Lv!Join, Lv!Drop, Lv!Reconnect
  <2>2. (lvMessages' = lvMessages \/ lvMessages' = <<>>) /\ (lvToEmit' = lvToEmit \/ lvToEmit' = <<>>)
    BY <1>3 DEF Lv!Join, Lv!Drop, Lv!Reconnect
  <2>3. lvSocket' \in [up : BOOLEAN, joined : BOOLEAN] /\ lvRequests' \in {0, 1}
    <3>1. lvSocket.joined \in BOOLEAN /\ lvSocket.up \in BOOLEAN /\ lvMounted \in BOOLEAN /\ lvRequests \in {0, 1}
          /\ lvSocket \in [up : BOOLEAN, joined : BOOLEAN]
      BY DEF LvSets, LvWire, LvPage
    <3>2. CASE Lv!Join
      <4>1. lvRequests' = lvRequests - 1 /\ lvRequests = 1 /\ lvSocket' = [lvSocket EXCEPT !.joined = lvMounted]
        BY <3>1, <3>2 DEF Lv!Join
      <4>2. lvSocket' \in [up : BOOLEAN, joined : BOOLEAN]
        BY <3>1, <4>1
      <4> QED
        BY <4>1, <4>2
    <3>3. CASE Lv!Drop
      BY <3>3 DEF Lv!Drop
    <3>4. CASE Lv!Reconnect
      <4>1. lvRequests' \in {0, 1} /\ lvSocket' = [lvSocket EXCEPT !.up = TRUE]
        BY <3>4 DEF Lv!Reconnect
      <4> QED
        BY <3>1, <4>1
    <3> QED
      BY <1>3, <3>2, <3>3, <3>4
  <2>4. lvDrops' \in 0..MaxDrops
    <3>1. lvDrops' = lvDrops \/ (lvDrops < MaxDrops /\ lvDrops' = lvDrops + 1)
      BY <1>3 DEF Lv!Join, Lv!Drop, Lv!Reconnect
    <3>2. lvDrops \in 0..MaxDrops /\ MaxDrops \in Nat
      BY DEF LvSets, LvWire, Lv!LiveViewAssumption
    <3> QED
      BY <3>1, <3>2
  <2>5. LvWire' /\ LvPage' /\ LvPolls' /\ Lv!WatchedToTheEnd'
    <3>1. LvWire'
      BY <2>3, <2>4 DEF LvWire
    <3>2. LvPage'
      BY <2>1 DEF LvSets, LvPage
    <3>3. LvPolls' /\ Lv!WatchedToTheEnd'
      BY <2>1 DEF LvSets, LvPolls, Lv!Outstanding, Lv!WatchedToTheEnd
    <3> QED
      BY <3>1, <3>2, <3>3
  <2>6. LvServer' /\ LvUnderWay'
    <3>1. <<>> \in Seq(Lv!Status) /\ <<>> \in Seq({"PENDING", "RUNNING"})
      OBVIOUS
    <3>2. lvToEmit' \in Seq(Lv!Status) /\ (~LvEnded' => lvToEmit' \in Seq({"PENDING", "RUNNING"}))
      BY <2>1, <2>2, <3>1 DEF LvSets, LvServer, LvUnderWay, LvEnded
    <3>3. lvMessages' \in Seq(Lv!Status) /\ (~LvEnded' => lvMessages' \in Seq({"PENDING", "RUNNING"}))
      BY <2>1, <2>2, <3>1 DEF LvSets, LvServer, LvUnderWay, LvEnded
    <3> QED
      BY <2>1, <3>2, <3>3 DEF LvSets, LvServer, LvUnderWay, LvEnded
  <2> QED
    BY <2>5, <2>6 DEF LvSets
\* A status is shown that the row has had.
<1>4. ASSUME NEW s \in Lv!Status, s = "DONE" => LvEnded,
             IF lvMounted THEN Lv!Show(s) ELSE UNCHANGED <<lvTimer, lvShown, lvNotified>>,
             UNCHANGED <<lvHook, lvRow, lvRestarts, lvMounted>>
      PROVE  /\ lvTimer' \in BOOLEAN /\ lvNotified' \in BOOLEAN /\ lvShown' \in Lv!Status \cup {""}
             /\ Lv!WatchedToTheEnd'
  BY <1>4 DEF Lv!Show, LvSets, LvPage, LvEnded, Lv!WatchedToTheEnd
<1>5. CASE Lv!Receive
  <2>1. /\ lvMessages # <<>> /\ lvMessages' = Tail(lvMessages)
        /\ IF lvMounted THEN Lv!Show(Head(lvMessages)) ELSE UNCHANGED <<lvTimer, lvShown, lvNotified>>
        /\ UNCHANGED <<lvHook, lvRow, lvRestarts, lvToEmit, lvMounted, lvSocket, lvRequests, lvAnswers, lvDrops>>
    BY <1>5 DEF Lv!Receive
  <2>2. Head(lvMessages) \in Lv!Status /\ lvMessages' \in Seq(Lv!Status)
    BY <2>1, LvQueues DEF LvSets, LvServer
  <2>3. ~LvEnded => Head(lvMessages) # "DONE" /\ lvMessages' \in Seq({"PENDING", "RUNNING"})
    BY <2>1, LvQueues DEF LvUnderWay, LvEnded
  <2>4. /\ lvTimer' \in BOOLEAN /\ lvNotified' \in BOOLEAN /\ lvShown' \in Lv!Status \cup {""}
        /\ Lv!WatchedToTheEnd'
    BY <1>4, <2>1, <2>2, <2>3
  <2> QED
    BY <2>1, <2>2, <2>3, <2>4 DEF LvSets, LvPolls, LvWire, LvPage, LvServer, LvUnderWay, LvEnded, Lv!Outstanding
<1>6. CASE Lv!Poll
  <2>1. /\ lvAnswers' = [lvAnswers EXCEPT ![lvRow] = @ + 1] /\ Lv!Outstanding < MaxPolls
        /\ UNCHANGED <<lvHook, lvRow, lvRestarts, lvToEmit, lvTimer, lvMounted, lvShown, lvNotified, lvSocket, lvRequests, lvMessages, lvDrops>>
    BY <1>6 DEF Lv!Poll
  <2>2. lvAnswers \in [Lv!Status -> Nat] /\ lvRow \in Lv!Status /\ MaxPolls \in Nat
    BY DEF LvSets, LvPolls, LvServer, Lv!LiveViewAssumption
  <2>3. lvAnswers' \in [Lv!Status -> Nat] /\ \A s \in Lv!Status : lvAnswers'[s] = IF s = lvRow THEN lvAnswers[s] + 1 ELSE lvAnswers[s]
    BY <2>1, <2>2
  <2>4. Lv!Outstanding' <= MaxPolls
    BY <2>1, <2>2, <2>3 DEF Lv!Outstanding, Lv!Status
  <2> QED
    BY <2>1, <2>2, <2>3, <2>4 DEF LvSets, LvPolls, LvWire, LvPage, LvServer, LvUnderWay, LvEnded, Lv!WatchedToTheEnd, Lv!Status
<1>7. ASSUME NEW s \in Lv!Status, Lv!Answer(s)  PROVE LvInv'
  <2>1. /\ lvAnswers[s] > 0 /\ lvAnswers' = [lvAnswers EXCEPT ![s] = @ - 1]
        /\ IF lvMounted THEN Lv!Show(s) ELSE UNCHANGED <<lvTimer, lvShown, lvNotified>>
        /\ UNCHANGED <<lvHook, lvRow, lvRestarts, lvToEmit, lvMounted, lvSocket, lvRequests, lvMessages, lvDrops>>
    BY <1>7 DEF Lv!Answer
  <2>2. /\ lvAnswers' \in [Lv!Status -> Nat] /\ Lv!Outstanding' <= MaxPolls
        /\ lvAnswers["DONE"] = 0 => lvAnswers'["DONE"] = 0
    BY <2>1, LvAnswered
  <2>3. s = "DONE" => LvEnded
    BY <2>1 DEF LvUnderWay, LvEnded
  <2>4. /\ lvTimer' \in BOOLEAN /\ lvNotified' \in BOOLEAN /\ lvShown' \in Lv!Status \cup {""}
        /\ Lv!WatchedToTheEnd'
    BY <1>4, <2>1, <2>3
  <2> QED
    BY <2>1, <2>2, <2>4 DEF LvSets, LvPolls, LvWire, LvPage, LvServer, LvUnderWay, LvEnded
<1>8. ASSUME NEW s \in Lv!Status, Lv!Fail(s)  PROVE LvInv'
  <2>1. /\ lvAnswers[s] > 0 /\ lvAnswers' = [lvAnswers EXCEPT ![s] = @ - 1]
        /\ lvDrops' = lvDrops + 1 /\ lvDrops < MaxDrops
        /\ UNCHANGED <<lvHook, lvRow, lvRestarts, lvToEmit, lvTimer, lvMounted, lvShown, lvNotified, lvSocket, lvRequests, lvMessages>>
    BY <1>8 DEF Lv!Fail
  <2>2. /\ lvAnswers' \in [Lv!Status -> Nat] /\ Lv!Outstanding' <= MaxPolls
        /\ lvAnswers["DONE"] = 0 => lvAnswers'["DONE"] = 0
    BY <2>1, LvAnswered
  <2>3. lvDrops' \in 0..MaxDrops
    BY <2>1 DEF LvSets, LvWire, Lv!LiveViewAssumption
  <2> QED
    BY <2>1, <2>2, <2>3 DEF LvSets, LvPolls, LvWire, LvPage, LvServer, LvUnderWay, LvEnded, Lv!WatchedToTheEnd
<1>9. CASE Lv!Unmount
  BY <1>9 DEF Lv!Unmount, LvSets, LvPolls, LvWire, LvPage, LvServer, LvUnderWay, LvEnded, Lv!WatchedToTheEnd, Lv!Outstanding
<1>10. CASE UNCHANGED Lv!vars
  BY <1>10 DEF Lv!vars, LvSets, LvPolls, LvWire, LvPage, LvServer, LvUnderWay, LvEnded, Lv!WatchedToTheEnd, Lv!Outstanding
<1> QED
  BY <1>0, <1>1, <1>2, <1>3, <1>5, <1>6, <1>7, <1>8, <1>9, <1>10 DEF Lv!Next

----------------------------------------------------------------------------
(* What holds of each component by itself.                                 *)

\* The invariants are invariants.
LEMMA DmAlways == Dm!MigrationAssumption /\ Dm!Spec => []DmInv
<1> SUFFICES ASSUME Dm!MigrationAssumption  PROVE Dm!Spec => []DmInv
  OBVIOUS
<1>1. Dm!Init => DmInv
  BY DmStart
<1>2. DmInv /\ [Dm!Next]_(Dm!vars) => DmInv'
  BY DmSteps
<1> QED
  BY <1>1, <1>2, PTL DEF Dm!Spec

\* The same of the imports of files ...
LEMMA SiAlways == Si!StorageImportAssumption /\ Si!Spec => []SiInv
<1> SUFFICES ASSUME Si!StorageImportAssumption  PROVE Si!Spec => []SiInv
  OBVIOUS
<1>1. Si!Init => SiInv
  BY SiStart
<1>2. SiInv /\ [Si!Next]_(Si!vars) => SiInv'
  BY SiSteps
<1> QED
  BY <1>1, <1>2, PTL DEF Si!Spec

\* ... and of the page.
LEMMA LvAlways == Lv!LiveViewAssumption /\ Lv!Spec => []LvInv
<1> SUFFICES ASSUME Lv!LiveViewAssumption  PROVE Lv!Spec => []LvInv
  OBVIOUS
<1>1. Lv!Init => LvInv
  BY LvStart
<1>2. LvInv /\ [Lv!Next]_(Lv!vars) => LvInv'
  BY LvSteps
<1> QED
  BY <1>1, <1>2, PTL DEF Lv!Spec

(***************************************************************************)
(* Whatever the conflict strategies, the failing statements, the crashes   *)
(* and the re-deliveries: a table of a reliable migration turns COMPLETED  *)
(* only with the rows of the source in it (CompletedHoldsSource).          *)
(***************************************************************************)
THEOREM TablesHoldTheirSource == Dm!MigrationAssumption /\ Dm!Spec => Dm!CompletedHoldsSource
<1> SUFFICES ASSUME Dm!MigrationAssumption  PROVE Dm!Spec => Dm!CompletedHoldsSource
  OBVIOUS
<1> DEFINE Honest == \A m \in Dm!Id : \A t \in Table :
                       /\ Dm!Reliable(m)
                       /\ dmMig[m].tables[t] # "COMPLETED" /\ dmMig'[m].tables[t] = "COMPLETED"
                       => "src" \in dmData[t] \/ dmProject = "noDb"
<1>1. Dm!Spec => []DmInv
  BY DmAlways
<1>2. DmInv /\ [Dm!Next]_(Dm!vars) => [Honest]_(Dm!vars)
  BY DmCompletesTable
<1> QED
  BY <1>1, <1>2, PTL DEF Dm!Spec, Dm!CompletedHoldsSource

(***************************************************************************)
(* A migration that turns COMPLETED has no table that is failed or         *)
(* unfinished (FinalStatusHonest).                                         *)
(***************************************************************************)
THEOREM FinalStatusIsHonest == Dm!MigrationAssumption /\ Dm!Spec => Dm!FinalStatusHonest
<1> SUFFICES ASSUME Dm!MigrationAssumption  PROVE Dm!Spec => Dm!FinalStatusHonest
  OBVIOUS
<1> DEFINE Honest == \A m \in Dm!Id :
                       dmMig[m].status # "COMPLETED" /\ dmMig'[m].status = "COMPLETED" =>
                         \A t \in Table : dmMig'[m].tables[t] \in {"COMPLETED", "SKIPPED"}
<1>1. Dm!Spec => []DmInv
  BY DmAlways
<1>2. DmInv /\ [Dm!Next]_(Dm!vars) => [Honest]_(Dm!vars)
  BY DmCompletes
<1> QED
  BY <1>1, <1>2, PTL DEF Dm!Spec, Dm!FinalStatusHonest

(***************************************************************************)
(* An import that turns COMPLETED has all its items in the bucket, unless  *)
(* the bucket is gone or URLs may fail (CompletedHoldsItems).              *)
(***************************************************************************)
THEOREM ImportsHoldTheirItems == Si!StorageImportAssumption /\ Si!Spec => Si!CompletedHoldsItems
<1> SUFFICES ASSUME Si!StorageImportAssumption  PROVE Si!Spec => Si!CompletedHoldsItems
  OBVIOUS
<1> DEFINE Whole == \A m \in Si!Id :
                      Si!Completes(m) /\ siProject # "noBucket"
                        /\ (siImp[m].source # "URL" \/ siImp[m].strategy = "ERROR") =>
                      \A i \in Item : siBucket[KeyOf[i]] # "none"
<1>1. Si!Spec => []SiInv
  BY SiAlways
<1>2. SiInv /\ [Si!Next]_(Si!vars) => [Whole]_(Si!vars)
  BY SiCompletesWhole
<1> QED
  BY <1>1, <1>2, PTL DEF Si!Spec, Si!CompletedHoldsItems

(***************************************************************************)
(* An import that does not OVERWRITE replaces an object that was in the    *)
(* bucket before only if its stat has not shown it, because it failed or   *)
(* came earlier, however often a job is delivered (ExistingKept).          *)
(***************************************************************************)
THEOREM ExistingObjectsAreKept == Si!StorageImportAssumption /\ Si!Spec => Si!ExistingKept
<1> SUFFICES ASSUME Si!StorageImportAssumption  PROVE Si!Spec => Si!ExistingKept
  OBVIOUS
<1> DEFINE Kept == \A k \in Key :
                     siBucket[k] = "old" /\ siBucket'[k] = "src" =>
                       Si!Strategy = "OVERWRITE" \/ siWorker.unseen
<1>1. Si!Spec => []SiInv
  BY SiAlways
<1>2. SiInv /\ [Si!Next]_(Si!vars) => [Kept]_(Si!vars)
  BY SiReplaces
<1> QED
  BY <1>1, <1>2, PTL DEF Si!Spec, Si!ExistingKept

----------------------------------------------------------------------------
(* The sum.                                                                *)

\* Every component starts in one of its initial states ...
LEMMA AllStart ==
  AllInit => /\ turn \in Components
             /\ Init /\ Wh!Init /\ Si!Init /\ Dm!Init /\ Lv!Init
BY DEF AllInit

\* ... and takes no step but its own.
LEMMA AllSteps ==
  ASSUME [AllNext]_all
  PROVE  /\ UNCHANGED turn /\ [Next]_vars
         /\ [Wh!Next]_(Wh!vars) /\ [Si!Next]_(Si!vars)
         /\ [Dm!Next]_(Dm!vars) /\ [Lv!Next]_(Lv!vars)
<1>1. UNCHANGED lock => UNCHANGED vars
  BY DEF lock
<1>2. UNCHANGED hooks => UNCHANGED Wh!vars
  BY DEF hooks, Wh!vars, Wh!hooks, Wh!events
<1>3. UNCHANGED objects => UNCHANGED Si!vars
  BY DEF objects, Si!vars, Si!jobs
<1>4. UNCHANGED rows => UNCHANGED Dm!vars
  BY DEF rows, Dm!vars, Dm!db, Dm!jobs
<1>5. UNCHANGED view => UNCHANGED Lv!vars
  BY DEF view, Lv!vars
<1>6. CASE UNCHANGED all
  <2>1. UNCHANGED <<turn, lock, hooks, objects, rows, view>>
    BY <1>6 DEF all
  <2> QED
    BY <1>1, <1>2, <1>3, <1>4, <1>5, <2>1
<1>7. CASE AllNext
  <2>1. UNCHANGED turn
    BY <1>7 DEF AllNext, Runs
  <2>2. /\ Next \/ UNCHANGED lock
        /\ Wh!Next \/ UNCHANGED hooks
        /\ Si!Next \/ UNCHANGED objects
        /\ Dm!Next \/ UNCHANGED rows
        /\ Lv!Next \/ UNCHANGED view
    BY <1>7, Zenon DEF AllNext, Runs
  <2> QED
    BY <1>1, <1>2, <1>3, <1>4, <1>5, <2>1, <2>2
<1> QED
  BY <1>6, <1>7

\* So a behaviour of the sum is one of each of its components.
LEMMA AllOwn == AllSpec => Spec /\ Wh!Spec /\ Si!Spec /\ Dm!Spec /\ Lv!Spec
<1>1. [AllNext]_all => /\ [Next]_vars /\ [Wh!Next]_(Wh!vars) /\ [Si!Next]_(Si!vars)
                       /\ [Dm!Next]_(Dm!vars) /\ [Lv!Next]_(Lv!vars)
  BY AllSteps
<1> QED
  BY <1>1, AllStart, PTL DEF AllSpec, Spec, Wh!Spec, Si!Spec, Dm!Spec, Lv!Spec

\* It is always the turn of one of them.
LEMMA TurnKept == AllSpec => [](turn \in Components)
<1>1. AllInit => turn \in Components
  BY AllStart
<1>2. turn \in Components /\ [AllNext]_all => (turn \in Components)'
  BY AllSteps
<1> QED
  BY <1>1, <1>2, PTL DEF AllSpec

(***************************************************************************)
(* For any callers, deliveries, imports, migrations and pages: every       *)
(* component's variables keep their types (AllTypeOK).                     *)
(***************************************************************************)
THEOREM ProgressTypes == ProgressAssumption /\ AllSpec => []AllTypeOK
<1> SUFFICES ASSUME ProgressAssumption  PROVE AllSpec => []AllTypeOK
  OBVIOUS
<1>0. /\ Wh!WebhooksAssumption /\ Si!StorageImportAssumption
      /\ Dm!MigrationAssumption /\ Lv!LiveViewAssumption
  BY DEF ProgressAssumption
<1>1. AllSpec => []TypeOK
  BY AllOwn, TypeCorrect, PTL
<1>2. AllSpec => []Wh!TypeOK
  BY <1>0, AllOwn, Wh!DeliveredOnce, PTL
<1>3. AllSpec => []Si!TypeOK
  <2>1. SiInv => Si!TypeOK
    BY SiTypes DEF SiInv
  <2> QED
    BY <1>0, <2>1, AllOwn, SiAlways, PTL
<1>4. AllSpec => []Dm!TypeOK
  <2>1. DmInv => Dm!TypeOK
    BY DmTypes DEF DmInv
  <2> QED
    BY <1>0, <2>1, AllOwn, DmAlways, PTL
<1>5. AllSpec => []Lv!TypeOK
  <2>1. LvInv => Lv!TypeOK
    BY <1>0, LvTypes DEF LvInv
  <2> QED
    BY <1>0, <2>1, AllOwn, LvAlways, PTL
<1>6. turn \in Components /\ TypeOK /\ Wh!TypeOK /\ Si!TypeOK /\ Dm!TypeOK /\ Lv!TypeOK => AllTypeOK
  BY DEF Components, AllTypeOK
<1> QED
  BY <1>1, <1>2, <1>3, <1>4, <1>5, <1>6, TurnKept, PTL

(***************************************************************************)
(* For any of them: no delivery makes two deployments, a migration whose   *)
(* job is done is over, and a page neither announces an end the row does   *)
(* not have nor stops asking before it has announced one (SettledOnce).    *)
(***************************************************************************)
THEOREM EverythingSettlesOnce == ProgressAssumption /\ AllSpec => []SettledOnce
<1> SUFFICES ASSUME ProgressAssumption  PROVE AllSpec => []SettledOnce
  OBVIOUS
<1>0. Wh!WebhooksAssumption /\ Dm!MigrationAssumption /\ Lv!LiveViewAssumption
  BY DEF ProgressAssumption
<1>1. AllSpec => []Wh!OneDeploymentPerDelivery
  BY <1>0, AllOwn, Wh!DeliveredOnce, PTL
<1>2. AllSpec => []Dm!DoneJobSettlesMigration
  <2>1. DmInv => Dm!DoneJobSettlesMigration
    BY DEF DmInv
  <2> QED
    BY <1>0, <2>1, AllOwn, DmAlways, PTL
<1>3. AllSpec => []Lv!WatchedToTheEnd
  <2>1. LvInv => Lv!WatchedToTheEnd
    BY DEF LvInv
  <2> QED
    BY <1>0, <2>1, AllOwn, LvAlways, PTL
<1> QED
  BY <1>1, <1>2, <1>3, PTL DEF SettledOnce

(***************************************************************************)
(* For any tables, kinds of source, items and keys: what a migration or an *)
(* import says when it ends is true of the database and of the bucket      *)
(* (EndsHonest).                                                           *)
(***************************************************************************)
THEOREM EndsAreHonest == ProgressAssumption /\ AllSpec => EndsHonest
<1> SUFFICES ASSUME ProgressAssumption  PROVE AllSpec => EndsHonest
  OBVIOUS
<1>1. Si!StorageImportAssumption /\ Dm!MigrationAssumption
  BY DEF ProgressAssumption
<1> QED
  BY <1>1, AllOwn, TablesHoldTheirSource, FinalStatusIsHonest, ImportsHoldTheirItems,
     ExistingObjectsAreKept, PTL DEF EndsHonest
----------------------------------------------------------------------------
(* The upgrades of the server.                                             *)

(***************************************************************************)
(* From the pull on the newest backup is filled, and the recorded version  *)
(* is the one it remembers; a rollback asked for by hand has a backup.     *)
(***************************************************************************)
BeforePull == {"idle", "backup", "fill"}

BackedUp ==
  /\ upgrading = "fill" \/ upgrading \notin BeforePull => backups # <<>>
  /\ upgrading \notin BeforePull /\ ~args.manual =>
       backups[1].files # Unset /\ saved = backups[1].saved
  /\ upgrading = "backup" => ~args.manual

(***************************************************************************)
(* What has been done at each place of the script: the files are migrated  *)
(* and built on the way up, those of the backup restored and built on the  *)
(* way back.                                                               *)
(***************************************************************************)
UpgradedSoFar ==
  /\ upgrading \in {"build", "frontend", "restart", "health", "save"} => schema >= files
  /\ upgrading \in {"frontend", "restart", "health", "save"} => built = files
  /\ ~args.manual /\ upgrading \in {"rebuild", "reload", "recheck",
                             "restoreVersion"} => files = backups[1].files
  /\ ~args.manual /\ upgrading \in {"reload", "recheck", "restoreVersion"} => built = files

UpInv == Up!TypeOK /\ BackedUp /\ UpgradedSoFar /\ Up!CompletedIsWhole /\ Up!RollbackRestores

\* A queue of backups has its first at 1.
LEMMA FirstBackup ==
  ASSUME Up!TypeOK, backups # <<>>
  PROVE  backups[1] \in Up!Backup
BY DEF Up!TypeOK

\* A new backup comes first ...
LEMMA BackupAdded ==
  ASSUME NEW S, NEW b \in S, NEW s \in Seq(S)
  PROVE  <<b>> \o s \in Seq(S) /\ <<b>> \o s # <<>> /\ (<<b>> \o s)[1] = b /\ Len(<<b>> \o s) >= 1
<1>1. <<b>> \in Seq(S) /\ Len(<<b>>) = 1 /\ <<b>>[1] = b
  OBVIOUS
<1>2. Len(s) \in Nat
  BY LenProperties
<1>3. <<b>> \o s \in Seq(S) /\ Len(<<b>> \o s) = 1 + Len(s) /\ (<<b>> \o s)[1] = b
  BY <1>1, <1>2, ConcatProperties
<1> QED
  BY <1>2, <1>3

\* ... and stays there when the oldest are removed.
LEMMA BackupsPruned ==
  ASSUME NEW S, NEW s \in Seq(S), Len(s) >= 1, NEW n \in Nat \ {0}, n <= Len(s)
  PROVE  SubSeq(s, 1, n) \in Seq(S) /\ SubSeq(s, 1, n) # <<>> /\ SubSeq(s, 1, n)[1] = s[1]
<1>1. Len(s) \in Nat /\ 1 \in 1..Len(s) /\ n \in 1..Len(s)
  BY LenProperties
<1>2. SubSeq(s, 1, n) \in Seq(S) /\ Len(SubSeq(s, 1, n)) = n /\ SubSeq(s, 1, n)[1] = s[1]
  BY <1>1, SubSeqProperties
<1> QED
  BY <1>2

LEMMA UpStart == Up!UpgradeAssumption /\ Up!Init => UpInv
<1> SUFFICES ASSUME Up!UpgradeAssumption, Up!Init  PROVE UpInv
  OBVIOUS
<1>1. MaxRelease \in Nat \ {0} /\ MaxUpgrades \in Nat
  BY DEF Up!UpgradeAssumption
<1>2. Up!TypeOK
  <2>1. latest \in Up!Version /\ head \in Up!Version /\ files \in Up!Version
        /\ built \in Up!Version
        /\ running \in Up!Version \cup {Unset} /\ schema \in Up!Version
    BY <1>1 DEF Up!Init, Up!Version
  <2>2. backups \in Seq(Up!Backup) /\ saved \in Up!Saved \cup {Unset} /\ args \in Up!Args
    BY DEF Up!Init, Up!Args
  <2>a. attempted \in BOOLEAN
    BY Zenon DEF Up!Init
  <2>3. upgrading \in Up!Steps /\ outcome \in Up!Outcomes /\ runs \in 0..MaxUpgrades
    BY <1>1 DEF Up!Init, Up!Steps, Up!Outcomes
  <2> QED
    BY <2>1, <2>2, <2>3, <2>a DEF Up!TypeOK
<1> QED
  BY <1>2 DEF Up!Init, UpInv, BackedUp, UpgradedSoFar, BeforePull, Up!CompletedIsWhole,
              Up!RollbackRestores

LEMMA UpSteps == Up!UpgradeAssumption /\ UpInv /\ [Up!Next]_(Up!vars) => UpInv'
<1> SUFFICES ASSUME Up!UpgradeAssumption, UpInv, [Up!Next]_(Up!vars)  PROVE UpInv'
  OBVIOUS
<1> USE DEF UpInv, Up!system, Up!Goto, Up!Exit
<1>0. MaxRelease \in Nat \ {0} /\ MaxUpgrades \in Nat
  BY DEF Up!UpgradeAssumption
<1>1. CASE Up!Release
  <2>1. Up!TypeOK'
    BY <1>0, <1>1 DEF Up!Release, Up!TypeOK, Up!Version
  <2> QED
    BY <1>1, <2>1 DEF Up!Release, BackedUp, UpgradedSoFar, BeforePull, Up!CompletedIsWhole,
                      Up!RollbackRestores
<1>2. ASSUME NEW a \in Up!Args, Up!Start(a)  PROVE UpInv'
  <2>1. \/ upgrading' = "idle" /\ outcome' = "upToDate"
        \/ upgrading' = "backup" /\ UNCHANGED outcome
    BY <1>2, Zenon DEF Up!Start
  <2>2. /\ upgrading = "idle" /\ runs < MaxUpgrades /\ runs' = runs + 1 /\ args' = a /\ ~a.manual
        /\ UNCHANGED <<latest, Up!system>>
    BY <1>2 DEF Up!Start
  <2>a. attempted' \in BOOLEAN
    BY <1>2, Zenon DEF Up!Start
  <2>3. Up!TypeOK'
    BY <1>0, <2>1, <2>2, <2>a DEF Up!TypeOK, Up!Steps, Up!Outcomes
  <2> QED
    BY <2>1, <2>2, <2>3 DEF BackedUp, UpgradedSoFar, BeforePull, Up!CompletedIsWhole,
                            Up!RollbackRestores
<1>3. ASSUME NEW a \in Up!Args, Up!StartRollback(a)  PROVE UpInv'
  <2>1. Up!TypeOK'
    BY <1>0, <1>3 DEF Up!StartRollback, Up!TypeOK, Up!Steps, Up!Outcomes
  <2> QED
    BY <1>3, <2>1 DEF Up!StartRollback, BackedUp, UpgradedSoFar, BeforePull,
                      Up!CompletedIsWhole, Up!RollbackRestores
<1>4. CASE Up!MakeBackup
  <2> DEFINE b == [files |-> Unset, schema |-> schema, dump |-> "none", saved |-> Unset]
  <2>1. b \in Up!Backup /\ backups \in Seq(Up!Backup) /\ backups' = <<b>> \o backups
    BY <1>4 DEF Up!MakeBackup, Up!TypeOK, Up!Backup
  <2>2. backups' \in Seq(Up!Backup) /\ backups' # <<>>
    BY <2>1, BackupAdded
  <2>3. Up!TypeOK'
    BY <1>4, <2>2 DEF Up!MakeBackup, Up!TypeOK, Up!Steps
  <2> QED
    BY <1>4, <2>2, <2>3 DEF Up!MakeBackup, BackedUp, UpgradedSoFar, BeforePull,
                            Up!CompletedIsWhole, Up!RollbackRestores
<1>5. CASE Up!FillBackup
  <2>1. PICK dump \in {"good", "bad"} :
          LET filled == <<[files |-> files, schema |-> schema, dump |-> dump, saved |-> saved]>>
                          \o Tail(backups)
          IN  backups' = SubSeq(filled, 1, IF Len(filled) > Up!Keep THEN Up!Keep ELSE Len(filled))
    BY <1>5 DEF Up!FillBackup
  <2> DEFINE b == [files |-> files, schema |-> schema, dump |-> dump, saved |-> saved]
             filled == <<b>> \o Tail(backups)
  <2>2. b \in Up!Backup /\ backups \in Seq(Up!Backup) /\ backups # <<>>
    BY <1>5 DEF Up!FillBackup, Up!TypeOK, Up!Backup, BackedUp
  <2>3. Tail(backups) \in Seq(Up!Backup)
    BY <2>2, HeadTailProperties
  <2>4. b.files = files /\ b.saved = saved
    OBVIOUS
  <2> HIDE DEF b
  <2>5. filled \in Seq(Up!Backup) /\ Len(filled) >= 1 /\ filled[1] = b
    BY <2>2, <2>3, BackupAdded
  <2>6. PICK n \in Nat \ {0} : n <= Len(filled) /\ backups' = SubSeq(filled, 1, n)
    <3>1. Len(filled) \in Nat
      BY <2>5, LenProperties
    <3>2. backups' = SubSeq(filled, 1, IF Len(filled) > Up!Keep THEN Up!Keep ELSE Len(filled))
      BY <2>1 DEF b
    <3> HIDE DEF filled
    <3> QED
      BY <2>5, <3>1, <3>2 DEF Up!Keep
  <2> HIDE DEF filled
  <2>7. backups' \in Seq(Up!Backup) /\ backups' # <<>> /\ backups'[1] = b
    BY <2>5, <2>6, BackupsPruned
  <2>8. Up!TypeOK'
    BY <1>5, <2>7 DEF Up!FillBackup, Up!TypeOK, Up!Steps
  <2>9. backups'[1].files # Unset /\ backups'[1].saved = saved'
    BY <1>5, <2>4, <2>7 DEF Up!FillBackup, Up!TypeOK, Up!UpgradeAssumption
  <2> QED
    BY <1>5, <2>7, <2>8, <2>9 DEF Up!FillBackup, BackedUp, UpgradedSoFar, BeforePull,
                                  Up!CompletedIsWhole, Up!RollbackRestores
<1>6. CASE Up!PullFails \/ Up!Install \/ Up!Frontend \/ Up!Health \/ Up!Kill \/ Up!Recheck
  <2>1. /\ UNCHANGED <<latest, Up!system, args, attempted, runs>>
        /\ \/ upgrading' = "idle" /\ outcome' \in {"exited", "failed"}
           \/ /\ UNCHANGED outcome
              /\ \/ upgrading = "install" /\ upgrading' \in {"generate", "rollback"}
                 \/ upgrading = "frontend" /\ upgrading' \in {"restart", "rollback"}
                 \/ upgrading = "health" /\ upgrading' \in {"save", "rollback"}
                 \/ upgrading = "recheck" /\ upgrading' = "restoreVersion"
    BY <1>6 DEF Up!PullFails, Up!Install, Up!Frontend, Up!Health, Up!Kill, Up!Recheck
  <2>2. Up!TypeOK'
    BY <2>1 DEF Up!TypeOK, Up!Steps, Up!Outcomes
  <2> QED
    BY <2>1, <2>2 DEF BackedUp, UpgradedSoFar, BeforePull, Up!CompletedIsWhole,
                      Up!RollbackRestores
<1>7. CASE Up!Checkout \/ Up!Reset
  <2>1. /\ upgrading = "pull" /\ upgrading' \in {"install", "rollback"} /\ UNCHANGED outcome
        /\ head' \in {head, latest} /\ files' \in {files, latest}
        /\ UNCHANGED <<latest, built, running, schema, saved, backups, args, attempted, runs>>
    BY <1>7 DEF Up!Checkout, Up!Reset
  <2>2. Up!TypeOK'
    BY <2>1 DEF Up!TypeOK, Up!Steps
  <2> QED
    BY <2>1, <2>2 DEF BackedUp, UpgradedSoFar, BeforePull, Up!CompletedIsWhole,
                      Up!RollbackRestores
<1>8. CASE Up!Generate
  <2>1. Up!TypeOK'
    BY <1>8 DEF Up!Generate, Up!TypeOK, Up!Steps
  <2> QED
    BY <1>8, <2>1 DEF Up!Generate, BackedUp, UpgradedSoFar, BeforePull, Up!CompletedIsWhole,
                      Up!RollbackRestores
<1>9. CASE Up!Migrate
  <2>1. schema \in Up!Version /\ files \in Up!Version /\ schema \in Nat /\ files \in Nat
    BY <1>0 DEF Up!TypeOK, Up!Version
  <2>2. Up!Newer(schema, files) \in Up!Version /\ Up!Newer(schema, files) >= files
    BY <2>1 DEF Up!Newer
  <2>3. /\ upgrading = "migrate" /\ UNCHANGED outcome
        /\ \/ upgrading' = "build" /\ schema' = Up!Newer(schema, files)
           \/ upgrading' = "rollback" /\ schema' \in schema..Up!Newer(schema, files)
        /\ UNCHANGED <<latest, head, files, built, running, saved, backups, args, attempted,
                       runs>>
    BY <1>9 DEF Up!Migrate
  <2>4. schema' \in Up!Version
    BY <1>0, <2>1, <2>2, <2>3 DEF Up!Version
  <2>5. Up!TypeOK'
    BY <2>3, <2>4 DEF Up!TypeOK, Up!Steps
  <2> QED
    BY <2>2, <2>3, <2>5 DEF BackedUp, UpgradedSoFar, BeforePull, Up!CompletedIsWhole,
                            Up!RollbackRestores
<1>10. CASE Up!Build
  <2>1. Up!TypeOK'
    BY <1>10 DEF Up!Build, Up!TypeOK, Up!Steps
  <2> QED
    BY <1>10, <2>1 DEF Up!Build, BackedUp, UpgradedSoFar, BeforePull, Up!CompletedIsWhole,
                       Up!RollbackRestores
<1>11. CASE Up!Restart
  <2>1. Up!TypeOK'
    BY <1>11 DEF Up!Restart, Up!TypeOK, Up!Steps, Up!Outcomes
  <2> QED
    BY <1>11, <2>1 DEF Up!Restart, BackedUp, UpgradedSoFar, BeforePull, Up!CompletedIsWhole,
                       Up!RollbackRestores
<1>12. CASE Up!SaveVersion
  <2>1. saved' \in Up!Saved
    BY <1>12 DEF Up!SaveVersion, Up!TypeOK, Up!Saved
  <2>2. Up!TypeOK'
    BY <1>12, <2>1 DEF Up!SaveVersion, Up!TypeOK, Up!Steps, Up!Outcomes
  <2> QED
    BY <1>12, <2>2 DEF Up!SaveVersion, BackedUp, UpgradedSoFar, BeforePull, Up!CompletedIsWhole,
                       Up!RollbackRestores
<1>13. CASE Up!RestoreDatabase
  <2>1. backups # <<>> /\ backups[1] \in Up!Backup
    BY <1>13, FirstBackup DEF Up!RestoreDatabase, BackedUp, BeforePull
  <2>2. /\ upgrading = "rollback" /\ schema' \in {schema, backups[1].schema}
        /\ \/ upgrading' = "restoreCode" /\ UNCHANGED outcome
           \/ upgrading' = "idle" /\ outcome' = "failed"
        /\ UNCHANGED <<latest, head, files, built, running, saved, backups, args, attempted,
                       runs>>
    BY <1>13 DEF Up!RestoreDatabase
  <2>3. schema' \in Up!Version
    BY <2>1, <2>2 DEF Up!TypeOK, Up!Backup
  <2>4. Up!TypeOK'
    BY <2>2, <2>3 DEF Up!TypeOK, Up!Steps, Up!Outcomes
  <2> QED
    BY <2>2, <2>4 DEF BackedUp, UpgradedSoFar, BeforePull, Up!CompletedIsWhole,
                      Up!RollbackRestores
<1>14. CASE Up!RestoreCode
  <2>1. backups # <<>> /\ backups[1] \in Up!Backup
    BY <1>14, FirstBackup DEF Up!RestoreCode, BackedUp, BeforePull
  <2>2. files' \in Up!Version
    BY <1>14, <2>1 DEF Up!RestoreCode, Up!TypeOK, Up!Backup
  <2>3. Up!TypeOK'
    BY <1>14, <2>2 DEF Up!RestoreCode, Up!TypeOK, Up!Steps
  <2> QED
    BY <1>14, <2>3 DEF Up!RestoreCode, BackedUp, UpgradedSoFar, BeforePull, Up!CompletedIsWhole,
                       Up!RollbackRestores
<1>15. CASE Up!Rebuild
  <2>1. Up!TypeOK'
    BY <1>15 DEF Up!Rebuild, Up!TypeOK, Up!Steps, Up!Outcomes
  <2> QED
    BY <1>15, <2>1 DEF Up!Rebuild, BackedUp, UpgradedSoFar, BeforePull, Up!CompletedIsWhole,
                       Up!RollbackRestores
<1>16. CASE Up!Reload
  <2>1. Up!TypeOK'
    BY <1>16 DEF Up!Reload, Up!TypeOK, Up!Steps
  <2> QED
    BY <1>16, <2>1 DEF Up!Reload, BackedUp, UpgradedSoFar, BeforePull, Up!CompletedIsWhole,
                       Up!RollbackRestores
<1>17. CASE Up!RestoreVersion
  <2>1. backups # <<>> /\ backups[1] \in Up!Backup
    BY <1>17, FirstBackup DEF Up!RestoreVersion, BackedUp, BeforePull
  <2>2. saved' \in Up!Saved \cup {Unset} /\ (~args.manual => saved' = saved)
    BY <1>17, <2>1 DEF Up!RestoreVersion, Up!TypeOK, Up!Backup, BackedUp, BeforePull
  <2>3. Up!TypeOK'
    BY <1>17, <2>2 DEF Up!RestoreVersion, Up!TypeOK, Up!Steps, Up!Outcomes
  <2> QED
    BY <1>17, <2>2, <2>3 DEF Up!RestoreVersion, BackedUp, UpgradedSoFar, BeforePull,
                             Up!CompletedIsWhole, Up!RollbackRestores
<1>18. CASE UNCHANGED Up!vars
  BY <1>18 DEF Up!vars, Up!TypeOK, BackedUp, UpgradedSoFar, BeforePull, Up!CompletedIsWhole,
               Up!RollbackRestores
<1> QED
  BY <1>1, <1>2, <1>3, <1>4, <1>5, <1>6, <1>7, <1>8, <1>9, <1>10, <1>11, <1>12, <1>13, <1>14,
     <1>15, <1>16, <1>17, <1>18 DEF Up!Next

(***************************************************************************)
(* Through steps that fail and scripts killed anywhere, for any number of  *)
(* releases and upgrades: a completed upgrade is whole, a rolled back one  *)
(* leaves what was there, and from the pull on there is a backup.          *)
(***************************************************************************)
THEOREM UpgradesAreWhole ==
  Up!UpgradeAssumption /\ Up!Spec =>
    [](Up!TypeOK /\ Up!CompletedIsWhole /\ Up!RollbackRestores /\ Up!Recoverable)
<1> SUFFICES ASSUME Up!UpgradeAssumption
             PROVE  Up!Spec =>
                      [](Up!TypeOK /\ Up!CompletedIsWhole /\ Up!RollbackRestores /\ Up!Recoverable)
  OBVIOUS
<1>1. Up!Init => UpInv
  BY UpStart
<1>2. UpInv /\ [Up!Next]_(Up!vars) => UpInv'
  BY UpSteps
<1>3. UpInv => Up!TypeOK /\ Up!CompletedIsWhole /\ Up!RollbackRestores /\ Up!Recoverable
  BY DEF UpInv, BackedUp, BeforePull, Up!Recoverable
<1> QED
  BY <1>1, <1>2, <1>3, PTL DEF Up!Spec

----------------------------------------------------------------------------
(* The scripts of the server.                                              *)

(***************************************************************************)
(* The set-up is the operator's; until it is killed in between, whatever   *)
(* has been done of it stays.                                              *)
(***************************************************************************)
Past(script, n) == at["operator"].script = script /\ at["operator"].step > n

CiDeploys == at["ci"].script \in {"none", "remote"}

Known == active \subseteq commands \cup {"minio"}

SetUpSoFar ==
  /\ Past("env", 1) => "node" \in commands
  /\ Past("env", 2) => "pm2" \in commands
  /\ Past("env", 3) => "git" \in commands
  /\ Past("env", 4) => "psql" \in commands
  /\ Past("env", 5) => database
  /\ Past("env", 7) => "redis" \in commands
  /\ Past("env", 8) => "nginx" \in commands
  /\ Past("env", 9) => minio # "none"
  /\ at["operator"].script = "env" /\ minio \in {"binary", "unit"} /\ ~note.strayed =>
       at["operator"].step \in {10, 11}
  /\ at["operator"].script # "env" /\ ~note.strayed => minio \in {"none", "enabled"}

(***************************************************************************)
(* A script that found no other is alone until the next one starts, and    *)
(* what it has built is of the sources it found.                           *)
(***************************************************************************)
Alone(a) == \A b \in Sv!Actor : b # a => at[b] = Sv!Idle

Built(p, dir) ==
  p.script = "remote" =>
    /\ p.step > 1 => dir.tree # 0
    /\ p.step > 2 => dir.deps = dir.tree
    /\ p.step > 3 => dir.schema >= dir.tree
    /\ p.step > 4 => dir.dist = dir.tree
    /\ p.step > 6 => dir.running = dir.dist

DeployedSoFar ==
  ~note.overlap =>
    /\ \A a \in Sv!Actor : at[a] # Sv!Idle => Alone(a)
    /\ note.deployed => \A a \in Sv!Actor : at[a] = Sv!Idle
    /\ note.deployed => server.tree # 0
    /\ \A a \in Sv!Actor : Built(at[a], server)

(***************************************************************************)
(* Unless it was cut short, the certificate's script is alone, and between *)
(* its sites only there is none.                                           *)
(***************************************************************************)
SitesKept ==
  ~note.cut =>
    /\ \A a \in Sv!Actor : at[a].script = "ssl" => Alone(a)
    /\ "nginx" \in active => serving # {}
    /\ "nginx" \in commands => sites # {} \/ Past("ssl", 4)
    /\ Past("ssl", 1) => "nginx" \in commands
    /\ Past("ssl", 1) /\ ~Past("ssl", 4) => "temporary" \in sites
    /\ Past("ssl", 5) => "production" \in sites

SvInv == /\ Sv!TypeOK /\ CiDeploys /\ Known /\ SetUpSoFar /\ DeployedSoFar /\ SitesKept
         /\ Sv!SetupSatisfiesCheck /\ Sv!DeployedIsWhole

----------------------------------------------------------------------------
(* Where a script is.                                                      *)

Place(script, n) == [script |-> script, step |-> n]

LengthOf(script) == CASE script = "setup" -> 10 [] script = "env" -> 13 [] script = "upload" -> 3
                      [] script = "remote" -> 7 [] script = "ssl" -> 6

\* The scripts and their lengths.
LEMMA SvLengths ==
  /\ DOMAIN Sv!Script = {"setup", "env", "upload", "remote", "ssl"}
  /\ \A s \in DOMAIN Sv!Script : Len(Sv!Script[s]) = LengthOf(s) /\ LengthOf(s) \in Nat
<1>1. DOMAIN Sv!Script = {"setup", "env", "upload", "remote", "ssl"}
  BY DEF Sv!Script
<1>2. Len(Sv!Script["setup"]) = 10 /\ Len(Sv!Script["env"]) = 13 /\ Len(Sv!Script["upload"]) = 3
      /\ Len(Sv!Script["remote"]) = 7 /\ Len(Sv!Script["ssl"]) = 6
  BY DEF Sv!Script
<1> QED
  BY <1>1, <1>2 DEF LengthOf

\* A position is a step of one of them, or none.
LEMMA SvPositions ==
  \A p : p \in Sv!Position <=>
          \/ p = Sv!Idle
          \/ \E s \in DOMAIN Sv!Script : \E n \in 1..LengthOf(s) : p = Place(s, n)
<1>1. ASSUME NEW p, NEW s \in DOMAIN Sv!Script
      PROVE  p \in [script : {s},
                    step : 1..Len(Sv!Script[s])] <=> \E n \in 1..LengthOf(s) : p = Place(s, n)
  <2>1. Len(Sv!Script[s]) = LengthOf(s)
    BY SvLengths
  <2> QED
    BY <2>1 DEF Place
<1> QED
  BY <1>1 DEF Sv!Position

\* A script that runs is at a step, at the one the text names.
LEMMA SvAt ==
  ASSUME Sv!TypeOK, CiDeploys, NEW a \in Sv!Actor, at[a] # Sv!Idle
  PROVE  \E s \in DOMAIN Sv!Script : \E n \in 1..LengthOf(s) :
           /\ at[a] = Place(s, n) /\ Sv!Step(a) = Sv!Script[s][n]
           /\ s # "remote" => a = "operator"
<1>1. PICK s \in DOMAIN Sv!Script : \E n \in 1..LengthOf(s) : at[a] = Place(s, n)
  BY SvPositions DEF Sv!TypeOK
<1>2. PICK n \in 1..LengthOf(s) : at[a] = Place(s, n)
  BY <1>1
<1>3. Sv!Step(a) = Sv!Script[s][n]
  BY <1>2 DEF Sv!Step, Place
<1>4. s # "remote" => a = "operator"
  <2>1. s # "none"
    BY SvLengths
  <2> QED
    BY <1>2, <2>1 DEF CiDeploys, Sv!Actor, Place
<1> QED
  BY <1>2, <1>3, <1>4

\* What comes after a step.
Next_(s, n) == IF n < LengthOf(s) THEN Place(s, n + 1)
               ELSE IF s = "env" THEN Place("remote", 1) ELSE Sv!Idle

LEMMA SvAfter ==
  ASSUME NEW a \in Sv!Actor, NEW s \in DOMAIN Sv!Script, NEW n \in 1..LengthOf(s), at[a] = Place(s, n)
  PROVE  Sv!After(a) = Next_(s, n) /\ Next_(s, n) \in Sv!Position
<1>1. LengthOf(s) \in Nat /\ Len(Sv!Script[s]) = LengthOf(s)
  BY SvLengths
<1>2. Sv!Last(a) <=> n = LengthOf(s)
  BY <1>1 DEF Sv!Last, Place
<1>3. CASE n < LengthOf(s)
  <2>1. ~Sv!Last(a) /\ Next_(s, n) = Place(s, n + 1)
        /\ [at[a] EXCEPT !.step = at[a].step + 1] = Place(s, n + 1)
    BY <1>1, <1>2, <1>3 DEF Next_, Place
  <2>2. n + 1 \in 1..LengthOf(s)
    BY <1>1, <1>3
  <2> QED
    BY <2>1, <2>2, SvPositions DEF Sv!After
<1>4. CASE n = LengthOf(s)
  <2>1. Sv!Last(a) /\ at[a].script = s
        /\ Next_(s, n) = IF s = "env" THEN Place("remote", 1) ELSE Sv!Idle
    BY <1>1, <1>2, <1>4 DEF Next_, Place
  <2>2. Sv!After(a) = IF s = "env" THEN Place("remote", 1) ELSE Sv!Idle
    BY <2>1 DEF Sv!After, Sv!First, Place
  <2>3. Place("remote", 1) \in Sv!Position /\ Sv!Idle \in Sv!Position
    <3>1. "remote" \in DOMAIN Sv!Script /\ 1 \in 1..LengthOf("remote")
      BY SvLengths DEF LengthOf
    <3> QED
      BY <3>1, SvPositions
  <2> QED
    BY <2>1, <2>2, <2>3
<1> QED
  BY <1>1, <1>3, <1>4

\* Where env-setup.sh installs a command.
EnvStep(c) == CASE c = "node" -> 1 [] c = "pm2" -> 2 [] c = "git" -> 3 [] c = "psql" -> 4
                [] c = "redis" -> 7 [] c = "nginx" -> 8 [] OTHER -> 0

\* The step that has a name.
LEMMA SvNamed ==
  ASSUME Sv!TypeOK, CiDeploys, NEW a \in Sv!Actor
  PROVE  /\ \A c \in Sv!Commands : Sv!At(a, c) =>
              a = "operator" /\ \E n \in 1..10 : at[a] \in {Place("setup", n), Place("env", n)}
         /\ \A c \in Sv!Commands : Sv!At(a, c) /\ at[a].script = "env" =>
              at[a] = Place("env", EnvStep(c))
         /\ Sv!At(a, "pgvector") => a = "operator" /\ at[a] = Place("setup", 4)
         /\ Sv!At(a, "database") => a = "operator" /\ at[a] \in {Place("setup", 5),
                                                                 Place("env", 5)}
         /\ Sv!At(a, "vector") => a = "operator" /\ at[a] \in {Place("setup", 6), Place("env", 6)}
         /\ Sv!At(a, "minio") => a = "operator" /\ at[a] = Place("env", 9)
         /\ Sv!At(a, "unit") => a = "operator" /\ at[a] = Place("env", 10)
         /\ Sv!At(a, "enable") => a = "operator" /\ at[a] = Place("env", 11)
         /\ Sv!At(a, "start") => a = "operator" /\ at[a] = Place("env", 12)
         /\ Sv!At(a, "services") => a = "operator" /\ at[a] = Place("env", 13)
         /\ Sv!At(a, "upload") => a = "operator" /\ at[a] = Place("upload", 1)
         /\ Sv!At(a, "dotenv") => a = "operator" /\ at[a] = Place("upload", 2)
         /\ Sv!At(a, "check") => a = "operator" /\ at[a] = Place("upload", 3)
         /\ Sv!At(a, "pull") => at[a] = Place("remote", 1)
         /\ Sv!At(a, "npm") => at[a] = Place("remote", 2)
         /\ Sv!At(a, "migrate") => at[a] = Place("remote", 3)
         /\ Sv!At(a, "build") => at[a] = Place("remote", 4)
         /\ Sv!At(a, "reload") => at[a] = Place("remote", 5)
         /\ Sv!At(a, "restart") => at[a] = Place("remote", 6)
         /\ Sv!At(a, "health") => at[a] = Place("remote", 7)
         /\ Sv!At(a, "temporary") => a = "operator" /\ at[a] = Place("ssl", 1)
         /\ Sv!At(a, "test") => a = "operator" /\ at[a] \in {Place("ssl", 2), Place("ssl", 6)}
         /\ Sv!At(a, "certbot") => a = "operator" /\ at[a] = Place("ssl", 3)
         /\ Sv!At(a, "drop") => a = "operator" /\ at[a] = Place("ssl", 4)
         /\ Sv!At(a, "link") => a = "operator" /\ at[a] = Place("ssl", 5)
<1>1. CASE at[a] = Sv!Idle
  BY <1>1 DEF Sv!At
<1>2. CASE at[a] # Sv!Idle
  <2>0. PICK s \in DOMAIN Sv!Script : \E n \in 1..LengthOf(s) :
           /\ at[a] = Place(s, n) /\ Sv!Step(a) = Sv!Script[s][n]
           /\ s # "remote" => a = "operator"
    BY <1>2, SvAt
  <2>1. PICK n \in 1..LengthOf(s) :
           /\ at[a] = Place(s, n) /\ Sv!Step(a) = Sv!Script[s][n]
           /\ s # "remote" => a = "operator"
    BY <2>0
  <2>2. \A x : Sv!At(a, x) <=> x = Sv!Script[s][n]
    BY <1>2, <2>1 DEF Sv!At
  <2>3. CASE s = "setup"
    <3>1. n \in 1..10
      BY <2>3 DEF LengthOf
    <3> QED
      BY <2>1, <2>2, <2>3, <3>1 DEF Sv!Script, Place, EnvStep, Sv!Commands, Sv!Checked
  <2>4. CASE s = "env"
    <3>1. n \in 1..13
      BY <2>4 DEF LengthOf
    <3> QED
      BY <2>1, <2>2, <2>4, <3>1 DEF Sv!Script, Place, EnvStep, Sv!Commands, Sv!Checked
  <2>5. CASE s = "upload"
    <3>1. n \in 1..3
      BY <2>5 DEF LengthOf
    <3> QED
      BY <2>1, <2>2, <2>5, <3>1 DEF Sv!Script, Place, EnvStep, Sv!Commands, Sv!Checked
  <2>6. CASE s = "remote"
    <3>1. n \in 1..7
      BY <2>6 DEF LengthOf
    <3> QED
      BY <2>1, <2>2, <2>6, <3>1 DEF Sv!Script, Place, EnvStep, Sv!Commands, Sv!Checked
  <2>7. CASE s = "ssl"
    <3>1. n \in 1..6
      BY <2>7 DEF LengthOf
    <3> QED
      BY <2>1, <2>2, <2>7, <3>1 DEF Sv!Script, Place, EnvStep, Sv!Commands, Sv!Checked
  <2> QED
    BY <2>1, <2>3, <2>4, <2>5, <2>6, <2>7, SvLengths
<1> QED
  BY <1>1, <1>2

----------------------------------------------------------------------------
(***************************************************************************)
(* What a step of a script keeps, from where it moves to and from what it  *)
(* leaves of the machine.                                                  *)
(***************************************************************************)
Moves(a, p) ==
  /\ at[a] # Sv!Idle /\ p \in Sv!Position /\ at' = [at EXCEPT ![a] = p]
  /\ a = "ci" => p.script \in {"none", "remote"}
  /\ note'.overlap = note.overlap

LEMMA SvMoves ==
  ASSUME Sv!TypeOK, CiDeploys, NEW a \in Sv!Actor, NEW p, Moves(a, p)
  PROVE  /\ at' \in [Sv!Actor -> Sv!Position] /\ at'[a] = p
         /\ \A b \in Sv!Actor : b # a => at'[b] = at[b]
         /\ CiDeploys'
BY DEF Sv!TypeOK, CiDeploys, Moves, Sv!Actor

LEMMA SvDeploysOn ==
  ASSUME Sv!TypeOK, CiDeploys, DeployedSoFar, NEW a \in Sv!Actor, NEW p, Moves(a, p),
         note'.deployed = note.deployed, note.overlap \/ Built(p, server')
  PROVE  DeployedSoFar' /\ Sv!DeployedIsWhole'
<1>1. at'[a] = p /\ \A b \in Sv!Actor : b # a => at'[b] = at[b]
  BY SvMoves
<1>2. CASE note.overlap
  BY <1>2 DEF DeployedSoFar, Sv!DeployedIsWhole, Moves
<1>3. CASE ~note.overlap
  <2>1. Alone(a) /\ ~note.deployed
    BY <1>3 DEF DeployedSoFar, Moves
  <2>2. \A b \in Sv!Actor : b # a => at'[b] = Sv!Idle
    BY <1>1, <2>1 DEF Alone
  <2>3. \A b \in Sv!Actor : at'[b] # Sv!Idle => Alone(b)'
    BY <2>2 DEF Alone
  <2>4. \A b \in Sv!Actor : Built(at'[b], server')
    <3>1. Built(Sv!Idle, server') /\ Built(p, server')
      BY <1>3 DEF Built, Sv!Idle
    <3> QED
      BY <1>1, <2>2, <3>1
  <2> QED
    BY <2>1, <2>3, <2>4 DEF DeployedSoFar, Sv!DeployedIsWhole
<1> QED
  BY <1>2, <1>3

LEMMA SvSetUpKept ==
  ASSUME Sv!TypeOK, CiDeploys, SetUpSoFar, NEW a \in Sv!Actor, NEW p, Moves(a, p),
         commands \subseteq commands', database => database', minio' = minio,
         note.strayed => note'.strayed,
         a = "operator" =>
           \/ at[a].script # "env" /\ (p.script # "env" \/ p.step = 1)
           \/ /\ at[a].script = "env" /\ p.script # "env"
              /\ at[a].step \notin {10, 11} \/ note'.strayed
  PROVE  SetUpSoFar'
<1>1. at'[a] = p /\ \A b \in Sv!Actor : b # a => at'[b] = at[b]
  BY SvMoves
<1>2. CASE a = "operator"
  BY <1>1, <1>2 DEF SetUpSoFar, Past, Sv!TypeOK, Sv!Minio
<1>3. CASE a # "operator"
  <2>1. at'["operator"] = at["operator"]
    BY <1>1, <1>3 DEF Sv!Actor
  <2> QED
    BY <2>1 DEF SetUpSoFar, Past
<1> QED
  BY <1>2, <1>3

LEMMA SvReadyKept ==
  ASSUME Sv!TypeOK, Sv!SetupSatisfiesCheck, commands \subseteq commands', active \subseteq active',
         database => database', minio' = "none" => minio = "none", note'.ready => note.ready,
         note.strayed => note'.strayed
  PROVE  Sv!SetupSatisfiesCheck'
BY DEF Sv!SetupSatisfiesCheck, Sv!Missing, Sv!Checked, Sv!Services

\* A step of another script than the certificate's.
LEMMA SvSitesKept ==
  ASSUME Sv!TypeOK, CiDeploys, Known, SitesKept, NEW a \in Sv!Actor, NEW p, Moves(a, p), note'.cut = note.cut,
         at[a].script # "ssl", p.script # "ssl",
         commands \subseteq commands', sites \subseteq sites',
         "nginx" \in commands' /\ "nginx" \notin commands => sites' # {},
         \/ serving' = serving /\ ("nginx" \in active' => "nginx" \in active)
         \/ serving' = sites' /\ "nginx" \in commands'
  PROVE  SitesKept'
<1>1. at'[a] = p /\ \A b \in Sv!Actor : b # a => at'[b] = at[b]
  BY SvMoves
<1>2. CASE ~note.cut
  <2>1. \A b \in Sv!Actor : at[b].script # "ssl"
    BY <1>2 DEF SitesKept, Alone, Moves
  <2>2. \A b \in Sv!Actor : at'[b].script # "ssl"
    BY <1>1, <2>1
  <2>3. ~Past("ssl", 1) /\ ~Past("ssl", 4) /\ ~Past("ssl", 5)
    BY <2>1 DEF Past, Sv!Actor
  <2>4. ~Past("ssl", 1)' /\ ~Past("ssl", 4)' /\ ~Past("ssl", 5)'
    BY <2>2 DEF Past, Sv!Actor
  <2>5. "nginx" \in commands' => sites' # {}
    BY <1>2, <2>3 DEF SitesKept
  <2>6. "nginx" \in active' => serving' # {}
    BY <1>2, <2>5 DEF SitesKept
  <2> QED
    BY <2>2, <2>4, <2>5, <2>6 DEF SitesKept
<1> QED
  BY <1>2 DEF SitesKept

\* A step of the set-up.
LEMMA SvPlaces ==
  /\ Sv!Idle \in Sv!Position
  /\ \A n \in 1..10 : Place("setup", n) \in Sv!Position
  /\ \A n \in 1..13 : Place("env", n) \in Sv!Position
  /\ \A n \in 1..3 : Place("upload", n) \in Sv!Position
  /\ \A n \in 1..7 : Place("remote", n) \in Sv!Position
  /\ \A n \in 1..6 : Place("ssl", n) \in Sv!Position
<1>1. /\ LengthOf("setup") = 10 /\ LengthOf("env") = 13 /\ LengthOf("upload") = 3
      /\ LengthOf("remote") = 7 /\ LengthOf("ssl") = 6
  BY DEF LengthOf
<1>2. {"setup", "env", "upload", "remote", "ssl"} = DOMAIN Sv!Script
  BY SvLengths
<1> QED
  BY <1>1, <1>2, SvPositions

\* Where the next step is.
LEMMA SvAdvances ==
  ASSUME Sv!TypeOK, CiDeploys, NEW a \in Sv!Actor, NEW s \in DOMAIN Sv!Script, NEW n \in 1..LengthOf(s),
         at[a] = Place(s, n), Sv!Advance(a), note'.overlap = note.overlap
  PROVE  Moves(a, Next_(s, n)) /\ runs' = runs
<1>1. Sv!After(a) = Next_(s, n) /\ Next_(s, n) \in Sv!Position
  BY SvAfter
<1>2. at[a] # Sv!Idle
  BY SvLengths DEF Place, Sv!Idle
<1>3. a = "ci" => Next_(s, n).script \in {"none", "remote"}
  <2>1. ASSUME a = "ci"
        PROVE  s = "remote"
    BY <2>1, SvLengths DEF CiDeploys, Place
  <2> QED
    BY <2>1 DEF Next_, Place, Sv!Idle
<1> QED
  BY <1>1, <1>2, <1>3 DEF Moves, Sv!Advance

LEMMA SvFirsts ==
  ASSUME NEW p, p.script # "remote" \/ p = Place("remote", 1)
  PROVE  \A dir : Built(p, dir)
BY DEF Built, Place

LEMMA SvInstall ==
  ASSUME SvInv, NEW a \in Sv!Actor, Sv!InstallCommand(a)
  PROVE  SvInv'
<1>1. PICK c \in Sv!Commands :
        /\ Sv!At(a, c) /\ Sv!Advance(a)
        /\ commands' = commands \cup {c}
        /\ active' = IF c \in commands THEN active ELSE active \cup ({c} \cap Sv!Services)
        /\ pgvector' = (pgvector \/ (c = "psql" /\ c \notin commands /\ at[a].script = "env"))
        /\ sites' = IF c = "nginx" /\ c \notin commands THEN sites \cup {"default"} ELSE sites
        /\ serving' = IF c = "nginx" /\ c \notin commands THEN sites' ELSE serving
        /\ UNCHANGED <<database, minio, certificate, Sv!sources, server, note>>
  BY DEF Sv!InstallCommand
<1>2. UNCHANGED <<database, minio, certificate, local, origin, git, server, note>>
  BY <1>1 DEF Sv!sources
<1>3. a = "operator" /\ \E n \in 1..10 : at[a] \in {Place("setup", n), Place("env", n)}
  BY <1>1, SvNamed DEF SvInv
<1>4. PICK n \in 1..10 : at[a] \in {Place("setup", n), Place("env", n)}
  BY <1>3
<1>5. PICK s \in {"setup", "env"} : at[a] = Place(s, n)
  BY <1>4
<1>6. s \in DOMAIN Sv!Script /\ n \in 1..LengthOf(s)
  BY <1>5, SvLengths DEF LengthOf
<1> DEFINE p == Next_(s, n)
<1>7. Moves(a, p) /\ runs' = runs
  BY <1>1, <1>2, <1>5, <1>6, SvAdvances DEF SvInv
<1>8. p.script \in {"setup", "env", "none"}
  BY <1>4, <1>5 DEF Next_, LengthOf, Place, Sv!Idle
<1>9. at' \in [Sv!Actor -> Sv!Position] /\ at'[a] = p /\ CiDeploys'
  BY <1>7, SvMoves DEF SvInv
<1>10. Sv!TypeOK'
  BY <1>1, <1>2, <1>7, <1>9 DEF SvInv, Sv!TypeOK, Sv!Services, Sv!Site
<1>11. Known'
  BY <1>1 DEF SvInv, Known
<1>12. SetUpSoFar'
  <2>1. CASE s = "setup"
    <3>1. at[a].script = "setup" /\ p.script \in {"setup", "none"}
      BY <1>4, <1>5, <2>1 DEF Next_, LengthOf, Place, Sv!Idle
    <3> HIDE DEF p
    <3> QED
      BY <1>1, <1>2, <1>7, <3>1, SvSetUpKept DEF SvInv
  <2>2. CASE s = "env"
    <3>1. at["operator"] = Place("env", n) /\ at'["operator"] = Place("env", n + 1)
      BY <1>3, <1>4, <1>5, <1>9, <2>2 DEF Next_, LengthOf
    <3>2. at[a] = Place("env", EnvStep(c))
      <4>1. at[a].script = "env"
        BY <1>3, <3>1 DEF Place
      <4> QED
        BY <1>1, <4>1, SvNamed DEF SvInv
    <3>3. n = EnvStep(c)
      BY <1>3, <3>1, <3>2 DEF Place
    <3> QED
      BY <1>1, <1>2, <1>4, <3>1, <3>3 DEF SvInv, SetUpSoFar, Past, Place, EnvStep
  <2> QED
    BY <1>5, <2>1, <2>2
<1>13. DeployedSoFar' /\ Sv!DeployedIsWhole'
  <2>1. Built(p, server')
    BY <1>8, SvFirsts
  <2> QED
    BY <1>2, <1>7, <2>1, SvDeploysOn DEF SvInv
<1>14. SitesKept'
  <2>1. at[a].script # "ssl" /\ p.script # "ssl"
    BY <1>5, <1>8 DEF Place
  <2>2. \/ serving' = serving /\ ("nginx" \in active' => "nginx" \in active)
        \/ serving' = sites' /\ "nginx" \in commands'
    <3>1. CASE c = "nginx" /\ c \notin commands
      BY <1>1, <3>1
    <3>2. CASE ~(c = "nginx" /\ c \notin commands)
      BY <1>1, <3>2
    <3> QED
      BY <3>1, <3>2
  <2> QED
    BY <1>1, <1>2, <1>7, <2>1, <2>2, SvSitesKept DEF SvInv
<1>15. Sv!SetupSatisfiesCheck'
  BY <1>1, <1>2, SvReadyKept DEF SvInv
<1> QED
  BY <1>9, <1>10, <1>11, <1>12, <1>13, <1>14, <1>15 DEF SvInv

\* Any other step of the set-up.
LEMMA SvSetupStep ==
  ASSUME SvInv, NEW a \in Sv!Actor, at[a].script \in {"setup", "env"}, NEW p, Moves(a, p),
         p.script \in {"setup", "env", "none"} \/ p = Place("remote", 1),
         Sv!TypeOK', commands' = commands, active \subseteq active', active' \subseteq commands \cup {"minio"},
         database => database', minio' = "none" => minio = "none", sites' = sites,
         \/ serving' = serving /\ ("nginx" \in active' => "nginx" \in active)
         \/ serving' = sites' /\ "nginx" \in commands',
         server' = server, note'.strayed = note.strayed, note'.cut = note.cut, note'.deployed = note.deployed,
         SetUpSoFar', (note'.ready => note.ready) \/ Sv!SetupSatisfiesCheck'
  PROVE  SvInv'
<1>1. CiDeploys'
  BY SvMoves DEF SvInv
<1>2. Known'
  BY DEF Known
<1>3. DeployedSoFar' /\ Sv!DeployedIsWhole'
  <2>1. Built(p, server')
    BY SvFirsts
  <2> QED
    BY <2>1, SvDeploysOn DEF SvInv
<1>4. SitesKept'
  <2>1. at[a].script # "ssl" /\ p.script # "ssl"
    BY DEF Place
  <2> QED
    BY <2>1, SvSitesKept DEF SvInv
<1>5. Sv!SetupSatisfiesCheck'
  BY SvReadyKept DEF SvInv
<1> QED
  BY <1>1, <1>2, <1>3, <1>4, <1>5 DEF SvInv

LEMMA SvPgvector ==
  ASSUME SvInv, NEW a \in Sv!Actor, Sv!InstallPgvector(a)
  PROVE  SvInv'
<1> USE DEF Sv!machine, Sv!nginx, Sv!sources
<1>1. Sv!At(a, "pgvector") /\ Sv!Advance(a) /\ note'.overlap = note.overlap
  BY DEF Sv!InstallPgvector
<1>2. at[a] = Place("setup", 4)
  BY <1>1, SvNamed DEF SvInv
<1>3. a = "operator"
  BY <1>1, SvNamed DEF SvInv
<1> DEFINE p == Next_("setup", 4)
<1>4. Moves(a, p) /\ runs' = runs
  <2>1. "setup" \in DOMAIN Sv!Script /\ 4 \in 1..LengthOf("setup")
    BY SvLengths DEF LengthOf
  <2> QED
    BY <1>1, <1>2, <2>1, SvAdvances DEF SvInv
<1>5. at' \in [Sv!Actor -> Sv!Position] /\ at'[a] = p
  BY <1>4, SvMoves DEF SvInv
<1>6. at[a].script = "setup" /\ (p.script \in {"setup", "env", "none"} \/ p = Place("remote", 1))
  BY <1>2 DEF Next_, LengthOf, Place, Sv!Idle
<1>7. Sv!TypeOK'
  BY <1>4, <1>5 DEF Sv!InstallPgvector, SvInv, Sv!TypeOK, Sv!Minio, Sv!Services, Sv!Enabled
<1>8. SetUpSoFar'
  <2>1. at[a].script = "setup" /\ p.script = "setup"
    BY <1>2 DEF Next_, LengthOf, Place
  <2> HIDE DEF p
  <2> QED
    BY <1>4, <2>1, SvSetUpKept DEF Sv!InstallPgvector, SvInv
<1>9. SvInv'
  <2> HIDE DEF p
  <2> QED
    BY <1>2, <1>4, <1>6, <1>7, <1>8, SvSetupStep DEF Sv!InstallPgvector, SvInv, Known
<1> QED
  BY <1>9

LEMMA SvDatabase ==
  ASSUME SvInv, NEW a \in Sv!Actor, Sv!CreateDatabase(a)
  PROVE  SvInv'
<1> USE DEF Sv!machine, Sv!nginx, Sv!sources
<1>1. Sv!At(a, "database") /\ Sv!Advance(a) /\ note'.overlap = note.overlap
  BY DEF Sv!CreateDatabase
<1>2. PICK s \in {"setup", "env"} : at[a] = Place(s, 5)
  BY <1>1, SvNamed DEF SvInv
<1>3. a = "operator"
  BY <1>1, SvNamed DEF SvInv
<1> DEFINE p == Next_(s, 5)
<1>4. Moves(a, p) /\ runs' = runs
  <2>1. s \in DOMAIN Sv!Script /\ 5 \in 1..LengthOf(s)
    BY SvLengths DEF LengthOf
  <2> QED
    BY <1>1, <1>2, <2>1, SvAdvances DEF SvInv
<1>5. at' \in [Sv!Actor -> Sv!Position] /\ at'[a] = p
  BY <1>4, SvMoves DEF SvInv
<1>6. at[a].script = s /\ (p.script \in {"setup", "env", "none"} \/ p = Place("remote", 1))
  BY <1>2 DEF Next_, LengthOf, Place, Sv!Idle
<1>7. Sv!TypeOK'
  BY <1>4, <1>5 DEF Sv!CreateDatabase, SvInv, Sv!TypeOK, Sv!Minio, Sv!Services, Sv!Enabled
<1>8. SetUpSoFar'
  <2>1. CASE s = "setup"
    <3>1. at[a].script = "setup" /\ p.script \in {"setup", "none"}
      BY <1>2, <2>1 DEF Next_, LengthOf, Place, Sv!Idle
    <3> HIDE DEF p
    <3> QED
      BY <1>4, <3>1, SvSetUpKept DEF Sv!CreateDatabase, SvInv
  <2>2. CASE s = "env"
    <3>1. at["operator"] = Place("env", 5) /\ at'["operator"] = Place("env", 6)
      BY <1>2, <1>3, <1>5, <2>2 DEF Next_, LengthOf
    <3> QED
      BY <3>1 DEF Sv!CreateDatabase, SvInv, SetUpSoFar, Past, Place
  <2> QED
    BY <2>1, <2>2
<1>9. SvInv'
  <2> HIDE DEF p
  <2> QED
    BY <1>2, <1>4, <1>6, <1>7, <1>8, SvSetupStep DEF Sv!CreateDatabase, SvInv, Known
<1> QED
  BY <1>9

LEMMA SvExtension ==
  ASSUME SvInv, NEW a \in Sv!Actor, Sv!CreateExtension(a)
  PROVE  SvInv'
<1> USE DEF Sv!machine, Sv!nginx, Sv!sources
<1>1. Sv!At(a, "vector") /\ Sv!Advance(a) /\ note'.overlap = note.overlap
  BY DEF Sv!CreateExtension
<1>2. PICK s \in {"setup", "env"} : at[a] = Place(s, 6)
  BY <1>1, SvNamed DEF SvInv
<1>3. a = "operator"
  BY <1>1, SvNamed DEF SvInv
<1> DEFINE p == Next_(s, 6)
<1>4. Moves(a, p) /\ runs' = runs
  <2>1. s \in DOMAIN Sv!Script /\ 6 \in 1..LengthOf(s)
    BY SvLengths DEF LengthOf
  <2> QED
    BY <1>1, <1>2, <2>1, SvAdvances DEF SvInv
<1>5. at' \in [Sv!Actor -> Sv!Position] /\ at'[a] = p
  BY <1>4, SvMoves DEF SvInv
<1>6. at[a].script = s /\ (p.script \in {"setup", "env", "none"} \/ p = Place("remote", 1))
  BY <1>2 DEF Next_, LengthOf, Place, Sv!Idle
<1>7. Sv!TypeOK'
  BY <1>4, <1>5 DEF Sv!CreateExtension, SvInv, Sv!TypeOK, Sv!Minio, Sv!Services, Sv!Enabled
<1>8. SetUpSoFar'
  <2>1. CASE s = "setup"
    <3>1. at[a].script = "setup" /\ p.script \in {"setup", "none"}
      BY <1>2, <2>1 DEF Next_, LengthOf, Place, Sv!Idle
    <3> HIDE DEF p
    <3> QED
      BY <1>4, <3>1, SvSetUpKept DEF Sv!CreateExtension, SvInv
  <2>2. CASE s = "env"
    <3>1. at["operator"] = Place("env", 6) /\ at'["operator"] = Place("env", 7)
      BY <1>2, <1>3, <1>5, <2>2 DEF Next_, LengthOf
    <3> QED
      BY <3>1 DEF Sv!CreateExtension, SvInv, SetUpSoFar, Past, Place
  <2> QED
    BY <2>1, <2>2
<1>9. SvInv'
  <2> HIDE DEF p
  <2> QED
    BY <1>2, <1>4, <1>6, <1>7, <1>8, SvSetupStep DEF Sv!CreateExtension, SvInv, Known
<1> QED
  BY <1>9

LEMMA SvUnit ==
  ASSUME SvInv, NEW a \in Sv!Actor, Sv!WriteUnit(a)
  PROVE  SvInv'
<1> USE DEF Sv!machine, Sv!nginx, Sv!sources
<1>1. Sv!At(a, "unit") /\ Sv!Advance(a) /\ note'.overlap = note.overlap
  BY DEF Sv!WriteUnit
<1>2. at[a] = Place("env", 10)
  BY <1>1, SvNamed DEF SvInv
<1>3. a = "operator"
  BY <1>1, SvNamed DEF SvInv
<1> DEFINE p == Next_("env", 10)
<1>4. Moves(a, p) /\ runs' = runs
  <2>1. "env" \in DOMAIN Sv!Script /\ 10 \in 1..LengthOf("env")
    BY SvLengths DEF LengthOf
  <2> QED
    BY <1>1, <1>2, <2>1, SvAdvances DEF SvInv
<1>5. at' \in [Sv!Actor -> Sv!Position] /\ at'[a] = p
  BY <1>4, SvMoves DEF SvInv
<1>6. at[a].script = "env" /\ (p.script \in {"setup", "env", "none"} \/ p = Place("remote", 1))
  BY <1>2 DEF Next_, LengthOf, Place, Sv!Idle
<1>7. Sv!TypeOK'
  BY <1>4, <1>5 DEF Sv!WriteUnit, SvInv, Sv!TypeOK, Sv!Minio, Sv!Services, Sv!Enabled
<1>8. SetUpSoFar'
  <2>1. at["operator"] = Place("env", 10) /\ at'["operator"] = Place("env", 11)
    BY <1>2, <1>3, <1>5 DEF Next_, LengthOf
  <2> QED
    BY <2>1 DEF Sv!WriteUnit, SvInv, SetUpSoFar, Past, Place
<1>9. SvInv'
  <2> HIDE DEF p
  <2> QED
    BY <1>2, <1>4, <1>6, <1>7, <1>8, SvSetupStep DEF Sv!WriteUnit, SvInv, Known
<1> QED
  BY <1>9

LEMMA SvEnable ==
  ASSUME SvInv, NEW a \in Sv!Actor, Sv!EnableMinio(a)
  PROVE  SvInv'
<1> USE DEF Sv!machine, Sv!nginx, Sv!sources
<1>1. Sv!At(a, "enable") /\ Sv!Advance(a) /\ note'.overlap = note.overlap
  BY DEF Sv!EnableMinio
<1>2. at[a] = Place("env", 11)
  BY <1>1, SvNamed DEF SvInv
<1>3. a = "operator"
  BY <1>1, SvNamed DEF SvInv
<1> DEFINE p == Next_("env", 11)
<1>4. Moves(a, p) /\ runs' = runs
  <2>1. "env" \in DOMAIN Sv!Script /\ 11 \in 1..LengthOf("env")
    BY SvLengths DEF LengthOf
  <2> QED
    BY <1>1, <1>2, <2>1, SvAdvances DEF SvInv
<1>5. at' \in [Sv!Actor -> Sv!Position] /\ at'[a] = p
  BY <1>4, SvMoves DEF SvInv
<1>6. at[a].script = "env" /\ (p.script \in {"setup", "env", "none"} \/ p = Place("remote", 1))
  BY <1>2 DEF Next_, LengthOf, Place, Sv!Idle
<1>7. Sv!TypeOK'
  BY <1>4, <1>5 DEF Sv!EnableMinio, SvInv, Sv!TypeOK, Sv!Minio, Sv!Services, Sv!Enabled
<1>8. SetUpSoFar'
  <2>1. at["operator"] = Place("env", 11) /\ at'["operator"] = Place("env", 12)
    BY <1>2, <1>3, <1>5 DEF Next_, LengthOf
  <2> QED
    BY <2>1 DEF Sv!EnableMinio, SvInv, SetUpSoFar, Past, Place
<1>9. SvInv'
  <2> HIDE DEF p
  <2> QED
    BY <1>2, <1>4, <1>6, <1>7, <1>8, SvSetupStep DEF Sv!EnableMinio, SvInv, Known
<1> QED
  BY <1>9

LEMMA SvStartMinio ==
  ASSUME SvInv, NEW a \in Sv!Actor, Sv!StartMinio(a)
  PROVE  SvInv'
<1> USE DEF Sv!machine, Sv!nginx, Sv!sources
<1>1. Sv!At(a, "start") /\ Sv!Advance(a) /\ note'.overlap = note.overlap
  BY DEF Sv!StartMinio
<1>2. at[a] = Place("env", 12)
  BY <1>1, SvNamed DEF SvInv
<1>3. a = "operator"
  BY <1>1, SvNamed DEF SvInv
<1> DEFINE p == Next_("env", 12)
<1>4. Moves(a, p) /\ runs' = runs
  <2>1. "env" \in DOMAIN Sv!Script /\ 12 \in 1..LengthOf("env")
    BY SvLengths DEF LengthOf
  <2> QED
    BY <1>1, <1>2, <2>1, SvAdvances DEF SvInv
<1>5. at' \in [Sv!Actor -> Sv!Position] /\ at'[a] = p
  BY <1>4, SvMoves DEF SvInv
<1>6. at[a].script = "env" /\ (p.script \in {"setup", "env", "none"} \/ p = Place("remote", 1))
  BY <1>2 DEF Next_, LengthOf, Place, Sv!Idle
<1>7. Sv!TypeOK'
  BY <1>4, <1>5 DEF Sv!StartMinio, SvInv, Sv!TypeOK, Sv!Minio, Sv!Services, Sv!Enabled
<1>8. SetUpSoFar'
  <2>1. at["operator"] = Place("env", 12) /\ at'["operator"] = Place("env", 13)
    BY <1>2, <1>3, <1>5 DEF Next_, LengthOf
  <2> QED
    BY <2>1 DEF Sv!StartMinio, SvInv, SetUpSoFar, Past, Place
<1>9. SvInv'
  <2> HIDE DEF p
  <2> QED
    BY <1>2, <1>4, <1>6, <1>7, <1>8, SvSetupStep DEF Sv!StartMinio, SvInv, Known
<1> QED
  BY <1>9

LEMMA SvMinio ==
  ASSUME SvInv, NEW a \in Sv!Actor, Sv!InstallMinio(a)
  PROVE  SvInv'
<1> USE DEF Sv!machine, Sv!nginx, Sv!sources
<1>1. a = "operator" /\ at[a] = Place("env", 9)
  BY SvNamed DEF SvInv, Sv!InstallMinio
<1> DEFINE p == IF minio = "none" THEN Place("env", 10) ELSE Place("env", 13)
<1>2. Moves(a, p) /\ runs' = runs
  <2>1. CASE minio = "none"
    <3>1. "env" \in DOMAIN Sv!Script /\ 9 \in 1..LengthOf("env")
          /\ Next_("env", 9) = Place("env", 10)
      BY SvLengths DEF LengthOf, Next_
    <3>2. Sv!Advance(a) /\ note'.overlap = note.overlap
      BY <2>1 DEF Sv!InstallMinio
    <3> QED
      BY <1>1, <2>1, <3>1, <3>2, SvAdvances DEF SvInv
  <2>2. CASE minio # "none"
    <3>1. Len(Sv!Script["env"]) = 13
      BY SvLengths DEF LengthOf
    <3>2. at' = [at EXCEPT ![a].step = 13] /\ runs' = runs /\ note' = note
      BY <2>2, <3>1 DEF Sv!InstallMinio
    <3>3. at' = [at EXCEPT ![a] = Place("env", 13)]
      <4>1. [at[a] EXCEPT !.step = 13] = Place("env", 13)
        BY <1>1 DEF Place
      <4> QED
        BY <3>2, <4>1
    <3>4. p \in Sv!Position /\ at[a] # Sv!Idle
      BY <1>1, SvPlaces DEF Place, Sv!Idle
    <3> QED
      BY <1>1, <2>2, <3>2, <3>3, <3>4 DEF Moves
  <2> QED
    BY <2>1, <2>2
<1>3. at' \in [Sv!Actor -> Sv!Position] /\ at'[a] = p
  BY <1>2, SvMoves DEF SvInv
<1>4. at[a].script = "env" /\ p.script = "env"
  BY <1>1 DEF Place
<1>5. Sv!TypeOK'
  BY <1>2, <1>3 DEF Sv!InstallMinio, SvInv, Sv!TypeOK, Sv!Minio
<1>6. SetUpSoFar'
  BY <1>1, <1>3 DEF Sv!InstallMinio, SvInv, SetUpSoFar, Past, Place, Sv!TypeOK, Sv!Minio
<1> HIDE DEF p
<1> QED
  BY <1>2, <1>4, <1>5, <1>6, SvSetupStep DEF Sv!InstallMinio, SvInv, Known

LEMMA SvEnsure ==
  ASSUME SvInv, NEW a \in Sv!Actor, Sv!EnsureRunning(a)
  PROVE  SvInv'
<1> USE DEF Sv!machine, Sv!nginx, Sv!sources
<1>1. Sv!At(a, "services") /\ Sv!Advance(a) /\ note' = [note EXCEPT !.ready = TRUE]
  BY DEF Sv!EnsureRunning
<1>2. a = "operator" /\ at[a] = Place("env", 13)
  BY <1>1, SvNamed DEF SvInv
<1> DEFINE p == Place("remote", 1)
<1>3. /\ note'.overlap = note.overlap /\ note'.strayed = note.strayed /\ note'.cut = note.cut
      /\ note'.deployed = note.deployed
      /\ note' \in [overlap : BOOLEAN, strayed : BOOLEAN, cut : BOOLEAN, ready : BOOLEAN,
                    deployed : BOOLEAN]
  BY <1>1 DEF SvInv, Sv!TypeOK
<1>4. Moves(a, p) /\ runs' = runs
  <2>1. "env" \in DOMAIN Sv!Script /\ 13 \in 1..LengthOf("env") /\ Next_("env", 13) = p
    BY SvLengths DEF LengthOf, Next_
  <2> QED
    BY <1>1, <1>2, <1>3, <2>1, SvAdvances DEF SvInv
<1>5. at' \in [Sv!Actor -> Sv!Position] /\ at'[a] = p
  BY <1>4, SvMoves DEF SvInv
<1>6. /\ commands' = commands /\ minio' = minio /\ database' = database /\ sites' = sites
      /\ active' = active \cup Sv!Enabled
      /\ serving' = IF "nginx" \in active' \ active THEN sites ELSE serving
      /\ server' = server
  BY DEF Sv!EnsureRunning
<1>7. Sv!Enabled \subseteq Sv!Services /\ Sv!Enabled \subseteq commands \cup {"minio"}
  BY DEF Sv!Enabled, Sv!Services
<1>8. Sv!TypeOK'
  BY <1>3, <1>4, <1>5, <1>6, <1>7 DEF Sv!EnsureRunning, SvInv, Sv!TypeOK
<1>9. SetUpSoFar'
  <2>1. a = "operator" => at[a].script = "env" /\ p.script # "env" /\ at[a].step \notin {10, 11}
    BY <1>2 DEF Place
  <2> HIDE DEF p
  <2> QED
    BY <1>3, <1>4, <1>6, <2>1, SvSetUpKept DEF SvInv
<1>10. Sv!SetupSatisfiesCheck'
  <2>1. /\ Sv!Checked \subseteq commands /\ database /\ minio # "none"
        /\ ~note.strayed => minio = "enabled"
    BY <1>2 DEF SvInv, SetUpSoFar, Past, Place, Sv!Checked, Sv!TypeOK, Sv!Minio
  <2>2. Sv!Services \ {"minio"} \subseteq active' /\ (~note.strayed => "minio" \in active')
    BY <1>6, <2>1 DEF Sv!Enabled, Sv!Services, Sv!Checked
  <2> QED
    BY <1>3, <1>6, <2>1, <2>2 DEF Sv!SetupSatisfiesCheck, Sv!Missing, Sv!Services
<1>11. \/ serving' = serving /\ ("nginx" \in active' => "nginx" \in active)
       \/ serving' = sites' /\ "nginx" \in commands'
  BY <1>6, <1>7
<1>12. at[a].script = "env"
  BY <1>2 DEF Place
<1> HIDE DEF p
<1>13. p = Place("remote", 1)
  BY DEF p
<1> QED
  <2>1. active \subseteq active' /\ active' \subseteq commands \cup {"minio"}
    BY <1>6, <1>7 DEF SvInv, Known
  <2> QED
    BY <1>3, <1>4, <1>6, <1>8, <1>9, <1>10, <1>11, <1>12, <1>13, <2>1, SvSetupStep

----------------------------------------------------------------------------
(* Deployments and the certificate.                                        *)

\* A step of a deployment leaves the machine as it is.
LEMMA SvDeployStep ==
  ASSUME SvInv, NEW a \in Sv!Actor, at[a].script \in {"upload", "remote"}, NEW p, Moves(a, p),
         p.script \in {"upload", "remote", "none"} \/ p = Place("env", 1),
         Sv!TypeOK', commands' = commands, active' = active, database' = database, minio' = minio,
         sites' = sites, serving' = serving \/ (serving' = sites /\ "nginx" \in active),
         note'.strayed = note.strayed, note'.cut = note.cut,
         (note'.ready => note.ready) \/ Sv!SetupSatisfiesCheck',
         \/ note'.deployed = note.deployed /\ (note.overlap \/ Built(p, server'))
         \/ DeployedSoFar' /\ Sv!DeployedIsWhole'
  PROVE  SvInv'
<1>1. CiDeploys'
  BY SvMoves DEF SvInv
<1>2. Known'
  BY DEF Known, SvInv
<1>3. DeployedSoFar' /\ Sv!DeployedIsWhole'
  BY SvDeploysOn DEF SvInv
<1>4. SitesKept'
  <2>1. at[a].script # "ssl" /\ p.script # "ssl"
    BY DEF Place
  <2>2. "nginx" \in active => "nginx" \in commands
    BY DEF SvInv, Known
  <2> QED
    BY <2>1, <2>2, SvSitesKept DEF SvInv
<1>5. Sv!SetupSatisfiesCheck'
  BY SvReadyKept DEF SvInv
<1>6. SetUpSoFar'
  <2>1. at[a].script # "env" /\ (p.script # "env" \/ p.step = 1)
    BY DEF Place
  <2> QED
    BY <2>1, SvSetUpKept DEF SvInv
<1> QED
  BY <1>1, <1>2, <1>3, <1>4, <1>5, <1>6 DEF SvInv

LEMMA SvUpload ==
  ASSUME SvInv, NEW a \in Sv!Actor, Sv!Upload(a)
  PROVE  SvInv'
<1>1. Sv!At(a, "upload") /\ Sv!Advance(a) /\ note' = note
  BY DEF Sv!Upload
<1>2. at[a] = Place("upload", 1)
  BY <1>1, SvNamed DEF SvInv
<1> DEFINE p == Place("upload", 2)
<1>3. Moves(a, p) /\ runs' = runs
  <2>1. "upload" \in DOMAIN Sv!Script /\ 1 \in 1..LengthOf("upload") /\ Next_("upload", 1) = p
    BY SvLengths DEF LengthOf, Next_
  <2> QED
    BY <1>1, <1>2, <2>1, SvAdvances DEF SvInv
<1>4. at' \in [Sv!Actor -> Sv!Position]
  BY <1>3, SvMoves DEF SvInv
<1>5. UNCHANGED <<commands, pgvector, database, minio, active, sites, certificate, local,
                  origin, git>>
      /\ (serving' = serving \/ (serving' = sites /\ "nginx" \in active))
  BY DEF Sv!Upload, Sv!machine, Sv!nginx, Sv!sources
<1>6. Sv!TypeOK'
  BY <1>1, <1>3, <1>4, <1>5 DEF Sv!Upload, SvInv, Sv!TypeOK, Sv!Tree, Sv!Version
<1>7. note.overlap \/ Built(p, server')
  BY DEF Built, Place
<1>8. at[a].script = "upload" /\ p.script = "upload"
  BY <1>2 DEF Place
<1> HIDE DEF p
<1> QED
  BY <1>1, <1>3, <1>5, <1>6, <1>7, <1>8, SvDeployStep

LEMMA SvDotEnv ==
  ASSUME SvInv, NEW a \in Sv!Actor, Sv!WriteDotEnv(a)
  PROVE  SvInv'
<1>1. Sv!At(a, "dotenv") /\ Sv!Advance(a) /\ note' = note
  BY DEF Sv!WriteDotEnv
<1>2. at[a] = Place("upload", 2)
  BY <1>1, SvNamed DEF SvInv
<1> DEFINE p == Place("upload", 3)
<1>3. Moves(a, p) /\ runs' = runs
  <2>1. "upload" \in DOMAIN Sv!Script /\ 2 \in 1..LengthOf("upload") /\ Next_("upload", 2) = p
    BY SvLengths DEF LengthOf, Next_
  <2> QED
    BY <1>1, <1>2, <2>1, SvAdvances DEF SvInv
<1>4. at' \in [Sv!Actor -> Sv!Position]
  BY <1>3, SvMoves DEF SvInv
<1>5. UNCHANGED <<commands, pgvector, database, minio, active, sites, certificate, local,
                  origin, git>>
      /\ (serving' = serving \/ (serving' = sites /\ "nginx" \in active))
  BY DEF Sv!WriteDotEnv, Sv!machine, Sv!nginx, Sv!sources
<1>6. Sv!TypeOK'
  BY <1>1, <1>3, <1>4, <1>5 DEF Sv!WriteDotEnv, SvInv, Sv!TypeOK, Sv!Tree, Sv!Version
<1>7. note.overlap \/ Built(p, server')
  BY DEF Built, Place
<1>8. at[a].script = "upload" /\ p.script = "upload"
  BY <1>2 DEF Place
<1> HIDE DEF p
<1> QED
  BY <1>1, <1>3, <1>5, <1>6, <1>7, <1>8, SvDeployStep

LEMMA SvPull ==
  ASSUME SvInv, NEW a \in Sv!Actor, Sv!Pull(a)
  PROVE  SvInv'
<1>1. Sv!At(a, "pull") /\ Sv!Advance(a) /\ note' = note
  BY DEF Sv!Pull
<1>2. at[a] = Place("remote", 1)
  BY <1>1, SvNamed DEF SvInv
<1> DEFINE p == Place("remote", 2)
<1>3. Moves(a, p) /\ runs' = runs
  <2>1. "remote" \in DOMAIN Sv!Script /\ 1 \in 1..LengthOf("remote") /\ Next_("remote", 1) = p
    BY SvLengths DEF LengthOf, Next_
  <2> QED
    BY <1>1, <1>2, <2>1, SvAdvances DEF SvInv
<1>4. at' \in [Sv!Actor -> Sv!Position]
  BY <1>3, SvMoves DEF SvInv
<1>5. UNCHANGED <<commands, pgvector, database, minio, active, sites, certificate, local,
                  origin, git>>
      /\ (serving' = serving \/ (serving' = sites /\ "nginx" \in active))
  BY DEF Sv!Pull, Sv!machine, Sv!nginx, Sv!sources
<1>6. Sv!TypeOK'
  BY <1>1, <1>3, <1>4, <1>5 DEF Sv!Pull, SvInv, Sv!TypeOK, Sv!Tree, Sv!Version
<1>7. note.overlap \/ Built(p, server')
  <2>1. ASSUME ~note.overlap
        PROVE  Built(at[a], server)
    BY <2>1 DEF SvInv, DeployedSoFar
  <2> QED
    BY <1>2, <2>1 DEF Sv!Pull, Built, Place, SvInv, Sv!TypeOK, Sv!Tree, Sv!Version
<1>8. at[a].script = "remote" /\ p.script = "remote"
  BY <1>2 DEF Place
<1> HIDE DEF p
<1> QED
  BY <1>1, <1>3, <1>5, <1>6, <1>7, <1>8, SvDeployStep

LEMMA SvNpm ==
  ASSUME SvInv, NEW a \in Sv!Actor, Sv!NpmCi(a)
  PROVE  SvInv'
<1>1. Sv!At(a, "npm") /\ Sv!Advance(a) /\ note' = note
  BY DEF Sv!NpmCi
<1>2. at[a] = Place("remote", 2)
  BY <1>1, SvNamed DEF SvInv
<1> DEFINE p == Place("remote", 3)
<1>3. Moves(a, p) /\ runs' = runs
  <2>1. "remote" \in DOMAIN Sv!Script /\ 2 \in 1..LengthOf("remote") /\ Next_("remote", 2) = p
    BY SvLengths DEF LengthOf, Next_
  <2> QED
    BY <1>1, <1>2, <2>1, SvAdvances DEF SvInv
<1>4. at' \in [Sv!Actor -> Sv!Position]
  BY <1>3, SvMoves DEF SvInv
<1>5. UNCHANGED <<commands, pgvector, database, minio, active, sites, certificate, local,
                  origin, git>>
      /\ (serving' = serving \/ (serving' = sites /\ "nginx" \in active))
  BY DEF Sv!NpmCi, Sv!machine, Sv!nginx, Sv!sources
<1>6. Sv!TypeOK'
  BY <1>1, <1>3, <1>4, <1>5 DEF Sv!NpmCi, SvInv, Sv!TypeOK, Sv!Tree, Sv!Version
<1>7. note.overlap \/ Built(p, server')
  <2>1. ASSUME ~note.overlap
        PROVE  Built(at[a], server)
    BY <2>1 DEF SvInv, DeployedSoFar
  <2> QED
    BY <1>2, <2>1 DEF Sv!NpmCi, Built, Place, SvInv, Sv!TypeOK, Sv!Tree, Sv!Version
<1>8. at[a].script = "remote" /\ p.script = "remote"
  BY <1>2 DEF Place
<1> HIDE DEF p
<1> QED
  BY <1>1, <1>3, <1>5, <1>6, <1>7, <1>8, SvDeployStep

LEMMA SvMigrate ==
  ASSUME SvInv, NEW a \in Sv!Actor, Sv!Migrate(a)
  PROVE  SvInv'
<1>1. Sv!At(a, "migrate") /\ Sv!Advance(a) /\ note' = note
  BY DEF Sv!Migrate
<1>2. at[a] = Place("remote", 3)
  BY <1>1, SvNamed DEF SvInv
<1> DEFINE p == Place("remote", 4)
<1>3. Moves(a, p) /\ runs' = runs
  <2>1. "remote" \in DOMAIN Sv!Script /\ 3 \in 1..LengthOf("remote") /\ Next_("remote", 3) = p
    BY SvLengths DEF LengthOf, Next_
  <2> QED
    BY <1>1, <1>2, <2>1, SvAdvances DEF SvInv
<1>4. at' \in [Sv!Actor -> Sv!Position]
  BY <1>3, SvMoves DEF SvInv
<1>5. UNCHANGED <<commands, pgvector, database, minio, active, sites, certificate, local,
                  origin, git>>
      /\ (serving' = serving \/ (serving' = sites /\ "nginx" \in active))
  BY DEF Sv!Migrate, Sv!machine, Sv!nginx, Sv!sources
<1>6. Sv!TypeOK'
  BY <1>1, <1>3, <1>4, <1>5 DEF Sv!Migrate, SvInv, Sv!TypeOK, Sv!Tree, Sv!Version, Sv!Newer
<1>7. note.overlap \/ Built(p, server')
  <2>1. ASSUME ~note.overlap
        PROVE  Built(at[a], server)
    BY <2>1 DEF SvInv, DeployedSoFar
  <2> QED
    BY <1>2, <2>1 DEF Sv!Migrate, Built, Place, SvInv, Sv!TypeOK, Sv!Tree, Sv!Version, Sv!Newer
<1>8. at[a].script = "remote" /\ p.script = "remote"
  BY <1>2 DEF Place
<1> HIDE DEF p
<1> QED
  BY <1>1, <1>3, <1>5, <1>6, <1>7, <1>8, SvDeployStep

LEMMA SvBuild ==
  ASSUME SvInv, NEW a \in Sv!Actor, Sv!Build(a)
  PROVE  SvInv'
<1>1. Sv!At(a, "build") /\ Sv!Advance(a) /\ note' = note
  BY DEF Sv!Build
<1>2. at[a] = Place("remote", 4)
  BY <1>1, SvNamed DEF SvInv
<1> DEFINE p == Place("remote", 5)
<1>3. Moves(a, p) /\ runs' = runs
  <2>1. "remote" \in DOMAIN Sv!Script /\ 4 \in 1..LengthOf("remote") /\ Next_("remote", 4) = p
    BY SvLengths DEF LengthOf, Next_
  <2> QED
    BY <1>1, <1>2, <2>1, SvAdvances DEF SvInv
<1>4. at' \in [Sv!Actor -> Sv!Position]
  BY <1>3, SvMoves DEF SvInv
<1>5. UNCHANGED <<commands, pgvector, database, minio, active, sites, certificate, local,
                  origin, git>>
      /\ (serving' = serving \/ (serving' = sites /\ "nginx" \in active))
  BY DEF Sv!Build, Sv!machine, Sv!nginx, Sv!sources
<1>6. Sv!TypeOK'
  BY <1>1, <1>3, <1>4, <1>5 DEF Sv!Build, SvInv, Sv!TypeOK, Sv!Tree, Sv!Version
<1>7. note.overlap \/ Built(p, server')
  <2>1. ASSUME ~note.overlap
        PROVE  Built(at[a], server)
    BY <2>1 DEF SvInv, DeployedSoFar
  <2> QED
    BY <1>2, <2>1 DEF Sv!Build, Built, Place, SvInv, Sv!TypeOK, Sv!Tree, Sv!Version
<1>8. at[a].script = "remote" /\ p.script = "remote"
  BY <1>2 DEF Place
<1> HIDE DEF p
<1> QED
  BY <1>1, <1>3, <1>5, <1>6, <1>7, <1>8, SvDeployStep

LEMMA SvReload ==
  ASSUME SvInv, NEW a \in Sv!Actor, Sv!Reload(a)
  PROVE  SvInv'
<1>1. Sv!At(a, "reload") /\ Sv!Advance(a) /\ note' = note
  BY DEF Sv!Reload
<1>2. at[a] = Place("remote", 5)
  BY <1>1, SvNamed DEF SvInv
<1> DEFINE p == Place("remote", 6)
<1>3. Moves(a, p) /\ runs' = runs
  <2>1. "remote" \in DOMAIN Sv!Script /\ 5 \in 1..LengthOf("remote") /\ Next_("remote", 5) = p
    BY SvLengths DEF LengthOf, Next_
  <2> QED
    BY <1>1, <1>2, <2>1, SvAdvances DEF SvInv
<1>4. at' \in [Sv!Actor -> Sv!Position]
  BY <1>3, SvMoves DEF SvInv
<1>5. UNCHANGED <<commands, pgvector, database, minio, active, sites, certificate, local,
                  origin, git>>
      /\ (serving' = serving \/ (serving' = sites /\ "nginx" \in active))
  BY DEF Sv!Reload, Sv!machine, Sv!nginx, Sv!sources
<1>6. Sv!TypeOK'
  BY <1>1, <1>3, <1>4, <1>5 DEF Sv!Reload, SvInv, Sv!TypeOK, Sv!Tree, Sv!Version
<1>7. note.overlap \/ Built(p, server')
  <2>1. ASSUME ~note.overlap
        PROVE  Built(at[a], server)
    BY <2>1 DEF SvInv, DeployedSoFar
  <2> QED
    BY <1>2, <2>1 DEF Sv!Reload, Built, Place, SvInv, Sv!TypeOK, Sv!Tree, Sv!Version, Sv!nginx,
                      Sv!sources
<1>8. at[a].script = "remote" /\ p.script = "remote"
  BY <1>2 DEF Place
<1> HIDE DEF p
<1> QED
  BY <1>1, <1>3, <1>5, <1>6, <1>7, <1>8, SvDeployStep

LEMMA SvRestart ==
  ASSUME SvInv, NEW a \in Sv!Actor, Sv!Restart(a)
  PROVE  SvInv'
<1>1. Sv!At(a, "restart") /\ Sv!Advance(a) /\ note' = note
  BY DEF Sv!Restart
<1>2. at[a] = Place("remote", 6)
  BY <1>1, SvNamed DEF SvInv
<1> DEFINE p == Place("remote", 7)
<1>3. Moves(a, p) /\ runs' = runs
  <2>1. "remote" \in DOMAIN Sv!Script /\ 6 \in 1..LengthOf("remote") /\ Next_("remote", 6) = p
    BY SvLengths DEF LengthOf, Next_
  <2> QED
    BY <1>1, <1>2, <2>1, SvAdvances DEF SvInv
<1>4. at' \in [Sv!Actor -> Sv!Position]
  BY <1>3, SvMoves DEF SvInv
<1>5. UNCHANGED <<commands, pgvector, database, minio, active, sites, certificate, local,
                  origin, git>>
      /\ (serving' = serving \/ (serving' = sites /\ "nginx" \in active))
  BY DEF Sv!Restart, Sv!machine, Sv!nginx, Sv!sources
<1>6. Sv!TypeOK'
  BY <1>1, <1>3, <1>4, <1>5 DEF Sv!Restart, SvInv, Sv!TypeOK, Sv!Tree, Sv!Version
<1>7. note.overlap \/ Built(p, server')
  <2>1. ASSUME ~note.overlap
        PROVE  Built(at[a], server)
    BY <2>1 DEF SvInv, DeployedSoFar
  <2> QED
    BY <1>2, <2>1 DEF Sv!Restart, Built, Place, SvInv, Sv!TypeOK, Sv!Tree, Sv!Version
<1>8. at[a].script = "remote" /\ p.script = "remote"
  BY <1>2 DEF Place
<1> HIDE DEF p
<1> QED
  BY <1>1, <1>3, <1>5, <1>6, <1>7, <1>8, SvDeployStep

LEMMA SvHealth ==
  ASSUME SvInv, NEW a \in Sv!Actor, Sv!HealthCheck(a)
  PROVE  SvInv'
<1>1. Sv!At(a, "health") /\ Sv!Advance(a) /\ note' = [note EXCEPT !.deployed = TRUE]
  BY DEF Sv!HealthCheck
<1>2. at[a] = Place("remote", 7)
  BY <1>1, SvNamed DEF SvInv
<1>3. /\ note'.overlap = note.overlap /\ note'.strayed = note.strayed /\ note'.cut = note.cut
      /\ note'.ready = note.ready
      /\ note' \in [overlap : BOOLEAN, strayed : BOOLEAN, cut : BOOLEAN, ready : BOOLEAN,
                    deployed : BOOLEAN]
  BY <1>1 DEF SvInv, Sv!TypeOK
<1>4. Moves(a, Sv!Idle) /\ runs' = runs
  <2>1. "remote" \in DOMAIN Sv!Script /\ 7 \in 1..LengthOf("remote")
        /\ Next_("remote", 7) = Sv!Idle
    BY SvLengths DEF LengthOf, Next_
  <2> QED
    BY <1>1, <1>2, <1>3, <2>1, SvAdvances DEF SvInv
<1>5. at' \in [Sv!Actor -> Sv!Position]
  BY <1>4, SvMoves DEF SvInv
<1>6. UNCHANGED <<commands, pgvector, database, minio, active, sites, serving, certificate,
                  local, origin, git, server>>
  BY DEF Sv!HealthCheck, Sv!machine, Sv!nginx, Sv!sources
<1>7. Sv!TypeOK'
  BY <1>3, <1>4, <1>5, <1>6 DEF SvInv, Sv!TypeOK
<1>8. DeployedSoFar' /\ Sv!DeployedIsWhole'
  <2>1. CASE note.overlap
    BY <1>3, <2>1 DEF DeployedSoFar, Sv!DeployedIsWhole
  <2>2. CASE ~note.overlap
    <3>1. Alone(a) /\ Built(Place("remote", 7), server)
      BY <1>2, <1>4, <2>2 DEF SvInv, DeployedSoFar, Moves
    <3>2. \A b \in Sv!Actor : at'[b] = Sv!Idle
      BY <1>4, <3>1, SvMoves DEF SvInv, Alone
    <3>3. \A b \in Sv!Actor : Built(at'[b], server')
      BY <3>2 DEF Built, Sv!Idle
    <3>4. /\ server.tree # 0 /\ server.deps = server.tree /\ server.schema >= server.tree
          /\ server.dist = server.tree /\ server.running = server.dist
      BY <3>1 DEF Built, Place
    <3> QED
      BY <1>6, <3>2, <3>3, <3>4 DEF DeployedSoFar, Sv!DeployedIsWhole
  <2> QED
    BY <2>1, <2>2
<1>9. at[a].script = "remote" /\ Sv!Idle.script = "none"
  BY <1>2 DEF Place, Sv!Idle
<1> QED
  BY <1>3, <1>4, <1>6, <1>7, <1>8, <1>9, SvDeployStep

LEMMA SvCheckEnv ==
  ASSUME SvInv, NEW a \in Sv!Actor, Sv!CheckEnvironment(a)
  PROVE  SvInv'
<1>1. PICK script \in {"remote", "env"} : at' = [at EXCEPT ![a] = Place(script, 1)]
  BY DEF Sv!CheckEnvironment, Sv!First, Place
<1>2. Sv!At(a, "check") /\ note' = [note EXCEPT !.ready = Sv!Missing = {}]
  BY DEF Sv!CheckEnvironment
<1>3. a = "operator" /\ at[a] = Place("upload", 3)
  BY <1>2, SvNamed DEF SvInv
<1>4. /\ note'.overlap = note.overlap /\ note'.strayed = note.strayed /\ note'.cut = note.cut
      /\ note'.deployed = note.deployed /\ note'.ready = (Sv!Missing = {})
      /\ note' \in [overlap : BOOLEAN, strayed : BOOLEAN, cut : BOOLEAN, ready : BOOLEAN,
                    deployed : BOOLEAN]
  BY <1>2 DEF SvInv, Sv!TypeOK
<1> DEFINE p == Place(script, 1)
<1>5. Moves(a, p)
  <2>1. p \in Sv!Position
    BY SvPlaces
  <2> QED
    BY <1>1, <1>3, <1>4, <2>1 DEF Moves, Place, Sv!Idle
<1>6. at' \in [Sv!Actor -> Sv!Position]
  BY <1>5, SvMoves DEF SvInv
<1>7. UNCHANGED <<commands, pgvector, database, minio, active, sites, serving, certificate,
                  local, origin, git, server, runs>>
  BY DEF Sv!CheckEnvironment, Sv!machine, Sv!nginx, Sv!sources
<1>8. Sv!TypeOK'
  BY <1>4, <1>6, <1>7 DEF SvInv, Sv!TypeOK
<1>9. Sv!SetupSatisfiesCheck'
  <2>1. Sv!Missing' = Sv!Missing
    BY <1>7 DEF Sv!Missing
  <2> QED
    BY <1>4, <2>1 DEF Sv!SetupSatisfiesCheck
<1>10. Built(p, server')
  BY DEF Built, Place
<1>11. at[a].script = "upload" /\ (p.script = "remote" \/ p = Place("env", 1))
  BY <1>3 DEF Place
<1> HIDE DEF p
<1> QED
  BY <1>4, <1>5, <1>7, <1>8, <1>9, <1>10, <1>11, SvDeployStep
\* A step of the certificate's script changes the sites only.
LEMMA SvSslStep ==
  ASSUME SvInv, NEW a \in Sv!Actor, at[a].script = "ssl", NEW p, Moves(a, p), p.script \in {"ssl", "none"},
         UNCHANGED <<commands, pgvector, database, minio, active, local, origin, git, server,
                     runs, note>>,
         sites' \subseteq Sv!Site, serving' \in {serving, sites}, certificate' \in BOOLEAN,
         "nginx" \in active' /\ ~note.cut => serving' # {},
         "nginx" \in commands' /\ ~note.cut => sites' # {} \/ (p.script = "ssl" /\ p.step > 4),
         p.script = "ssl" /\ ~note.cut =>
           /\ p.step > 1 => "nginx" \in commands'
           /\ p.step \in {2, 3, 4} => "temporary" \in sites'
           /\ p.step > 5 => "production" \in sites'
  PROVE  SvInv'
<1>1. CiDeploys' /\ at' \in [Sv!Actor -> Sv!Position]
  BY SvMoves DEF SvInv
<1>2. at'[a] = p /\ \A b \in Sv!Actor : b # a => at'[b] = at[b]
  BY SvMoves DEF SvInv
<1>3. Known'
  BY DEF Known, SvInv
<1>4. Sv!TypeOK'
  BY <1>1 DEF SvInv, Sv!TypeOK
<1>5. DeployedSoFar' /\ Sv!DeployedIsWhole'
  <2>1. Built(p, server')
    BY SvFirsts
  <2> QED
    BY <2>1, SvDeploysOn DEF SvInv
<1>6. SitesKept'
  <2>1. CASE note.cut
    BY <2>1 DEF SitesKept
  <2>2. CASE ~note.cut
    <3>1. Alone(a) /\ a = "operator"
      BY <2>2 DEF SvInv, SitesKept, CiDeploys, Sv!Actor
    <3>2. \A b \in Sv!Actor : at'[b].script = "ssl" => Alone(b)'
      <4>1. \A b \in Sv!Actor : b # a => at'[b] = Sv!Idle
        BY <1>2, <3>1 DEF Alone
      <4> QED
        BY <4>1 DEF Alone, Sv!Idle
    <3>3. at'["operator"] = p /\ p \in Sv!Position
      BY <1>2, <3>1 DEF Moves
    <3>4. p.script = "ssl" => p.step \in Nat
      <4>1. ASSUME p.script = "ssl"
            PROVE  \E n \in 1..LengthOf("ssl") : p = Place("ssl", n)
        BY <3>3, <4>1, SvPositions DEF Sv!Idle, Place
      <4> QED
        BY <4>1 DEF Place, LengthOf
    <3> QED
      BY <2>2, <3>2, <3>3, <3>4 DEF SitesKept, Past
  <2> QED
    BY <2>1, <2>2
<1>7. Sv!SetupSatisfiesCheck'
  BY SvReadyKept DEF SvInv
<1>8. SetUpSoFar'
  BY SvSetUpKept DEF SvInv
<1> QED
  BY <1>1, <1>3, <1>4, <1>5, <1>6, <1>7, <1>8 DEF SvInv

\* What SitesKept says while that script runs.
LEMMA SvSslSites ==
  ASSUME SvInv, NEW a \in Sv!Actor, a = "operator", NEW n \in 1..6, at[a] = Place("ssl", n), ~note.cut
  PROVE  /\ "nginx" \in active => serving # {} /\ "nginx" \in commands
         /\ n > 1 => "nginx" \in commands
         /\ n \in {2, 3, 4} => "temporary" \in sites
         /\ n > 5 => "production" \in sites
         /\ "nginx" \in commands => sites # {} \/ n > 4
BY DEF SvInv, SitesKept, Past, Place, Known

LEMMA SvTest ==
  ASSUME SvInv, NEW a \in Sv!Actor, Sv!TestAndReload(a)
  PROVE  SvInv'
<1>1. Sv!At(a, "test") /\ Sv!Advance(a) /\ note' = note
  BY DEF Sv!TestAndReload
<1>2. a = "operator"
  BY <1>1, SvNamed DEF SvInv
<1>3. PICK n \in {2, 6} : at[a] = Place("ssl", n)
  BY <1>1, SvNamed DEF SvInv
<1> DEFINE p == IF n = 2 THEN Place("ssl", 3) ELSE Sv!Idle
<1>4. Moves(a, p) /\ runs' = runs
  <2>1. "ssl" \in DOMAIN Sv!Script /\ n \in 1..LengthOf("ssl") /\ Next_("ssl", n) = p
    BY SvLengths DEF LengthOf, Next_
  <2> QED
    BY <1>1, <1>3, <2>1, SvAdvances DEF SvInv
<1>5. UNCHANGED <<commands, pgvector, database, minio, active, local, origin, git, server, runs,
                  note, sites, certificate>>
      /\ (serving' = serving \/ (serving' = sites /\ "nginx" \in active))
  BY <1>4 DEF Sv!TestAndReload, Sv!machine, Sv!nginx, Sv!sources
<1>6. p.script \in {"ssl",
                    "none"} /\ at[a].script = "ssl" /\ (p.script = "ssl" => n = 2 /\ p.step = 3)
  BY <1>3 DEF Place, Sv!Idle
<1>7. sites' \subseteq Sv!Site /\ certificate' \in BOOLEAN
  BY <1>5 DEF SvInv, Sv!TypeOK
<1>8. ASSUME ~note.cut
      PROVE  /\ "nginx" \in active => serving # {} /\ "nginx" \in commands
             /\ "nginx" \in commands /\ sites # {}
             /\ n = 2 => "temporary" \in sites
  BY <1>2, <1>3, <1>8, SvSslSites
<1> HIDE DEF p
<1> QED
  BY <1>4, <1>5, <1>6, <1>7, <1>8, SvSslStep

LEMMA SvTemporary ==
  ASSUME SvInv, NEW a \in Sv!Actor, Sv!TemporarySite(a)
  PROVE  SvInv'
<1>1. Sv!At(a, "temporary") /\ Sv!Advance(a) /\ note' = note
  BY DEF Sv!TemporarySite
<1>2. a = "operator" /\ at[a] = Place("ssl", 1)
  BY <1>1, SvNamed DEF SvInv
<1> DEFINE p == Place("ssl", 2)
<1>3. Moves(a, p) /\ runs' = runs
  <2>1. "ssl" \in DOMAIN Sv!Script /\ 1 \in 1..LengthOf("ssl") /\ Next_("ssl", 1) = p
    BY SvLengths DEF LengthOf, Next_
  <2> QED
    BY <1>1, <1>2, <2>1, SvAdvances DEF SvInv
<1>4. UNCHANGED <<commands, pgvector, database, minio, active, local, origin, git, server, runs,
                  note, serving>>
  BY <1>3 DEF Sv!TemporarySite, Sv!machine, Sv!nginx, Sv!sources
<1>5. p.script = "ssl" /\ p.step = 2 /\ at[a].script = "ssl"
  BY <1>2 DEF Place
<1>6. sites' \subseteq Sv!Site /\ certificate' \in BOOLEAN
  BY DEF Sv!TemporarySite, SvInv, Sv!TypeOK, Sv!Site
<1>7. ASSUME ~note.cut
      PROVE  /\ "nginx" \in active' => serving' # {}
             /\ "nginx" \in commands' => sites' # {} \/ p.step > 4
             /\ "nginx" \in commands'
             /\ p.step \in {2, 3, 4} => "temporary" \in sites'
             /\ p.step > 5 => "production" \in sites'
  BY <1>2, <1>4, <1>5, <1>7, SvSslSites DEF Sv!TemporarySite
<1> HIDE DEF p
<1> QED
  BY <1>3, <1>4, <1>5, <1>6, <1>7, SvSslStep

LEMMA SvCertificate ==
  ASSUME SvInv, NEW a \in Sv!Actor, Sv!RequestCertificate(a)
  PROVE  SvInv'
<1>1. Sv!At(a, "certbot") /\ Sv!Advance(a) /\ note' = note
  BY DEF Sv!RequestCertificate
<1>2. a = "operator" /\ at[a] = Place("ssl", 3)
  BY <1>1, SvNamed DEF SvInv
<1> DEFINE p == Place("ssl", 4)
<1>3. Moves(a, p) /\ runs' = runs
  <2>1. "ssl" \in DOMAIN Sv!Script /\ 3 \in 1..LengthOf("ssl") /\ Next_("ssl", 3) = p
    BY SvLengths DEF LengthOf, Next_
  <2> QED
    BY <1>1, <1>2, <2>1, SvAdvances DEF SvInv
<1>4. UNCHANGED <<commands, pgvector, database, minio, active, local, origin, git, server, runs,
                  note, serving>>
  BY <1>3 DEF Sv!RequestCertificate, Sv!machine, Sv!nginx, Sv!sources
<1>5. p.script = "ssl" /\ p.step = 4 /\ at[a].script = "ssl"
  BY <1>2 DEF Place
<1>6. sites' \subseteq Sv!Site /\ certificate' \in BOOLEAN
  BY DEF Sv!RequestCertificate, SvInv, Sv!TypeOK, Sv!Site
<1>7. ASSUME ~note.cut
      PROVE  /\ "nginx" \in active' => serving' # {}
             /\ "nginx" \in commands' => sites' # {} \/ p.step > 4
             /\ "nginx" \in commands'
             /\ p.step \in {2, 3, 4} => "temporary" \in sites'
             /\ p.step > 5 => "production" \in sites'
  BY <1>2, <1>4, <1>5, <1>7, SvSslSites DEF Sv!RequestCertificate
<1> HIDE DEF p
<1> QED
  BY <1>3, <1>4, <1>5, <1>6, <1>7, SvSslStep

LEMMA SvDrop ==
  ASSUME SvInv, NEW a \in Sv!Actor, Sv!RemoveTemporary(a)
  PROVE  SvInv'
<1>1. Sv!At(a, "drop") /\ Sv!Advance(a) /\ note' = note
  BY DEF Sv!RemoveTemporary
<1>2. a = "operator" /\ at[a] = Place("ssl", 4)
  BY <1>1, SvNamed DEF SvInv
<1> DEFINE p == Place("ssl", 5)
<1>3. Moves(a, p) /\ runs' = runs
  <2>1. "ssl" \in DOMAIN Sv!Script /\ 4 \in 1..LengthOf("ssl") /\ Next_("ssl", 4) = p
    BY SvLengths DEF LengthOf, Next_
  <2> QED
    BY <1>1, <1>2, <2>1, SvAdvances DEF SvInv
<1>4. UNCHANGED <<commands, pgvector, database, minio, active, local, origin, git, server, runs,
                  note, serving>>
  BY <1>3 DEF Sv!RemoveTemporary, Sv!machine, Sv!nginx, Sv!sources
<1>5. p.script = "ssl" /\ p.step = 5 /\ at[a].script = "ssl"
  BY <1>2 DEF Place
<1>6. sites' \subseteq Sv!Site /\ certificate' \in BOOLEAN
  BY DEF Sv!RemoveTemporary, SvInv, Sv!TypeOK, Sv!Site
<1>7. ASSUME ~note.cut
      PROVE  /\ "nginx" \in active' => serving' # {}
             /\ "nginx" \in commands' => sites' # {} \/ p.step > 4
             /\ "nginx" \in commands'
             /\ p.step \in {2, 3, 4} => "temporary" \in sites'
             /\ p.step > 5 => "production" \in sites'
  BY <1>2, <1>4, <1>5, <1>7, SvSslSites DEF Sv!RemoveTemporary
<1> HIDE DEF p
<1> QED
  BY <1>3, <1>4, <1>5, <1>6, <1>7, SvSslStep

LEMMA SvLink ==
  ASSUME SvInv, NEW a \in Sv!Actor, Sv!LinkSite(a)
  PROVE  SvInv'
<1>1. Sv!At(a, "link") /\ Sv!Advance(a) /\ note' = note
  BY DEF Sv!LinkSite
<1>2. a = "operator" /\ at[a] = Place("ssl", 5)
  BY <1>1, SvNamed DEF SvInv
<1> DEFINE p == Place("ssl", 6)
<1>3. Moves(a, p) /\ runs' = runs
  <2>1. "ssl" \in DOMAIN Sv!Script /\ 5 \in 1..LengthOf("ssl") /\ Next_("ssl", 5) = p
    BY SvLengths DEF LengthOf, Next_
  <2> QED
    BY <1>1, <1>2, <2>1, SvAdvances DEF SvInv
<1>4. UNCHANGED <<commands, pgvector, database, minio, active, local, origin, git, server, runs,
                  note, serving>>
  BY <1>3 DEF Sv!LinkSite, Sv!machine, Sv!nginx, Sv!sources
<1>5. p.script = "ssl" /\ p.step = 6 /\ at[a].script = "ssl"
  BY <1>2 DEF Place
<1>6. sites' \subseteq Sv!Site /\ certificate' \in BOOLEAN
  BY DEF Sv!LinkSite, SvInv, Sv!TypeOK, Sv!Site
<1>7. ASSUME ~note.cut
      PROVE  /\ "nginx" \in active' => serving' # {}
             /\ "nginx" \in commands' => sites' # {} \/ p.step > 4
             /\ "nginx" \in commands'
             /\ p.step \in {2, 3, 4} => "temporary" \in sites'
             /\ p.step > 5 => "production" \in sites'
  BY <1>2, <1>4, <1>5, <1>7, SvSslSites DEF Sv!LinkSite
<1> HIDE DEF p
<1> QED
  BY <1>3, <1>4, <1>5, <1>6, <1>7, SvSslStep
----------------------------------------------------------------------------
(* Scripts start and end; what happens between them.                       *)

LEMMA SvDie ==
  ASSUME SvInv, NEW a \in Sv!Actor, Sv!Die(a)
  PROVE  SvInv'
<1>1. PICK s \in DOMAIN Sv!Script : \E n \in 1..LengthOf(s) :
        at[a] = Place(s, n) /\ Sv!Step(a) = Sv!Script[s][n]
  BY SvAt DEF SvInv, Sv!Die
<1>2. PICK n \in 1..LengthOf(s) : at[a] = Place(s, n) /\ Sv!Step(a) = Sv!Script[s][n]
  BY <1>1
<1>3. n \in Nat
  BY SvLengths
<1>4. UNCHANGED <<commands, pgvector, database, minio, active, sites, serving, certificate,
                  local, origin, git, server, runs>>
  BY DEF Sv!Die, Sv!machine, Sv!nginx, Sv!sources
<1>5. /\ note'.overlap = note.overlap /\ note'.deployed = note.deployed /\ ~note'.ready
      /\ note'.strayed <=> note.strayed \/ (s = "env" /\ Sv!Step(a) \in {"unit", "enable"})
      /\ note'.cut <=> note.cut \/ (s = "ssl" /\ Sv!Step(a) = "link")
      /\ note' \in [overlap : BOOLEAN, strayed : BOOLEAN, cut : BOOLEAN, ready : BOOLEAN,
                    deployed : BOOLEAN]
  <2> DEFINE stray == note.strayed \/ (at[a].script = "env" /\ Sv!Step(a) \in {"unit", "enable"})
             cutting == note.cut \/ (at[a].script = "ssl" /\ Sv!Step(a) = "link")
  <2>1. note' = [note EXCEPT !.strayed = stray, !.cut = cutting, !.ready = FALSE]
    BY DEF Sv!Die
  <2>2. stray \in BOOLEAN /\ cutting \in BOOLEAN
    BY DEF SvInv, Sv!TypeOK
  <2>3. /\ stray <=> note.strayed \/ (s = "env" /\ Sv!Step(a) \in {"unit", "enable"})
        /\ cutting <=> note.cut \/ (s = "ssl" /\ Sv!Step(a) = "link")
    BY <1>2 DEF Place
  <2> HIDE DEF stray, cutting
  <2> QED
    BY <2>1, <2>2, <2>3 DEF SvInv, Sv!TypeOK
<1>6. s = "env" /\ n \in {10, 11} => note'.strayed
  BY <1>2, <1>5 DEF Sv!Script
<1>7. s = "ssl" /\ n = 5 => note'.cut
  BY <1>2, <1>5 DEF Sv!Script
<1>8. Moves(a, Sv!Idle)
  BY <1>5, SvPlaces DEF Moves, Sv!Die, Sv!Idle
<1>9. CiDeploys' /\ at' \in [Sv!Actor -> Sv!Position] /\ at'[a] = Sv!Idle
  BY <1>8, SvMoves DEF SvInv
<1>10. Sv!TypeOK'
  BY <1>4, <1>5, <1>9 DEF SvInv, Sv!TypeOK
<1>11. Known'
  BY <1>4 DEF SvInv, Known
<1>12. DeployedSoFar' /\ Sv!DeployedIsWhole'
  <2>1. Built(Sv!Idle, server')
    BY DEF Built, Sv!Idle
  <2> QED
    BY <1>5, <1>8, <2>1, SvDeploysOn DEF SvInv
<1>13. SetUpSoFar'
  <2>1. /\ at[a].script # "env" /\ Sv!Idle.script # "env"
        \/ /\ at[a].script = "env" /\ Sv!Idle.script # "env"
           /\ at[a].step \notin {10, 11} \/ note'.strayed
    BY <1>2, <1>6 DEF Place, Sv!Idle
  <2> QED
    BY <1>4, <1>5, <1>8, <2>1, SvSetUpKept DEF SvInv
<1>14. SitesKept'
  <2>1. CASE s # "ssl"
    <3>1. at[a].script # "ssl" /\ Sv!Idle.script # "ssl" /\ note'.cut = note.cut
      BY <1>2, <1>5, <2>1 DEF Place, Sv!Idle, SvInv, Sv!TypeOK
    <3> QED
      BY <1>4, <1>8, <3>1, SvSitesKept DEF SvInv
  <2>2. CASE s = "ssl"
    <3>1. CASE note'.cut
      BY <3>1 DEF SitesKept
    <3>2. CASE ~note'.cut
      <4>1. ~note.cut /\ n # 5 /\ n \in 1..6
        BY <1>5, <1>7, <2>2, <3>2 DEF LengthOf
      <4>2. a = "operator"
        BY <1>2, <2>2 DEF SvInv, CiDeploys, Sv!Actor, Place
      <4>3. Alone(a)
        BY <1>2, <2>2, <4>1 DEF SvInv, SitesKept, Place
      <4>4. \A b \in Sv!Actor : at'[b] = Sv!Idle
        BY <1>8, <1>9, <4>3, SvMoves DEF SvInv, Alone
      <4>5. "nginx" \in commands => sites # {}
        BY <1>2, <2>2, <4>1, <4>2, SvSslSites
      <4>6. "nginx" \in active => serving # {}
        BY <4>1 DEF SvInv, SitesKept
      <4>7. "operator" \in Sv!Actor
        BY DEF Sv!Actor
      <4> QED
        BY <1>4, <4>4, <4>5, <4>6, <4>7 DEF SitesKept, Past, Sv!Idle
    <3> QED
      BY <3>1, <3>2
  <2> QED
    BY <2>1, <2>2
<1>15. Sv!SetupSatisfiesCheck'
  BY <1>5 DEF Sv!SetupSatisfiesCheck
<1> QED
  BY <1>9, <1>10, <1>11, <1>12, <1>13, <1>14, <1>15 DEF SvInv

LEMMA SvStarts ==
  ASSUME SvInv, MaxRuns \in Nat, NEW a \in Sv!Actor, NEW s \in {"setup", "upload", "remote",
                                                                "ssl"}, Sv!Start(a, s)
  PROVE  SvInv'
<1> DEFINE others == {at[b].script : b \in {c \in Sv!Actor : at[c] # Sv!Idle}}
<1>1. /\ at[a] = Sv!Idle /\ runs < MaxRuns /\ runs' = runs + 1 /\ (a = "ci" => s = "remote")
      /\ at' = [at EXCEPT ![a] = Place(s, 1)]
      /\ note' = [note EXCEPT !.deployed = FALSE, !.ready = FALSE, !.overlap = others # {},
                              !.cut = @ \/ (others # {} /\ "ssl" \in others \cup {s})]
  BY DEF Sv!Start, Sv!First, Place
<1>2. UNCHANGED <<commands, pgvector, database, minio, active, sites, serving, certificate,
                  local, origin, git, server>>
  BY DEF Sv!Start, Sv!machine, Sv!nginx, Sv!sources
<1>3. /\ ~note'.deployed /\ ~note'.ready /\ note'.overlap = (others # {}) /\ note'.strayed = note.strayed
      /\ note'.cut = (note.cut \/ (others # {} /\ "ssl" \in others \cup {s}))
      /\ note' \in [overlap : BOOLEAN, strayed : BOOLEAN, cut : BOOLEAN, ready : BOOLEAN,
                    deployed : BOOLEAN]
  BY <1>1 DEF SvInv, Sv!TypeOK
<1>4. Place(s, 1) \in Sv!Position
  BY SvPlaces
<1>5. /\ at' \in [Sv!Actor -> Sv!Position] /\ at'[a] = Place(s, 1)
      /\ \A b \in Sv!Actor : b # a => at'[b] = at[b]
  BY <1>1, <1>4 DEF SvInv, Sv!TypeOK
<1>6. \A b \in Sv!Actor : at[b] # Sv!Idle => at[b].script \in others
  OBVIOUS
<1> HIDE DEF others
<1>7. Sv!TypeOK'
  BY <1>1, <1>2, <1>3, <1>5 DEF SvInv, Sv!TypeOK
<1>8. CiDeploys'
  BY <1>1, <1>5 DEF SvInv, CiDeploys, Sv!Actor, Place
<1>9. Known'
  BY <1>2 DEF SvInv, Known
<1>10. others = {} => \A b \in Sv!Actor : at'[b] # Sv!Idle => b = a
  BY <1>5, <1>6
<1>11. DeployedSoFar' /\ Sv!DeployedIsWhole'
  <2>1. ASSUME others = {}
        PROVE  /\ \A b \in Sv!Actor : at'[b] # Sv!Idle => Alone(b)'
               /\ \A b \in Sv!Actor : Built(at'[b], server')
    <3>1. Built(Place(s, 1), server') /\ Built(Sv!Idle, server')
      BY DEF Built, Place, Sv!Idle
    <3> QED
      BY <1>5, <1>10, <2>1, <3>1 DEF Alone
  <2> QED
    BY <1>3, <2>1 DEF DeployedSoFar, Sv!DeployedIsWhole
<1>12. SetUpSoFar'
  <2>1. CASE a = "operator"
    <3>1. at["operator"].script = "none" /\ at'["operator"].script # "env"
      BY <1>1, <1>5, <2>1 DEF Place, Sv!Idle
    <3> QED
      BY <1>2, <1>3, <3>1 DEF SvInv, SetUpSoFar, Past
  <2>2. CASE a # "operator"
    <3>1. at'["operator"] = at["operator"]
      BY <1>5, <2>2 DEF Sv!Actor
    <3> QED
      BY <1>2, <1>3, <3>1 DEF SvInv, SetUpSoFar, Past
  <2> QED
    BY <2>1, <2>2
<1>13. SitesKept'
  <2>1. CASE note'.cut
    BY <2>1 DEF SitesKept
  <2>2. CASE ~note'.cut
    <3>1. ~note.cut /\ (others = {} \/ ("ssl" \notin others /\ s # "ssl"))
      BY <1>3, <2>2
    <3>2. \A b \in Sv!Actor : at'[b].script = "ssl" => Alone(b)'
      <4>1. ASSUME NEW b \in Sv!Actor, at'[b].script = "ssl"
            PROVE  others = {} /\ at'[b] # Sv!Idle
        BY <1>5, <1>6, <3>1, <4>1 DEF Place, Sv!Idle
      <4> QED
        BY <1>10, <4>1 DEF Alone
    <3>3. ~Past("ssl", 1) /\ ~Past("ssl", 4) /\ ~Past("ssl", 5)
      <4>1. CASE at["operator"].script = "ssl"
        <5>1. at["operator"] # Sv!Idle /\ "operator" \in Sv!Actor
          BY <4>1 DEF Sv!Idle, Sv!Actor
        <5>2. "ssl" \in others
          BY <1>6, <4>1, <5>1
        <5> QED
          BY <3>1, <5>2
      <4>2. CASE at["operator"].script # "ssl"
        BY <4>2 DEF Past
      <4> QED
        BY <4>1, <4>2
    <3>4. ~Past("ssl", 1)' /\ ~Past("ssl", 4)' /\ ~Past("ssl", 5)'
      <4>1. CASE a = "operator"
        BY <1>5, <4>1 DEF Past, Place
      <4>2. CASE a # "operator"
        <5>1. at'["operator"] = at["operator"]
          BY <1>5, <4>2 DEF Sv!Actor
        <5> QED
          BY <3>3, <5>1 DEF Past
      <4> QED
        BY <4>1, <4>2
    <3> QED
      BY <1>2, <3>1, <3>2, <3>3, <3>4 DEF SvInv, SitesKept
  <2> QED
    BY <2>1, <2>2
<1>14. Sv!SetupSatisfiesCheck'
  BY <1>3 DEF Sv!SetupSatisfiesCheck
<1> QED
  BY <1>7, <1>8, <1>9, <1>11, <1>12, <1>13, <1>14 DEF SvInv

LEMMA SvStops ==
  ASSUME SvInv, NEW s \in Sv!Services, Sv!StopService(s)
  PROVE  SvInv'
<1>1. /\ \A a \in Sv!Actor : at[a] = Sv!Idle
      /\ active' = active \ {s} /\ note' = [note EXCEPT !.ready = FALSE]
      /\ serving' = IF s = "nginx" THEN {} ELSE serving
  BY DEF Sv!StopService
<1>2. UNCHANGED <<commands, pgvector, database, minio, sites, certificate, local, origin, git,
                  server, at, runs>>
  BY DEF Sv!StopService, Sv!sources
<1>3. /\ note'.overlap = note.overlap /\ note'.strayed = note.strayed /\ note'.cut = note.cut
      /\ note'.deployed = note.deployed /\ ~note'.ready
      /\ note' \in [overlap : BOOLEAN, strayed : BOOLEAN, cut : BOOLEAN, ready : BOOLEAN,
                    deployed : BOOLEAN]
  BY <1>1 DEF SvInv, Sv!TypeOK
<1>4. Sv!TypeOK'
  BY <1>1, <1>2, <1>3 DEF SvInv, Sv!TypeOK
<1>5. CiDeploys' /\ Known' /\ SetUpSoFar'
  BY <1>1, <1>2, <1>3 DEF SvInv, CiDeploys, Known, SetUpSoFar, Past
<1>6. DeployedSoFar' /\ Sv!DeployedIsWhole'
  BY <1>2, <1>3 DEF SvInv, DeployedSoFar, Alone, Sv!DeployedIsWhole
<1>7. SitesKept'
  <2>1. "nginx" \in active' => s # "nginx" /\ "nginx" \in active
    BY <1>1
  <2> QED
    BY <1>1, <1>2, <1>3, <2>1 DEF SvInv, SitesKept, Past, Alone
<1> QED
  BY <1>3, <1>4, <1>5, <1>6, <1>7 DEF SvInv, Sv!SetupSatisfiesCheck

LEMMA SvSources ==
  ASSUME SvInv, MaxSource \in Nat \ {0}, Sv!Commit \/ Sv!Push \/ Sv!Clone
  PROVE  SvInv'
<1>1. UNCHANGED <<commands, pgvector, database, minio, active, sites, serving, certificate, at,
                  runs, note>>
  BY DEF Sv!Commit, Sv!Push, Sv!Clone, Sv!machine, Sv!nginx
<1>2. local' \in Sv!Version /\ origin' \in Sv!Version /\ git' \in BOOLEAN
  <2>1. git' = git \/ git' = TRUE
    BY DEF Sv!Commit, Sv!Push, Sv!Clone
  <2>2. git' \in BOOLEAN
    BY <2>1 DEF SvInv, Sv!TypeOK
  <2>3. local' \in Sv!Version /\ origin' \in Sv!Version
    BY DEF SvInv, Sv!TypeOK, Sv!Version, Sv!Commit, Sv!Push, Sv!Clone
  <2> QED
    BY <2>2, <2>3
<1>3. server' = server \/ (server' = [server EXCEPT !.tree = origin] /\ server.tree = 0 /\ Sv!Quiet)
  BY DEF Sv!Commit, Sv!Push, Sv!Clone
<1>4. Sv!TypeOK'
  BY <1>1, <1>2, <1>3 DEF SvInv, Sv!TypeOK, Sv!Tree, Sv!Version
<1>5. CiDeploys' /\ Known' /\ SetUpSoFar'
  BY <1>1 DEF SvInv, CiDeploys, Known, SetUpSoFar, Past
<1>6. SitesKept'
  BY <1>1 DEF SvInv, SitesKept, Past, Alone
<1>7. Sv!SetupSatisfiesCheck'
  BY <1>1 DEF SvInv, Sv!SetupSatisfiesCheck, Sv!Missing
<1>8. DeployedSoFar' /\ Sv!DeployedIsWhole'
  <2>1. CASE server' = server
    BY <1>1, <2>1 DEF SvInv, DeployedSoFar, Alone, Sv!DeployedIsWhole
  <2>2. CASE note.overlap
    BY <1>1, <2>2 DEF DeployedSoFar, Sv!DeployedIsWhole
  <2>3. CASE server.tree = 0 /\ Sv!Quiet /\ ~note.overlap
    <3>1. ~note.deployed
      BY <2>3 DEF SvInv, DeployedSoFar
    <3>2. \A a \in Sv!Actor : at'[a] = Sv!Idle
      BY <1>1, <2>3 DEF Sv!Quiet
    <3>3. \A a \in Sv!Actor : Built(at'[a], server')
      BY <3>2 DEF Built, Sv!Idle
    <3> QED
      BY <1>1, <3>1, <3>2, <3>3 DEF DeployedSoFar, Sv!DeployedIsWhole
  <2> QED
    BY <1>3, <2>1, <2>2, <2>3
<1> QED
  BY <1>4, <1>5, <1>6, <1>7, <1>8 DEF SvInv

----------------------------------------------------------------------------
LEMMA SvStart ==
  ASSUME Sv!ServerScriptsAssumption, Sv!Init
  PROVE  SvInv
<1>1. at = [a \in Sv!Actor |-> Sv!Idle] /\ Sv!Idle \in Sv!Position
  BY SvPlaces DEF Sv!Init
<1>2. \A a \in Sv!Actor : at[a] = Sv!Idle
  BY <1>1
<1>3. "operator" \in Sv!Actor /\ "ci" \in Sv!Actor
  BY DEF Sv!Actor
<1>4. Sv!TypeOK
  <2>1. at \in [Sv!Actor -> Sv!Position]
    BY <1>1
  <2>2. local \in Sv!Version /\ origin \in Sv!Version /\ git \in BOOLEAN /\ runs \in 0..MaxRuns
    <3>1. git \in BOOLEAN
      BY DEF Sv!Init
    <3>2. local \in Sv!Version /\ origin \in Sv!Version /\ runs \in 0..MaxRuns
      BY DEF Sv!Init, Sv!Version, Sv!ServerScriptsAssumption
    <3> QED
      BY <3>1, <3>2
  <2>3. note \in [overlap : BOOLEAN, strayed : BOOLEAN, cut : BOOLEAN, ready : BOOLEAN,
                  deployed : BOOLEAN]
    BY DEF Sv!Init
  <2>4. 0 \in Sv!Tree /\ 1 \in Sv!Tree
    BY DEF Sv!Tree, Sv!ServerScriptsAssumption
  <2>5. CASE Sv!Bare
    BY <2>1, <2>2, <2>3, <2>4, <2>5
       DEF Sv!TypeOK, Sv!Bare, Sv!Commands, Sv!Checked, Sv!Services, Sv!Minio, Sv!Site
  <2>6. CASE Sv!InService
    BY <2>1, <2>2, <2>3, <2>4, <2>6
       DEF Sv!TypeOK, Sv!InService, Sv!Commands, Sv!Checked, Sv!Services, Sv!Minio, Sv!Site
  <2> QED
    BY <2>5, <2>6 DEF Sv!Init
<1>5. CiDeploys
  BY <1>2, <1>3 DEF CiDeploys, Sv!Idle
<1>6. Known
  BY DEF Known, Sv!Init, Sv!Bare, Sv!InService, Sv!Checked, Sv!Services
<1>7. SetUpSoFar
  <2>1. minio \in {"none", "enabled"}
    BY DEF Sv!Init, Sv!Bare, Sv!InService
  <2> QED
    BY <1>2, <1>3, <2>1 DEF SetUpSoFar, Past, Sv!Idle
<1>8. ~note.deployed /\ ~note.ready
  BY DEF Sv!Init
<1>9. DeployedSoFar /\ Sv!DeployedIsWhole /\ Sv!SetupSatisfiesCheck
  BY <1>2, <1>8 DEF DeployedSoFar, Sv!DeployedIsWhole, Sv!SetupSatisfiesCheck, Built, Sv!Idle
<1>10. SitesKept
  <2>1. /\ "nginx" \in active => serving # {}
        /\ "nginx" \in commands => sites # {}
    BY DEF Sv!Init, Sv!Bare, Sv!InService
  <2> QED
    BY <1>2, <1>3, <2>1 DEF SitesKept, Past, Sv!Idle
<1> QED
  BY <1>4, <1>5, <1>6, <1>7, <1>9, <1>10 DEF SvInv

LEMMA SvSteps ==
  ASSUME Sv!ServerScriptsAssumption, SvInv, Sv!Next \/ UNCHANGED Sv!vars
  PROVE  SvInv'
<1>1. CASE UNCHANGED Sv!vars
  <2>1. UNCHANGED <<commands, pgvector, database, minio, active, sites, serving, certificate,
                    local, origin, git,
                    server, at, runs, note>>
    BY <1>1 DEF Sv!vars, Sv!machine, Sv!nginx, Sv!sources
  <2> QED
    BY <2>1 DEF SvInv, Sv!TypeOK, CiDeploys, Known, SetUpSoFar, DeployedSoFar, Alone, SitesKept,
                Past,
                Sv!SetupSatisfiesCheck, Sv!Missing, Sv!DeployedIsWhole
<1>2. ASSUME NEW a \in Sv!Actor, Sv!Setup(a)
      PROVE  SvInv'
  BY <1>2, SvInstall, SvPgvector, SvDatabase, SvExtension, SvMinio, SvUnit, SvEnable,
     SvStartMinio, SvEnsure
     DEF Sv!Setup
<1>3. ASSUME NEW a \in Sv!Actor, Sv!Deploy(a)
      PROVE  SvInv'
  BY <1>3, SvUpload, SvDotEnv, SvCheckEnv, SvPull, SvNpm, SvMigrate, SvBuild, SvReload,
     SvRestart, SvHealth
     DEF Sv!Deploy
<1>4. ASSUME NEW a \in Sv!Actor, Sv!Ssl(a)
      PROVE  SvInv'
  BY <1>4, SvTemporary, SvTest, SvCertificate, SvDrop, SvLink DEF Sv!Ssl
<1>5. ASSUME NEW a \in Sv!Actor, Sv!Die(a)
      PROVE  SvInv'
  BY <1>5, SvDie
<1>6. ASSUME NEW a \in Sv!Actor, NEW s \in {"setup", "upload", "remote", "ssl"}, Sv!Start(a, s)
      PROVE  SvInv'
  BY <1>6, SvStarts DEF Sv!ServerScriptsAssumption
<1>7. ASSUME NEW s \in Sv!Services, Sv!StopService(s)
      PROVE  SvInv'
  BY <1>7, SvStops
<1>8. CASE Sv!Commit \/ Sv!Push \/ Sv!Clone
  BY <1>8, SvSources DEF Sv!ServerScriptsAssumption
<1> QED
  BY <1>1, <1>2, <1>3, <1>4, <1>5, <1>6, <1>7, <1>8 DEF Sv!Next

(***************************************************************************)
(* For any number of sources and runs, through steps that fail, services   *)
(* that stop and scripts killed anywhere: a server set up passes the       *)
(* check, a deployed release is whole and the API stays served.            *)
(***************************************************************************)
THEOREM ScriptsAreWhole ==
  Sv!ServerScriptsAssumption /\ Sv!Spec =>
    [](Sv!TypeOK /\ Sv!SetupSatisfiesCheck /\ Sv!DeployedIsWhole /\ Sv!ApiStaysServed)
<1> SUFFICES ASSUME Sv!ServerScriptsAssumption
             PROVE  Sv!Spec =>
                      [](Sv!TypeOK /\ Sv!SetupSatisfiesCheck /\ Sv!DeployedIsWhole /\ Sv!ApiStaysServed)
  OBVIOUS
<1>1. Sv!Init => SvInv
  BY SvStart
<1>2. SvInv /\ [Sv!Next]_(Sv!vars) => SvInv'
  BY SvSteps
<1>3. SvInv => Sv!TypeOK /\ Sv!SetupSatisfiesCheck /\ Sv!DeployedIsWhole /\ Sv!ApiStaysServed
  BY DEF SvInv, SitesKept, Sv!ApiStaysServed
<1> QED
  BY <1>1, <1>2, <1>3, PTL DEF Sv!Spec

----------------------------------------------------------------------------
(* The installer.                                                          *)

Behind(k) == phase = "done" \/ (phase = "initializing" /\ step > k)

Under == phase \in {"collecting", "installing", "initializing", "done"}

Counted ==
  /\ phase # "idle" => number \in Nat \ {0}
  /\ phase = "installing" => step \in 1..5
  /\ phase = "initializing" => step \in 1..16
  /\ Under => files.dotenv \in {0, number}
  /\ minio \in [unit : 0..number, running : 0..number]

\* What the tasks done so far leave, each unless it undone.
TasksSoFar ==
  /\ Behind(1) /\ "configs" \notin undone =>
       files.dotenv = number /\ files.conf = number /\ files.ssl = config.ssl
  /\ Behind(4) => database.password = number
  /\ Behind(5) => files.dotenv = number /\ database.schema
  /\ Behind(6) /\ <<number, "redis">> \notin silent => redis = number
  /\ Behind(7) => files.dist
  /\ Behind(8) /\ Behind(9) /\ undone \cap {"webdeps", "web"} = {} => files.web
  /\ Behind(10) /\ undone \cap {"configs", "nginx"} = {} /\ <<number, "nginx">> \notin silent =>
       /\ nginx.enabled = [number |-> number, ssl |-> config.ssl]
       /\ nginx.loaded = [number |-> number, ssl |-> config.ssl]
  /\ Behind(11) /\ "minio" \notin undone /\ <<number, "minio">> \notin silent =>
       minio.unit = number /\ minio.running # 0
  /\ Behind(13) /\ "pm2" \notin undone => api = number
  /\ Behind(14) /\ "admin" \notin undone => admin = number
  /\ Behind(16) /\ "save" \notin undone => saved = number

ItInv == It!TypeOK /\ Counted /\ TasksSoFar

----------------------------------------------------------------------------
(* The tasks by their place.                                               *)

LEMMA ItTasks ==
  /\ Len(It!Tasks) = 16 /\ Len(It!Dependencies) = 5
  /\ It!TaskNames = {"configs", "npm", "prisma", "database", "migrations", "redis", "build",
                     "webdeps", "web", "nginx", "minio", "ssl", "pm2", "admin", "register", "save"}
  /\ It!Packages = {"PostgreSQL", "Redis", "Nginx", "MinIO", "PM2"}
  /\ It!Dependencies[4] = "MinIO"
  /\ \A k \in 1..5 : It!Dependencies[k] \in It!Packages
<1>1. Len(It!Tasks) = 16 /\ Len(It!Dependencies) = 5 /\ It!Dependencies[4] = "MinIO"
  BY DEF It!Tasks, It!Dependencies
<1>2. DOMAIN It!Tasks = 1..16 /\ DOMAIN It!Dependencies = 1..5
  BY <1>1 DEF It!Tasks, It!Dependencies
<1>3. It!Packages = {"PostgreSQL", "Redis", "Nginx", "MinIO", "PM2"}
  BY <1>2 DEF It!Packages, It!Dependencies
<1>4. It!TaskNames = {"configs", "npm", "prisma", "database", "migrations", "redis", "build",
                      "webdeps", "web", "nginx", "minio", "ssl", "pm2", "admin", "register", "save"}
  BY <1>2 DEF It!TaskNames, It!Tasks
<1>5. \A k \in 1..5 : It!Dependencies[k] \in It!Packages
  BY <1>2 DEF It!Packages
<1> QED
  BY <1>1, <1>3, <1>4, <1>5

LEMMA ItPlaces ==
  /\ It!Tasks[1] = "configs"
  /\ It!Tasks[2] = "npm"
  /\ It!Tasks[3] = "prisma"
  /\ It!Tasks[4] = "database"
  /\ It!Tasks[5] = "migrations"
  /\ It!Tasks[6] = "redis"
  /\ It!Tasks[7] = "build"
  /\ It!Tasks[8] = "webdeps"
  /\ It!Tasks[9] = "web"
  /\ It!Tasks[10] = "nginx"
  /\ It!Tasks[11] = "minio"
  /\ It!Tasks[12] = "ssl"
  /\ It!Tasks[13] = "pm2"
  /\ It!Tasks[14] = "admin"
  /\ It!Tasks[15] = "register"
  /\ It!Tasks[16] = "save"
BY DEF It!Tasks

LEMMA ItNamed ==
  ASSUME NEW k \in 1..16
  PROVE  /\ It!Tasks[k] \in It!TaskNames
         /\ It!Tasks[k] = "configs" <=> k = 1
         /\ It!Tasks[k] = "npm" <=> k = 2
         /\ It!Tasks[k] = "prisma" <=> k = 3
         /\ It!Tasks[k] = "database" <=> k = 4
         /\ It!Tasks[k] = "migrations" <=> k = 5
         /\ It!Tasks[k] = "redis" <=> k = 6
         /\ It!Tasks[k] = "build" <=> k = 7
         /\ It!Tasks[k] = "webdeps" <=> k = 8
         /\ It!Tasks[k] = "web" <=> k = 9
         /\ It!Tasks[k] = "nginx" <=> k = 10
         /\ It!Tasks[k] = "minio" <=> k = 11
         /\ It!Tasks[k] = "ssl" <=> k = 12
         /\ It!Tasks[k] = "pm2" <=> k = 13
         /\ It!Tasks[k] = "admin" <=> k = 14
         /\ It!Tasks[k] = "register" <=> k = 15
         /\ It!Tasks[k] = "save" <=> k = 16
<1>1. It!Tasks[k] \in It!TaskNames
  BY ItPlaces, ItTasks
<1>2. It!Tasks[k] = "configs" <=> k = 1
  BY ItPlaces
<1>3. It!Tasks[k] = "npm" <=> k = 2
  BY ItPlaces
<1>4. It!Tasks[k] = "prisma" <=> k = 3
  BY ItPlaces
<1>5. It!Tasks[k] = "database" <=> k = 4
  BY ItPlaces
<1>6. It!Tasks[k] = "migrations" <=> k = 5
  BY ItPlaces
<1>7. It!Tasks[k] = "redis" <=> k = 6
  BY ItPlaces
<1>8. It!Tasks[k] = "build" <=> k = 7
  BY ItPlaces
<1>9. It!Tasks[k] = "webdeps" <=> k = 8
  BY ItPlaces
<1>10. It!Tasks[k] = "web" <=> k = 9
  BY ItPlaces
<1>11. It!Tasks[k] = "nginx" <=> k = 10
  BY ItPlaces
<1>12. It!Tasks[k] = "minio" <=> k = 11
  BY ItPlaces
<1>13. It!Tasks[k] = "ssl" <=> k = 12
  BY ItPlaces
<1>14. It!Tasks[k] = "pm2" <=> k = 13
  BY ItPlaces
<1>15. It!Tasks[k] = "admin" <=> k = 14
  BY ItPlaces
<1>16. It!Tasks[k] = "register" <=> k = 15
  BY ItPlaces
<1>17. It!Tasks[k] = "save" <=> k = 16
  BY ItPlaces
<1> QED
  BY <1>1, <1>2, <1>3, <1>4, <1>5, <1>6, <1>7, <1>8, <1>9, <1>10, <1>11, <1>12, <1>13, <1>14,
     <1>15, <1>16, <1>17

\* What is behind once a task is done.
LEMMA ItBehind ==
  ASSUME ItInv, phase = "initializing", It!NextTask
  PROVE  /\ UNCHANGED <<config, number, missed>>
         /\ phase' \in {"initializing", "done"} /\ step' \in 1..16
         /\ \A k \in 1..16 : Behind(k) <=> k < step
         /\ \A k \in 1..16 : Behind(k)' <=> k <= step
<1>1. step \in 1..16 /\ Len(It!Tasks) = 16
  BY ItTasks DEF ItInv, Counted
<1> QED
  BY <1>1 DEF It!NextTask, Behind

\* A task that leaves the dependencies, the configuration and what the counters are about.
LEMMA ItTask ==
  ASSUME ItInv, phase = "initializing", It!NextTask, It!TypeOK', packages' = packages,
         files'.dotenv \in {files.dotenv, number}, minio' \in [unit : 0..number, running : 0..number], TasksSoFar'
  PROVE  ItInv'
<1>1. /\ UNCHANGED <<config, number, missed>>
      /\ phase' \in {"initializing", "done"} /\ step' \in 1..16
  BY ItBehind
<1>2. Counted'
  BY <1>1 DEF ItInv, Counted, Under
<1> QED
  BY <1>2 DEF ItInv

LEMMA ItConfigs ==
  ASSUME ItInv, It!WriteConfigs
  PROVE  ItInv'
<1>1. phase = "initializing" /\ It!NextTask /\ step \in 1..16 /\ It!Tasks[step] = "configs"
      /\ undone' = undone /\ silent' = silent
  BY DEF It!WriteConfigs, It!Done, It!At, ItInv, Counted
<1>2. step = 1
  BY <1>1, ItNamed
<1>3. /\ UNCHANGED <<config, number, missed>>
      /\ phase' \in {"initializing", "done"} /\ step' \in 1..16
      /\ \A k \in 1..16 : Behind(k) <=> k < 1
      /\ \A k \in 1..16 : Behind(k)' <=> k <= 1
  BY <1>1, <1>2, ItBehind
<1>4. number \in Nat \ {0} /\ number \in It!Number /\ files.dotenv \in {0, number}
  BY <1>1 DEF ItInv, Counted, It!TypeOK, Under
<1>5. /\ UNCHANGED <<packages, database, redis, minio, nginx, api, admin, saved>>
      /\ files' \in [exists : BOOLEAN, dotenv : It!Number, conf : It!Number, ssl : BOOLEAN,
                     deps : BOOLEAN, dist : BOOLEAN, web : BOOLEAN]
      /\ files'.exists = files.exists
      /\ files'.deps = files.deps
      /\ files'.dist = files.dist
      /\ files'.web = files.web
      /\ files'.dotenv = number
      /\ files'.conf = number
      /\ files'.ssl = config.ssl
  BY <1>4 DEF It!WriteConfigs, It!services, ItInv, It!TypeOK
<1>6. It!TypeOK'
  BY <1>1, <1>3, <1>4, <1>5, ItTasks DEF ItInv, It!TypeOK
<1>7. TasksSoFar'
  BY <1>1, <1>3, <1>4, <1>5 DEF ItInv, TasksSoFar
<1>8. files'.dotenv \in {files.dotenv, number} /\ minio' \in [unit : 0..number, running : 0..number]
  BY <1>4, <1>5 DEF ItInv, Counted
<1> QED
  BY <1>1, <1>5, <1>6, <1>7, <1>8, ItTask

LEMMA ItNpm ==
  ASSUME ItInv, It!NpmCi
  PROVE  ItInv'
<1>1. phase = "initializing" /\ It!NextTask /\ step \in 1..16 /\ It!Tasks[step] = "npm"
      /\ undone' = undone /\ silent' = silent
  BY DEF It!NpmCi, It!Done, It!At, ItInv, Counted
<1>2. step = 2
  BY <1>1, ItNamed
<1>3. /\ UNCHANGED <<config, number, missed>>
      /\ phase' \in {"initializing", "done"} /\ step' \in 1..16
      /\ \A k \in 1..16 : Behind(k) <=> k < 2
      /\ \A k \in 1..16 : Behind(k)' <=> k <= 2
  BY <1>1, <1>2, ItBehind
<1>4. number \in Nat \ {0} /\ number \in It!Number /\ files.dotenv \in {0, number}
  BY <1>1 DEF ItInv, Counted, It!TypeOK, Under
<1>5. /\ UNCHANGED <<packages, database, redis, minio, nginx, api, admin, saved>>
      /\ files' \in [exists : BOOLEAN, dotenv : It!Number, conf : It!Number, ssl : BOOLEAN,
                     deps : BOOLEAN, dist : BOOLEAN, web : BOOLEAN]
      /\ files'.exists = files.exists
      /\ files'.dotenv = files.dotenv
      /\ files'.conf = files.conf
      /\ files'.ssl = files.ssl
      /\ files'.dist = files.dist
      /\ files'.web = files.web
  BY <1>4 DEF It!NpmCi, It!services, ItInv, It!TypeOK
<1>6. It!TypeOK'
  BY <1>1, <1>3, <1>4, <1>5, ItTasks DEF ItInv, It!TypeOK
<1>7. TasksSoFar'
  BY <1>1, <1>3, <1>4, <1>5 DEF ItInv, TasksSoFar
<1>8. files'.dotenv \in {files.dotenv, number} /\ minio' \in [unit : 0..number, running : 0..number]
  BY <1>4, <1>5 DEF ItInv, Counted
<1> QED
  BY <1>1, <1>5, <1>6, <1>7, <1>8, ItTask

LEMMA ItClient ==
  ASSUME ItInv, It!GenerateClient
  PROVE  ItInv'
<1>1. phase = "initializing" /\ It!NextTask /\ step \in 1..16 /\ It!Tasks[step] = "prisma"
      /\ undone' = undone /\ silent' = silent
  BY DEF It!GenerateClient, It!Done, It!At, ItInv, Counted
<1>2. step = 3
  BY <1>1, ItNamed
<1>3. /\ UNCHANGED <<config, number, missed>>
      /\ phase' \in {"initializing", "done"} /\ step' \in 1..16
      /\ \A k \in 1..16 : Behind(k) <=> k < 3
      /\ \A k \in 1..16 : Behind(k)' <=> k <= 3
  BY <1>1, <1>2, ItBehind
<1>4. number \in Nat \ {0} /\ number \in It!Number /\ files.dotenv \in {0, number}
  BY <1>1 DEF ItInv, Counted, It!TypeOK, Under
<1>5. /\ UNCHANGED <<files, packages, database, redis, minio, nginx, api, admin, saved>>
  BY <1>4 DEF It!GenerateClient, It!services, ItInv, It!TypeOK
<1>6. It!TypeOK'
  BY <1>1, <1>3, <1>4, <1>5, ItTasks DEF ItInv, It!TypeOK
<1>7. TasksSoFar'
  BY <1>1, <1>3, <1>4, <1>5 DEF ItInv, TasksSoFar
<1>8. files'.dotenv \in {files.dotenv, number} /\ minio' \in [unit : 0..number, running : 0..number]
  BY <1>4, <1>5 DEF ItInv, Counted
<1> QED
  BY <1>1, <1>5, <1>6, <1>7, <1>8, ItTask

LEMMA ItDatabase ==
  ASSUME ItInv, It!SetUpDatabase
  PROVE  ItInv'
<1>1. phase = "initializing" /\ It!NextTask /\ step \in 1..16 /\ It!Tasks[step] = "database"
      /\ undone' = undone /\ silent' = silent
  BY DEF It!SetUpDatabase, It!Done, It!At, ItInv, Counted
<1>2. step = 4
  BY <1>1, ItNamed
<1>3. /\ UNCHANGED <<config, number, missed>>
      /\ phase' \in {"initializing", "done"} /\ step' \in 1..16
      /\ \A k \in 1..16 : Behind(k) <=> k < 4
      /\ \A k \in 1..16 : Behind(k)' <=> k <= 4
  BY <1>1, <1>2, ItBehind
<1>4. number \in Nat \ {0} /\ number \in It!Number /\ files.dotenv \in {0, number}
  BY <1>1 DEF ItInv, Counted, It!TypeOK, Under
<1>5. /\ UNCHANGED <<files, packages, redis, minio, nginx, api, admin, saved>>
      /\ database' \in [password : It!Number, schema : BOOLEAN, users : BOOLEAN,
                        project : BOOLEAN]
      /\ database'.schema = database.schema
      /\ database'.users = database.users
      /\ database'.project = database.project
      /\ database'.password = number
  BY <1>4 DEF It!SetUpDatabase, It!services, ItInv, It!TypeOK
<1>6. It!TypeOK'
  BY <1>1, <1>3, <1>4, <1>5, ItTasks DEF ItInv, It!TypeOK
<1>7. TasksSoFar'
  BY <1>1, <1>3, <1>4, <1>5 DEF ItInv, TasksSoFar
<1>8. files'.dotenv \in {files.dotenv, number} /\ minio' \in [unit : 0..number, running : 0..number]
  BY <1>4, <1>5 DEF ItInv, Counted
<1> QED
  BY <1>1, <1>5, <1>6, <1>7, <1>8, ItTask

LEMMA ItMigrate ==
  ASSUME ItInv, It!Migrate
  PROVE  ItInv'
<1>1. phase = "initializing" /\ It!NextTask /\ step \in 1..16
      /\ It!Tasks[step] = "migrations" /\ undone' = undone /\ silent' = silent
  BY DEF It!Migrate, It!Done, It!At, ItInv, Counted
<1>2. step = 5
  BY <1>1, ItNamed
<1>3. /\ UNCHANGED <<config, number, missed>>
      /\ phase' \in {"initializing", "done"} /\ step' \in 1..16
      /\ \A k \in 1..16 : Behind(k) <=> k < 5
      /\ \A k \in 1..16 : Behind(k)' <=> k <= 5
  BY <1>1, <1>2, ItBehind
<1>4. number \in Nat \ {0} /\ number \in It!Number /\ files.dotenv \in {0, number}
  BY <1>1 DEF ItInv, Counted, It!TypeOK, Under
<1>5. /\ UNCHANGED <<files, packages, redis, minio, nginx, api, admin, saved>>
      /\ database' \in [password : It!Number, schema : BOOLEAN, users : BOOLEAN,
                        project : BOOLEAN]
      /\ database'.password = database.password
      /\ database'.users = database.users
      /\ database'.project = database.project
      /\ database'.schema
      /\ files.dotenv # 0
  BY <1>4 DEF It!Migrate, It!services, ItInv, It!TypeOK, It!Reachable
<1>6. It!TypeOK'
  BY <1>1, <1>3, <1>4, <1>5, ItTasks DEF ItInv, It!TypeOK
<1>7. TasksSoFar'
  BY <1>1, <1>3, <1>4, <1>5 DEF ItInv, TasksSoFar
<1>8. files'.dotenv \in {files.dotenv, number} /\ minio' \in [unit : 0..number, running : 0..number]
  BY <1>4, <1>5 DEF ItInv, Counted
<1> QED
  BY <1>1, <1>5, <1>6, <1>7, <1>8, ItTask

LEMMA ItRedis ==
  ASSUME ItInv, It!SetRedisPassword
  PROVE  ItInv'
<1>1. phase = "initializing" /\ It!NextTask /\ step \in 1..16 /\ It!Tasks[step] = "redis"
  BY DEF It!SetRedisPassword, It!Unheeded, It!At, ItInv, Counted
<1>2. step = 6
  BY <1>1, ItNamed
<1>3. /\ UNCHANGED <<config, number, missed>>
      /\ phase' \in {"initializing", "done"} /\ step' \in 1..16
      /\ \A k \in 1..16 : Behind(k) <=> k < 6
      /\ \A k \in 1..16 : Behind(k)' <=> k <= 6
  BY <1>1, <1>2, ItBehind
<1>4. number \in Nat \ {0} /\ number \in It!Number
  BY <1>1 DEF ItInv, Counted, It!TypeOK
<1>5. /\ UNCHANGED <<undone, files, packages, database, minio, nginx, api, admin, saved>>
      /\ silent' = silent \/ silent' = silent \cup {<<number, "redis">>}
      /\ redis' \in {number, redis} /\ (<<number, "redis">> \notin silent' => redis' = number)
  BY DEF It!SetRedisPassword, It!Unheeded
<1>6. It!TypeOK'
  BY <1>1, <1>3, <1>4, <1>5, ItTasks DEF ItInv, It!TypeOK
<1>7. TasksSoFar'
  BY <1>1, <1>3, <1>4, <1>5 DEF ItInv, TasksSoFar
<1> QED
  BY <1>1, <1>4, <1>5, <1>6, <1>7, ItTask DEF ItInv, Counted

LEMMA ItBuild ==
  ASSUME ItInv, It!Build
  PROVE  ItInv'
<1>1. phase = "initializing" /\ It!NextTask /\ step \in 1..16 /\ It!Tasks[step] = "build"
      /\ undone' = undone /\ silent' = silent
  BY DEF It!Build, It!Done, It!At, ItInv, Counted
<1>2. step = 7
  BY <1>1, ItNamed
<1>3. /\ UNCHANGED <<config, number, missed>>
      /\ phase' \in {"initializing", "done"} /\ step' \in 1..16
      /\ \A k \in 1..16 : Behind(k) <=> k < 7
      /\ \A k \in 1..16 : Behind(k)' <=> k <= 7
  BY <1>1, <1>2, ItBehind
<1>4. number \in Nat \ {0} /\ number \in It!Number /\ files.dotenv \in {0, number}
  BY <1>1 DEF ItInv, Counted, It!TypeOK, Under
<1>5. /\ UNCHANGED <<packages, database, redis, minio, nginx, api, admin, saved>>
      /\ files' \in [exists : BOOLEAN, dotenv : It!Number, conf : It!Number, ssl : BOOLEAN,
                     deps : BOOLEAN, dist : BOOLEAN, web : BOOLEAN]
      /\ files'.exists = files.exists
      /\ files'.dotenv = files.dotenv
      /\ files'.conf = files.conf
      /\ files'.ssl = files.ssl
      /\ files'.deps = files.deps
      /\ files'.web = files.web
      /\ files'.dist
  BY <1>4 DEF It!Build, It!services, ItInv, It!TypeOK
<1>6. It!TypeOK'
  BY <1>1, <1>3, <1>4, <1>5, ItTasks DEF ItInv, It!TypeOK
<1>7. TasksSoFar'
  BY <1>1, <1>3, <1>4, <1>5 DEF ItInv, TasksSoFar
<1>8. files'.dotenv \in {files.dotenv, number} /\ minio' \in [unit : 0..number, running : 0..number]
  BY <1>4, <1>5 DEF ItInv, Counted
<1> QED
  BY <1>1, <1>5, <1>6, <1>7, <1>8, ItTask

LEMMA ItWebDeps ==
  ASSUME ItInv, It!WebDependencies
  PROVE  ItInv'
<1>1. phase = "initializing" /\ It!NextTask /\ step \in 1..16 /\ It!Tasks[step] = "webdeps"
      /\ undone' = undone /\ silent' = silent
  BY DEF It!WebDependencies, It!Done, It!At, ItInv, Counted
<1>2. step = 8
  BY <1>1, ItNamed
<1>3. /\ UNCHANGED <<config, number, missed>>
      /\ phase' \in {"initializing", "done"} /\ step' \in 1..16
      /\ \A k \in 1..16 : Behind(k) <=> k < 8
      /\ \A k \in 1..16 : Behind(k)' <=> k <= 8
  BY <1>1, <1>2, ItBehind
<1>4. number \in Nat \ {0} /\ number \in It!Number /\ files.dotenv \in {0, number}
  BY <1>1 DEF ItInv, Counted, It!TypeOK, Under
<1>5. /\ UNCHANGED <<files, packages, database, redis, minio, nginx, api, admin, saved>>
  BY <1>4 DEF It!WebDependencies, It!services, ItInv, It!TypeOK
<1>6. It!TypeOK'
  BY <1>1, <1>3, <1>4, <1>5, ItTasks DEF ItInv, It!TypeOK
<1>7. TasksSoFar'
  BY <1>1, <1>3, <1>4, <1>5 DEF ItInv, TasksSoFar
<1>8. files'.dotenv \in {files.dotenv, number} /\ minio' \in [unit : 0..number, running : 0..number]
  BY <1>4, <1>5 DEF ItInv, Counted
<1> QED
  BY <1>1, <1>5, <1>6, <1>7, <1>8, ItTask

LEMMA ItWeb ==
  ASSUME ItInv, It!BuildWeb
  PROVE  ItInv'
<1>1. phase = "initializing" /\ It!NextTask /\ step \in 1..16 /\ It!Tasks[step] = "web"
      /\ undone' = undone /\ silent' = silent
  BY DEF It!BuildWeb, It!Done, It!At, ItInv, Counted
<1>2. step = 9
  BY <1>1, ItNamed
<1>3. /\ UNCHANGED <<config, number, missed>>
      /\ phase' \in {"initializing", "done"} /\ step' \in 1..16
      /\ \A k \in 1..16 : Behind(k) <=> k < 9
      /\ \A k \in 1..16 : Behind(k)' <=> k <= 9
  BY <1>1, <1>2, ItBehind
<1>4. number \in Nat \ {0} /\ number \in It!Number /\ files.dotenv \in {0, number}
  BY <1>1 DEF ItInv, Counted, It!TypeOK, Under
<1>5. /\ UNCHANGED <<packages, database, redis, minio, nginx, api, admin, saved>>
      /\ files' \in [exists : BOOLEAN, dotenv : It!Number, conf : It!Number, ssl : BOOLEAN,
                     deps : BOOLEAN, dist : BOOLEAN, web : BOOLEAN]
      /\ files'.exists = files.exists
      /\ files'.dotenv = files.dotenv
      /\ files'.conf = files.conf
      /\ files'.ssl = files.ssl
      /\ files'.deps = files.deps
      /\ files'.dist = files.dist
      /\ "webdeps" \notin undone => files'.web
  BY <1>4 DEF It!BuildWeb, It!services, ItInv, It!TypeOK
<1>6. It!TypeOK'
  BY <1>1, <1>3, <1>4, <1>5, ItTasks DEF ItInv, It!TypeOK
<1>7. TasksSoFar'
  BY <1>1, <1>3, <1>4, <1>5 DEF ItInv, TasksSoFar
<1>8. files'.dotenv \in {files.dotenv, number} /\ minio' \in [unit : 0..number, running : 0..number]
  BY <1>4, <1>5 DEF ItInv, Counted
<1> QED
  BY <1>1, <1>5, <1>6, <1>7, <1>8, ItTask

LEMMA ItMinio ==
  ASSUME ItInv, It!SetUpMinio
  PROVE  ItInv'
<1>1. phase = "initializing" /\ It!NextTask /\ step \in 1..16 /\ It!Tasks[step] = "minio"
  BY DEF It!SetUpMinio, It!Unheeded, It!At, ItInv, Counted
<1>2. step = 11
  BY <1>1, ItNamed
<1>3. /\ UNCHANGED <<config, number, missed>>
      /\ phase' \in {"initializing", "done"} /\ step' \in 1..16
      /\ \A k \in 1..16 : Behind(k) <=> k < 11
      /\ \A k \in 1..16 : Behind(k)' <=> k <= 11
  BY <1>1, <1>2, ItBehind
<1>4. number \in Nat \ {0} /\ number \in It!Number
  BY <1>1 DEF ItInv, Counted, It!TypeOK
<1>5. PICK moved \in BOOLEAN, launched \in BOOLEAN :
        LET unit == IF moved THEN number ELSE minio.unit
            up == launched /\ "MinIO" \in packages /\ unit # 0
        IN  /\ It!Unheeded("minio", moved /\ up)
            /\ minio' = [unit |-> unit,
                         running |-> IF up /\ minio.running = 0 THEN unit ELSE minio.running]
  BY DEF It!SetUpMinio
<1>6. /\ UNCHANGED <<undone, files, packages, database, redis, nginx, api, admin, saved>>
      /\ silent' = silent \/ silent' = silent \cup {<<number, "minio">>}
  BY <1>5 DEF It!SetUpMinio, It!Unheeded
<1>7. minio \in [unit : 0..number, running : 0..number]
  BY DEF ItInv, Counted
<1>8. /\ minio' \in [unit : 0..number, running : 0..number]
      /\ minio' \in [unit : It!Number, running : It!Number]
      /\ <<number, "minio">> \notin silent' => minio'.unit = number /\ minio'.running # 0
  <2> DEFINE unit == IF moved THEN number ELSE minio.unit
             up == launched /\ "MinIO" \in packages /\ unit # 0
  <2>1. unit \in 0..number /\ minio.running \in 0..number
    BY <1>4, <1>7
  <2>2. moved => unit = number
    OBVIOUS
  <2>3. /\ minio' = [unit |-> unit,
                     running |-> IF up /\ minio.running = 0 THEN unit ELSE minio.running]
        /\ <<number, "minio">> \notin silent' => moved /\ up
    BY <1>5 DEF It!Unheeded
  <2>4. up => unit # 0
    OBVIOUS
  <2>5. unit \in It!Number /\ minio.running \in It!Number
    BY <1>4 DEF ItInv, It!TypeOK
  <2> HIDE DEF unit, up
  <2>6. minio'.unit = unit /\ minio'.running \in {unit, minio.running}
    BY <2>3
  <2>7. <<number, "minio">> \notin silent' => minio'.running # 0
    BY <2>3, <2>4
  <2>8. minio' \in [unit : 0..number, running : 0..number]
    BY <2>1, <2>3
  <2>9. minio' \in [unit : It!Number, running : It!Number]
    BY <2>5, <2>3
  <2> QED
    BY <2>2, <2>3, <2>6, <2>7, <2>8, <2>9
<1>9. It!TypeOK'
  BY <1>1, <1>3, <1>4, <1>6, <1>8, ItTasks DEF ItInv, It!TypeOK
<1>10. TasksSoFar'
  BY <1>1, <1>3, <1>4, <1>6, <1>8 DEF ItInv, TasksSoFar
<1> QED
  BY <1>1, <1>4, <1>6, <1>8, <1>9, <1>10, ItTask

LEMMA ItPm2 ==
  ASSUME ItInv, It!StartPm2
  PROVE  ItInv'
<1>1. phase = "initializing" /\ It!NextTask /\ step \in 1..16 /\ It!Tasks[step] = "pm2"
      /\ undone' = undone /\ silent' = silent
  BY DEF It!StartPm2, It!Done, It!At, ItInv, Counted
<1>2. step = 13
  BY <1>1, ItNamed
<1>3. /\ UNCHANGED <<config, number, missed>>
      /\ phase' \in {"initializing", "done"} /\ step' \in 1..16
      /\ \A k \in 1..16 : Behind(k) <=> k < 13
      /\ \A k \in 1..16 : Behind(k)' <=> k <= 13
  BY <1>1, <1>2, ItBehind
<1>4. number \in Nat \ {0} /\ number \in It!Number /\ files.dotenv \in {0, number}
  BY <1>1 DEF ItInv, Counted, It!TypeOK, Under
<1>5. /\ UNCHANGED <<files, packages, database, redis, minio, nginx, admin, saved>>
      /\ api' = files.dotenv
  BY <1>4 DEF It!StartPm2, It!services, ItInv, It!TypeOK
<1>6. It!TypeOK'
  BY <1>1, <1>3, <1>4, <1>5, ItTasks DEF ItInv, It!TypeOK
<1>7. TasksSoFar'
  BY <1>1, <1>3, <1>4, <1>5 DEF ItInv, TasksSoFar
<1>8. files'.dotenv \in {files.dotenv, number} /\ minio' \in [unit : 0..number, running : 0..number]
  BY <1>4, <1>5 DEF ItInv, Counted
<1> QED
  BY <1>1, <1>5, <1>6, <1>7, <1>8, ItTask

LEMMA ItAdmin ==
  ASSUME ItInv, It!CreateAdmin
  PROVE  ItInv'
<1>1. phase = "initializing" /\ It!NextTask /\ step \in 1..16 /\ It!Tasks[step] = "admin"
      /\ undone' = undone /\ silent' = silent
  BY DEF It!CreateAdmin, It!Done, It!At, ItInv, Counted
<1>2. step = 14
  BY <1>1, ItNamed
<1>3. /\ UNCHANGED <<config, number, missed>>
      /\ phase' \in {"initializing", "done"} /\ step' \in 1..16
      /\ \A k \in 1..16 : Behind(k) <=> k < 14
      /\ \A k \in 1..16 : Behind(k)' <=> k <= 14
  BY <1>1, <1>2, ItBehind
<1>4. number \in Nat \ {0} /\ number \in It!Number /\ files.dotenv \in {0, number}
  BY <1>1 DEF ItInv, Counted, It!TypeOK, Under
<1>5. /\ UNCHANGED <<files, packages, redis, minio, nginx, api, saved>>
      /\ database' \in [password : It!Number, schema : BOOLEAN, users : BOOLEAN,
                        project : BOOLEAN]
      /\ database'.password = database.password
      /\ database'.schema = database.schema
      /\ database'.project = database.project
      /\ admin' = number
  BY <1>4 DEF It!CreateAdmin, It!services, ItInv, It!TypeOK
<1>6. It!TypeOK'
  BY <1>1, <1>3, <1>4, <1>5, ItTasks DEF ItInv, It!TypeOK
<1>7. TasksSoFar'
  BY <1>1, <1>3, <1>4, <1>5 DEF ItInv, TasksSoFar
<1>8. files'.dotenv \in {files.dotenv, number} /\ minio' \in [unit : 0..number, running : 0..number]
  BY <1>4, <1>5 DEF ItInv, Counted
<1> QED
  BY <1>1, <1>5, <1>6, <1>7, <1>8, ItTask

LEMMA ItRegister ==
  ASSUME ItInv, It!Register
  PROVE  ItInv'
<1>1. phase = "initializing" /\ It!NextTask /\ step \in 1..16 /\ It!Tasks[step] = "register"
      /\ undone' = undone /\ silent' = silent
  BY DEF It!Register, It!Done, It!At, ItInv, Counted
<1>2. step = 15
  BY <1>1, ItNamed
<1>3. /\ UNCHANGED <<config, number, missed>>
      /\ phase' \in {"initializing", "done"} /\ step' \in 1..16
      /\ \A k \in 1..16 : Behind(k) <=> k < 15
      /\ \A k \in 1..16 : Behind(k)' <=> k <= 15
  BY <1>1, <1>2, ItBehind
<1>4. number \in Nat \ {0} /\ number \in It!Number /\ files.dotenv \in {0, number}
  BY <1>1 DEF ItInv, Counted, It!TypeOK, Under
<1>5. /\ UNCHANGED <<files, packages, redis, minio, nginx, api, admin, saved>>
      /\ database' \in [password : It!Number, schema : BOOLEAN, users : BOOLEAN,
                        project : BOOLEAN]
      /\ database'.password = database.password
      /\ database'.schema = database.schema
      /\ database'.users = database.users
  BY <1>4 DEF It!Register, It!services, ItInv, It!TypeOK
<1>6. It!TypeOK'
  BY <1>1, <1>3, <1>4, <1>5, ItTasks DEF ItInv, It!TypeOK
<1>7. TasksSoFar'
  BY <1>1, <1>3, <1>4, <1>5 DEF ItInv, TasksSoFar
<1>8. files'.dotenv \in {files.dotenv, number} /\ minio' \in [unit : 0..number, running : 0..number]
  BY <1>4, <1>5 DEF ItInv, Counted
<1> QED
  BY <1>1, <1>5, <1>6, <1>7, <1>8, ItTask

LEMMA ItSave ==
  ASSUME ItInv, It!SaveCredentials
  PROVE  ItInv'
<1>1. phase = "initializing" /\ It!NextTask /\ step \in 1..16 /\ It!Tasks[step] = "save"
      /\ undone' = undone /\ silent' = silent
  BY DEF It!SaveCredentials, It!Done, It!At, ItInv, Counted
<1>2. step = 16
  BY <1>1, ItNamed
<1>3. /\ UNCHANGED <<config, number, missed>>
      /\ phase' \in {"initializing", "done"} /\ step' \in 1..16
      /\ \A k \in 1..16 : Behind(k) <=> k < 16
      /\ \A k \in 1..16 : Behind(k)' <=> k <= 16
  BY <1>1, <1>2, ItBehind
<1>4. number \in Nat \ {0} /\ number \in It!Number /\ files.dotenv \in {0, number}
  BY <1>1 DEF ItInv, Counted, It!TypeOK, Under
<1>5. /\ UNCHANGED <<files, packages, database, redis, minio, nginx, api, admin>>
      /\ saved' = number
  BY <1>4 DEF It!SaveCredentials, It!services, ItInv, It!TypeOK
<1>6. It!TypeOK'
  BY <1>1, <1>3, <1>4, <1>5, ItTasks DEF ItInv, It!TypeOK
<1>7. TasksSoFar'
  BY <1>1, <1>3, <1>4, <1>5 DEF ItInv, TasksSoFar
<1>8. files'.dotenv \in {files.dotenv, number} /\ minio' \in [unit : 0..number, running : 0..number]
  BY <1>4, <1>5 DEF ItInv, Counted
<1> QED
  BY <1>1, <1>5, <1>6, <1>7, <1>8, ItTask
LEMMA ItNginx ==
  ASSUME ItInv, It!ConfigureNginx
  PROVE  ItInv'
<1>1. phase = "initializing" /\ It!NextTask /\ step \in 1..16 /\ It!Tasks[step] = "nginx"
  BY DEF It!ConfigureNginx, It!Unheeded, It!At, ItInv, Counted
<1>2. step = 10
  BY <1>1, ItNamed
<1>3. /\ UNCHANGED <<config, number, missed>>
      /\ phase' \in {"initializing", "done"} /\ step' \in 1..16
      /\ \A k \in 1..16 : Behind(k) <=> k < 10
      /\ \A k \in 1..16 : Behind(k)' <=> k <= 10
  BY <1>1, <1>2, ItBehind
<1>4. number \in Nat \ {0} /\ number \in It!Number
  BY <1>1 DEF ItInv, Counted, It!TypeOK
<1>5. PICK copied \in BOOLEAN, reloaded \in BOOLEAN :
        LET site == IF copied THEN [number |-> files.conf, ssl |-> files.ssl] ELSE nginx.enabled
            valid == site.number # 0 /\ "Nginx" \in packages /\ (site.ssl => nginx.cert)
        IN  /\ It!Unheeded("nginx", copied /\ reloaded)
            /\ nginx' = [nginx EXCEPT !.enabled = site,
                                      !.loaded = IF valid /\ reloaded THEN site ELSE @]
            /\ undone' = IF valid THEN undone ELSE undone \cup {"nginx"}
  BY DEF It!ConfigureNginx
<1> DEFINE new == [number |-> files.conf, ssl |-> files.ssl]
           site == IF copied THEN new ELSE nginx.enabled
           valid == site.number # 0 /\ "Nginx" \in packages /\ (site.ssl => nginx.cert)
<1>6. /\ UNCHANGED <<files, packages, database, redis, minio, api, admin, saved>>
      /\ nginx' = [nginx EXCEPT !.enabled = site, !.loaded = IF valid /\ reloaded THEN site ELSE @]
      /\ undone' = IF valid THEN undone ELSE undone \cup {"nginx"}
      /\ silent' = silent \/ silent' = silent \cup {<<number, "nginx">>}
      /\ <<number, "nginx">> \notin silent' => copied /\ reloaded
  BY <1>5 DEF It!ConfigureNginx, It!Unheeded
<1>7. site \in It!Site
  BY DEF ItInv, It!TypeOK, It!Site
<1>8. copied => site = new
  OBVIOUS
<1> HIDE DEF site, valid
<1>9. /\ nginx' \in [enabled : It!Site, loaded : It!Site, cert : BOOLEAN]
      /\ undone' \subseteq undone \cup {"nginx"} /\ undone \subseteq undone'
      /\ nginx'.enabled = site /\ ("nginx" \notin undone' /\ reloaded => nginx'.loaded = site)
  <2>1. CASE valid
    BY <1>6, <1>7, <2>1 DEF ItInv, It!TypeOK
  <2>2. CASE ~valid
    BY <1>6, <1>7, <2>2 DEF ItInv, It!TypeOK
  <2> QED
    BY <2>1, <2>2
<1>10. It!TypeOK'
  BY <1>1, <1>3, <1>4, <1>6, <1>9, ItTasks DEF ItInv, It!TypeOK
<1>11. undone' \cap {"configs", "nginx"} = {} /\ <<number, "nginx">> \notin silent' =>
        /\ nginx'.enabled = [number |-> number, ssl |-> config.ssl]
        /\ nginx'.loaded = [number |-> number, ssl |-> config.ssl]
  <2>1. ASSUME undone' \cap {"configs", "nginx"} = {}, <<number, "nginx">> \notin silent'
        PROVE  site = [number |-> number, ssl |-> config.ssl] /\ reloaded
    BY <1>3, <1>6, <1>8, <1>9, <2>1 DEF ItInv, TasksSoFar
  <2> QED
    BY <1>9, <2>1
<1>12. TasksSoFar'
  BY <1>1, <1>3, <1>4, <1>6, <1>9, <1>11 DEF ItInv, TasksSoFar
<1> QED
  BY <1>1, <1>4, <1>6, <1>10, <1>12, ItTask DEF ItInv, Counted

LEMMA ItSsl ==
  ASSUME ItInv, It!RequestCertificate
  PROVE  ItInv'
<1>1. phase = "initializing" /\ It!NextTask /\ step \in 1..16 /\ It!Tasks[step] = "ssl"
  BY DEF It!RequestCertificate, It!Unheeded, It!At, ItInv, Counted
<1>2. step = 12
  BY <1>1, ItNamed
<1>3. /\ UNCHANGED <<config, number, missed>>
      /\ phase' \in {"initializing", "done"} /\ step' \in 1..16
      /\ \A k \in 1..16 : Behind(k) <=> k < 12
      /\ \A k \in 1..16 : Behind(k)' <=> k <= 12
  BY <1>1, <1>2, ItBehind
<1>4. number \in Nat \ {0} /\ number \in It!Number
  BY <1>1 DEF ItInv, Counted, It!TypeOK
<1>5. /\ UNCHANGED <<undone, files, packages, database, redis, minio, api, admin, saved>>
      /\ silent' = silent \/ silent' = silent \cup {<<number, "ssl">>}
      /\ nginx' \in [enabled : It!Site, loaded : It!Site, cert : BOOLEAN]
      /\ nginx'.enabled = nginx.enabled /\ nginx'.loaded \in {nginx.enabled, nginx.loaded}
  BY DEF It!RequestCertificate, It!Unheeded, ItInv, It!TypeOK
<1>6. It!TypeOK'
  BY <1>1, <1>3, <1>4, <1>5, ItTasks DEF ItInv, It!TypeOK
<1>7. TasksSoFar'
  BY <1>1, <1>3, <1>4, <1>5 DEF ItInv, TasksSoFar
<1> QED
  BY <1>1, <1>4, <1>5, <1>6, <1>7, ItTask DEF ItInv, Counted

\* An installation that ends leaves what it did.
LEMMA ItEnds ==
  ASSUME ItInv, It!Ended, api' \in It!Number,
         UNCHANGED <<silent, files, packages, database, redis, minio, nginx, admin, saved>>
  PROVE  ItInv'
<1>1. It!TypeOK'
  BY ItTasks DEF ItInv, It!TypeOK, It!Ended
<1> QED
  BY <1>1 DEF ItInv, Counted, Under, TasksSoFar, Behind, It!Ended

\* A task that fails is critical, or noted.
LEMMA ItFails ==
  ASSUME ItInv, MaxInstalls \in Nat, It!TaskFails
  PROVE  ItInv'
<1>1. /\ phase = "initializing" /\ step \in 1..16
      /\ It!Tasks[step] \notin {"redis", "nginx"}
      /\ UNCHANGED <<silent, files, packages, database, redis, minio, nginx, admin, saved>>
      /\ api' = IF It!At("pm2") THEN 0 ELSE api
  BY DEF It!TaskFails, It!services, ItInv, Counted
<1>2. It!Tasks[step] \in It!TaskNames /\ It!TaskNames \in SUBSET It!TaskNames
  BY <1>1, ItNamed
<1>3. number \in Nat \ {0} /\ number \in It!Number
  BY <1>1 DEF ItInv, Counted, It!TypeOK
<1>4. api' \in It!Number /\ (step # 13 => api' = api)
  <2>1. 0 \in It!Number
    BY <1>3 DEF It!Number
  <2>2. It!At("pm2") => step = 13
    BY <1>1, ItNamed DEF It!At
  <2> QED
    BY <1>1, <2>1, <2>2 DEF ItInv, It!TypeOK
<1>5. CASE It!Tasks[step] \in It!Critical
  <2>1. It!Ended
    BY <1>5 DEF It!TaskFails
  <2> QED
    BY <1>1, <1>4, <2>1, ItEnds
<1>6. CASE It!Tasks[step] \notin It!Critical
  <2>1. It!NextTask /\ undone' = undone \cup {It!Tasks[step]}
    BY <1>6 DEF It!TaskFails
  <2>2. /\ UNCHANGED <<config, number, missed>>
        /\ phase' \in {"initializing", "done"} /\ step' \in 1..16
        /\ \A k \in 1..16 : Behind(k) <=> k < step
        /\ \A k \in 1..16 : Behind(k)' <=> k <= step
    BY <1>1, <2>1, ItBehind
  <2>3. It!TypeOK'
    <3>1. undone' \subseteq It!TaskNames
      BY <1>2, <2>1 DEF ItInv, It!TypeOK
    <3>2. step' \in 0..Len(It!Tasks)
      <4>1. Len(It!Tasks) = 16
        BY ItTasks
      <4> QED
        BY <2>2, <4>1
    <3> QED
      BY <1>1, <1>4, <2>2, <3>1, <3>2 DEF ItInv, It!TypeOK
  <2>4. /\ step \notin {2, 4, 5, 6, 7, 10}
        /\ step = 1 => "configs" \in undone'
        /\ step = 8 => "webdeps" \in undone'
        /\ step = 9 => "web" \in undone'
        /\ step = 11 => "minio" \in undone'
        /\ step = 13 => "pm2" \in undone'
        /\ step = 14 => "admin" \in undone'
        /\ step = 16 => "save" \in undone'
    BY <1>1, <1>6, <2>1, ItPlaces DEF It!Critical
  <2>5. TasksSoFar'
    <3>1. undone \subseteq undone'
      BY <2>1
    <3>2. UNCHANGED <<silent, files, database, packages, redis, minio, nginx, admin, saved, config,
                      number>> /\ step \in 1..16
      BY <1>1, <2>2
    <3> QED
      BY <1>4, <2>2, <2>4, <3>1, <3>2 DEF ItInv, TasksSoFar
  <2> QED
    BY <1>1, <1>3, <2>1, <2>3, <2>5, ItTask DEF ItInv, Counted
<1> QED
  BY <1>5, <1>6

----------------------------------------------------------------------------
(* Before the tasks.                                                       *)

LEMMA ItRun ==
  ASSUME ItInv, MaxInstalls \in Nat, It!Run
  PROVE  ItInv'
<1>1. /\ phase' \in {"erase", "clone"} /\ number' = number + 1 /\ number < MaxInstalls
      /\ step' = 0 /\ config' = [ssl |-> FALSE] /\ missed' = {} /\ undone' = {}
      /\ UNCHANGED <<silent, files, packages, database, redis, minio, nginx, api, admin, saved>>
  BY DEF It!Run, It!services
<1>2. number \in Nat /\ number' \in It!Number
  BY <1>1 DEF ItInv, It!TypeOK, It!Number
<1>3. It!TypeOK'
  BY <1>1, <1>2, ItTasks DEF ItInv, It!TypeOK
<1>4. Counted'
  BY <1>1, <1>2 DEF ItInv, Counted, Under
<1> QED
  BY <1>1, <1>3, <1>4 DEF ItInv, TasksSoFar, Behind

LEMMA ItStops ==
  ASSUME ItInv, MaxInstalls \in Nat, It!Kill \/ It!Erase
  PROVE  ItInv'
<1>1. CASE It!Kill
  BY <1>1, ItEnds DEF It!Kill, It!services, ItInv, It!TypeOK
<1>2. CASE It!Erase
  <2>1. /\ phase = "erase" /\ phase' = "clone" /\ files' = It!Erased
        /\ UNCHANGED <<step, config, number, missed, undone, silent, packages, database, redis,
                       minio, nginx, api, admin, saved>>
    BY <1>2 DEF It!Erase, It!services
  <2>2. It!Erased \in [exists : BOOLEAN, dotenv : It!Number, conf : It!Number, ssl : BOOLEAN,
                       deps : BOOLEAN, dist : BOOLEAN, web : BOOLEAN]
    BY DEF It!Erased, ItInv, It!TypeOK, It!Number
  <2>3. It!TypeOK'
    BY <2>1, <2>2 DEF ItInv, It!TypeOK
  <2> QED
    BY <2>1, <2>3 DEF ItInv, Counted, Under, TasksSoFar, Behind
<1> QED
  BY <1>1, <1>2

LEMMA ItClone ==
  ASSUME ItInv, MaxInstalls \in Nat, It!Clone
  PROVE  ItInv'
<1>1. /\ phase = "clone" /\ phase' = "collecting"
      /\ UNCHANGED <<step, config, number, missed, undone, silent, packages, database, redis, minio,
                     nginx, api, admin, saved>>
      /\ files' = [It!Erased EXCEPT !.exists = TRUE]
  BY DEF It!Clone, It!services
<1>2. files' \in [exists : BOOLEAN, dotenv : It!Number, conf : It!Number, ssl : BOOLEAN,
                  deps : BOOLEAN, dist : BOOLEAN, web : BOOLEAN] /\ files'.dotenv = 0
  <2>1. 0 \in It!Number
    BY DEF It!Number
  <2>2. files' = [exists |-> TRUE, dotenv |-> 0, conf |-> 0, ssl |-> FALSE, deps |-> FALSE,
                  dist |-> FALSE, web |-> FALSE]
    BY <1>1 DEF It!Erased
  <2> QED
    BY <2>1, <2>2
<1>3. It!TypeOK'
  BY <1>1, <1>2 DEF ItInv, It!TypeOK
<1> QED
  BY <1>1, <1>2, <1>3 DEF ItInv, Counted, Under, TasksSoFar, Behind

LEMMA ItCollect ==
  ASSUME ItInv, NEW ssl \in BOOLEAN, It!Collect(ssl)
  PROVE  ItInv'
<1>1. /\ phase = "collecting" /\ phase' = "installing" /\ step' = 1 /\ config' = [ssl |-> ssl]
      /\ UNCHANGED <<number, missed, undone, silent, files, packages, database, redis, minio, nginx,
                     api, admin, saved>>
  BY DEF It!Collect, It!services
<1>2. It!TypeOK'
  BY <1>1, ItTasks DEF ItInv, It!TypeOK
<1> QED
  BY <1>1, <1>2 DEF ItInv, Counted, Under, TasksSoFar, Behind

\* One dependency after the other, installed or missed.
LEMMA ItInstalls ==
  ASSUME ItInv, It!Install \/ It!InstallFails
  PROVE  ItInv'
<1>1. /\ phase = "installing" /\ step \in 1..5
      /\ UNCHANGED <<silent, files, database, redis, minio, nginx, api, admin, saved>>
      /\ packages' \subseteq packages \cup {It!Dependencies[step]}
  BY DEF It!Install, It!InstallFails, It!services, ItInv, Counted
<1>2. It!Dependencies[step] \in It!Packages
  BY <1>1, ItTasks
<1>3. CASE It!Ended
  <2>1. packages' = packages
    BY <1>3 DEF It!Install, It!InstallFails, It!services, It!Ended, It!NextDependency
  <2> QED
    BY <1>1, <1>3, <2>1, ItEnds DEF ItInv, It!TypeOK
<1>4. CASE ~It!Ended
  <2>1. /\ It!NextDependency /\ UNCHANGED <<config, number, undone>>
        /\ missed' \subseteq missed \cup {It!Dependencies[step]}
    BY <1>4 DEF It!Install, It!InstallFails
  <2>2. \/ phase' = "installing" /\ step < 5 /\ step' = step + 1
        \/ phase' = "initializing" /\ step = 5 /\ step' = 1
    BY <1>1, <2>1, ItTasks DEF It!NextDependency
  <2>3. It!TypeOK'
    BY <1>1, <1>2, <2>1, <2>2, ItTasks DEF ItInv, It!TypeOK
  <2>4. Counted'
    BY <1>1, <2>1, <2>2 DEF ItInv, Counted, Under
  <2>5. \A k \in 1..16 : ~Behind(k)'
    BY <2>2 DEF Behind
  <2> QED
    BY <2>3, <2>4, <2>5 DEF ItInv, TasksSoFar
<1> QED
  BY <1>3, <1>4

----------------------------------------------------------------------------
LEMMA ItStart ==
  ASSUME It!InstallerAssumption, It!Init
  PROVE  ItInv
<1>1. It!TypeOK
  <2>1. 0 \in It!Number
    BY DEF It!Number, It!InstallerAssumption
  <2>2. phase = "idle" /\ step \in 0..Len(It!Tasks) /\ config \in [ssl : BOOLEAN]
        /\ number \in It!Number
    BY <2>1, ItTasks DEF It!Init
  <2>3. missed \subseteq It!Packages /\ undone \subseteq It!TaskNames
        /\ silent \subseteq It!Number \X {"redis", "nginx", "minio", "ssl"}
        /\ packages \subseteq It!Packages
    BY ItTasks DEF It!Init
  <2>4. files \in [exists : BOOLEAN, dotenv : It!Number, conf : It!Number, ssl : BOOLEAN,
                   deps : BOOLEAN, dist : BOOLEAN, web : BOOLEAN]
    BY <2>1 DEF It!Init, It!Erased
  <2>5. database \in [password : It!Number, schema : BOOLEAN, users : BOOLEAN, project : BOOLEAN]
    BY <2>1 DEF It!Init
  <2>6. nginx \in [enabled : It!Site, loaded : It!Site, cert : BOOLEAN]
    BY <2>1 DEF It!Init, It!Site, It!NoSite
  <2>7. minio \in [unit : It!Number, running : It!Number] /\ redis \in It!Number
        /\ api \in It!Number /\ admin \in It!Number /\ saved \in It!Number
    BY <2>1 DEF It!Init
  <2> QED
    BY <2>2, <2>3, <2>4, <2>5, <2>6, <2>7 DEF It!TypeOK
<1>2. phase = "idle" /\ number = 0 /\ minio = [unit |-> 0, running |-> 0]
  BY DEF It!Init
<1> QED
  BY <1>1, <1>2 DEF ItInv, Counted, Under, TasksSoFar, Behind

LEMMA ItSteps ==
  ASSUME It!InstallerAssumption, ItInv, It!Next \/ UNCHANGED It!vars
  PROVE  ItInv'
<1>1. CASE UNCHANGED It!vars
  <2>1. UNCHANGED <<phase, step, config, number, missed, undone, silent, files, packages,
                    database, redis, minio, nginx, api, admin, saved>>
    BY <1>1 DEF It!vars, It!progress, It!services
  <2> QED
    BY <2>1 DEF ItInv, It!TypeOK, Counted, Under, TasksSoFar, Behind
<1>2. CASE It!Run \/ It!Erase \/ It!Clone \/ It!Kill \/ It!Install \/ It!InstallFails \/ It!TaskFails
  BY <1>2, ItRun, ItStops, ItClone, ItInstalls, ItFails DEF It!InstallerAssumption
<1>3. ASSUME NEW ssl \in BOOLEAN, It!Collect(ssl)
      PROVE  ItInv'
  BY <1>3, ItCollect
<1>4. CASE \/ It!WriteConfigs \/ It!NpmCi \/ It!GenerateClient \/ It!SetUpDatabase \/ It!Migrate
           \/ It!SetRedisPassword \/ It!Build \/ It!WebDependencies
  BY <1>4, ItConfigs, ItNpm, ItClient, ItDatabase, ItMigrate, ItRedis, ItBuild, ItWebDeps
<1>5. CASE \/ It!BuildWeb \/ It!ConfigureNginx \/ It!SetUpMinio \/ It!RequestCertificate
           \/ It!StartPm2 \/ It!CreateAdmin \/ It!Register \/ It!SaveCredentials
  BY <1>5, ItWeb, ItNginx, ItMinio, ItSsl, ItPm2, ItAdmin, ItRegister, ItSave
<1> QED
  BY <1>1, <1>2, <1>3, <1>4, <1>5 DEF It!Next

\* What the report says at its end.
LEMMA ItReports ==
  ASSUME ItInv
  PROVE  It!ReportEarned /\ It!ReportedAsInstalled
<1>1. ASSUME phase = "done"
      PROVE  number \in Nat \ {0} /\ \A k \in 1..16 : Behind(k)
  BY <1>1 DEF ItInv, Counted, Behind
<1>2. It!ReportEarned
  BY <1>1 DEF ItInv, TasksSoFar, It!ReportEarned, It!Reachable
<1>3. It!ReportedAsInstalled
  <2>1. ASSUME phase = "done", undone \subseteq {"register"}
        PROVE  /\ {api, admin, saved} = {number} /\ files.web
               /\ <<number, "redis">> \notin silent => redis = number
               /\ <<number, "nginx">> \notin silent =>
                    nginx.loaded = [number |-> number, ssl |-> config.ssl]
               /\ <<number, "minio">> \notin silent =>
                    /\ minio.unit = number /\ minio.running # 0
                    /\ number = 1 => minio.running = 1
    <3>1. /\ undone \cap {"webdeps", "web"} = {} /\ undone \cap {"configs", "nginx"} = {}
          /\ "pm2" \notin undone /\ "admin" \notin undone /\ "save" \notin undone
          /\ "minio" \notin undone
      BY <2>1
    <3>2. /\ files.web /\ api = number /\ admin = number /\ saved = number
          /\ <<number, "redis">> \notin silent => redis = number
          /\ <<number, "nginx">> \notin silent =>
               nginx.loaded = [number |-> number, ssl |-> config.ssl]
          /\ <<number, "minio">> \notin silent => minio.unit = number /\ minio.running # 0
      BY <1>1, <2>1, <3>1 DEF ItInv, TasksSoFar
    <3>3. number = 1 => minio.running \in 0..1
      BY DEF ItInv, Counted
    <3> QED
      BY <3>2, <3>3
  <2> QED
    BY <2>1 DEF It!ReportedAsInstalled
<1> QED
  BY <1>2, <1>3

(***************************************************************************)
(* For any number of installations, whatever fails or is killed: what the  *)
(* installer reports has been done, on the server its configuration        *)
(* describes -- of Redis, nginx and MinIO only what none of the commands   *)
(* that nobody looks at has failed to do.                                  *)
(***************************************************************************)
THEOREM InstallsAreReported ==
  It!InstallerAssumption /\ It!Spec =>
    [](It!TypeOK /\ It!ReportEarned /\ It!ReportedAsInstalled)
<1> SUFFICES ASSUME It!InstallerAssumption
             PROVE  It!Spec => [](It!TypeOK /\ It!ReportEarned /\ It!ReportedAsInstalled)
  OBVIOUS
<1>1. It!Init => ItInv
  BY ItStart
<1>2. ItInv /\ [It!Next]_(It!vars) => ItInv'
  BY ItSteps
<1>3. ItInv => It!TypeOK /\ It!ReportEarned /\ It!ReportedAsInstalled
  BY ItReports DEF ItInv
<1> QED
  BY <1>1, <1>2, <1>3, PTL DEF It!Spec

----------------------------------------------------------------------------
(* The sum of the three.                                                   *)

(***************************************************************************)
(* What a server is for does not change, and then it does what that does.  *)
(***************************************************************************)
LEMMA OneDuty ==
  ASSUME [ServersNext]_servers
  PROVE  /\ UNCHANGED duty
         /\ duty = "upgrade" => [Up!Next]_(Up!vars)
         /\ duty = "scripts" => [Sv!Next]_(Sv!vars)
         /\ duty = "installer" => [It!Next]_(It!vars)
<1>1. CASE UNCHANGED servers
  <2>1. UNCHANGED <<duty, common, upgraded, scripted, installed>>
    BY <1>1 DEF servers
  <2>2. UNCHANGED Up!vars
    BY <2>1 DEF common, upgraded, Up!vars
  <2>3. UNCHANGED Sv!vars
    BY <2>1 DEF common, scripted, Sv!vars, Sv!machine, Sv!nginx, Sv!sources
  <2>4. UNCHANGED It!vars
    BY <2>1 DEF common, installed, It!vars, It!progress, It!services
  <2> QED
    BY <2>1, <2>2, <2>3, <2>4
<1>2. CASE ServersNext
  BY Zenon, <1>2 DEF ServersNext, Serves
<1> QED
  BY <1>1, <1>2

LEMMA DutyStarts ==
  ASSUME ServersInit
  PROVE  /\ duty \in {"upgrade", "scripts", "installer"}
         /\ duty = "upgrade" => Up!Init
         /\ duty = "scripts" => Sv!Init
         /\ duty = "installer" => It!Init
BY Zenon DEF ServersInit

(***************************************************************************)
(* For every number of releases, sources, runs and installations, and any  *)
(* faults: each component keeps its types; a completed upgrade is whole, a *)
(* rolled back one leaves what was there, and from the pull on there is a  *)
(* backup; a server set up passes the check, a deployed release is whole   *)
(* and the API stays served; and what the installer reports has been done, *)
(* on the server its configuration describes, but for what commands it     *)
(* does not look at failed to do (ServersTypeOK, ServersWhole).            *)
(***************************************************************************)
THEOREM ServersAreWhole ==
  ServersAssumption /\ ServersSpec => [](ServersTypeOK /\ ServersWhole)
<1> SUFFICES ASSUME ServersAssumption  PROVE ServersSpec => [](ServersTypeOK /\ ServersWhole)
  OBVIOUS
<1> DEFINE UpOK == Up!TypeOK /\ Up!CompletedIsWhole /\ Up!RollbackRestores /\ Up!Recoverable
           SvOK == Sv!TypeOK /\ Sv!SetupSatisfiesCheck /\ Sv!DeployedIsWhole /\ Sv!ApiStaysServed
           ItOK == It!TypeOK /\ It!ReportEarned /\ It!ReportedAsInstalled
<1>1. ServersSpec => [](duty \in {"upgrade", "scripts", "installer"})
  <2>1. ServersInit => duty \in {"upgrade", "scripts", "installer"}
    BY DutyStarts
  <2>2. duty \in {"upgrade", "scripts", "installer"} /\ [ServersNext]_servers =>
          (duty \in {"upgrade", "scripts", "installer"})'
    BY OneDuty
  <2> QED
    BY <2>1, <2>2, PTL DEF ServersSpec
<1>2. ServersSpec => [](duty = "upgrade" => UpOK)
  <2>1. ServersInit => (duty = "upgrade" => Up!Init)
    BY DutyStarts
  <2>2. [ServersNext]_servers =>
          ((duty = "upgrade") <=> (duty = "upgrade")') /\ (duty = "upgrade" => [Up!Next]_(Up!vars))
    BY OneDuty
  <2>3. Up!Spec => []UpOK
    BY UpgradesAreWhole DEF ServersAssumption
  <2> QED
    BY <2>1, <2>2, <2>3, PTL DEF ServersSpec, Up!Spec
<1>3. ServersSpec => [](duty = "scripts" => SvOK)
  <2>1. ServersInit => (duty = "scripts" => Sv!Init)
    BY DutyStarts
  <2>2. [ServersNext]_servers =>
          ((duty = "scripts") <=> (duty = "scripts")') /\ (duty = "scripts" => [Sv!Next]_(Sv!vars))
    BY OneDuty
  <2>3. Sv!Spec => []SvOK
    BY ScriptsAreWhole DEF ServersAssumption
  <2> QED
    BY <2>1, <2>2, <2>3, PTL DEF ServersSpec, Sv!Spec
<1>4. ServersSpec => [](duty = "installer" => ItOK)
  <2>1. ServersInit => (duty = "installer" => It!Init)
    BY DutyStarts
  <2>2. [ServersNext]_servers =>
          /\ (duty = "installer") <=> (duty = "installer")'
          /\ duty = "installer" => [It!Next]_(It!vars)
    BY OneDuty
  <2>3. It!Spec => []ItOK
    BY InstallsAreReported DEF ServersAssumption
  <2> QED
    BY <2>1, <2>2, <2>3, PTL DEF ServersSpec, It!Spec
<1>5. /\ duty \in {"upgrade", "scripts", "installer"}
      /\ duty = "upgrade" => UpOK
      /\ duty = "scripts" => SvOK
      /\ duty = "installer" => ItOK
      => ServersTypeOK /\ ServersWhole
  BY Zenon DEF ServersTypeOK, ServersWhole
<1> QED
  BY <1>1, <1>2, <1>3, <1>4, <1>5, PTL
----------------------------------------------------------------------------
\* An element more adds at most one.
LEMMA OneMore ==
  ASSUME NEW S, NEW x, IsFiniteSet(S)
  PROVE  /\ IsFiniteSet(S \cup {x}) /\ Cardinality(S) \in Nat
         /\ Cardinality(S \cup {x}) \in Nat
         /\ Cardinality(S \cup {x}) <= Cardinality(S) + 1
<1>1. /\ IsFiniteSet(S \cup {x})
      /\ Cardinality(S \cup {x}) = IF x \in S THEN Cardinality(S) ELSE Cardinality(S) + 1
  BY FS_AddElement
<1>2. Cardinality(S) \in Nat /\ Cardinality(S \cup {x}) \in Nat
  BY <1>1, FS_CardinalityType
<1> QED
  BY <1>1, <1>2
================================================================================
