----------------------------- MODULE MCProgress -----------------------------
(***************************************************************************)
(* The instance of Progress that TLC checks, with the fairness of its      *)
(* components and what it makes them do in the end.                        *)
(***************************************************************************)
EXTENDS Progress, TLC

CONSTANT MainPush

\* One push: the first of the filters lets it pass, the second does not.
Deliveries ==
  MainPush :> [event |-> "push", merged |-> FALSE, branch |-> {"main"}, files |-> {"a"}]

EveryFilter ==
  {[events |-> {"push"}, branches |-> {"main"}, paths |-> {}],
   [events |-> {"release"}, branches |-> {}, paths |-> {"a"}]}

KeyOfItem == "i1" :> "k1" @@ "i2" :> "k2"

EveryKind == {"REMOTE", "SQL", "DUMP"} \X {"ERROR", "SKIP", "OVERWRITE", "APPEND"}

EveryHook == {[polls |-> TRUE, first |-> TRUE], [polls |-> TRUE, first |-> FALSE],
              [polls |-> FALSE, first |-> FALSE]}

ASSUME ProgressHolds == ProgressAssumption

\* The fairness of the five, each while it is its turn.
AllFairness ==
  /\ WF_lock(turn = "lock" /\ Tick)
  /\ \A c \in Callers : WF_lock(turn = "lock" /\ (Acquire(c) \/ GiveUp(c)))
  /\ \A p \in Processors : WF_hooks(turn = "hooks" /\ Wh!Process(p))
  /\ WF_objects(turn = "objects" /\ Si!WorkerStep)
  /\ WF_objects(turn = "objects" /\ Si!Redeliver(1))
  /\ WF_rows(turn = "rows" /\ Dm!WorkerStep)
  /\ WF_rows(turn = "rows" /\ Dm!Redeliver(1))
  /\ WF_view(turn = "view" /\ Lv!Write)
  /\ WF_view(turn = "view" /\ Lv!Emit)
  /\ WF_view(turn = "view" /\ Lv!Poll)
  /\ WF_view(turn = "view" /\ \E s \in Lv!Status : Lv!Answer(s) \/ Lv!Fail(s))

AllFairSpec == AllSpec /\ AllFairness
----------------------------------------------------------------------------
(***************************************************************************)
(* A received event is settled unless the backend stops, a queued          *)
(* migration's job ends, and the page that polls for a job learns its end: *)
(* ReceivedSettles, MigrationSettles and PageLearnsEnd of instances with   *)
(* one delivery, one migration and one page, in one formula.               *)
(***************************************************************************)
Unsettled ==
  CASE turn = "hooks" -> Wh!Unsettled(MainPush)
    [] turn = "rows" -> Dm!Unsettled(1)
    [] turn = "view" -> Lv!Ignorant
    [] OTHER -> FALSE

JobsSettle == Unsettled ~> ~Unsettled

(***************************************************************************)
(* A migration or an import cancelled before its last table or item stops  *)
(* and does not become COMPLETED (CancelHonoured of both).                 *)
(***************************************************************************)
CancelledEarly == Dm!CancelledEarly(1) \/ Si!CancelledEarly(1)

CancelsHonoured ==
  CancelledEarly ~> IF turn = "rows" THEN Dm!StaysCancelled(1) ELSE Si!NotCompleted(1)
=============================================================================
