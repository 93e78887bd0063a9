---------------------------- MODULE MCGameMapLive ----------------------------
(***************************************************************************)
(* GameMap with finitely many calls, ticks and cleanup passes, fewer than  *)
(* the writeback queue has room for: what must happen once they have been  *)
(* made.  (With a full queue the map can stop: StallOnlyOnFullQueue.)      *)
(***************************************************************************)
EXTENDS MCGameMap

CONSTANT Budget            \* how many calls, ticks and passes may start

VARIABLE budget

ASSUME BudgetAssumption == Budget \in Nat /\ 2 * Budget <= QueueSize

LiveInit == Init /\ budget = Budget

Starts == \/ \E u \in Users : Calls(u)
          \/ \E s \in Shards : Ticks(s)
          \/ CleanupClaim

Goes == \/ \E t \in Threads : Inside(t)
        \/ \E s \in Shards : ShardExit(s)
        \/ Writeback \/ Unloads \/ RequestShutdown \/ Shutdown

LiveNext ==
  \/ budget > 0 /\ budget' = budget - 1 /\ Starts
  \/ UNCHANGED budget /\ Goes

LiveSpec == LiveInit /\ [][LiveNext]_<<vars, budget>> /\ Fairness
=============================================================================
