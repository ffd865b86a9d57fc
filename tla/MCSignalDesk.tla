---------------------------- MODULE MCSignalDesk ----------------------------
(* Small instances of the signal desk for TLC: one order wins and one      *)
(* loses, if the ledger does not have them as void from the start.         *)
EXTENDS SignalDesk

CONSTANTS o1, o2
MCGrades == (o1 :> {"won"}) @@ (o2 :> {"lost"})
MCPnl == [o \in {o1, o2} |->
           [result \in Results |->
             IF result = "won" THEN 3 ELSE IF result = "lost" THEN -1 ELSE 0]]

(* The stream and the placements with a fault; two orders in one batch of  *)
(* a grader; both graders at one order, or one of them again after a       *)
(* crash; a request of the operator beside a grader, and one with a fault. *)
Budget(orders, batches, requests, posts, faults) ==
  [orders |-> orders, batches |-> batches, requests |-> requests, posts |-> posts,
   faults |-> faults]
MCBudgets == {Budget(2, 0, 0, 1, 1), Budget(2, 1, 0, 0, 0), Budget(1, 2, 0, 0, 1),
              Budget(1, 1, 1, 0, 0), Budget(0, 0, 1, 0, 1)}

=============================================================================
