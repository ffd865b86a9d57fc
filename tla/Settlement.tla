----------------------------- MODULE Settlement -----------------------------
(***************************************************************************)
(* Grading of orders against a score (execution-engine-go settle.go),      *)
(* shared by both brokers and the admin handlers.  A score is abstracted   *)
(* to the side it favours, which is all that outcomeFor compares.          *)
(***************************************************************************)
EXTENDS Naturals, FiniteSets

Score  == {"home", "draw", "away"}
Result == {"won", "lost", "void", "unresolved"}

(* The counters of the PnL hash, and the results that each one counts.     *)
Counter  == {"won", "lost", "voids"}
Counts   == [won |-> {"won"}, lost |-> {"lost"}, voids |-> {"void", "unresolved"}]
Totals   == [Counter -> Nat]
NoTotals == [c \in Counter |-> 0]

Plus(a, b) == [c \in Counter |-> a[c] + b[c]]

(* 1X2 grading: a home or away bet loses on a draw; a side of another      *)
(* market is void.                                                         *)
outcomeFor(side, score) ==
  IF side \notin Score THEN "void"
  ELSE IF side = score THEN "won" ELSE "lost"

(* settleOrders: an order graded on an unverified score is unresolved.     *)
Verdict(side, score, verified) ==
  IF verified THEN outcomeFor(side, score) ELSE "unresolved"
=============================================================================
