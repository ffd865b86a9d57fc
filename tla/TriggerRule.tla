---------------------------- MODULE TriggerRule ----------------------------
(***************************************************************************)
(* The trigger rule of analytics-engine-py (src/filter_engine.py): which   *)
(* leg of a market the engine bets on, and whether it does.                *)
(*                                                                         *)
(* Abstractions: prices are in tenths and probabilities in thousandths,    *)
(* and exact where the code has floats; the score of a leg is the          *)
(* probability that the logistic model gives it, any number.               *)
(***************************************************************************)
EXTENDS Integers

CONSTANTS
  Price,         \* prices of a leg; 0 is a leg that is not quoted
  Score,         \* probabilities that the model computes
  MinOdds, MaxOdds,                         \* *_ODDS, in tenths
  DrawProbCap, MaxTrueProb, MarginSlack     \* in thousandths

Side == {"home", "away", "draw"}

RuleAssumption ==
  /\ Price \subseteq Nat /\ Score \subseteq 0..1000 /\ MinOdds \in Nat \ {0}
  /\ {MaxOdds, DrawProbCap, MaxTrueProb, MarginSlack} \subseteq Nat

VARIABLES
  selectDraw,   \* SELECT_DRAW, read when the engine starts
  odds,         \* the quotes of the snapshot
  score,        \* what the model says of home and away
  verdict       \* what evaluate made of the snapshot

vars == <<selectDraw, odds, score, verdict>>

Least(a, b) == IF a < b THEN a ELSE b

(* The draw closes the market that the two legs leave open.                *)
TrueProbability(side) ==
  LET leg(s) == Least(score[s], MaxTrueProb)
      rest == 1000 - leg("home") - leg("away")
  IN  IF side = "draw" THEN Least(IF rest < 0 THEN 0 ELSE rest, DrawProbCap)
      ELSE leg(side)

(* The edge of a leg is its probability less the bookmaker's, 1 / price:   *)
(* edges are compared over a common denominator.                           *)
Edge(side) == TrueProbability(side) * odds[side] - 10000

LargerEdge(s, t) == Edge(s) * odds[t] > Edge(t) * odds[s]

Eligible(side) == odds[side] >= MinOdds /\ odds[side] <= MaxOdds

(* Mutant: the first leg within the limits is taken.                       *)
FirstOf(best, s) == IF Eligible(s) /\ best = "none" THEN s ELSE best

(* One turn of the loop over the sides: a later side replaces the best so  *)
(* far only if its edge is larger; "none" stands for no side.              *)
Better(best, s) ==
  IF Eligible(s) /\ (best = "none" \/ LargerEdge(s, best)) THEN s ELSE best

(* best_side: home, away and, if it may be selected, the draw.             *)
BestSide ==
  LET leg == Better(Better("none", "home"), "away")
  IN  IF selectDraw THEN Better(leg, "draw") ELSE leg

(* evaluate: the margin has to be larger than the slack.                   *)
Triggers(side) == side # "none" /\ Edge(side) > MarginSlack * odds[side]

NoVerdict == [side |-> "unread", execute |-> FALSE]

-----------------------------------------------------------------------------
Init ==
  /\ selectDraw \in BOOLEAN
  /\ odds = [s \in Side |-> 0] /\ score = [s \in Side \ {"draw"} |-> 0]
  /\ verdict = NoVerdict

(* A live frame brings a snapshot of a market.                             *)
Snapshot ==
  /\ \A s \in Side : odds[s] = 0
  /\ odds' \in [Side -> Price] /\ \E s \in Side : odds'[s] # 0
  /\ score' \in [Side \ {"draw"} -> Score]
  /\ UNCHANGED <<selectDraw, verdict>>

Evaluate ==
  /\ verdict = NoVerdict /\ \E s \in Side : odds[s] # 0
  /\ verdict' = [side |-> BestSide, execute |-> Triggers(BestSide)]
  /\ UNCHANGED <<selectDraw, odds, score>>

Next == Snapshot \/ Evaluate

Spec == Init /\ [][Next]_vars

-----------------------------------------------------------------------------
(* The legs that may be bet on, each with a better price than it is worth. *)
Legs == {s \in Side : Eligible(s) /\ (s = "draw" => selectDraw)}
Value == {s \in Legs : TrueProbability(s) * odds[s] > 10000 + MarginSlack * odds[s]}

(* "The side selected is the one with the strongest positive edge, not     *)
(* merely the highest quote" (filter_engine.py:8): no leg that may be bet  *)
(* on is worth more at its price.  And to look at that leg only misses     *)
(* nothing: the engine bets if any leg is worth it (filter_engine.py:110-  *)
(* 162).                                                                   *)
VerdictIsBest ==
  /\ verdict # NoVerdict => (verdict.execute <=> Value # {})
  /\ verdict.execute =>
       /\ verdict.side \in Value
       /\ \A s \in Legs : (TrueProbability(s) - TrueProbability(verdict.side))
                               * odds[s] * odds[verdict.side]
                             <= 10000 * (odds[verdict.side] - odds[s])
=============================================================================
