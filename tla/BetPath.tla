------------------------------ MODULE BetPath ------------------------------
(***************************************************************************)
(* What happens between a frame and a bet, from three sides:               *)
(*                                                                         *)
(*   study   the momentum windows of the engine and their replay           *)
(*           (MomentumStudy)                                               *)
(*   rule    the verdict on a snapshot (TriggerRule)                       *)
(*   orders  the way of the orders from the engine to the ledger           *)
(*           (TradingPipeline)                                             *)
(*                                                                         *)
(* The sides are cut where one takes any output of the other: the rule     *)
(* has any score for a snapshot, the engine any verdict.  A behaviour is   *)
(* one of the side that was picked at the start; what is checked of a      *)
(* side says nothing of another.                                           *)
(***************************************************************************)
EXTENDS MomentumStudy

CONSTANTS
  Price, Computed, MinOdds, MaxOdds, DrawProbCap, MaxTrueProb, MarginSlack,
                                            \* see TriggerRule
  Traded, Market, Worker, MaxQueue, NoMatch, Scores, HasKickoff, InboxSize, BetSides,
  MaxReel, MaxCrashes, MaxLosses            \* see TradingPipeline

VARIABLES
  side,                                     \* the side to look from
  selectDraw, odds, score, verdict,         \* TriggerRule
  reel, commands, queue, dropped, worker, open, windows, engineUp, emitted, diagnosed,
  released, last, published, engineCrashes, engineFaults, paperOrders, matchHash,
  kickoffOld, inbox, job, sweep, cycle, session, pnl, ledger, nextXid, snapshot, up,
  placed, finals, frames, crashes, losses   \* TradingPipeline

Rule == INSTANCE TriggerRule WITH Score <- Computed

Orders == INSTANCE TradingPipeline WITH
  Match <- Traded, Side <- BetSides, MaxFrames <- MaxReel, MaxFaults <- MaxLosses, faults <- losses

ASSUME PathAssumption == Rule!RuleAssumption /\ Orders!PipelineAssumption

ruleVars  == <<selectDraw, odds, score, verdict>>
orderVars == <<reel, commands, queue, dropped, worker, open, windows, engineUp, emitted,
               diagnosed, released, last, published, engineCrashes, engineFaults,
               paperOrders, matchHash, kickoffOld, inbox, job, sweep, cycle, session,
               pnl, ledger, nextXid, snapshot, up, placed, finals, frames, crashes,
               losses>>
pathVars  == <<side, vars, ruleVars, orderVars>>

PathInit ==
  /\ side \in {"study", "rule", "orders"}
  /\ Init /\ Rule!Init /\ Orders!Init
  /\ selectDraw => side = "rule"     \* for the other sides it makes no difference

PathNext ==
  \/ side = "study" /\ Next /\ UNCHANGED <<side, ruleVars, orderVars>>
  \/ side = "rule" /\ Rule!Next /\ UNCHANGED <<side, vars, orderVars>>
  \/ side = "orders" /\ Orders!Next /\ UNCHANGED <<side, vars, ruleVars>>

PathSpec == PathInit /\ [][PathNext]_pathVars

-----------------------------------------------------------------------------
(* See TriggerRule and TradingPipeline.                                    *)
VerdictIsBest       == Rule!VerdictIsBest
SweepGradesOwnCycle == Orders!SweepGradesOwnCycle
OneBetPerFullTime   == Orders!OneBetPerFullTime
=============================================================================
