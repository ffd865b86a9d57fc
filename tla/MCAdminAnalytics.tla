-------------------------- MODULE MCAdminAnalytics --------------------------
(* Small instances of AdminAnalytics for TLC. *)
EXTENDS AdminAnalytics

CONSTANTS oldHome, oldOver  \* orders that the older rule settled as void

(* Two settled draws: a home bet that the old rule voided, and a bet on    *)
(* another market, which is void under both rules.                         *)
OldEntry(id, side, x) ==
  [xid |-> x, fill |-> [id |-> id, match |-> CHOOSE m \in Match : TRUE, side |-> side],
   match |-> CHOOSE m \in Match : TRUE, score |-> "draw", result |-> "void",
   source |-> "feed_ft"]

OldLedger == {OldEntry(oldHome, "home", 0), OldEntry(oldOver, "cs", 0)}
=============================================================================
