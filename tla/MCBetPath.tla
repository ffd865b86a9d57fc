----------------------------- MODULE MCBetPath -----------------------------
(* A small instance of the way from a frame to a bet for TLC.              *)
EXTENDS BetPath, TLC

Statistics(shots, onTarget, attacks, possession) ==
  [counts |-> [c \in Counter |-> CASE c = "shots" -> shots
                                   [] c = "shots_on_target" -> onTarget
                                   [] OTHER -> attacks],
   possession |-> possession]

(* Counters in the run of a match, and after a reset of two of them.       *)
MCStats == {Statistics(2, 1, 1, 40), Statistics(0, 0, 3, 60)}

Symmetry == Permutations(Match) \cup Permutations(Worker)
=============================================================================
