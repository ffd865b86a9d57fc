------------------------- MODULE MCAnalyticsEngine -------------------------
(* Small instances of AnalyticsEngine for TLC. *)
EXTENDS AnalyticsEngine, TLC

Symmetry == Permutations(Match) \cup Permutations(Market) \cup Permutations(Worker)
=============================================================================
