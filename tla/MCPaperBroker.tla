--------------------------- MODULE MCPaperBroker ---------------------------
(* Small instances of PaperBroker for TLC. *)
EXTENDS PaperBroker, TLC

Symmetry == Permutations(OrderId) \cup Permutations(Match)
=============================================================================
