---------------------------- MODULE MCLiveBroker ----------------------------
(* Small instances of the live broker and its bookmaker for TLC.           *)
EXTENDS LiveBroker, TLC

Symmetry == Permutations(Calls) \cup Permutations(Sockets)
=============================================================================
