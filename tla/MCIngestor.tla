----------------------------- MODULE MCIngestor -----------------------------
(* Small instances of the ingestor for TLC.                                *)
EXTENDS Ingestor

(* Reels of three frames; the goals of the first one never change.         *)
MCScorelines == {<<0, 0, 0>>, <<0, 1, 1>>}
=============================================================================
