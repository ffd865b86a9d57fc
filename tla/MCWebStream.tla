---------------------------- MODULE MCWebStream ----------------------------
(* Small instances of the stream in the web interface for TLC.             *)
EXTENDS WebStream, TLC

MCChannels == <<"matches:live", "diagnostics:events", "execution:commands">>

Odds(homePrice, drawPrice, awayPrice) ==
  [home |-> homePrice, draw |-> drawPrice, away |-> awayPrice]

(* A favourite and an outsider, a price that moves, and a match for which  *)
(* the bookmaker has no prices (API-Football).                             *)
MCBooks == {<<Odds(2, 3, 5)>>, <<Odds(3, 3, 4), Odds(2, 4, 5)>>, <<Odds(0, 0, 0)>>}
=============================================================================
