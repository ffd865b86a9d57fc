----------------------------- MODULE WebStream -----------------------------
(***************************************************************************)
(* The stream of frames in the web interface, from two sides:              *)
(*                                                                         *)
(*   sockets  which tab is connected, and which message gets to it         *)
(*            (WebRelay)                                                   *)
(*   grid     what the public page makes of the frames that get to it      *)
(*            (LiveGrid)                                                   *)
(*                                                                         *)
(* A behaviour is one of the side that was picked at the start.  The sides *)
(* meet in what they say of each other: ShownInOrder is what LiveGrid      *)
(* takes for granted of the frames of a page that is online.               *)
(***************************************************************************)
EXTENDS WebRelay

CONSTANTS
  Match, Books, Cap, MinTrigger, MaxFrames    \* see LiveGrid

VARIABLES
  side,        \* the side to look from
  sent, wire, connected, matches, lastEvent, screen, chip, told   \* LiveGrid

Grid == INSTANCE LiveGrid

ASSUME StreamAssumption == Grid!LiveGridAssumption

socketVars == <<relay, subscribed, inbox, published, sessionVars, tab, sock>>
gridVars   == <<sent, wire, connected, matches, lastEvent, screen, chip, told>>
streamVars == <<side, socketVars, gridVars, faults>>

StreamInit ==
  /\ side \in {"sockets", "grid"}
  /\ Init /\ Grid!Init

StreamNext ==
  \/ side = "sockets" /\ Next /\ UNCHANGED <<side, gridVars>>
  \/ side = "grid" /\ Grid!Next /\ UNCHANGED <<side, socketVars>>

(* The fairness of WebRelay; nothing that is checked of the grid needs any.*)
FairStreamSpec ==
  /\ StreamInit /\ [][StreamNext]_streamVars
  /\ side = "sockets" =>
       /\ \A s \in Sockets : WF_vars(Upgrade(s) \/ Refuse(s)) /\ WF_vars(SocketEvent(s))
       /\ \A t \in Tabs : WF_vars(Retry(t))

-----------------------------------------------------------------------------
(* Types, among them that no list is longer than its page keeps and that   *)
(* the grid shows no match twice (useWebSockets.js:64-69).                 *)
StreamTypeOK ==
  /\ side \in {"sockets", "grid"}
  /\ TypeOK /\ Grid!TypeOK

(* See LiveGrid.                                                           *)
GridIsLatest == Grid!GridIsLatest
CardsAgree   == Grid!CardsAgree
FlashesEnd   == Grid!FlashesEnd
=============================================================================
