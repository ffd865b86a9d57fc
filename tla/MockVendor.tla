----------------------------- MODULE MockVendor -----------------------------
(***************************************************************************)
(* mock-vendor/server.js: the simulated vendor and bookmaker that live     *)
(* mode runs against.  Every ingestor socket plays a reel of frames with a *)
(* result drawn at random; the last frame is FULLTIME, and it settles      *)
(* every order in the book, which all sockets share.                       *)
(*                                                                         *)
(* JavaScript runs one callback at a time, so an action is a callback.     *)
(***************************************************************************)
EXTENDS Settlement, Sequences

CONSTANTS
  Calls,    \* orders the executor is told to place: bounds their number
  Sockets,  \* ingestor connections
  Frames,   \* length of TEMPLATE, 15 in the code
  Outcomes  \* results of the scenarios

ASSUME MockVendorAssumption ==
  /\ IsFiniteSet(Calls)
  /\ Frames \in Nat /\ Frames > 0 /\ Outcomes \subseteq Score

VARIABLES
  book,      \* fills that are not settled yet
  orderSeq,  \* number of fills since the vendor started
  reel,      \* frames a socket has sent; Closed when it is not connected
  result     \* result the socket's scenario ends with

vendorVars == <<book, orderSeq, reel, result>>

Closed == Frames + 1

(* A fill; call is the executor's order it came from, which the book does  *)
(* not know.                                                               *)
BookedOrder == [order_id : 1..Cardinality(Calls), call : Calls, side : Score]

SettlementFrame == [orders : SUBSET BookedOrder, score : Score, verified : BOOLEAN]

VendorTypeOK ==
  /\ book \in SUBSET BookedOrder
  /\ orderSeq \in 0..Cardinality(Calls)
  /\ reel \in [Sockets -> 0..Closed]
  /\ result \in [Sockets -> Score]

VendorInit ==
  /\ book = {} /\ orderSeq = 0
  /\ reel = [s \in Sockets |-> Closed]
  /\ result = [s \in Sockets |-> "draw"]

-----------------------------------------------------------------------------
(* An ingestor connects, and a scenario is picked for its socket.          *)
Connection(s) ==
  /\ reel[s] = Closed
  /\ reel' = [reel EXCEPT ![s] = 0]
  /\ \E r \in Outcomes : result' = [result EXCEPT ![s] = r]
  /\ UNCHANGED <<book, orderSeq>>

SendFrame(s) ==
  /\ reel[s] < Frames - 1
  /\ reel' = [reel EXCEPT ![s] = @ + 1]
  /\ UNCHANGED <<book, orderSeq, result>>

(* The frame has neither source nor verified, so the executor reads FALSE. *)
settlement(s) == [orders |-> book, score |-> result[s], verified |-> FALSE]

(* Mutant: the settled fills stay in the book.                             *)
KeepSettled == book' = book

(* publishSettlement's last line.                                          *)
DeleteSettled == book' = {}

(* The FULLTIME frame: publishSettlement without what it publishes.        *)
FullTime(s) ==
  /\ reel[s] = Frames - 1
  /\ reel' = [reel EXCEPT ![s] = Frames]
  /\ DeleteSettled
  /\ UNCHANGED <<orderSeq, result>>

(* Mutant: the vendor leaves the socket open when its reel has ended.       *)
KeepSocketOpen(s) ==
  /\ reel[s] = Frames
  /\ UNCHANGED vendorVars

(* The tick after the last frame closes the socket.                        *)
EndOfReel(s) ==
  /\ reel[s] = Frames
  /\ reel' = [reel EXCEPT ![s] = Closed]
  /\ UNCHANGED <<book, orderSeq, result>>

(* The ingestor hung up.                                                   *)
HangUp(s) ==
  /\ reel[s] # Closed
  /\ reel' = [reel EXCEPT ![s] = Closed]
  /\ UNCHANGED <<book, orderSeq, result>>

(* tradeServer books a signed order.                                       *)
BookOrder(c, side) ==
  /\ orderSeq' = orderSeq + 1
  /\ book' = book \cup {[order_id |-> orderSeq + 1, call |-> c, side |-> side]}
  /\ UNCHANGED <<reel, result>>

(* The vendor restarts: book and numbering are in memory only.             *)
VendorRestart ==
  /\ book' = {} /\ orderSeq' = 0
  /\ reel' = [s \in Sockets |-> Closed]
  /\ UNCHANGED result
=============================================================================
