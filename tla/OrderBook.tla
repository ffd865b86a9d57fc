----------------------------- MODULE OrderBook ------------------------------
(***************************************************************************)
(* What a broker promises about orders, whatever goroutines grade them:    *)
(* an order leaves the book only when a verdict on it has been reported,   *)
(* a verdict other than "unresolved" rests on a confirmed final score of   *)
(* the match it names, and no report is ever taken back.  Reporting an     *)
(* order more than once is allowed: the promise is at-least-once.          *)
(***************************************************************************)
EXTENDS Settlement

CONSTANTS
  Order,    \* records with fields id, match and side
  NoMatch   \* the match of an order that names none

VARIABLES
  placed,   \* orders taken so far
  pending,  \* orders waiting for their match to end
  reported, \* verdicts, as records with fields fill, match, score, result
  finals    \* confirmed final scores of every match

bookVars == <<placed, pending, reported, finals>>

BookInit ==
  /\ placed = {} /\ pending = {} /\ reported = {}
  /\ \A m \in DOMAIN finals : finals[m] = {}

Sound(v) ==
  /\ v.fill \in placed
  /\ v.fill.match \in {NoMatch, v.match}
  /\ v.result # "unresolved" =>
       /\ v.score \in finals[v.match]
       /\ v.result = outcomeFor(v.fill.side, v.score)

Place ==
  \E o \in Order :
    /\ o \notin placed
    /\ placed' = placed \cup {o}
    /\ pending' = pending \cup {o}
    /\ UNCHANGED <<reported, finals>>

Confirm ==
  /\ \A m \in DOMAIN finals : finals[m] \subseteq finals'[m]
  /\ UNCHANGED <<placed, pending, reported>>

Report ==
  /\ reported \subseteq reported'
  /\ \A v \in reported' \ reported : Sound(v)
  /\ UNCHANGED <<placed, pending, finals>>

Close ==
  /\ pending' \subseteq pending
  /\ \A o \in pending \ pending' : \E v \in reported : v.fill = o
  /\ UNCHANGED <<placed, reported, finals>>

BookNext == Place \/ Confirm \/ Report \/ Close

BookSpec == BookInit /\ [][BookNext]_bookVars
=============================================================================
