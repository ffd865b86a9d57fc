----------------------------- MODULE LiveBoard ------------------------------
(***************************************************************************)
(* What the two bookmaker pollers of data-ingestion-go share: matches that *)
(* are played, the live board of the bookmaker, a poller that fetches the  *)
(* board once a tick, and the frames it hands to PublishMatch.             *)
(*                                                                         *)
(* The matches and the board are external.  A row shows the match as it    *)
(* was when the bookmaker last refreshed it, so a row that is never        *)
(* refreshed again is the frozen feed the code speaks of.  A row can lose  *)
(* its odds (a suspended market) and can leave the board at any time.      *)
(***************************************************************************)
EXTENDS Naturals, Sequences

CONSTANTS
  Match,       \* match identifiers
  MaxGoals,    \* bound: a scoreline is the number of goals so far
  MaxFinals,   \* bound: FULLTIME frames of one match that finals remembers
  MaxFaults,   \* bound: fetches and publishes that fail
  MaxCrashes   \* bound: restarts of the ingestor

ASSUME BoardAssumption ==
  /\ MaxGoals \in Nat /\ MaxFinals \in Nat \ {0}
  /\ MaxFaults \in Nat /\ MaxCrashes \in Nat

VARIABLES
  game,      \* the match: phase, goals, and more than 90 minutes since kickoff
  board,     \* the bookmaker's row of every match
  fetched,   \* rows of this tick that are not handled yet
  listed,    \* history: matches in the listing of this tick
  ticking,   \* is a listing being handled?
  last,      \* history: last frame of every match on matches:live
  finals,    \* history: scores of the FULLTIME frames since the start
  faults, crashes   \* counters behind the bounds

worldVars == <<game, board>>
tickVars  == <<fetched, listed, ticking>>
wireVars  == <<last, finals, faults>>

Phase == {"early", "late", "over"}
Game  == [phase : Phase, goals : 0..MaxGoals, old : BOOLEAN]

(* clock is "late" from 89:50 (helabet) or 85' (betpawa) on.               *)
Row    == [clock : {"early", "late", "finished"}, goals : 0..MaxGoals, priced : BOOLEAN]
Absent == [clock |-> "absent"]

FeedFrame == [clock : {"none", "LIVE", "FULLTIME"}, goals : 0..MaxGoals]

BoardInit ==
  /\ game = [m \in Match |-> [phase |-> "early", goals |-> 0, old |-> FALSE]]
  /\ board = [m \in Match |-> Absent]
  /\ fetched = [m \in Match |-> Absent]
  /\ listed = {} /\ ticking = FALSE
  /\ last = [m \in Match |-> [clock |-> "none", goals |-> 0]]
  /\ finals = [m \in Match |-> <<>>]
  /\ faults = 0 /\ crashes = 0

-----------------------------------------------------------------------------
(* The world: goals are scored until the match is over, and time passes.   *)
Score(m) ==
  /\ game[m].phase # "over" /\ game[m].goals < MaxGoals
  /\ game' = [game EXCEPT ![m].goals = @ + 1]
  /\ UNCHANGED board

Progress(m) ==
  /\ game[m].phase # "over"
  /\ game' = [game EXCEPT ![m].phase = IF @ = "early" THEN "late" ELSE "over"]
  /\ UNCHANGED board

Age(m) ==
  /\ ~game[m].old
  /\ game' = [game EXCEPT ![m].old = TRUE]
  /\ UNCHANGED board

(* A finished match that left the board does not come back.                *)
Refresh(m, priced) ==
  /\ game[m].phase = "over" => board[m] # Absent
  /\ board' = [board EXCEPT ![m] =
       [clock |-> IF game[m].phase = "over" THEN "finished" ELSE game[m].phase,
        goals |-> game[m].goals, priced |-> priced]]
  /\ UNCHANGED game

Delist(m) ==
  /\ board[m] # Absent
  /\ board' = [board EXCEPT ![m] = Absent]
  /\ UNCHANGED game

World ==
  \E m \in Match :
    \/ Score(m) \/ Progress(m) \/ Age(m) \/ Delist(m)
    \/ \E priced \in BOOLEAN : Refresh(m, priced)

-----------------------------------------------------------------------------
(* fetchLive: the listing of a tick, or an error that ends the tick.       *)
Fetch ==
  /\ ~ticking
  /\ ticking' = TRUE
  /\ fetched' = board
  /\ listed' = {m \in Match : board[m] # Absent}

FetchFails ==
  /\ ~ticking /\ faults < MaxFaults
  /\ faults' = faults + 1

Handled(m) == fetched' = [fetched EXCEPT ![m] = Absent]

AllHandled == ticking /\ \A m \in Match : fetched[m] = Absent

Recent(s) == IF Len(s) <= MaxFinals THEN s ELSE SubSeq(s, Len(s) - MaxFinals + 1, Len(s))

(* PublishMatch is called with the same frame one or more times; a call    *)
(* that fails may not reach the channel, and nobody calls it again.        *)
Publish(m, clock, goals, calls) ==
  \E delivered \in 0..calls :
    /\ faults + (calls - delivered) <= MaxFaults
    /\ faults' = faults + (calls - delivered)
    /\ last' = IF delivered = 0 THEN last
               ELSE [last EXCEPT ![m] = [clock |-> clock, goals |-> goals]]
    /\ finals' = IF delivered = 0 \/ clock # "FULLTIME" THEN finals
                 ELSE [finals EXCEPT ![m] = Recent(@ \o [i \in 1..delivered |-> goals])]

(* The process is restarted with empty memory.                             *)
Reboot ==
  /\ crashes < MaxCrashes
  /\ crashes' = crashes + 1
  /\ fetched' = [m \in Match |-> Absent]
  /\ listed' = {} /\ ticking' = FALSE
  /\ finals' = [m \in Match |-> <<>>]
  /\ UNCHANGED <<last, faults>>

-----------------------------------------------------------------------------
BoardTypeOK ==
  /\ game \in [Match -> Game]
  /\ board \in [Match -> Row \cup {Absent}]
  /\ fetched \in [Match -> Row \cup {Absent}]
  /\ listed \subseteq Match
  /\ ticking \in BOOLEAN
  /\ last \in [Match -> FeedFrame]
  /\ finals \in [Match -> Seq(0..MaxGoals)]
  /\ faults \in Nat /\ crashes \in Nat
=============================================================================
