------------------------- MODULE ApiFootballPoller --------------------------
(***************************************************************************)
(* The API-Football poller of data-ingestion-go                            *)
(* (internal/apifootball/poller.go).  A cycle reads three endpoints        *)
(* concurrently - live events, live odds, the events of the day - and each *)
(* read may fail on its own.  It then publishes the live matches, settles  *)
(* those it was tracking that are no longer live and have a final score,   *)
(* and registers the others that are live.                                 *)
(*                                                                         *)
(* The matches and the endpoints are external.  A match is "armed" until   *)
(* kickoff.  After extra time its status is AET, which the code takes both *)
(* for in play and for final, and it may still be listed as live.          *)
(***************************************************************************)
EXTENDS Naturals, Sequences

CONSTANTS
  Match,       \* match identifiers
  MaxGoals,    \* bound: a scoreline is the number of goals so far
  MaxFaults,   \* bound: reads and publishes that fail
  MaxCrashes,  \* bound: restarts of the ingestor
  ExtraTime,   \* may the live endpoint list a match after extra time?
  Midnight     \* may the day change before a match is settled?

(* Assumed by module Ingestor.                                             *)
ApiAssumption ==
  /\ MaxGoals \in Nat /\ MaxFaults \in Nat /\ MaxCrashes \in Nat
  /\ ExtraTime \in BOOLEAN /\ Midnight \in BOOLEAN

VARIABLES
  game,      \* status and goals of every match
  listing,   \* matches the live endpoint lists
  priced,    \* matches the odds endpoint has odds for
  today,     \* is it still the day of the matches?
  stage,     \* place in the cycle
  pending,   \* endpoints that have not answered
  live,      \* rows of the live events
  odds,      \* matches with live odds
  day,       \* rows of the events of the day
  todo,      \* matches this stage has yet to look at
  playing,   \* Poller.playing: is the match tracked, does LastMarket have odds?
  last,      \* history: last frame of every match on matches:live
  finals,    \* history: scores of the FULLTIME frames since the start
  faults, lost, crashes   \* failed reads and publishes, restarts

worldVars == <<game, listing, priced, today>>
readVars  == <<pending, live, odds, day>>
wireVars  == <<last, finals, lost>>
ingestorVars == <<readVars, wireVars, stage, todo, playing, faults, crashes>>
vars         == <<worldVars, ingestorVars>>

Endpoint  == {"live_events", "live_odds", "day_events"}
Status    == {"armed", "1H", "HT", "AET", "FT"}
Row       == [status : Status, goals : 0..MaxGoals]
Absent    == [status |-> "absent"]
NoRows    == [m \in Match |-> Absent]
FeedFrame == [clock : {"none", "LIVE", "FULLTIME"}, goals : 0..MaxGoals]

Init ==
  /\ game = [m \in Match |-> [status |-> "armed", goals |-> 0]]
  /\ listing = {} /\ priced = {} /\ today = TRUE
  /\ stage = "idle" /\ pending = {} /\ todo = {}
  /\ live = NoRows /\ day = NoRows /\ odds = {}
  /\ playing = [m \in Match |-> "no"]
  /\ last = [m \in Match |-> [clock |-> "none", goals |-> 0]]
  /\ finals = [m \in Match |-> <<>>]
  /\ faults = 0 /\ lost = 0 /\ crashes = 0

-----------------------------------------------------------------------------
(* The world. *)

Over(m) == game[m].status \in {"AET", "FT"}

Goal(m) ==
  /\ game[m].status = "1H" /\ game[m].goals < MaxGoals
  /\ game' = [game EXCEPT ![m].goals = @ + 1]
  /\ UNCHANGED <<listing, priced, today>>

KickOff(m) ==
  /\ game[m].status \in {"armed", "HT"}
  /\ game' = [game EXCEPT ![m].status = "1H"]
  /\ UNCHANGED <<listing, priced, today>>

HalfTime(m) ==
  /\ game[m].status = "1H"
  /\ game' = [game EXCEPT ![m].status = "HT"]
  /\ UNCHANGED <<listing, priced, today>>

(* A match that ends leaves the live endpoint, unless it had extra time.   *)
End(m) ==
  /\ game[m].status = "1H"
  /\ \/ /\ game' = [game EXCEPT ![m].status = "FT"]
        /\ listing' = listing \ {m}
     \/ /\ game' = [game EXCEPT ![m].status = "AET"]
        /\ listing' = IF ExtraTime THEN listing ELSE listing \ {m}
  /\ UNCHANGED <<priced, today>>

List(m) ==
  /\ m \notin listing /\ ~Over(m)
  /\ listing' = listing \cup {m}
  /\ UNCHANGED <<game, priced, today>>

Delist(m) ==
  /\ m \in listing
  /\ listing' = listing \ {m}
  /\ UNCHANGED <<game, priced, today>>

Quote(m) ==
  /\ priced' = (priced \ {m}) \cup ({m} \ priced)
  /\ UNCHANGED <<game, listing, today>>

DayEnds ==
  /\ Midnight /\ today
  /\ today' = FALSE
  /\ UNCHANGED <<game, listing, priced>>

World ==
  \/ DayEnds
  \/ \E m \in Match :
       \/ Goal(m) \/ KickOff(m) \/ HalfTime(m) \/ End(m)
       \/ List(m) \/ Delist(m) \/ Quote(m)

-----------------------------------------------------------------------------
inPlay(row) == row.status \in {"1H", "AET"}

finalScore(row) == row.status \in {"FT", "AET"}

Publish(m, clock, goals) ==
  \/ /\ last' = [last EXCEPT ![m] = [clock |-> clock, goals |-> goals]]
     /\ finals' = IF clock = "FULLTIME" THEN [finals EXCEPT ![m] = Append(@, goals)]
                                        ELSE finals
     /\ UNCHANGED lost
  \/ /\ faults + lost < MaxFaults /\ lost' = lost + 1
     /\ UNCHANGED <<last, finals>>

(* Mutant: a settled match stays in the tracker.                           *)
KeepPlaying(m) == UNCHANGED playing

StopPlaying(m) == playing' = [playing EXCEPT ![m] = "no"]

Registered(m) ==
  IF inPlay(live[m]) /\ playing[m] = "no" THEN "unpriced" ELSE playing[m]

-----------------------------------------------------------------------------
StartCycle ==
  /\ stage = "idle"
  /\ stage' = "read" /\ pending' = Endpoint
  /\ UNCHANGED <<worldVars, live, odds, day, wireVars, todo, playing, faults, crashes>>

(* An endpoint answers for the moment it is read; the day's events are     *)
(* asked for the date of today.                                            *)
Read ==
  /\ stage = "read"
  /\ \/ /\ "live_events" \in pending
        /\ live' = [m \in Match |-> IF m \in listing THEN game[m] ELSE Absent]
        /\ pending' = pending \ {"live_events"}
        /\ UNCHANGED <<odds, day>>
     \/ /\ "live_odds" \in pending
        /\ odds' = priced
        /\ pending' = pending \ {"live_odds"}
        /\ UNCHANGED <<live, day>>
     \/ /\ "day_events" \in pending
        /\ day' = IF today THEN game ELSE NoRows
        /\ pending' = pending \ {"day_events"}
        /\ UNCHANGED <<live, odds>>
  /\ UNCHANGED <<worldVars, wireVars, stage, todo, playing, faults, crashes>>

(* A read that fails leaves its map empty.                                 *)
ReadFails ==
  /\ stage = "read" /\ faults + lost < MaxFaults
  /\ faults' = faults + 1
  /\ \E e \in pending : pending' = pending \ {e}
  /\ UNCHANGED <<worldVars, live, odds, day, wireVars, stage, todo, playing, crashes>>

BeginEmit ==
  /\ stage = "read" /\ pending = {}
  /\ stage' = "emit"
  /\ todo' = {m \in Match : inPlay(live[m])}
  /\ UNCHANGED <<worldVars, readVars, wireVars, playing, faults, crashes>>

(* A live match is tracked, and published if it has odds.                  *)
Emit(m) ==
  /\ stage = "emit" /\ m \in todo
  /\ todo' = todo \ {m}
  /\ \/ /\ m \in odds
        /\ playing' = [playing EXCEPT ![m] = "priced"]
        /\ Publish(m, "LIVE", live[m].goals)
     \/ /\ m \notin odds
        /\ playing' = [playing EXCEPT ![m] = IF @ = "no" THEN "unpriced" ELSE @]
        /\ UNCHANGED wireVars
  /\ UNCHANGED <<worldVars, readVars, stage, faults, crashes>>

BeginSettle ==
  /\ stage = "emit" /\ todo = {}
  /\ stage' = "settle"
  /\ todo' = {m \in Match : playing[m] # "no"}
  /\ UNCHANGED <<worldVars, readVars, wireVars, playing, faults, crashes>>

Settleable(m) == live[m] = Absent /\ finalScore(day[m])

(* The frame of a match that never had odds is not valid and not sent.     *)
Settle(m) ==
  /\ stage = "settle" /\ m \in todo
  /\ todo' = todo \ {m}
  /\ \/ ~Settleable(m) /\ UNCHANGED <<playing, wireVars>>
     \/ /\ Settleable(m) /\ StopPlaying(m)
        /\ \/ playing[m] = "priced" /\ Publish(m, "FULLTIME", day[m].goals)
           \/ playing[m] = "unpriced" /\ UNCHANGED wireVars
  /\ UNCHANGED <<worldVars, readVars, stage, faults, crashes>>

Register ==
  /\ stage = "settle" /\ todo = {}
  /\ playing' = [m \in Match |-> Registered(m)]
  /\ stage' = "idle"
  /\ live' = NoRows /\ day' = NoRows /\ odds' = {}
  /\ UNCHANGED <<worldVars, pending, wireVars, todo, faults, crashes>>

Restart ==
  /\ crashes < MaxCrashes /\ crashes' = crashes + 1
  /\ stage' = "idle" /\ pending' = {} /\ todo' = {}
  /\ live' = NoRows /\ day' = NoRows /\ odds' = {}
  /\ playing' = [m \in Match |-> "no"]
  /\ finals' = [m \in Match |-> <<>>]
  /\ UNCHANGED <<worldVars, last, lost, faults>>

Cycle ==
  \/ StartCycle \/ Read \/ ReadFails \/ BeginEmit \/ BeginSettle \/ Register
  \/ \E m \in Match : Emit(m) \/ Settle(m)

Outside(A) == A /\ UNCHANGED ingestorVars

(* The second half begins, and a match that is over is not listed for ever. *)
PlayOn(m) == Outside((game[m].status = "HT" /\ KickOff(m)) \/ (Over(m) /\ Delist(m)))

MatchEnds(m) == Outside(End(m))

Next ==
  \/ Outside(World)
  \/ Cycle
  \/ Restart

Spec == Init /\ [][Next]_vars

-----------------------------------------------------------------------------
(* Properties *)

(* The last conjunct: no event is tracked before it is played.             *)
TypeOK ==
  /\ game \in [Match -> Row]
  /\ listing \subseteq Match /\ priced \subseteq Match /\ today \in BOOLEAN
  /\ stage \in {"idle", "read", "emit", "settle"}
  /\ pending \subseteq Endpoint /\ todo \subseteq Match
  /\ live \in [Match -> Row \cup {Absent}] /\ day \in [Match -> Row \cup {Absent}]
  /\ odds \subseteq Match
  /\ playing \in [Match -> {"no", "unpriced", "priced"}]
  /\ last \in [Match -> FeedFrame]
  /\ finals \in [Match -> Seq(0..MaxGoals)]
  /\ faults \in Nat /\ lost \in Nat /\ crashes \in Nat
  /\ \A m \in Match : playing[m] # "no" => game[m].status # "armed"

(* "retry next cycle, never invent a score" (poller.go:217-218): a         *)
(* FULLTIME score is the score of a match that is over, though the reads   *)
(* of a cycle are not of one moment and may fail.                          *)
TrueFinals ==
  \A m \in Match : \A i \in DOMAIN finals[m] : Over(m) /\ finals[m][i] = game[m].goals
=============================================================================
