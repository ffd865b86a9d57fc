----------------------------- MODULE MatchFeed ------------------------------
(***************************************************************************)
(* What the analytics engine and the broker rely on when they read the     *)
(* frames of an ingestor, whatever it reads itself: the score of a match   *)
(* never falls, and as long as the ingestor lives a FULLTIME frame is the  *)
(* last frame of its match.  Two sources keep less: betPawa's poller may   *)
(* open a match that it closed and close it again, and the mock vendor     *)
(* plays its match over and over.                                          *)
(***************************************************************************)
EXTENDS Naturals, Sequences

CONSTANTS
  Match,    \* match identifiers
  MaxGoals  \* bound: a scoreline is the number of goals so far

VARIABLES
  mode,     \* the source
  last,     \* last frame of every match on matches:live
  finals    \* scores of the newest FULLTIME frames of every match

feedVars == <<mode, last, finals>>

Source  == {"apifootball", "helabet", "betpawa", "mock"}
NoFrame == [clock |-> "none", goals |-> 0]

FeedInit ==
  /\ mode \in Source
  /\ last = [m \in Match |-> NoFrame]
  /\ finals = [m \in Match |-> <<>>]

Open(m, goals) ==
  /\ goals >= last[m].goals
  /\ finals[m] = <<>> \/ mode = "betpawa"

Tell(m, goals) ==
  /\ Open(m, goals)
  /\ last' = [last EXCEPT ![m] = [clock |-> "LIVE", goals |-> goals]]
  /\ UNCHANGED <<mode, finals>>

Close(m, goals) ==
  /\ Open(m, goals)
  /\ last' = [last EXCEPT ![m] = [clock |-> "FULLTIME", goals |-> goals]]
  /\ \/ finals' = [finals EXCEPT ![m] = <<goals>>]
     \/ /\ mode = "betpawa" /\ finals'[m] # <<>>
        /\ \A other \in Match \ {m} : finals'[other] = finals[other]
  /\ UNCHANGED mode

(* The mock vendor kicks a match off again.                                *)
KickOff(m) ==
  /\ mode = "mock"
  /\ last' = [last EXCEPT ![m] = NoFrame]
  /\ finals' = [finals EXCEPT ![m] = <<>>]
  /\ UNCHANGED mode

(* A restarted ingestor has forgotten which matches it closed.             *)
Forget ==
  /\ finals' = [m \in Match |-> <<>>]
  /\ UNCHANGED <<mode, last>>

FeedNext ==
  \/ \E m \in Match, goals \in 0..MaxGoals : Tell(m, goals) \/ Close(m, goals)
  \/ \E m \in Match : KickOff(m)
  \/ Forget

FeedSpec == FeedInit /\ [][FeedNext]_feedVars
=============================================================================
