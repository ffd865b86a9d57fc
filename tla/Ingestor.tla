------------------------------ MODULE Ingestor ------------------------------
(***************************************************************************)
(* The ingestor process (data-ingestion-go/cmd/ingestor/main.go): the      *)
(* environment picks one of four sources, and the frames of that source    *)
(* are all there is on matches:live.                                       *)
(*                                                                         *)
(* The module runs the module of the source that was picked; the state of  *)
(* the others stays as it was.  All four are to keep the promise of        *)
(* MatchFeed, and a FULLTIME frame, which settles bets, is to be sent only *)
(* when it is due, and in the end.                                         *)
(***************************************************************************)
EXTENDS LiveBoard

CONSTANTS
  ApiFaults,   \* bound: reads and publishes of the API-Football poller that fail
  ExtraTime, Midnight,               \* see ApiFootballPoller
  SCORELINES, MaxDelay, Pingers   \* see VendorStream

VARIABLES
  mode,        \* PROVIDER_MODE
  active, settled, seen, dropped,    \* HelabetPoller
  tracked, nowSeen,                  \* BetpawaPoller
  fixture, listing, priced, today,   \* ApiFootballPoller
  stage, pending, live, odds, day, todo, playing, lost,
  conn, delay, loop, reel, socket, pipe   \* VendorStream

boardVars   == <<worldVars, tickVars>>
helabetVars == <<active, settled, seen, dropped>>
betpawaVars == <<tracked, nowSeen>>
apiVars     == <<fixture, listing, priced, today, stage, pending, live, odds, day,
                 todo, playing, lost>>
streamVars  == <<conn, delay, loop, reel, socket, pipe>>
vars == <<mode, boardVars, helabetVars, betpawaVars, apiVars, streamVars, wireVars, crashes>>

Helabet == INSTANCE HelabetPoller
Betpawa == INSTANCE BetpawaPoller WITH active <- tracked
Api     == INSTANCE ApiFootballPoller WITH game <- fixture, MaxFaults <- ApiFaults
Stream  == INSTANCE VendorStream
Feed    == INSTANCE MatchFeed

ASSUME IngestorAssumption == Api!ApiAssumption /\ Stream!StreamAssumption

Init ==
  /\ mode \in Feed!Source
  /\ Helabet!Init /\ Betpawa!Init /\ Api!Init /\ Stream!Init

-----------------------------------------------------------------------------
(* An action of a source, when it is the one in use.                       *)
InHelabet(A) == mode = "helabet" /\ A /\ UNCHANGED <<mode, betpawaVars, apiVars, streamVars>>
InBetpawa(A) == mode = "betpawa" /\ A /\ UNCHANGED <<mode, helabetVars, apiVars, streamVars>>
InApi(A) ==
  mode = "apifootball" /\ A /\ UNCHANGED <<mode, boardVars, helabetVars, betpawaVars, streamVars>>
InStream(A) ==
  mode = "mock" /\ A /\ UNCHANGED <<mode, boardVars, helabetVars, betpawaVars, apiVars>>

Next ==
  \/ InHelabet(Helabet!Next)
  \/ InBetpawa(Betpawa!Next)
  \/ InApi(Api!Next)
  \/ InStream(Stream!Next)

Spec == Init /\ [][Next]_vars

-----------------------------------------------------------------------------
TypeOK ==
  /\ mode \in Feed!Source
  /\ Helabet!TypeOK /\ Betpawa!TypeOK /\ Api!TypeOK /\ Stream!TypeOK

(* A FULLTIME frame settles bets, so no source may send one too early.     *)
(* Helabet: "Otherwise the executor's stale sweep resolves them"           *)
(* (helabet/poller.go:166), for a match that vanishes early; betPawa:      *)
(* "early dropped match must not emit FULLTIME" (betpawa/poller_test.go:   *)
(* 214); API-Football: "retry next cycle, never invent a score"            *)
(* (apifootball/poller.go:217-218), though its reads are not of one moment *)
(* and may fail; and the vendor's FULLTIME frame is its last.              *)
FinalsAreDue ==
  CASE mode = "helabet"     -> Helabet!EarlyMatchesStayOpen
    [] mode = "betpawa"     -> Betpawa!EarlyMatchesStayOpen
    [] mode = "apifootball" -> Api!TrueFinals
    [] mode = "mock"        -> Stream!FinalsAreLast

(* A FULLTIME frame of Helabet is about a row that says finished or about  *)
(* a match the last listing did not have: a suspended market does not end  *)
(* its match (helabet/poller.go:128-141, 173-175).                         *)
FinalsOfGoneMatches ==
  [][mode = "helabet" => \A m \in Match : Len(finals'[m]) > Len(finals[m]) =>
       m \notin listed \/ fetched[m].clock = "finished"]_vars

(* Whatever the source, the frames are those of a match feed: scores never *)
(* fall, though FULLTIME frames repeat older rows, and a match that was    *)
(* closed is never told of again (helabet/poller.go:147-157, 170-200;      *)
(* apifootball/poller.go:161-253; stream/client.go:84-108), except that    *)
(* betPawa's poller forgets what it closed (betpawa/poller.go:113-141).    *)
ImplementsMatchFeed == Feed!FeedSpec

-----------------------------------------------------------------------------
(* The process goes on: tickers fire, reads answer, a connection that can  *)
(* be had is had in the end, and loops whose context is cancelled return.  *)
(* Matches are played to their end, and the bookmaker or the API takes a   *)
(* match that is over off its list.                                        *)
FairSpec ==
  /\ Spec
  /\ WF_vars(InHelabet(Helabet!TickStep) \/ InBetpawa(Betpawa!TickStep) \/ InApi(Api!Cycle))
  /\ WF_vars(InStream(Stream!Vendor)) /\ WF_vars(InStream(Stream!Run))
  /\ SF_vars(InStream(Stream!Dial))
  /\ \A p \in Pingers : WF_vars(InStream(Stream!pingLoopReturns(p)))
  /\ \A m \in Match :
       /\ WF_vars(\/ InHelabet(Helabet!MatchEnds(m)) \/ InBetpawa(Betpawa!MatchEnds(m))
                  \/ InApi(Api!PlayOn(m)))
       /\ SF_vars(InApi(Api!MatchEnds(m)))

(* What was begun is finished, whatever fails in between.                  *)
Begun(m) ==
  \/ mode = "helabet" /\ active[m] # Absent
  \/ mode = "betpawa" /\ tracked[m].row # Absent
  \/ mode = "apifootball" /\ last[m].clock = "LIVE"
  \/ mode = "mock"

Finished(m) ==
  \/ mode = "helabet" /\ active[m] = Absent /\ dropped[m] = Absent
  \/ mode = "betpawa" /\ tracked[m].row = Absent
  \/ mode = "apifootball" /\ (last[m].clock = "FULLTIME" \/ lost > 0 \/ crashes > 0 \/ ~today)
  \/ mode = "mock" /\ last[m].clock = "FULLTIME"

(* The bookmakers' pollers track no match for ever: it is closed or        *)
(* forgotten, and its memory given back (helabet/poller.go:170-200,        *)
(* betpawa/poller.go:130-143).  FULLTIME frames of API-Football come "for  *)
(* those that finished since the last cycle" (apifootball/poller.go:118-   *)
(* 119): only a publish that fails, a restart and midnight make the poller *)
(* forget one.  The stream client dials again by itself and tells the      *)
(* vendor's match to its FULLTIME frame again and again.                   *)
MatchesEnd == \A m \in Match : Begun(m) ~> Finished(m)

(* "otherwise every reconnect leaks a goroutine ticking against a closed   *)
(* socket" (stream/client.go:91-93): every ping loop returns.              *)
PingersReturn == \A p \in Pingers : loop[p] # "none" ~> loop[p] = "none"
=============================================================================
