--------------------------- MODULE BetpawaPoller ----------------------------
(***************************************************************************)
(* The betPawa poller of data-ingestion-go (internal/betpawa/poller.go):   *)
(* one goroutine that, tick after tick, publishes every priced row of the  *)
(* board, adds a FULLTIME frame when the row says full time, and forgets a *)
(* match without a priced row, with a FULLTIME frame if it was late or old *)
(* enough.  Unlike the Helabet poller it does not remember what it closed, *)
(* and it takes a row without odds for a match that left the board.        *)
(***************************************************************************)
EXTENDS LiveBoard

VARIABLES
  active,     \* Poller.active: row (match) and ftEmitted of tracked matches
  nowSeen     \* tick's nowSeen: matches in the rows handled so far

pollerVars == <<active, nowSeen>>
vars       == <<worldVars, tickVars, wireVars, crashes, pollerVars>>

Untracked == [row |-> Absent, ftEmitted |-> FALSE]

Init ==
  /\ BoardInit
  /\ active = [m \in Match |-> Untracked]
  /\ nowSeen = {}

-----------------------------------------------------------------------------
isFullTimePeriod(row) == row.clock = "finished"

parseClock(row) == IF isFullTimePeriod(row) THEN "FULLTIME" ELSE "LIVE"

(* Mutant: the minute of the clock is not looked at.                       *)
AnyClockIsLate(row) == row # Absent

clockIsLate(row) == row.clock \in {"late", "finished"}

Tracking(m) == active[m].row # Absent

(* The tracker keeps the newest row, and that full time was announced.     *)
Track(m, row) ==
  active' = [active EXCEPT ![m] =
    [row |-> row, ftEmitted |-> @.ftEmitted \/ isFullTimePeriod(row)]]

(* The row itself, and the FULLTIME frame of a match that had none.        *)
Calls(m, row) ==
  IF isFullTimePeriod(row) /\ ~active[m].ftEmitted THEN 2 ELSE 1

-----------------------------------------------------------------------------
Tick ==
  /\ Fetch
  /\ nowSeen' = {}
  /\ UNCHANGED <<worldVars, wireVars, crashes, active>>

TickFails ==
  /\ FetchFails
  /\ UNCHANGED <<worldVars, tickVars, last, finals, crashes, pollerVars>>

(* toMatch refuses a row without odds: it is as if it were not listed.     *)
Refuse(m) ==
  /\ ~fetched[m].priced
  /\ UNCHANGED <<wireVars, pollerVars>>

PublishRow(m) ==
  LET row == fetched[m]
  IN  /\ row.priced
      /\ nowSeen' = nowSeen \cup {m}
      /\ Track(m, row)
      /\ Publish(m, parseClock(row), row.goals, Calls(m, row))

HandleRow(m) ==
  /\ ticking /\ fetched[m] # Absent
  /\ Refuse(m) \/ PublishRow(m)
  /\ Handled(m)
  /\ UNCHANGED <<worldVars, listed, ticking, crashes>>

Unseen == {m \in Match : Tracking(m) /\ m \notin nowSeen}

(* The match was late or kickoff is long ago, and full time is news.       *)
Announce(m) ==
  /\ ~active[m].ftEmitted
  /\ clockIsLate(active[m].row) \/ game[m].old

Drop(m) ==
  /\ AllHandled /\ m \in Unseen
  /\ \/ Announce(m) /\ Publish(m, "FULLTIME", active[m].row.goals, 1)
     \/ ~Announce(m) /\ UNCHANGED wireVars
  /\ active' = [active EXCEPT ![m] = Untracked]
  /\ UNCHANGED <<worldVars, tickVars, crashes, nowSeen>>

EndTick ==
  /\ AllHandled /\ Unseen = {}
  /\ ticking' = FALSE
  /\ UNCHANGED <<worldVars, fetched, listed, wireVars, crashes, pollerVars>>

Restart ==
  /\ Reboot
  /\ active' = [m \in Match |-> Untracked]
  /\ nowSeen' = {}
  /\ UNCHANGED worldVars

TickStep ==
  \/ Tick \/ TickFails \/ EndTick
  \/ \E m \in Match : HandleRow(m) \/ Drop(m)

Outside(A) == A /\ UNCHANGED <<tickVars, wireVars, crashes, pollerVars>>

(* The match goes on, and leaves the board when it is over.                *)
MatchEnds(m) == Outside(Progress(m) \/ (game[m].phase = "over" /\ Delist(m)))

Next ==
  \/ Outside(World)
  \/ TickStep
  \/ Restart

Spec == Init /\ [][Next]_vars

-----------------------------------------------------------------------------
(* Properties *)

(* A tracked row has odds; full time is announced once its row said so.    *)
TypeOK ==
  /\ BoardTypeOK
  /\ active \in [Match -> [row : {r \in Row : r.priced} \cup {Absent}, ftEmitted : BOOLEAN]]
  /\ nowSeen \subseteq Match
  /\ \A m \in Match : active[m].ftEmitted => isFullTimePeriod(active[m].row)

(* "early dropped match must not emit FULLTIME" (poller_test.go:214): a    *)
(* FULLTIME frame is about a match past its 85th minute, or more than 90   *)
(* minutes after kickoff.                                                  *)
EarlyMatchesStayOpen ==
  \A m \in Match : finals[m] # <<>> => game[m].phase # "early" \/ game[m].old
=============================================================================
