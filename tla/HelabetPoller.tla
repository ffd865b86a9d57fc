--------------------------- MODULE HelabetPoller ----------------------------
(***************************************************************************)
(* The Helabet poller of data-ingestion-go (internal/helabet/poller.go):   *)
(* one goroutine that, tick after tick, publishes the priced rows of the   *)
(* board, settles a match when its row says finished, and settles it when  *)
(* it vanished, with a FULLTIME frame if it was late or old enough.        *)
(*                                                                         *)
(* An action handles one row of the listing or one vanished match, so a    *)
(* crash, a failed publish or a change of the board falls between any two. *)
(***************************************************************************)
EXTENDS LiveBoard

VARIABLES
  active,    \* Poller.active: last priced row of every tracked match
  settled,   \* Poller.settled
  seen,      \* tick's seen: matches in the rows handled so far
  dropped    \* tick's dropped: vanished matches that are not settled yet

pollerVars == <<active, settled, seen, dropped>>
vars       == <<worldVars, tickVars, wireVars, crashes, pollerVars>>

NoRows == [m \in Match |-> Absent]

Init ==
  /\ BoardInit
  /\ active = NoRows /\ dropped = NoRows
  /\ settled = {} /\ seen = {}

-----------------------------------------------------------------------------
IsFullTime(row) == row.clock = "finished"

clockLateForDrop(row) == row.clock \in {"late", "finished"}

(* The row said finished, its clock was late, or kickoff is long ago.      *)
Finished(m, row) == IsFullTime(row) \/ clockLateForDrop(row) \/ game[m].old

markSettled(m) == settled' = settled \cup {m}

(* A settled match is not looked at again, nor is a row without odds.      *)
Ignored(m) == m \in settled \/ ~fetched[m].priced

(* Mutant: a row is seen only after it turned out to have odds.            *)
SeePriced(m) == seen' = IF Ignored(m) THEN seen ELSE seen \cup {m}

(* A listed match is seen, whether or not the row is of use.               *)
See(m) == seen' = seen \cup {m}

(* Mutant: a vanished match stays tracked until it counts as finished.     *)
VanishedFinished(m) == m \notin seen /\ Finished(m, active[m])

Vanished(m) == m \notin seen

-----------------------------------------------------------------------------
Tick ==
  /\ Fetch
  /\ seen' = {}
  /\ UNCHANGED <<worldVars, wireVars, crashes, active, settled, dropped>>

TickFails ==
  /\ FetchFails
  /\ UNCHANGED <<worldVars, tickVars, last, finals, crashes, pollerVars>>

Skip(m) ==
  /\ Ignored(m)
  /\ UNCHANGED <<wireVars, active, settled>>

PublishLive(m) ==
  /\ ~Ignored(m) /\ ~IsFullTime(fetched[m])
  /\ active' = [active EXCEPT ![m] = fetched[m]]
  /\ Publish(m, "LIVE", fetched[m].goals, 1)
  /\ UNCHANGED settled

(* The match is settled whether or not the frame could be published.       *)
PublishFinished(m) ==
  /\ ~Ignored(m) /\ IsFullTime(fetched[m])
  /\ Publish(m, "FULLTIME", fetched[m].goals, 1)
  /\ active' = [active EXCEPT ![m] = Absent]
  /\ markSettled(m)

HandleRow(m) ==
  /\ ticking /\ fetched[m] # Absent
  /\ See(m)
  /\ Skip(m) \/ PublishLive(m) \/ PublishFinished(m)
  /\ Handled(m)
  /\ UNCHANGED <<worldVars, listed, ticking, crashes, dropped>>

(* The scan under the mutex takes the vanished matches out of active.      *)
DropVanished ==
  /\ AllHandled /\ dropped = NoRows
  /\ dropped' = [m \in Match |-> IF Vanished(m) THEN active[m] ELSE Absent]
  /\ active' = [m \in Match |-> IF Vanished(m) THEN Absent ELSE active[m]]
  /\ ticking' = (dropped' # NoRows)
  /\ UNCHANGED <<worldVars, fetched, listed, wireVars, crashes, settled, seen>>

SettleDropped(m) ==
  /\ dropped[m] # Absent
  /\ \/ Finished(m, dropped[m]) /\ Publish(m, "FULLTIME", dropped[m].goals, 1)
     \/ ~Finished(m, dropped[m]) /\ UNCHANGED wireVars
  /\ markSettled(m)
  /\ dropped' = [dropped EXCEPT ![m] = Absent]
  /\ ticking' = (dropped' # NoRows)
  /\ UNCHANGED <<worldVars, fetched, listed, crashes, active, seen>>

Restart ==
  /\ Reboot
  /\ active' = NoRows /\ dropped' = NoRows
  /\ settled' = {} /\ seen' = {}
  /\ UNCHANGED worldVars

TickStep ==
  \/ Tick \/ TickFails \/ DropVanished
  \/ \E m \in Match : HandleRow(m) \/ SettleDropped(m)

Outside(A) == A /\ UNCHANGED <<tickVars, wireVars, crashes, pollerVars>>

(* The match goes on, and leaves the board when it is over.                *)
MatchEnds(m) == Outside(Progress(m) \/ (game[m].phase = "over" /\ Delist(m)))

Next ==
  \/ Outside(World)
  \/ TickStep
  \/ Restart

Spec == Init /\ [][Next]_vars

-----------------------------------------------------------------------------
(* Properties *)

(* A tracked row has odds and has not finished.                            *)
Tracked == {r \in Row : r.priced /\ r.clock # "finished"}

TypeOK ==
  /\ BoardTypeOK
  /\ active \in [Match -> Tracked \cup {Absent}]
  /\ dropped \in [Match -> Tracked \cup {Absent}]
  /\ settled \subseteq Match
  /\ seen \subseteq Match

(* "Otherwise the executor's stale sweep resolves them" (poller.go:166):   *)
(* a match that vanishes before its 85th minute, less than 90 minutes      *)
(* after kickoff, gets no FULLTIME frame.                                  *)
EarlyMatchesStayOpen ==
  \A m \in Match : finals[m] # <<>> => game[m].phase # "early" \/ game[m].old
=============================================================================
