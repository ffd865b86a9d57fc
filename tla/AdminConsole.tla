---------------------------- MODULE AdminConsole ----------------------------
(***************************************************************************)
(* The statistics of the operator console: the relay's ledger and its HTTP *)
(* API (web-interface-js/backend/server.js), the login                     *)
(* (components/AdminLogin.jsx, lib/session.js, app/admin/page.jsx), the    *)
(* panel that polls /api/stats (components/ModelAccuracyPanel.jsx) and the *)
(* one that shows settlements as they come (components/ExecutionPanel.jsx).*)
(*                                                                         *)
(* A settlement reaches the console twice: as a frame over its WebSocket,  *)
(* and counted in stats:outcomes, which the next poll reads.  The commands *)
(* of the relay share one Redis connection, which runs them in the order   *)
(* in which they were issued.  Polls overlap, and their answers overtake   *)
(* each other.  The sockets and their handlers are those of WebRelay.      *)
(*                                                                         *)
(* Left out: amounts, the session hash and the metrics of a fit.           *)
(***************************************************************************)
EXTENDS Integers, Sequences

CONSTANTS
  Batches,    \* what a message of execution:pnl settles: orders by result
  Fits,       \* status of calibration:model
  Polls,      \* bound: requests of /api/stats at one time
  Keep,       \* settlements that the console keeps, 40 in the code
  MaxEvents,  \* bound: messages published
  MaxFits,    \* bound: calibrations
  MaxLogins,  \* bound: tokens issued
  MaxFaults   \* bound: crashes, SIGTERMs, lost connections, failing commands

Results == {"won", "lost", "unresolved"}
Counted == {"won", "lost"}

ASSUME AdminConsoleAssumption ==
  /\ Batches \subseteq [Results -> Nat]
  /\ "none" \in Fits /\ Keep \in Nat \ {0}
  /\ {MaxEvents, MaxFits, MaxLogins, MaxFaults} \subseteq Nat

VARIABLES
  relay,      \* the process: "down", "up" or "quitting"
  inbox,      \* messages on the subscriber connection
  commands,   \* commands on the command connection
  outcomes,   \* stats:outcomes in Redis
  seen,       \* relay:staleness of execution:pnl, as the number of a message
  fit, fits,  \* calibration:model, and the counter behind MaxFits
  published,  \* number of messages published
  heard,      \* history: orders settled by the messages the relay has got
  dropped,    \* history: was a command that writes lost?
  session,    \* token in localStorage, 0 for none
  issued,     \* tokens issued so far
  expired,    \* those whose time is over
  form,       \* the login form: "idle", "busy", "granted", "failed"
  token,      \* the token of the page, 0 while it shows the form
  leaving,    \* logout has been pressed and not yet taken effect
  link,       \* the role of the page's socket: "none", "public" or "admin"
  wire,       \* messages between the relay and the page
  history,    \* settlements that the page shows, newest first
  poll,       \* the requests of /api/stats under way
  stats, error,  \* what the panel keeps of their answers
  faults      \* counter behind MaxFaults

redisVars  == <<outcomes, seen, fit, fits>>
relayVars  == <<relay, inbox, commands, published, heard, dropped>>
loginVars  == <<session, issued, expired, form>>
pageVars   == <<token, leaving>>
linkVars   == <<link, wire, history>>
panelVars  == <<stats, error>>
vars == <<redisVars, relayVars, loginVars, pageVars, linkVars, poll, panelVars, faults>>

Zero == [r \in Counted |-> 0]
Plus(total, batch) == [r \in Counted |-> total[r] + batch[r]]
Valid(k) == k # 0 /\ k \notin expired

Fault == faults < MaxFaults /\ faults' = faults + 1

Unread == [fit |-> "none", outcomes |-> Zero, seen |-> 0]
Idle == [at |-> "idle", token |-> 0, disposed |-> FALSE, code |-> "none",
         body |-> Unread, base |-> Zero, known |-> 0]
NoStats == [asked |-> FALSE, body |-> Unread, base |-> Zero, known |-> 0]
-----------------------------------------------------------------------------
(* What the console shows.                                                 *)

(* Everything that is neither won nor lost wears the badge VOID.           *)
ResultBadge(result) ==
  CASE result = "won" -> "WON" [] result = "lost" -> "LOST" [] OTHER -> "VOID"

Badges(f) ==
  [b \in {"WON", "LOST", "VOID"} |->
     LET result == CHOOSE r \in Results : ResultBadge(r) = b IN f.settled[result]]

ExecutionPanel ==
  [cycle |-> IF history = <<>> THEN 0 ELSE Head(history).n,
   orders |-> IF history = <<>> THEN Badges([settled |-> [r \in Results |-> 0]])
              ELSE Badges(Head(history)),
   settlements |-> Len(history)]

(* Orders won and lost in the settlements the page still keeps.            *)
Shown ==
  LET total[i \in 0..Len(history)] ==
        IF i = 0 THEN Zero ELSE Plus(total[i - 1], history[i].settled)
  IN total[Len(history)]

statusBadge == IF stats.body.fit = "none" THEN "NO FIT" ELSE stats.body.fit

(* An error is shown only as long as there are no statistics.              *)
ModelAccuracyPanel ==
  IF stats.asked
  THEN [body |-> "stats", badge |-> statusBadge, ledger |-> stats.body.outcomes,
        channel |-> IF stats.body.seen = 0 THEN "silent" ELSE "heard"]
  ELSE [body |-> IF error = "none" THEN "loading" ELSE "unreachable", badge |-> "NO FIT"]
-----------------------------------------------------------------------------
(* The other services.                                                     *)

Publish(b) ==
  /\ published < MaxEvents /\ published' = published + 1
  /\ inbox' = IF relay = "down" THEN inbox
              ELSE Append(inbox, [n |-> published + 1, settled |-> b])
  /\ UNCHANGED <<redisVars, relay, commands, heard, dropped, loginVars, pageVars, linkVars,
                 poll, panelVars, faults>>

Calibrate(status) ==
  /\ fits < MaxFits /\ fits' = fits + 1 /\ fit' = status /\ status # fit
  /\ UNCHANGED <<outcomes, seen, relayVars, loginVars, pageVars, linkVars, poll, panelVars, faults>>
-----------------------------------------------------------------------------
(* The relay.                                                              *)

Start ==
  /\ relay = "down" /\ relay' = "up"
  /\ UNCHANGED <<redisVars, inbox, commands, published, heard, dropped, loginVars, pageVars,
                 linkVars, poll, panelVars, faults>>

(* The writes for one message are issued before anything else happens.     *)
Increment(result, by) == IF by = 0 THEN <<>> ELSE <<[op |-> result, by |-> by]>>

Increments(f) ==
  Increment("won", f.settled["won"]) \o Increment("lost", f.settled["lost"])
  \o <<[op |-> "seen", by |-> f.n]>>

(* The frame goes to the console before the writes are issued, in one      *)
(* callback.  A client that has been told to quit takes no command.        *)
RelaySettlement ==
  /\ relay # "down" /\ inbox # <<>>
  /\ inbox' = Tail(inbox)
  /\ heard' = Plus(heard, Head(inbox).settled)
  /\ wire' = IF link = "admin" THEN Append(wire, Head(inbox)) ELSE wire
  /\ IF relay = "up"
     THEN commands' = commands \o Increments(Head(inbox)) /\ UNCHANGED dropped
     ELSE dropped' = TRUE /\ UNCHANGED commands
  /\ UNCHANGED <<redisVars, relay, published, loginVars, pageVars, link, history, poll,
                 panelVars, faults>>

Replied(p, code) == [poll EXCEPT ![p].at = "answered", ![p].code = code]

(* GET /api/stats: what the router answers without asking Redis.           *)
Reject(p) ==
  /\ poll[p].at = "sent" /\ relay # "down"
  /\ \/ relay = "quitting" /\ poll' = Replied(p, "503")
     \/ relay = "up" /\ ~Valid(poll[p].token) /\ poll' = Replied(p, "401")
  /\ UNCHANGED <<redisVars, relayVars, loginVars, pageVars, linkVars, panelVars, faults>>

(* Mutant: the statistics are read over a Redis connection of their own.   *)
StatsOverOtherClient(p) ==
  /\ poll[p].at = "sent" /\ relay = "up" /\ Valid(poll[p].token)
  /\ poll' = [Replied(p, "200") EXCEPT
                ![p].body = [fit |-> fit, outcomes |-> outcomes, seen |-> seen]]
  /\ UNCHANGED <<redisVars, relayVars, loginVars, pageVars, linkVars, panelVars, faults>>

(* handleStats issues its first read.                                      *)
handleStats(p) ==
  /\ poll[p].at = "sent" /\ relay = "up" /\ Valid(poll[p].token)
  /\ poll' = [poll EXCEPT ![p].at = "reading"]
  /\ commands' = Append(commands, [op |-> "read ledger", poll |-> p])
  /\ UNCHANGED <<redisVars, relay, inbox, published, heard, dropped, loginVars, pageVars,
                 linkVars, panelVars, faults>>

Writes == {"won", "lost", "seen"}

RunWrite ==
  /\ relay # "down" /\ commands # <<>> /\ Head(commands).op \in Writes
  /\ commands' = Tail(commands)
  /\ LET c == Head(commands)
     IN IF c.op = "seen" THEN seen' = c.by /\ UNCHANGED outcomes
        ELSE outcomes' = [outcomes EXCEPT ![c.op] = @ + c.by] /\ UNCHANGED seen
  /\ UNCHANGED <<fit, fits, relay, inbox, published, heard, dropped, loginVars, pageVars,
                 linkVars, poll, panelVars, faults>>

(* Each read is issued when the last one has been answered, and the last   *)
(* of them, the one of the staleness hash, sends the answer.  The reads    *)
(* before it stand as one, at the time of the ledger's.                    *)
RunRead ==
  /\ relay # "down" /\ commands # <<>> /\ Head(commands).op \notin Writes
  /\ LET p == Head(commands).poll
         later == [op |-> "read staleness", poll |-> p]
     IN IF Head(commands).op = "read staleness"
        THEN /\ poll' = [Replied(p, "200") EXCEPT ![p].body.seen = seen]
             /\ commands' = Tail(commands)
        ELSE IF relay = "up"
        THEN /\ poll' = [poll EXCEPT ![p].body = [@ EXCEPT !.fit = fit, !.outcomes = outcomes]]
             /\ commands' = Append(Tail(commands), later)
        ELSE poll' = Replied(p, "500") /\ commands' = Tail(commands)
  /\ UNCHANGED <<redisVars, relay, inbox, published, heard, dropped, loginVars, pageVars,
                 linkVars, panelVars, faults>>

(* Mutant: nobody tells the page that a read has failed.                   *)
ReadLost ==
  /\ relay # "down" /\ commands # <<>> /\ Fault
  /\ commands' = Tail(commands)
  /\ dropped' = (dropped \/ Head(commands).op \in Writes)
  /\ UNCHANGED <<redisVars, relay, inbox, published, heard, loginVars, pageVars, linkVars, poll, panelVars>>

(* The command connection drops: what was in flight is rejected, and the   *)
(* rejection of a write is swallowed.                                      *)
CommandFails ==
  /\ relay # "down" /\ commands # <<>> /\ Fault
  /\ commands' = Tail(commands)
  /\ IF Head(commands).op \in Writes THEN dropped' = TRUE /\ UNCHANGED poll
     ELSE poll' = Replied(Head(commands).poll, "500") /\ UNCHANGED dropped
  /\ UNCHANGED <<redisVars, relay, inbox, published, heard, loginVars, pageVars, linkVars, panelVars>>

(* The process ends: requests under way fail, and the socket closes.       *)
Exit ==
  /\ relay' = "down" /\ inbox' = <<>> /\ commands' = <<>>
  /\ link' = "none"
  /\ poll' = [p \in Polls |-> IF poll[p].at \in {"sent", "reading"}
                              THEN Replied(p, "failed")[p] ELSE poll[p]]
  /\ form' = IF form = "busy" THEN "failed" ELSE form
  /\ UNCHANGED <<redisVars, published, heard, session, issued, expired, pageVars, wire, history, panelVars>>

Crash ==
  /\ relay # "down" /\ Fault /\ Exit
  /\ dropped' = (dropped \/ \E i \in DOMAIN commands : commands[i].op \in Writes)

Sigterm ==
  /\ relay = "up" /\ Fault /\ relay' = "quitting"
  /\ UNCHANGED <<redisVars, inbox, commands, published, heard, dropped, loginVars, pageVars,
                 linkVars, poll, panelVars>>

(* QUIT is queued behind the commands under way.                           *)
Quit ==
  /\ relay = "quitting" /\ commands = <<>> /\ Exit
  /\ UNCHANGED <<dropped, faults>>
-----------------------------------------------------------------------------
(* The login.                                                              *)

submit ==
  /\ token = 0 /\ form \in {"idle", "failed"} /\ form' = "busy"
  /\ UNCHANGED <<redisVars, relayVars, session, issued, expired, pageVars, linkVars, poll, panelVars, faults>>

(* POST /api/auth/token: the secret is right, or it is not.                *)
handleTokenIssue(ok) ==
  /\ form = "busy" /\ relay # "down"
  /\ IF ok THEN issued < MaxLogins /\ issued' = issued + 1 /\ form' = "granted"
     ELSE form' = "failed" /\ UNCHANGED issued
  /\ UNCHANGED <<redisVars, relayVars, session, expired, pageVars, linkVars, poll, panelVars, faults>>

(* Nobody answers, or the answer is lost.                                  *)
LoginFails ==
  /\ \/ form = "busy" /\ relay = "down" /\ UNCHANGED faults
     \/ form \in {"busy", "granted"} /\ Fault
  /\ form' = "failed"
  /\ UNCHANGED <<redisVars, relayVars, session, issued, expired, pageVars, linkVars, poll, panelVars>>

(* The panels are mounted with empty state and start to poll.              *)
handleLogin ==
  /\ form = "granted" /\ form' = "idle"
  /\ session' = issued /\ token' = issued
  /\ UNCHANGED <<redisVars, relayVars, issued, expired, leaving, linkVars, poll, panelVars, faults>>

(* logout clears the session at once and the page a little later.          *)
logout ==
  /\ token # 0 /\ ~leaving
  /\ session' = 0 /\ leaving' = TRUE
  /\ UNCHANGED <<redisVars, relayVars, issued, expired, form, token, linkVars, poll, panelVars, faults>>

(* The panels are unmounted: their polls are disposed of, and their state  *)
(* is gone.  The state of the page's hook stays, but its socket is closed. *)
LoggedOut ==
  /\ leaving /\ leaving' = FALSE /\ token' = 0
  /\ link' = "none" /\ wire' = <<>>
  /\ poll' = [p \in Polls |-> [poll[p] EXCEPT !.disposed = poll[p].at # "idle"]]
  /\ stats' = NoStats /\ error' = "none"
  /\ UNCHANGED <<redisVars, relayVars, loginVars, history, faults>>

Expire ==
  /\ \E k \in (1..issued) \ expired : expired' = expired \cup {k}
  /\ UNCHANGED <<redisVars, relayVars, session, issued, form, pageVars, linkVars, poll, panelVars, faults>>
-----------------------------------------------------------------------------
(* The console.                                                            *)

SessionToken == IF Valid(session) THEN session ELSE 0

(* The socket carries the token of localStorage, not the one of the page.  *)
Connect ==
  /\ token # 0 /\ link = "none" /\ wire = <<>> /\ relay = "up"
  /\ link' = IF SessionToken # 0 THEN "admin" ELSE "public"
  /\ session' = SessionToken
  /\ UNCHANGED <<redisVars, relayVars, issued, expired, form, pageVars, wire, history, poll, panelVars, faults>>

(* The connection drops, and with it what was under way.                   *)
Disconnect ==
  /\ link # "none" /\ Fault
  /\ link' = "none" /\ wire' = <<>>
  /\ UNCHANGED <<redisVars, relayVars, loginVars, pageVars, history, poll, panelVars>>

OnSettlement ==
  /\ wire # <<>> /\ wire' = Tail(wire)
  /\ history' = LET all == <<Head(wire)>> \o history
                IN SubSeq(all, 1, IF Len(all) < Keep THEN Len(all) ELSE Keep)
  /\ UNCHANGED <<redisVars, relayVars, loginVars, pageVars, link, poll, panelVars, faults>>

(* Every ten seconds, whether or not the last poll has ended.              *)
Poll(p) ==
  /\ token # 0 /\ poll[p].at = "idle"
  /\ poll' = [poll EXCEPT ![p] = [Idle EXCEPT !.at = "sent", !.token = token, !.base = Shown,
                                    !.known = ExecutionPanel.cycle]]
  /\ UNCHANGED <<redisVars, relayVars, loginVars, pageVars, linkVars, panelVars, faults>>

PollFails(p) ==
  /\ poll[p].at = "sent" /\ relay = "down" /\ poll' = Replied(p, "failed")
  /\ UNCHANGED <<redisVars, relayVars, loginVars, pageVars, linkVars, panelVars, faults>>

(* Mutant: an answer does not clear the error of an earlier poll.          *)
AnsweredWithError(p) ==
  /\ stats' = [asked |-> TRUE, body |-> poll[p].body, base |-> poll[p].base, known |-> poll[p].known]
  /\ UNCHANGED error

Answered(p) ==
  /\ stats' = [asked |-> TRUE, body |-> poll[p].body, base |-> poll[p].base, known |-> poll[p].known]
  /\ error' = "none"

Polled(p) ==
  /\ poll[p].at = "answered"
  /\ poll' = [poll EXCEPT ![p] = Idle]
  /\ IF poll[p].disposed THEN UNCHANGED panelVars
     ELSE IF poll[p].code = "200" THEN Answered(p)
     ELSE error' = poll[p].code /\ UNCHANGED stats
  /\ UNCHANGED <<redisVars, relayVars, loginVars, pageVars, linkVars, faults>>
-----------------------------------------------------------------------------
Init ==
  /\ relay = "down" /\ inbox = <<>> /\ commands = <<>>
  /\ outcomes = Zero /\ seen = 0 /\ fit = "none" /\ fits = 0
  /\ published = 0 /\ heard = Zero /\ dropped = FALSE
  /\ session = 0 /\ issued = 0 /\ expired = {} /\ form = "idle"
  /\ token = 0 /\ leaving = FALSE
  /\ link = "none" /\ wire = <<>> /\ history = <<>>
  /\ poll = [p \in Polls |-> Idle]
  /\ stats = NoStats /\ error = "none"
  /\ faults = 0

Next ==
  \/ \E b \in Batches : Publish(b)
  \/ \E status \in Fits : Calibrate(status)
  \/ Start \/ RelaySettlement \/ RunWrite \/ RunRead
  \/ CommandFails \/ Crash \/ Sigterm \/ Quit
  \/ submit \/ LoginFails \/ handleLogin \/ logout \/ LoggedOut \/ Expire
  \/ \E ok \in BOOLEAN : handleTokenIssue(ok)
  \/ Connect \/ Disconnect \/ OnSettlement
  \/ \E p \in Polls : Reject(p) \/ handleStats(p) \/ Poll(p) \/ PollFails(p) \/ Polled(p)

Spec == Init /\ [][Next]_vars

(* Redis answers the command at the head of the queue, and a poll goes on, *)
(* from one step to the next.  Nothing is assumed of the user and of       *)
(* faults.                                                                 *)
Run      == RunWrite \/ RunRead
PollStep(p) == Reject(p) \/ handleStats(p) \/ Poll(p) \/ PollFails(p) \/ Polled(p)

FairSpec ==
  /\ Spec
  /\ WF_vars(Run) /\ \A p \in Polls : WF_vars(PollStep(p))
-----------------------------------------------------------------------------
Settlement == [n : 1..MaxEvents, settled : Batches]
Write == [op : Counted, by : Nat \ {0}] \cup [op : {"seen"}, by : 1..MaxEvents]
Read  == [op : {"read ledger", "read staleness"}, poll : Polls]
Body  == [fit : Fits, outcomes : [Counted -> Nat], seen : 0..MaxEvents]

(* A poll that is being read has one read in the queue; the relay serves   *)
(* its frames to a page that has a token.                                  *)
TypeOK ==
  /\ relay \in {"down", "up", "quitting"}
  /\ inbox \in Seq(Settlement) /\ commands \in Seq(Write \cup Read)
  /\ outcomes \in [Counted -> Nat] /\ seen \in 0..MaxEvents
  /\ fit \in Fits /\ fits \in 0..MaxFits
  /\ published \in 0..MaxEvents /\ heard \in [Counted -> Nat] /\ dropped \in BOOLEAN
  /\ issued \in 0..MaxLogins /\ session \in 0..issued /\ expired \subseteq 1..issued
  /\ form \in {"idle", "busy", "granted", "failed"}
  /\ token \in 0..issued /\ leaving \in BOOLEAN
  /\ link \in {"none", "public", "admin"} /\ (link # "none" => token # 0 /\ relay # "down")
  /\ wire \in Seq(Settlement) /\ history \in Seq(Settlement) /\ Len(history) <= Keep
  /\ poll \in [Polls -> [at : {"idle", "sent", "reading", "answered"}, token : 0..issued,
                         disposed : BOOLEAN, body : Body, base : [Counted -> Nat],
                         code : {"none", "200", "401", "500", "503", "failed"},
                         known : 0..MaxEvents]]
  /\ \A p \in Polls :
       /\ poll[p].at = "reading" <=> \E i \in DOMAIN commands : commands[i] \in Read /\ commands[i].poll = p
       /\ \A i, j \in DOMAIN commands :
            commands[i] \in Read /\ commands[j] \in Read /\ commands[i].poll = commands[j].poll => i = j
  /\ stats \in [asked : BOOLEAN, body : Body, base : [Counted -> Nat], known : 0..MaxEvents]
  /\ error \in {"none", "401", "500", "503", "failed"}
  /\ faults \in 0..MaxFaults

(* Unless a write was lost, the statistics on the console agree with the   *)
(* settlements beside them: they count every order won or lost that was on *)
(* the page when they were asked for, none that the relay had not heard    *)
(* of, and the channel of a counted settlement is not behind it, although  *)
(* three commands write a settlement and five read the statistics          *)
(* (server.js:153-159, 286-310).                                           *)
StatsAreCurrent ==
  stats.asked /\ ~dropped =>
    /\ \A r \in Counted : stats.base[r] <= stats.body.outcomes[r] /\ stats.body.outcomes[r] <= heard[r]
    /\ stats.known <= stats.body.seen
    /\ stats.body.outcomes # Zero => stats.body.seen # 0

(* While the relay is up and the page keeps one token, the panel gets      *)
(* right in the end, however its polls overtook each other: with a valid   *)
(* token it shows the ledger and the fit of Redis for good and has no      *)
(* error left, with one whose time is over it always ends in an error,     *)
(* which it shows if it never had an answer (ModelAccuracyPanel.jsx:57-86).*)
PanelCatchesUp ==
  /\ <>[](relay = "up" /\ Valid(token))
       => <>[](error = "none" /\ ModelAccuracyPanel.body = "stats"
               /\ ModelAccuracyPanel.ledger = outcomes /\ stats.body.fit = fit)
  /\ <>[](relay = "up" /\ token \in expired)
       => <>[](error = "401" /\ (stats.asked \/ ModelAccuracyPanel.body = "unreachable"))
=============================================================================
