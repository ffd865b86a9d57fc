----------------------------- MODULE SignalDesk -----------------------------
(***************************************************************************)
(* The signal desk (app/signals/page.jsx, hooks/useSignalStream.js,        *)
(* lib/engine.js, components/SignalGrid.jsx, components/PnLTracker.jsx)    *)
(* and what the executor serves it: the signal stream, the active orders,  *)
(* the ledger and the operator's placements (internal/api/server.go,       *)
(* broker/signals.go, broker/operator.go).                                 *)
(*                                                                         *)
(* Of the executor the module has every command that changes one of these  *)
(* lists, and those that choose what to change: the two graders take       *)
(* orders, add them to the ledger and only then clear them, without a lock *)
(* (broker/interfaces.go), and three maintenance handlers delete entries   *)
(* or add them again.  PaperBroker and AdminAnalytics model them with the  *)
(* PnL hash.  Which orders a grader takes, and how it grades an order, is  *)
(* left open here.                                                         *)
(*                                                                         *)
(* The desk polls three lists, each read at a moment of its own, while     *)
(* signals come over a WebSocket.  An action of the desk is one callback.  *)
(* Left out: the totals over the table (pnl:session), the flash of a new   *)
(* signal, the error banner, the copy button, pings and texts; trimming    *)
(* of the ledger, which keeps far more entries than the desk reads.        *)
(***************************************************************************)
EXTENDS Integers, Sequences, FiniteSets, SequencesExt, FiniteSetsExt

CONSTANTS
  Orders,
  Legacy,     \* those that an older grading rule may have left as void
  Grades,     \* results that final scores of its match may give an order
  Pnl,        \* what an order wins or loses by its result
  Requests,   \* bound: requests to regrade at one time
  Loads,      \* bound: polls of the desk at one time
  Limit,      \* entries that the desk asks for and keeps, 60 in the code
  Rows,       \* rows of its table, 30 in the code
  Budgets     \* bound: how often things of each kind may happen, chosen at the start

Kinds   == {"orders", "batches", "requests", "posts", "faults"}
Results == {"won", "lost", "void", "unresolved"}

ASSUME SignalDeskAssumption ==
  /\ IsFiniteSet(Orders) /\ Legacy \subseteq Orders
  /\ \A o \in Legacy : "void" \notin Grades[o]
  /\ IsFiniteSet(Loads) /\ Loads # {}
  /\ Grades \in [Orders -> SUBSET Results] /\ Pnl \in [Orders -> [Results -> Int]]
  /\ {Limit, Rows} \subseteq Nat /\ Budgets \subseteq [Kinds -> Nat]

VARIABLES
  filled,      \* history: orders that were filled
  open,        \* execution:paper_orders
  ledger,      \* execution:paper_settlements, oldest first
  entered,     \* history: entries that the ledger has had
  log,         \* execution:operator_placements, oldest first
  grading,     \* orders that each grader has still to record, and to clear
  regrading,   \* requests to regrade: what each is about to do
  client,      \* the page's side of the stream: "waiting", "dialling", "open"
  server,      \* its handler: "none", "upgraded", "subscribed", "gone"
  pipe,        \* signals between the two
  connected, signals,           \* state of the page: the stream,
  settled, placed,              \* what its polls brought,
  loading,                      \* and whether the first is still out
  load,        \* its polls under way
  post,        \* its POST for every order: "none", "sent", "recorded"
  budget       \* how often they may happen yet

redisVars  == <<filled, open, ledger, entered, log, grading, regrading>>
streamVars == <<client, server, pipe>>
listVars   == <<settled, placed>>
pageVars   == <<connected, signals, listVars, loading>>
vars == <<redisVars, streamVars, pageVars, load, post, budget>>

(* PaperRunLoop and StaleSweep.                                            *)
Graders == {"loop", "sweep"}
AtRest  == [todo |-> {}, done |-> {}]

(* An entry of the ledger, of orders in the set.                           *)
Entry(orders) == [order : orders, result : Results]
Void(o)       == [order |-> o, result |-> "void"]
Loss(o)       == [order |-> o, result |-> "lost"]
NoRequest     == [step |-> "none", voids |-> <<>>]

Lists == {"active", "ledger", "placements"}
Idle  == [busy |-> FALSE, todo |-> {}, active |-> <<>>, ledger |-> <<>>, placements |-> {}]
Asked == [Idle EXCEPT !.busy = TRUE, !.todo = Lists]

Shortened(s) == SubSeq(s, 1, IF Len(s) < Limit THEN Len(s) ELSE Limit)
Newest(s)    == Shortened(Reverse(s))

TypeOK ==
  /\ open \subseteq filled /\ filled \subseteq Orders
  /\ ledger \in Seq(Entry(filled)) /\ ToSet(ledger) \subseteq entered
  /\ entered \subseteq Entry(filled)
  /\ grading \in [Graders -> [todo : SUBSET filled, done : SUBSET filled]]
  /\ regrading \in [Requests -> [step : {"none", "delete", "add"}, voids : Seq(Legacy)]]
  /\ log \in Seq(filled)
  /\ client \in {"waiting", "dialling", "open"}
  /\ server \in {"none", "upgraded", "subscribed", "gone"}
  /\ pipe \in Seq(filled)
  /\ connected = (client = "open")
  /\ signals \in Seq(filled) /\ IsInjective(signals) /\ Len(signals) <= Limit
  /\ ToSet(settled) \subseteq entered /\ placed \subseteq ToSet(log)
  /\ loading \in BOOLEAN
  /\ load \in [Loads -> [busy : BOOLEAN, todo : SUBSET Lists,
                         active : Seq(filled), ledger : Seq(Entry(filled)),
                         placements : SUBSET filled]]
  /\ post \in [Orders -> {"none", "sent", "recorded"}]
  /\ budget \in [Kinds -> Nat]

Spend(kind) == budget[kind] > 0 /\ budget' = [budget EXCEPT ![kind] = @ - 1]
-----------------------------------------------------------------------------
(* The executor and Redis.                                                 *)

(* ExecuteEnvelope: the record of an order may fail, its signal goes out   *)
(* anyway, to a handler that has subscribed.                               *)
ExecuteEnvelope(o) ==
  /\ Spend("orders") /\ o \notin filled /\ filled' = filled \cup {o}
  /\ open' \in {open, open \cup {o}}
  /\ pipe' = IF server = "subscribed" THEN Append(pipe, o) ELSE pipe
  /\ UNCHANGED <<ledger, entered, log, grading, regrading, client, server, pageVars, load,
                 post>>

(* XADD of an entry.                                                       *)
AddEntry(e) == ledger' = Append(ledger, e) /\ entered' = entered \cup {e}

(* A grader reads the hash, and takes the orders of a match that has ended *)
(* or those that are stale.                                                *)
TakeOrders(g) ==
  /\ Spend("batches") /\ grading[g] = AtRest
  /\ \E taken \in (SUBSET open) \ {{}} : grading' = [grading EXCEPT ![g].todo = taken]
  /\ UNCHANGED <<filled, open, ledger, entered, log, regrading, streamVars, pageVars, load,
                 post>>

(* Only the sweep finds matches without a final score.                     *)
Outcomes(g, o) == Grades[o] \cup (IF g = "sweep" THEN {"unresolved"} ELSE {})

(* recordSettlements: XADD for one order after the other; an order whose   *)
(* XADD fails is cleared all the same.  The sweep clears every order       *)
(* before it goes on.                                                      *)
recordSettlements(g, o) ==
  /\ o \in grading[g].todo /\ (g = "sweep" => grading[g].done = {})
  /\ grading' = [grading EXCEPT ![g].todo = @ \ {o}, ![g].done = @ \cup {o}]
  /\ \/ \E result \in Outcomes(g, o) :
          AddEntry([order |-> o, result |-> result]) /\ UNCHANGED budget
     \/ Spend("faults") /\ UNCHANGED <<ledger, entered>>
  /\ UNCHANGED <<filled, open, log, regrading, streamVars, pageVars, load, post>>

(* HDEL of what was graded; if it fails, the orders stay.                  *)
ClearOrders(g) ==
  /\ grading[g].done # {} /\ (g = "loop" => grading[g].todo = {})
  /\ grading' = [grading EXCEPT ![g].done = {}]
  /\ \/ open' = open \ grading[g].done /\ UNCHANGED budget
     \/ Spend("faults") /\ UNCHANGED open
  /\ UNCHANGED <<filled, ledger, entered, log, regrading, streamVars, pageVars, load, post>>

(* The entries of the list that are not in the set, in their order.        *)
Without(list, out) ==
  LET rest[i \in 0..Len(list)] ==
        IF i = 0 THEN <<>>
        ELSE IF list[i] \in out THEN rest[i - 1] ELSE Append(rest[i - 1], list[i])
  IN rest[Len(list)]

(* XDEL of the unresolved entries among those that were there at XRANGE:   *)
(* what is left of these are the first k.                                  *)
adminPruneUnresolved ==
  /\ Spend("requests")
  /\ \E k \in 1..Len(ledger) :
       ledger' = Without(SubSeq(ledger, 1, k), {e \in entered : e.result = "unresolved"})
                   \o SubSeq(ledger, k + 1, Len(ledger))
  /\ UNCHANGED <<filled, open, entered, log, grading, regrading, streamVars, pageVars, load,
                 post>>

adminResetAnalytics ==
  /\ Spend("requests") /\ ledger' = <<>>
  /\ UNCHANGED <<filled, open, entered, log, grading, regrading, streamVars, pageVars, load,
                 post>>

(* XRANGE, XDEL and XADDs of a request that turns the void entries of an   *)
(* older rule into losses.  A command that fails ends it, and the pipeline *)
(* of XADDs may fail in the middle.                                        *)
RegradeRead(r) ==
  LET draws == Without(ledger, entered \ {Void(o) : o \in Legacy})
  IN  /\ Spend("requests") /\ regrading[r] = NoRequest /\ draws # <<>>
      /\ regrading' = [regrading EXCEPT ![r] =
           [step |-> "delete", voids |-> [i \in DOMAIN draws |-> draws[i].order]]]
      /\ UNCHANGED <<filled, open, ledger, entered, log, grading, streamVars, pageVars, load,
                     post>>

RegradeDelete(r) ==
  /\ regrading[r].step = "delete"
  /\ ledger' = Without(ledger, {Void(o) : o \in ToSet(regrading[r].voids)})
  /\ regrading' = [regrading EXCEPT ![r].step = "add"]
  /\ UNCHANGED <<filled, open, entered, log, grading, streamVars, pageVars, load, post, budget>>

RegradeAdd(r) ==
  /\ regrading[r].step = "add"
  /\ AddEntry(Loss(Head(regrading[r].voids)))
  /\ regrading' = [regrading EXCEPT ![r] =
       LET rest == Tail(regrading[r].voids)
       IN  IF rest = <<>> THEN NoRequest ELSE [step |-> "add", voids |-> rest]]
  /\ UNCHANGED <<filled, open, log, grading, streamVars, pageVars, load, post, budget>>

RegradeFails(r) ==
  /\ regrading[r].step # "none" /\ Spend("faults")
  /\ regrading' = [regrading EXCEPT ![r] = NoRequest]
  /\ UNCHANGED <<filled, open, ledger, entered, log, grading, streamVars, pageVars, load, post>>

adminRegradeDraws(r) ==
  RegradeRead(r) \/ RegradeDelete(r) \/ RegradeAdd(r) \/ RegradeFails(r)

(* streamSignals upgrades the connection before it subscribes.             *)
Upgrade ==
  /\ client = "dialling" /\ server = "none" /\ server' = "upgraded"
  /\ UNCHANGED <<redisVars, client, pipe, pageVars, load, post, budget>>

StreamSubscribe ==
  /\ server = "upgraded" /\ server' = "subscribed"
  /\ UNCHANGED <<redisVars, client, pipe, pageVars, load, post, budget>>

(* The connection is lost, and with it the end of what was under way.      *)
Lost ==
  /\ server' = "gone"
  /\ \E k \in 0..Len(pipe) : pipe' = SubSeq(pipe, 1, k)

Disconnect ==
  /\ server \in {"upgraded", "subscribed"} /\ Spend("faults") /\ Lost
  /\ UNCHANGED <<redisVars, client, pageVars, load, post>>

(* The executor is started again: what its graders and its handlers had    *)
(* still to do is lost.  A request that is on its way reaches the new one, *)
(* or fails.                                                               *)
Restart ==
  /\ Spend("faults")
  /\ grading' = [g \in Graders |-> AtRest]
  /\ regrading' = [r \in Requests |-> NoRequest]
  /\ IF server \in {"upgraded", "subscribed"} THEN Lost ELSE UNCHANGED <<server, pipe>>
  /\ UNCHANGED <<filled, open, ledger, entered, log, client, pageVars, load, post>>
-----------------------------------------------------------------------------
(* The page.                                                               *)

(* Mutant: the snapshot is appended as it is.                              *)
SeededAgain(list) == Shortened(signals \o list)

(* Mutant: a queue that has an entry is left alone.                        *)
SeededOnce(list) == IF signals = <<>> THEN Shortened(list) ELSE signals

Seeded(list) == Shortened(signals \o Without(list, ToSet(signals)))

(* The effect on connected gives up all polls and starts a new one.        *)
Reconnected(now) ==
  /\ connected' = now
  /\ load' = [l \in Loads |-> IF l = CHOOSE k \in Loads : TRUE THEN Asked ELSE Idle]

Dial ==
  /\ client = "waiting" /\ client' = "dialling"
  /\ UNCHANGED <<redisVars, server, pipe, pageVars, load, post, budget>>

OnOpen ==
  /\ client = "dialling" /\ server # "none"
  /\ client' = "open" /\ Reconnected(TRUE)
  /\ UNCHANGED <<redisVars, server, pipe, signals, listVars, loading, post, budget>>

(* The upgrade fails, and the page was not connected anyway.               *)
OnRefused ==
  /\ client = "dialling" /\ server \in {"none", "gone"}
  /\ client' = "waiting" /\ server' = "none" /\ pipe' = <<>>
  /\ UNCHANGED <<redisVars, pageVars, load, post, budget>>

(* A signal moves to the front of the queue.                               *)
OnMessage ==
  /\ client = "open" /\ pipe # <<>>
  /\ signals' = Shortened(<<Head(pipe)>> \o Without(signals, {Head(pipe)}))
  /\ pipe' = Tail(pipe)
  /\ UNCHANGED <<redisVars, client, server, connected, listVars, loading, load, post, budget>>

OnClose ==
  /\ client = "open" /\ server = "gone" /\ pipe = <<>>
  /\ client' = "waiting" /\ server' = "none" /\ Reconnected(FALSE)
  /\ UNCHANGED <<redisVars, pipe, signals, listVars, loading, post, budget>>

(* The interval starts a poll whether or not the last one has ended.       *)
Poll(l) ==
  /\ ~load[l].busy /\ load' = [load EXCEPT ![l] = Asked]
  /\ UNCHANGED <<redisVars, streamVars, pageVars, post, budget>>

(* The three handlers read Redis, each when its request arrives.  HGETALL  *)
(* has no order.                                                           *)
Answer(l, list, value) ==
  /\ list \in load[l].todo
  /\ load' = [load EXCEPT ![l].todo = @ \ {list}, ![l][list] = value]
  /\ UNCHANGED <<redisVars, streamVars, pageVars, post, budget>>

activeSignals(l)      == \E list \in SetToSeqs(open) : Answer(l, "active", list)
analyticsLedger(l)    == Answer(l, "ledger", Newest(ledger))
operatorPlacements(l) == Answer(l, "placements", ToSet(Newest(log)))

Serve(l) == activeSignals(l) \/ analyticsLedger(l) \/ operatorPlacements(l)

(* All lists are there, and replace what the page shows.                   *)
Loaded(l) ==
  /\ load[l].busy /\ load[l].todo = {}
  /\ settled' = load[l].ledger /\ placed' = load[l].placements
  /\ signals' = IF connected \/ load[l].active = <<>> THEN signals ELSE Seeded(load[l].active)
  /\ load' = [load EXCEPT ![l] = Idle] /\ loading' = FALSE
  /\ UNCHANGED <<redisVars, streamVars, connected, post, budget>>

LoadFails(l) ==
  /\ load[l].busy /\ Spend("faults")
  /\ load' = [load EXCEPT ![l] = Idle] /\ loading' = FALSE
  /\ UNCHANGED <<redisVars, streamVars, connected, signals, listVars, post>>

(* The operator marks a signal as placed; one POST per order at a time.    *)
handlePlace(o) ==
  /\ Spend("posts") /\ o \in ToSet(signals) \ placed /\ post[o] = "none"
  /\ post' = [post EXCEPT ![o] = "sent"]
  /\ UNCHANGED <<redisVars, streamVars, pageVars, load>>

(* RecordPlacement writes hash, log and broadcast in one pipeline.  If it  *)
(* fails, the log may have been written all the same.                      *)
RecordPlacement(o, ok) ==
  \/ log' = Append(log, o)
  \/ ~ok /\ UNCHANGED log

operatorPlace(o) ==
  /\ post[o] = "sent"
  /\ \E ok \in BOOLEAN :
       /\ RecordPlacement(o, ok)
       /\ post' = [post EXCEPT ![o] = IF ok THEN "recorded" ELSE "none"]
       /\ IF ok THEN UNCHANGED budget ELSE Spend("faults")
  /\ UNCHANGED <<filled, open, ledger, entered, grading, regrading, streamVars, connected,
                 signals, listVars, loading, load>>

Answered(o) ==
  /\ post[o] = "recorded" /\ post' = [post EXCEPT ![o] = "none"]
  /\ \/ placed' = placed \cup {o} /\ UNCHANGED budget
     \/ Spend("faults") /\ UNCHANGED placed
  /\ UNCHANGED <<redisVars, streamVars, connected, signals, settled, loading, load>>
-----------------------------------------------------------------------------
(* The page has just been opened: it dials, and its first poll begins.     *)
(* The ledger may have what an older grading rule has left.                *)
Init ==
  /\ filled \in SUBSET Legacy /\ open = {} /\ log = <<>>
  /\ entered = {Void(o) : o \in filled} /\ ledger \in SetToSeqs(entered)
  /\ grading = [g \in Graders |-> AtRest]
  /\ regrading = [r \in Requests |-> NoRequest]
  /\ client = "dialling" /\ server = "none" /\ pipe = <<>>
  /\ connected = FALSE /\ signals = <<>>
  /\ settled = <<>> /\ placed = {}
  /\ loading = TRUE
  /\ load = [l \in Loads |-> IF l = CHOOSE k \in Loads : TRUE THEN Asked ELSE Idle]
  /\ post = [o \in Orders |-> "none"] /\ budget \in Budgets

Next ==
  \/ Upgrade \/ StreamSubscribe \/ Disconnect \/ Restart
  \/ adminPruneUnresolved \/ adminResetAnalytics
  \/ \E r \in Requests : adminRegradeDraws(r)
  \/ \E g \in Graders : TakeOrders(g) \/ ClearOrders(g)
  \/ Dial \/ OnOpen \/ OnRefused \/ OnMessage \/ OnClose
  \/ \E l \in Loads : Poll(l) \/ Serve(l) \/ Loaded(l) \/ LoadFails(l)
  \/ \E o \in Orders :
       \/ ExecuteEnvelope(o) \/ (\E g \in Graders : recordSettlements(g, o))
       \/ handlePlace(o) \/ operatorPlace(o) \/ Answered(o)

Spec == Init /\ [][Next]_vars

(* A poll goes on, from one step to the next.  Nothing is assumed of the   *)
(* stream, the graders and the operator.                                   *)
LoadStep(l) == Poll(l) \/ Serve(l) \/ Loaded(l)

FairSpec == Spec /\ \A l \in Loads : WF_vars(LoadStep(l))
-----------------------------------------------------------------------------
(* What the desk shows.                                                    *)
Pending == ToSet(signals) \ {e.order : e \in ToSet(settled)}

(* A card has a button until the order has a placement.                    *)
PlaceButton(o) == IF post[o] = "none" THEN "MARK PLACED" ELSE "RECORDING"
SignalCard(o)  == IF o \in placed THEN "PLACED" ELSE PlaceButton(o)

SignalGrid ==
  [i \in DOMAIN signals |-> [order |-> signals[i], place |-> SignalCard(signals[i])]]

pnl(e) == Pnl[e.order][e.result]

(* Along the equity curve, from the oldest entry on: where it is, the peak *)
(* so far, and the deepest fall below a peak.                              *)
maxDrawdown(entries) ==
  FoldRight(LAMBDA e, c : LET now  == c.now + pnl(e)
                              peak == Max({c.peak, now})
                          IN [now |-> now, peak |-> peak, fall |-> Max({c.fall, peak - now})],
            entries, [now |-> 0, peak |-> 0, fall |-> 0]).fall

(* The table has fewer rows than the entries that the figures are about.   *)
FirstRows(entries) == SubSeq(entries, 1, Min({Rows, Len(entries)}))

PnLTracker ==
  [drawdown |-> maxDrawdown(settled), window |-> Len(settled), table |-> FirstRows(settled),
   note |-> IF settled # <<>> THEN "" ELSE IF loading THEN "loading" ELSE "none yet"]

(* The deepest fall from any point of the curve to a later one.            *)
DeepestFall(entries) ==
  LET n == Len(entries)
      sum(i, j) == FoldSet(LAMBDA k, acc : acc + pnl(entries[k]), 0, i..j)
  IN Max({0} \cup {-sum(i, j) : i \in 1..n, j \in 1..n})

(* Whatever poll is overtaken by another, by a placement, by a change of   *)
(* the stream or by graders that settle an order twice and an operator who *)
(* deletes entries (page.jsx:23-60, 78-82, interfaces.go:176-185), the     *)
(* desk gets right in the end: while the stream stays down it shows every  *)
(* order that stays open, it shows the newest placements for good, it      *)
(* takes the newest settled orders for pending no more, its drawdown tells *)
(* the newest entries of the ledger, and its table the first rows of them. *)
DeskCatchesUp ==
  /\ \A o \in Orders :
       /\ <>[](~connected /\ o \in open)
            => <>[]((\E card \in ToSet(SignalGrid) : card.order = o)
                      \/ Len(SignalGrid) = Limit)
       /\ <>[](o \in ToSet(Newest(log))) => <>[](SignalCard(o) = "PLACED")
       /\ <>[](\E e \in ToSet(Newest(ledger)) : e.order = o)
            => <>[](o \notin Pending)
  /\ LET report == PnLTracker
     IN <>[](/\ report.table = FirstRows(Newest(ledger))
             /\ report.window = Len(Newest(ledger))
             /\ (report.note = "none yet") = (ledger = <<>>)
             /\ report.drawdown = DeepestFall(Newest(ledger)))
=============================================================================
