# casuya-live in TLA+

casuya-live watches live football odds, decides when a price is wrong, places
bets (on paper or with a bookmaker) and grades them when the match is over. It
is five processes that talk through Redis. This directory holds TLA+ models of
the parts that carry its logic, the TLC runs that check them, and TLAPS proofs
of what matters most.

    matches ──► ingestor (Go) ──matches:live──► analytics (Python)
                  │  match:<id> hash                │ execution:commands
                  ▼                                 ▼
                Redis ◄──────────────────────── executor (Go) ◄─► bookmaker
                  │   paper_orders, pnl:session,    ▲
                  │   paper_settlements             │ bookmaker:settlements
                  ▼                                 │
                web relay (Node) ──► dashboard    mock vendor (Node, local only)

## 1. Inventory

| Part (source) | State | Operations | What is hard | What makes it right |
|---|---|---|---|---|
| Paper broker (`execution-engine-go/internal/broker/interfaces.go`, `settle.go`) | hash `execution:paper_orders`, hash `pnl:session`, stream `execution:paper_settlements`, in-memory session and batch counter | log a fill; grade a match on its FULLTIME frame; sweep stale orders once a minute | two graders without a lock across their four Redis steps; crashes between the steps; lost frames; hashes that expire | orders are graded on final scores of their own match, none is lost, hash and ledger agree, every order is settled in the end |
| Admin handlers (`internal/api/server.go` 346-555) | the same ledger and hash | prune, regrade, reset | read-modify-write over several commands, next to the graders | a maintenance call that runs alone repairs the hash; a regrade changes verdicts, not the number of bets |
| Live broker (`internal/broker/client.go`) | position store (map and queue, cap 500), session, PnL hash | place an order over its own socket (auth, ack, order, fill); grade the bookmaker's settlements | deadlines that race fills, settlements that overtake fills, lost settlements | an order is settled at most once, hash and session agree |
| Mock vendor (`mock-vendor/server.js`) | book of fills, one reel per vendor socket | play a reel, book an order, settle the book at FULLTIME | sockets share the book; publish without acknowledgement | every fill is settled by some FULLTIME |
| Analytics broker and gate (`analytics-engine-py/src/main.py`, `position_gate.py`) | frame queue, gate dictionary, momentum windows | listen, audit, release, evaluate, order | four workers, reordering, raising publishes, restarts | one order per market and cycle; memory of finished matches is freed; the queue drains |
| Feature study, filter, diagnostics (`feature_study.py`, `filter_engine.py`, `diagnostics.py`) | momentum windows, largest counters per match, weights | observe a frame, snapshot, select a leg, verdict, audit | counters guarded one by one that outlive the match; a clock read when a worker comes to a frame; legs without a price, limits and slack | snapshots carry the largest counters and windows of one cycle; the strongest edge is taken and none is missed |
| Calibration (`scripts/calibrate.py`) | – | split the stream into cycles, fold each as the engine did, fit, adopt | the same match under the same identifier; the engine's windows go by another clock | the fold gives the counters the engine had, and its windows where the clocks agree |
| Helabet and betPawa pollers (`data-ingestion-go/internal/helabet`, `betpawa`) | tracked matches, settled set or ftEmitted flag | a tick: fetch, publish every row, close what vanished | frozen or suspended rows, rows that return, failing publishes, restarts | a feed tells, closes at most once, and never contradicts itself |
| API-Football poller (`internal/apifootball`) | tracked matches | a cycle: three reads, live frames, settlement, registration | reads of different moments that fail alone, midnight, extra time | FULLTIME frames carry the true score; every match is closed |
| Stream client (`internal/stream`) | connection, backoff, a ping goroutine per connection | dial, read, validate, reconnect | connections that break; goroutines of connections that are gone | the vendor's match is told to its end again and again; no ping loop stays behind |
| Ingestor process (`cmd/ingestor/main.go`) | the source picked by `PROVIDER_MODE` | run one of the four sources above | restart with empty memory | whatever the source, FULLTIME frames are due and the frames are a match feed |
| Match cache (`internal/cache/redis.go`) | hash `match:<id>` (24 h TTL), stream and channel `matches:live` | PublishMatch, one transaction | the consumer can be away | hash and channel tell the same |
| Operator placements and signals (`operator.go`, `signals.go`) | log of placements, signal stream | record, list, push | pipeline without transaction, a stream that opens late | what was recorded is shown |
| Web relay (`web-interface-js/backend/server.js`) | sockets with roles, tokens, hashes `stats:outcomes` and `relay:staleness` | subscribe, fan out, add up outcomes, issue tokens, answer `/api/stats` | crashes and SIGTERM, lost connections, sessions that expire, settlements heard while a request is answered | pages know whether they are online, show events once and in order, and statistics count what was heard |
| Public page and console (`hooks/use*WebSockets.js`, `lib/session.js`, `app/admin`) | socket, retry timer, feed, token in localStorage | connect, retry, reload, log in and out | timers and callbacks of a socket that was replaced; tabs that share a session | the public page reconnects |
| Match grid (`app/page.jsx`, `LiveBetsGrid.jsx`) | newest frames, last event, memory of every price chip | take a frame, draw, flash a price | React draws later than frames come; effects that clear each other's timers | the newest frames are shown; badge, leaders and counters agree with the prices |
| Statistics and settlements of the console (`ModelAccuracyPanel.jsx`, `ExecutionPanel.jsx`) | last answer, last error, newest settlements | poll every ten seconds, show | polls that overlap and fail; the same settlement comes over two ways | the panel gets right in the end and agrees with the settlements beside it |
| Signal desk (`app/signals`, `useSignalStream.js`, `lib/engine.js`, `SignalGrid.jsx`, `PnLTracker.jsx`) | queue of signals, settled and placed ids | three polled lists, a stream, a POST | answers of different moments; polls overtaken by signals; a ledger with an order twice, and entries that are deleted | no order is queued twice; the desk catches up; its drawdown is that of the ledger, its table the first rows of it |
| Logs of the console, layout, scripts, CI | – | – | – | – |

They interact in five ways: the ingestor *publishes* frames that the analytics
engine and the paper broker both consume, each at its own pace, and *rewrites a
hash* that the paper broker's sweep reads; the analytics engine *commands* the
executor over a channel; the executor and the admin handlers *share* the ledger
and the PnL hash; the live broker and the bookmaker exchange *messages* on one
connection per order, and settlements on a channel; the relay and the executor
serve *pages* that poll, reconnect and keep state of their own. Every channel is Redis
pub/sub: at most once, to whoever is connected.

`PROJECT.json` lists the hazards line by line, with the properties that would
catch each and, where there is none, the reason.

## 2. Modules

| Module | Models | Extends |
|---|---|---|
| `Settlement` | `settle.go`: outcome of an order, counters | – |
| `OrderBook` | what the paper broker promises: orders are placed, reported on a final score, removed after their report | `Settlement` |
| `PaperBroker` | the paper broker and the frames and hashes it reads | `Settlement` |
| `AdminAnalytics` | prune, regrade, reset, in the process of the paper broker | `PaperBroker` |
| `MockVendor` | book, reels and settlements of `server.js` | `Settlement` |
| `LiveBroker` | the live broker, composed with the bookmaker | `MockVendor` |
| `AnalyticsEngine` | listener, queue, workers, gate | – |
| `TradingPipeline` | engine and paper broker on one feed of frames, with the channel of orders between them | instances of `AnalyticsEngine` and `PaperBroker` |
| `MomentumStudy` | counters, guard and windows of `feature_study.py`, and their replay by `calibrate.py` | – |
| `TriggerRule` | the leg and the verdict of `filter_engine.py` on one snapshot | – |
| `BetPath` | the three sides of the way from a frame to a bet, in one run | `MomentumStudy`, instances of `TriggerRule` and `TradingPipeline` |
| `MatchFeed` | what every source of frames promises: tell of a match, close it, forget it; and what betPawa and the mock vendor may do besides | – |
| `LiveBoard` | the bookmaker's board, the fetch and PublishMatch of the two bookmaker pollers | – |
| `HelabetPoller`, `BetpawaPoller` | the two ticks | `LiveBoard` |
| `ApiFootballPoller` | the cycle of three reads | – |
| `VendorStream` | the stream client composed with the mock vendor's reels | – |
| `Ingestor` | the process: one of the four sources, as instances, on one channel | `LiveBoard`, instances of the sources and of `MatchFeed` |
| `WebRelay` | the relay, composed with the tabs of one browser: public pages, consoles, their sockets, session and timers | – |
| `AdminConsole` | the relay's ledger and HTTP API, composed with the login, the polling panel and the settlements of a console | – |
| `LiveGrid` | the public page on a feed of frames: state, drawing, price chips, cards | – |
| `WebStream` | relay and grid in one run | `WebRelay`, an instance of `LiveGrid` |
| `SignalDesk` | the signal desk, composed with the endpoints of the executor it reads, the log it writes, and the graders and maintenance handlers that change the ledger | – |
| `MC…` | instances for TLC (symmetry, the old ledger of a regrade) | the module they check |
| `AnalyticsEngineProofs`, `LiveBrokerProofs`, `IngestorProofs`, `WebStreamProofs`, `ConsoleProofs`, `DeskProofs` | theorems | the module they prove about (`AdminConsole` and `SignalDesk` for the last two), `TLAPS` |
| `AdminAnalyticsProofs` | theorems about the paper broker and the maintenance handlers | `AdminAnalytics`, `TLAPS` |
| `BetPathProofs` | theorems about the study and the rule, and about engine and executor together | `BetPath`, `TLAPS`, instances of `AnalyticsEngineProofs` and `AdminAnalyticsProofs` |

Definitions keep the names of the code (`recordFill`, `sweepStale` as
`SweepBegin`/`SweepCheck`/`SweepGrade`, `persistSession`, …). Comments name the
lines a property is about. A definition called a *mutant* is a plausible bug in
the definition that follows it; it is never used by a specification, and the
property that catches it is named in `PROJECT.json`.

### Grain of the actions

* **Go**: an action is the code between two points where another goroutine or a
  crash can matter: each Redis command or transaction of a grader or handler is
  an action of its own, each row a poller handles, each message a connection
  delivers, each critical section of the live broker.
* **Python**: a task of asyncio runs alone until it awaits something that
  suspends it. In `_worker` that is an empty queue or a publish; `gate_lock` is
  never held across one, so acquiring it does not suspend. An action goes from
  one such await to the next.
* **JavaScript**: an action is a callback of the relay, of the vendor or of a
  tab: what runs between two turns of the event loop. Commands of the relay go
  through one connection, so Redis runs them in the order they were issued.

### Abstractions

* A score is the side it favours where it only grades bets (`Settlement`), and a
  number of goals where it only must not fall (the pollers).
* Odds, stakes and net PnL are left out. The net is incremented in the same
  transaction and from the same batch as the three counters that are modelled.
* Time is nondeterministic: a kickoff or a frame *becomes* more than 180 minutes
  old, a TTL *may* expire, a deadline *may* pass at any moment of the wait.
* Signatures are valid, JSON parses, and every frame is complete; what a parser
  refuses is not part of the models.
* `WebRelay`, `AdminConsole` and `LiveGrid` look at one relay from three sides:
  who gets which message, what the commands to Redis count, and what a page
  makes of the frames. Each keeps of the other two what it needs: `LiveGrid` a
  socket that delivers in order and drops what it misses, `AdminConsole` the
  frames of settlements to an admin socket.
* A view is an operator on the state: what a card, badge or counter says, not how
  it looks.
* In `AnalyticsEngine` filter verdicts and audit results are arbitrary sets of
  markets. `TriggerRule` has the verdict, over exact rational numbers: prices are
  a few decimals around the limits and the logistic score is any of a few values.
* In `MomentumStudy` a frame waits for any time before a worker observes or misses
  it, in the order of the stream; `AnalyticsEngine` has the queue in between. Its
  window reaches back `Window` ticks from the moment of the worker, the replay's from
  the receipt of the frame. A frame is published in the instant it is received, and
  the hosts of ingestor and engine have the same time: what sets the two clocks apart
  is the wait.
* In `TradingPipeline` an order is the identifier of its fill, and the
  subscription of the commands is never full.
* The world around the pollers: goals are scored until a match ends; a row shows
  the match as of its last refresh, may lose its odds and may leave the board; a
  match that is over does not come back once it has left.
* `SignalDesk` has the steps of the graders and of the maintenance handlers that touch
  orders and ledger, one Redis command each: two graders may take one order and add
  it to the ledger twice before either clears it, a crash may leave an order open
  that has its entry, a prune or a reset deletes entries and a regrade takes them
  away and adds others. The rest of both, the PnL hash, is in `PaperBroker` and
  `AdminAnalytics`. Which orders a grader takes is left open, and how it grades
  them too (`Grades`, what the final scores of a match may give an order).
* Limits and caps (60 entries polled, 30 rows of the table, 500 positions) are
  parameters.
* A crash and a restart may be one action (the pollers, which keep nothing) or
  two (both brokers and the engine, which miss messages in between).

## 3. Runs

`tlc -workers 2 -config X.cfg M`; `PROJECT.json` lists the properties of each
and, for every property of a passing run, a *mutant*: a change to one definition
such as a dropped guard, under which TLC finds the property violated.

| Run (cfg) | Shows | Bounds |
|---|---|---|
| `paper_broker` (`MCPaperBroker`) | orders are graded on confirmed scores of their own match, once per grader; none is lost; until a crash the hash counts the ledger and the batches under way, and after it never less than the ledger | 2 matches, 2 orders, 2 frames, 1 crash, match hashes that expire; symmetric |
| `paper_book` (`MCPaperBrokerBook`) | the broker implements `OrderBook`; every order with a match is settled | 2 matches (one with a kickoff time), 1 order, 2 frames, 1 crash, no TTL |
| `admin_analytics` (`MCAdminAnalytics`) | a maintenance call that ran alone leaves hash = ledger; a regrade keeps the number of bets | 1 match, 1 order of either market, 2 calls of any kind, 1 crash, 1 failing command, next to settlements |
| `analytics_engine` (`MCAnalyticsEngine`) | one order per market and cycle; windows only of live matches; the queue drains | 2 matches, 2 markets, 2 workers, queue of 2, 3 frames, 1 crash, 2 raising publishes |
| `ingestor` (`MCIngestor`) | whatever the source: FULLTIME frames are due (no early match, true scores, the vendor's last frame); the frames implement `MatchFeed`; Helabet closes only matches that are gone or finished; what was begun is finished; ping loops return; no deadlock | 1 match, 1 goal, 2 faults (1 for API-Football), 1 restart, midnight, no extra time, reels of 3 frames, delays up to 4, 2 ping loops |
| `live_broker` (`MCLiveBroker`) | an order is in one place; hash = base + session; store = queue; calls return; the book drains | 2 orders, 2 vendor sockets, reels of 2 frames, cap 1, any 2 of: executor crash, vendor crash, lost connection, lost settlement, failing write, hang-up |
| `web_stream` (`MCWebStream`) | *sockets*: a page that says online has an open socket; events once and in order; the public page reconnects. *Grid*: the page keeps the newest frames in order; badge, leaders and counters agree with the prices; a flash has a timer, but for the one case of the code | sockets: 1 console, 1 public page, 2 sockets, 3 events on three channels, pages that keep 2, 1 login, 1 of: crash, SIGTERM, lost connection, reload; grid: 3 matches, 2 cards, 4 frames of 3 kinds, 1 lost connection or reload |
| `admin_console` (`MCAdminConsole`) | unless a write was lost, the statistics are between what the page had shown when it asked and what the relay had heard; the panel gets right in the end or ends in an error | 2 polls at a time, 1 settlement of 3 orders, 1 calibration, 1 login, 1 of: crash, SIGTERM, lost connection, failing command |
| `signal_desk` (`MCSignalDesk`) | no order is queued twice; the desk catches up with orders, placements and the ledger; its drawdown is the deepest fall of the equity curve of all entries polled, its table the first rows of them | 2 orders, 1 poll at a time, limit 2, table of 1 row, and one of: two orders with 1 placement and 1 fault; two orders in 1 batch of a grader; 1 order, 2 batches and 1 fault; 1 order, 1 batch and 1 request of the operator; 1 request and 1 fault. 0 to 2 orders are in the ledger from the start |
| `bet_path` (`MCBetPath`) | *study*: snapshots carry the largest counters, windows are of one cycle; the calibration replays the counters of the first cycle of a match, and its windows if no delay moves a frame over an edge. *Rule*: the leg with the strongest edge is taken; no market with a leg worth a bet is passed over. *Orders*: the sweep grades a bet on its own cycle; no more bets on a market than one and one for every FULLTIME | study: 2 matches, 2 sets of counters (one a partial reset of the other), window of 1 tick, minutes of 2, 3 ticks, 3 frames, 2 of them waiting, 1 of: restart, missed frame; rule: every market of 3 legs over 6 prices, 6 scores, draws on and off; orders: 1 match that is played again, 1 market, 2 workers, queue of 2, 3 frames, 1 crash of either process |
| `paper_broker_ttl`, `analytics_reset` | violations, below | 1 match, 1–2 markets, 1–2 frames, 1 crash in the first |

Two runs look at one part of the system from several sides (`BetPath`,
`WebStream`). A behaviour of such a run is one of the side it picked at the start;
the others rest. The sides are cut where one takes *any* output of the other: the
rule has any score for a snapshot, the engine any verdict for a frame, the grid any
frames in the order that `ShownInOrder` promises.

What is proved and adds nothing to a run is not repeated there: the type invariants
of the paper broker, the engine, the ingestor and the study, and `AccuracyIsARatio`,
which follows from `TotalsAreLargestSeen`. The type invariants of the live broker,
the relay, the grid, the console and the desk, proved as well, are in their runs.

Why the bounds are enough to mean something: every hazard listed needs at most
two actors, two matches or two orders, and one or two faults at chosen steps,
and each run has room for these. The matches of a poller share nothing but the
tick and the budget of faults, so one match is enough. `MaxFinals` is how many
FULLTIME frames the history of a match remembers; it bounds no behaviour. A reel
of three frames has a kickoff, a frame in between and an end; `MaxDelay` 4 is two
doublings and the cap. A cap of 1 in `MCLiveBroker` makes the 500-order eviction
happen with the second order. What the bounds do leave out: failing Redis
commands of the paper broker next to a second grader are explored by
`admin_analytics` and, for the ledger alone, `signal_desk`; two requests
that overlap are explored by neither (`DeskTypes` holds with any number of them,
`RegradeConserves` does not speak of them); polls of the desk that overlap (a poll slower than the
15 second period) are not explored, polls overtaken by a POST or a change of
the stream are. Polls of the statistics that overlap are explored, two at a time.
Four frames of three matches fill a page of two cards, push one out and bring it
back.

`CHECK_DEADLOCK FALSE` is set where the bounded environment may fall silent
while nothing is pending: the paper broker, the admin handlers and the
analytics engine, alone and in the pipeline, wait for a command or frame that
the bounds no longer allow, and the feature study for a frame;
the desk, the console, the grid and the relay have shown what there was to show.
The ingestor never stops, and its run checks that.

### Divergences

Two runs expect a violation: each checks one sentence of the repository against
the code. `PROJECT.json` quotes them under "findings".

| Run | What the text says | What the code does |
|---|---|---|
| `paper_broker_ttl` | the sweep is a safety net for orders that would sit pending forever (`interfaces.go:193`) | once the match hash has expired the sweep can no longer tell that the order is stale |
| `analytics_reset` | FULLTIME resets all positions of the match (`position_gate.py:3`) | a worker with an older frame claims one afterwards |

Others were met while modelling. No run is spent on them; the modules model what
the code does, and properties are stated so that they hold of it:

* snapshots of the two graders can be published against the order of their
  cycle numbers (`interfaces.go:177`, `:404`);
* a settlement between the re-read and the write of a maintenance call is
  overwritten (`server.go:389-411`), hence "a call that ran alone";
* a restart of the engine forgets the gate (`position_gate.py:13`), hence "while
  the engine lives";
* a worker that awaits the publish of an audit releases the match after another
  worker has ordered in the next cycle (`main.py:144`, `:156`); the next frame
  orders the market again, against `position_gate.py:2-3`, hence
  `OneBetPerFullTime` counts bets and FULLTIME frames;
* the next cycle of a match has the same identifier: a FULLTIME frame that waits in
  the buffer grades the bet of the next cycle (`interfaces.go:150`, `:161`), against
  "their own FULLTIME frame" of `:148-149`, hence `SweepGradesOwnCycle` speaks of
  the sweep, which cannot do so;
* the replay does not always match "the live windows exactly" (`README.md:92-95`),
  for two reasons, hence the two conditions of `FirstCycleReplays`:
  * the engine keeps the counters of a match over its cycles
    (`feature_study.py:163`, `:247`), the replay starts each cycle anew
    (`calibrate.py:226`), so the property speaks of the first cycle;
  * the replay goes by `received_at` (`calibrate.py:186`, `:229`), but the engine
    passes no time (`main.py:157`) and takes that of the worker
    (`feature_study.py:157`), so what a frame waits in Redis and in the queue moves
    it in the window. With a window of one tick: frame 1 is received at tick 0 and
    waits, frame 2 is received at tick 2, and a worker takes both at tick 2. The
    live window of frame 2 has both frames, the replayed one frame 2 alone; frame 1
    is also in another minute than in the replay. The counters agree all the
    same, because the guard carries them from one entry to the next, so the property
    promises them of every first cycle and the windows if no delay moves a frame
    over an edge (`Undisturbed`);
* `MIN_DRAW_ODDS` is never read (`filter_engine.py:31`, `:124`), although
  `tests/test_calibrate.py:83` wants `best_side` to respect it; the test runs with
  draws switched off;
* the audit of a final frame covers every market, not only tracked bets
  (`feature_study.py:259`);
* the trigger rule of `filter_engine.py:5` has no upper limit and no slack, the
  code has both (`:124`, `:142`), hence `VerdictIsBest` speaks of legs within both;
* Helabet closes a match that vanishes 90 minutes after kickoff on its in-play
  score (`poller.go:187`); betPawa sends one FULLTIME frame per row and tick and
  one more (`poller.go:120`), and takes a row with suspended odds for dropped
  (`poller.go:108`);
* an API-Football match that goes to extra time is both live and finished
  (`poller.go:294`), hence `ExtraTime = FALSE`; one that ends across midnight is
  not found among the events of the new day (`poller.go:140`), hence "while the
  day lasts";
* the live broker grades orders it reported as timed out (`client.go:181`) and
  keeps a position recorded after its settlement (`client.go:122`);
* settlements of the mock vendor carry no `verified`, so all of them are
  unresolved (`mock-vendor/server.js:138-140` against its comment at `:67`);
* the console goes on reconnecting when its session is gone (`session.js:45`
  against `useAdminWebSockets.js:9-11`);
* the flash of a price compares with the price that was drawn first, not with the
  last one (`LiveBetsGrid.jsx:55-61`: `prev` is written only when the two are the
  same), although its comment says that a movement up is green (`:47-49`); when
  the price returns to where it was the timer is cleared and the flash stays,
  hence the case that `FlashesEnd` excepts;
* the leader of every market of a card is the side the first market favours
  (`LiveBetsGrid.jsx:116`, `:229-231`), hence `CardsAgree` speaks of the first;
* the stream client's delay doubles for ever and is never reset
  (`stream/client.go:57`, `:74-79`), so after seven reels the vendor's "cycle"
  takes a reel and 30 seconds;
* the panel keeps showing its last statistics when all later polls fail: the
  error is drawn only while there are none (`ModelAccuracyPanel.jsx:111-112`),
  hence the second half of `PanelCatchesUp`;
* the desk's queue is not seeded if the stream opens before the first poll
  returns (`app/signals/page.jsx:43`), hence `DeskCatchesUp` promises
  open orders only while the stream stays down.

## 4. Fairness

* `PaperBroker!FairSpec`: weak fairness of the two graders' steps with the Redis
  command succeeding, of the passing of time, and of the restart. Go schedules
  runnable goroutines, `StaleSweep` is driven by a ticker, and the deployment
  restarts the process. Nothing makes a frame arrive: the sweep has to do it.
* `AnalyticsEngine!FairSpec`: each worker that can run does (the event loop), and
  the engine is restarted. A publish returns or raises, either will do.
* `Ingestor!FairSpec`: ticks and cycles go on (a ticker), matches are played to
  their end, and a match that is over leaves the listing. The end of an
  API-Football match needs strong fairness because half time disables it. The
  vendor's timer ticks and the client reads, waits and dials (one goroutine); the
  vendor may refuse any number of connections but not all, hence strong fairness
  of `Dial`; every ping loop whose context is cancelled is scheduled in the end.
* `LiveBroker!FairSpec`: goroutines of the executor that can run do, a read
  deadline passes, the process is restarted, and the vendor's timer ticks while
  ingestors reconnect (`stream/client.go` retries for ever). Nothing is assumed
  of the bookmaker's answers.
* `WebStream!FairStreamSpec`, which is `WebRelay!FairSpec` for the sockets: event
  loops run what is ready, timers fire, and an upgrade is answered, with a socket or
  a refusal. Nothing is assumed of users, publishers or faults, nor of the grid.
* `AdminConsole!FairSpec`: Redis answers the commands, the relay answers requests,
  polls start and their answers are handled. Nothing is assumed of the relay's
  restart, of the user or of faults.
* `SignalDesk!FairSpec`: polls start (an interval timer) and handlers answer.
  Nothing is assumed of the stream, the graders or the operator.

## 5. Proofs

`tlapm M.tla` for `M` = `AdminAnalyticsProofs`, `AnalyticsEngineProofs`,
`LiveBrokerProofs`, `IngestorProofs`, `BetPathProofs`, `WebStreamProofs`,
`ConsoleProofs` and `DeskProofs`.

**Paper broker** (assumption: `ConstantsAssumption`, the types of the bounds and
`NoMatch \notin Match`). `TypeCorrect` is inductive alone. `GradedOnFinalScore`
and `NoOrderLost` are not: the ledger is right only because what
the graders are about to write to it is. `IInv` says so, part by part:

* `KnownOrders` – whatever is in the hash, in a batch or in the sweep's local
  variables was placed;
* `FramesSound` – a FULLTIME frame in the inbox, and a hash whose clock says
  FULLTIME, carry a score of `finals`;
* `JobsSound` – a batch under way is of one match and, if it claims to be
  verified, has a final score of it;
* `LedgerSound` – the same of every entry;
* `RecordedJobs` – while no command failed, a batch past its second step is in
  the ledger, so that the HDEL of the fourth loses nothing.

`GradersSettleOnce` rests on `GradedOnce`: while nothing crashed or failed, what an
idle grader finds in the hash, and what a busy one has not recorded yet, is not in
the ledger under its name. `DashboardAgrees` adds up: `CountInv` says of each
counter that the hash has the entries of the ledger and what the jobs have
incremented and not recorded, and, after a crash, at least that. An increment is a
number of orders and an XADD as many entries (`EntriesCounted`: one entry for
every order of a batch), so both sides of the sum move by the same cardinality.

`AdminAnalyticsProofs!Refinement` shows from `IInv` that every step maps to a step
of `OrderBook` or to a stutter: an order is pending while it is in the hash, and
reported when it is in the ledger. It is stated for behaviours without a failing
Redis command, since a failed XADD followed by a successful HDEL removes an order
without a report.

**Maintenance handlers** (assumptions: `ConstantsAssumption` and `AdminAssumption`:
requests and old entries are finitely many, and an old entry is void, numbered
before all others, the only one of its order, which is not placed again).
`HashCountsLedger` fails as soon as a command does, so nothing of its invariant can
be used after a repair; `DashInv` starts anew from what a request knows:

* `AloneInv` – a request that has met nobody runs while every grader is idle and
  no other request is under way;
* `ReadInv` – so the ledger is still what it has read when it comes to write
  (`"write"`), and the hash still zero when it comes to delete the ledger (`"ledger"`);
* `TrustInv` – while the hash is trusted, every request is of this kind, and
  between requests `HashAgrees`: hash = ledger + what is in flight.

The count a repair writes is that of the graders (`RecountAgrees`): an entry is won,
lost, void or unresolved, and both sides count the last two as void. From there
every step of a grader keeps the sum (`CountKept`). `RegradeConserves` needs to say
where a bet is while a regrade holds it (`BetsInv`): either it has its one entry in
the ledger (`OneVerdict`), or the ledger has none and the request has it
(`Regrading`); what a prune has chosen is unresolved (`Choice`), so it never takes
such a bet.

**Analytics engine** (assumption: `EngineAssumption`). `OneOrderPerCycle` needs
`ClaimsHeld` (what was claimed since the last release, published or about to be,
is in the gate) and `ClaimsDistinct` (no two workers are about to publish an
order for one position); `OnePerCycle` proves it for any number of workers,
matches, markets and queue slots. `WindowsOfLiveMatches` needs `LastFrameQueued`:
when the last frame of a match was FULLTIME, a FULLTIME frame waits behind every
frame of it in the queue, so a window that a late LIVE frame opens is closed again.

**Live broker** (assumptions: `LiveBrokerAssumption`, `MockVendorAssumption`,
which says that the commands are finitely many). Nobody keeps a list of settled
orders, so `OneWhereabouts` rests on the past of
each command. `SentOnce` says that a call whose order is in the book, in a
settlement or graded has left the phases in which an order could still be sent,
on both ends of its connection; `QueuedOnce` that the subscription's buffer
holds a command once, and before its dial. Neither mentions order ids, which
repeat when the vendor restarts. That ids stay in their type is a count
(`TypeInv`): the mock has handed out no more than there are calls whose order has
left its connection. `StoreInv` says that the queue holds no id twice and the store
nothing else, so the store is as large as the queue is long, and `HashInv`
that hash and base plus session differ by the frame that settleLoop has graded and
not written, if any.

**Ingestor** (assumptions: `BoardAssumption`, `IngestorAssumption`). For the two
bookmaker pollers, what is known of a match only falls behind it: the board behind
the match, the listing behind the board, what the poller remembers behind both,
and what was told behind all of them. For API-Football a match that is over does
not change; the vendor sends nothing after its FULLTIME frame. `IInv` says so for
the source that runs:

* `Typed` – types of the variables of all four;
* `BoardSound` – board, listing and what was told fall behind the match, and
  FULLTIME frames are about late matches;
* `HelabetSound`, `BetpawaSound` – so does what they remember (`Remembered`); a
  match that Helabet closed is settled and not remembered;
* `ApiSound` – a final score of the day is of a match that is over; `ApiFed` –
  without extra time a match that was closed is neither live nor tracked;
* `StreamSound` – the frames under way, then the rest of the reel, do not fall,
  and FULLTIME is the last.

`FeedRefinement` then maps every step of each source to a step of `MatchFeed` or
to a stutter. Its hypothesis `~ExtraTime` is the setting of the run, and is needed:
after extra time the API-Football poller does close a match twice.
`FinalsOfGone` follows a tick of Helabet (`GoneInv`): a listed row that was not yet
seen is still to be handled, so what is unseen when the rows are through was not
listed.

**Momentum study** (assumption: `StudyAssumption`). `GuardSound` says that the
guard remembers the largest value of each counter that this life of the engine has
seen, `WindowSound` that a window holds live frames of its match after its last
FULLTIME and nothing above the guard, `LivesKnown` that no snapshot is of a later
life. `RatioKept` follows from `LargestSeen` alone: if every frame has no more
shots on target than shots, so have the two maxima, although they can come from
different frames. For `FirstCycleReplay` both the engine and the calibration
are folds over the stream: of the frames a life has handled, by the times of the
workers, and of those of a cycle, by the times of receipt. `EngineFolds` says that what
the engine saw is the first fold, and `KickoffsGrow` that cycles do not overlap; in a
first cycle that is complete the two fold the same frames. The counters of both folds
are the guard's, which looks at no clock. If no delay moves a frame over an edge, the
windows of one are those of the other with the later times (`Delayed`), which every
frame keeps so (`DelayedNext`), and such windows have one snapshot
(`DelayedSnapshot`).

**Bet path** (assumptions: `PathAssumption` and those of its parts). `BestVerdict`
is arithmetic: the order of the edges, fractions over the prices, is transitive
because an eligible price is not zero, so the leg that is kept by pairs has the
largest edge of all, and a leg with a smaller edge does not clear the slack
alone. The rest is about engine and executor together. `EngineInPath` and
`BrokerInPath` show that each behaves in the path as in its own module, so that
the invariants proved there (`OneEngine!Invariance`, `OneBroker!Invariance`)
hold here; the second needs that the channel of orders carries only envelopes the
broker takes (`Buffered`). `OneBroker` is the executor of `AdminAnalyticsProofs` with
no caller of the maintenance handlers. On top of them:

* `WireInv` – queue, orders and bets answer frames of the reel, an order a LIVE
  frame, and no order is placed twice;
* `ReleaseInv` – the releases of a match, its FULLTIME frames in the queue and the
  workers that publish their audits are together no more than its FULLTIME
  frames. By `OneOrderPerCycle` the bets of a market in one life of the engine map
  one to one to the cycles between releases, which gives `BetsPerFullTime`;
* `SweepInv` – a match hash that says FULLTIME has the score of a FULLTIME frame
  after every LIVE frame of its match, because frame and hash are
  written in one transaction; what the sweep has read stays true of the reel, which
  only grows. That gives `SweepOnOwnCycle`.

**Web interface** (assumptions of `WebRelay` and `LiveGrid`). `OnlineIsOpen` needs
that a tab has at most one socket it still listens to (`Attached`): whatever
makes it connect, a timer, a reload or a login, comes after the end of the socket
before, and a tab that waits or asks for the secret has none. `EventsInOrder` rests
on where an event can be: everything the relay has forwarded is older than
what waits for it (`Behind`), a pipe is in order (`PipeInv`), and what a page shows
of a channel is older than what is on its way to it (`ListInv`). So a new socket
starts behind all that any page has seen. A step either only shortens pipes
(`Quiet`), or puts a message at their ends, or moves the head of one pipe to a page.
`TimersOfFlashes` follows the chips of the cards (`ChipInv`): a chip that is lit
without a timer is at the price it saw first.

`StreamTypes` is inductive once the types of relay, pages and grid say which frames
and prices there are (`Typed`, `GridTyped`). `NewestFirst` needs `Latest`, because the
definition of `GridIsLatest` counts and a step has to know which card it moves:

* `WireInv` – what waits in the socket rises, and is newer than all that the page
  has heard of;
* `ToldInv` – a frame the page has heard of is of its match, and no two matches have
  the same;
* `CardsInv` – every card is the newest frame of its match that came, cards fall
  strictly, and a match without a card has left a full page of newer ones behind.

Then the card at position `k` has exactly `k - 1` newer matches, because the positions
above it map one to one to those matches (`LaterOfCard`). `CardsTellPrices` follows
from the types alone: the counter is a recursive sum, a chip belongs to one card, and
a card has three for each market, so sum and set of chips grow together
(`MarketsCounted`); of the priced legs a cheapest exists, and the leader is the first
of them (`LeaderAgrees`).

**Operator console** (assumption: `AdminConsoleAssumption`). The five reads of a request
and the three writes of a settlement go through one connection in the order in which
they were issued, so `StatsAreCurrent` is a matter of what stands before what in
that queue. `ConsoleTypes` gives the shape of queue, polls and answers; `ConsoleInv`
the rest:

* `QueueInv` – the times in the queue rise and are not above what was published, and
  what waits in the inbox is behind all of it;
* `PageInv` – what a page has seen of won and lost is at most what the relay heard;
* `Counts` – as long as no write was dropped, the ledger and what the queue still
  adds to it are what the relay heard;
* `Told` – a settlement on a page, or on its way there, is counted or has its writes
  in the queue;
* `PollsInv` – a read that is queued stands behind the writes of all that the page had
  seen when it asked (`Promise`), an answer keeps that until it is shown;
* `PanelInv` – so does the panel.

Sums over the queue and the list are recursive functions; `Due(s, r, k)` is what the
first `k` commands add to a counter, and running one moves its part from the sum to
the ledger (`CountsOfTail`). The list of the page is cut to its bound, which only
makes its sum smaller.

**Signal desk** (assumption: `SignalDeskAssumption`). `TypeOK` says that no order is
twice in the queue of the desk, that the table shows only entries the ledger has had,
and a card *placed* only if the log has the placement. It says nothing of that
kind of the ledger: there an order may be twice, and entries go. So `DeskInv` rests on
what only grows, the orders that were filled, the entries the ledger has had
(`entered`) and the log:

* `RedisInv` – hash, ledger and log are of these;
* `GradeInv` – what graders and regrades hold was filled;
* `StreamInv`, `PageInv` – so is what is on the stream, and what the page shows is of
  the three;
* `LoadInv` – every list of a poll under way was true when it was read and stays so
  (`Truthful`, `TruthGrows`), and names no order twice;
* `PostInv` – a POST that is recorded is in the log;
* `BudgetInv` – what is left of the bounds.

What a seed or a signal does to the queue is `WithoutKeeps` (the entries left are
distinct and none is of the set) and `JoinedKeeps` (one list after the other).

| Theorem | States, for all constants |
|---|---|
| `AdminAnalyticsProofs!TypeCorrect` | `Spec => []TypeOK` |
| `AdminAnalyticsProofs!GradedOnFinal` | `Spec => []GradedOnFinalScore` |
| `AdminAnalyticsProofs!OrdersKept` | `Spec => []NoOrderLost` |
| `AdminAnalyticsProofs!GradersSettleOnce` | `Spec => []OncePerGrader` |
| `AdminAnalyticsProofs!DashboardAgrees` | `Spec => []HashCountsLedger` |
| `AdminAnalyticsProofs!Refinement` | `Spec /\ [](faults = 0) => ImplementsOrderBook` |
| `AdminAnalyticsProofs!AloneRepairs` | `AdminSpec => []DashboardTrusted` |
| `AdminAnalyticsProofs!RegradeKeepsBets` | `AdminSpec => []RegradeConserves` |
| `AnalyticsEngineProofs!TypeCorrect` | `Spec => []TypeOK` |
| `AnalyticsEngineProofs!OnePerCycle` | `Spec => []OneOrderPerCycle` |
| `AnalyticsEngineProofs!WindowsGivenBack` | `Spec => []WindowsOfLiveMatches` |
| `LiveBrokerProofs!SettledOnce` | `Spec => []OneWhereabouts` |
| `LiveBrokerProofs!TypesOfBroker` | `Spec => []TypeOK` |
| `LiveBrokerProofs!StoreIsQueue` | `Spec => []StoreMatchesQueue` |
| `LiveBrokerProofs!HashIsSession` | `Spec => []HashIsBaseAndSession` |
| `IngestorProofs!TypeCorrect` | `Spec => []TypeOK` |
| `IngestorProofs!FinalsDue` | `Spec => []FinalsAreDue` |
| `IngestorProofs!FinalsOfGone` | `Spec => FinalsOfGoneMatches` |
| `IngestorProofs!FeedRefinement` | `~ExtraTime => (Spec => ImplementsMatchFeed)` |
| `BetPathProofs!TypeCorrect` | `Spec => []TypeOK` |
| `BetPathProofs!LargestSeen` | `Spec => []TotalsAreLargestSeen` |
| `BetPathProofs!OneCycleWindows` | `Spec => []WindowSinceFullTime` |
| `BetPathProofs!RatioKept` | `Spec => []AccuracyIsARatio` |
| `BetPathProofs!FirstCycleReplay` | `Spec => []FirstCycleReplays` |
| `BetPathProofs!BestVerdict` | `PathSpec => []VerdictIsBest` |
| `BetPathProofs!EngineInPath` | `PathSpec => Orders!Engine!Spec` |
| `BetPathProofs!BrokerInPath` | `PathSpec => Orders!Paper!Spec` |
| `BetPathProofs!BetsPerFullTime` | `PathSpec => []OneBetPerFullTime` |
| `BetPathProofs!SweepOnOwnCycle` | `PathSpec => []SweepGradesOwnCycle` |
| `WebStreamProofs!OnlineIsOpen` | `FairStreamSpec => []ConnectedMeansOpen` |
| `WebStreamProofs!EventsInOrder` | `FairStreamSpec => []ShownInOrder` |
| `WebStreamProofs!TimersOfFlashes` | `FairStreamSpec => []FlashesEnd` |
| `WebStreamProofs!StreamTypes` | `FairStreamSpec => []StreamTypeOK` |
| `WebStreamProofs!NewestFirst` | `FairStreamSpec => []GridIsLatest` |
| `WebStreamProofs!CardsTellPrices` | `FairStreamSpec => []CardsAgree` |
| `ConsoleProofs!ConsoleTypes` | `Spec => []TypeOK` |
| `ConsoleProofs!StatisticsAreCurrent` | `Spec => []StatsAreCurrent` |
| `DeskProofs!DeskTypes` | `Spec => []TypeOK` |

**Two ways around induction.** Induction theorems that take an operator cannot be
instantiated by the provers. Where a proof needs induction over numbers
it takes the set of numbers for which the claim fails and its least element
(`NatLessThanWellFounded`); where it needs a recursive function it defines it on
the numbers up to a bound and shows that it goes on with one more. The filters and
sums of `LiveGrid`, `AdminConsole` and `SignalDesk` are such functions, because the
provers know no facts of `SelectSeq` and of the folds.

**Only model-checked**: liveness (fairness and ENABLED are out of the prover's
reach). Every invariant of the runs is proved.

## 6. Not modelled

* Totals of the PnL report on the signal desk, the session hash and the metrics of
  the fit in `/api/stats`: read-only copies no protocol depends on. The lookup hash
  and broadcast of placements have no reader in the repository.
* The stream client's validation (`parseFrame`): the mock vendor, the only vendor
  the repository knows, sends no frame that it refuses.
* The features computed from a snapshot, the logistic score, the drift record of
  an audit and the regression of the calibration: formulas in floating point. What
  is made of them, the choice of a leg and the verdict, is in `TriggerRule`.
* The adoption of fitted weights and their file: one sequential script.
* Signatures of the trade connection, taken as valid.
* The ledger's MaxLen and the queue sizes of the code: reached only in scaled
  form (`InboxSize`, `MaxQueue`, `Cap`, `Limit`), or not at all (MaxLen).
* `CommandsLog`, `DiagnosticsLog` and the layout of the frontend, which lay out
  lists that the modules carry; the scripts and the CI.

## 7. Plan

What could follow, in this order:

1. The pipeline with the sources of `Ingestor` in the place of arbitrary frames,
   on matches that are played once: there a bet can be graded on no other cycle,
   and a second bet needs a restart of the engine.
2. Clock parsing of the three pollers and the adoption rule of the calibration
   against reference definitions.
