--------------------------- MODULE TradingPipeline ---------------------------
(***************************************************************************)
(* The way of a bet through three processes: the ingestor publishes a      *)
(* frame (data-ingestion-go cache/redis.go), the analytics engine answers  *)
(* it with an order (analytics-engine-py main.py), the executor logs the   *)
(* order and grades it (execution-engine-go interfaces.go).  Engine and    *)
(* broker are the modules of their own runs; here they hear the same       *)
(* frames, each at its own pace, and a channel carries the orders.         *)
(*                                                                         *)
(* Abstraction: an order is the identifier of its fill; the buffer of the  *)
(* commands' subscription is not filled.                                   *)
(***************************************************************************)
EXTENDS Naturals, Sequences, FiniteSets

CONSTANTS
  Match, Market,
  Worker, MaxQueue,               \* see AnalyticsEngine
  NoMatch, Scores, HasKickoff, InboxSize,   \* see PaperBroker
  Side,                           \* the side of every bet
  MaxFrames,                      \* bound: frames of the ingestor
  MaxCrashes,                     \* bound: crashes of engine and executor
  MaxFaults                       \* bound: failing publishes, and failing commands

VARIABLES
  reel,        \* history: the frames published so far
  commands,    \* execution:commands, buffered for CommandRunLoop
  queue, dropped, worker, open, windows, engineUp, emitted, diagnosed, released,
  last, published, engineCrashes, engineFaults,   \* AnalyticsEngine
  paperOrders, matchHash, kickoffOld, inbox, job, sweep, cycle, session, pnl, ledger,
  nextXid, snapshot, up, placed, finals, frames, crashes, faults   \* PaperBroker

engineVars == <<queue, dropped, worker, open, windows, engineUp, emitted, diagnosed,
                released, last, published, engineCrashes, engineFaults>>
paperVars  == <<paperOrders, matchHash, kickoffOld, inbox, job, sweep, cycle, session,
                pnl, ledger, nextXid, snapshot, up, placed, finals, frames, crashes,
                faults>>
vars == <<reel, commands, engineVars, paperVars>>

Engine == INSTANCE AnalyticsEngine WITH
  up <- engineUp, cycle <- released, crashes <- engineCrashes, faults <- engineFaults

Paper == INSTANCE PaperBroker WITH
  OrderId <- Engine!Order, HashExpires <- FALSE

PipelineAssumption == Engine!EngineAssumption /\ Paper!ConstantsAssumption

Init ==
  /\ reel = <<>> /\ commands = <<>>
  /\ Engine!Init /\ Paper!Init

-----------------------------------------------------------------------------
(* PublishMatch: one transaction rewrites the hash and publishes the frame *)
(* to whoever is subscribed.                                               *)
Publish(m, clock, score) ==
  /\ Paper!PublishMatch(m, clock, score) /\ Engine!Listen(m, clock)
  /\ reel' = Append(reel, [match |-> m, clock |-> clock, score |-> score])
  /\ UNCHANGED commands

(* A worker's order goes to the executor if that is subscribed.            *)
Emit(w, ok, delivered) ==
  /\ Engine!Emit(w, ok, delivered)
  /\ commands' = IF delivered /\ up THEN Append(commands, worker[w].order) ELSE commands
  /\ UNCHANGED <<reel, paperVars>>

EngineAlone ==
  /\ \/ \E w \in Worker : \/ Engine!Take(w)
                          \/ \E ok, delivered \in BOOLEAN : Engine!Diagnose(w, ok, delivered)
     \/ Engine!Restart
  /\ UNCHANGED <<reel, commands, paperVars>>

MayCrash == engineCrashes + crashes < MaxCrashes

EngineCrash ==
  /\ MayCrash /\ Engine!Crash
  /\ UNCHANGED <<reel, commands, paperVars>>

(* CommandRunLoop: the next order is placed and logged.                    *)
CommandRunLoop(side, ok) ==
  /\ commands # <<>> /\ commands' = Tail(commands)
  /\ Paper!ExecuteEnvelope(
       [id |-> Head(commands), match |-> Head(commands).match, side |-> side], ok)
  /\ UNCHANGED <<reel, engineVars>>

(* What waits for the process dies with it.                                *)
BrokerCrash ==
  /\ MayCrash /\ Paper!Crash /\ commands' = <<>>
  /\ UNCHANGED <<reel, engineVars>>

BrokerAlone ==
  /\ \/ \E ok \in BOOLEAN : Paper!PaperRunLoop(ok) \/ Paper!StaleSweep(ok)
     \/ \E m \in Match : Paper!KickoffAges(m) \/ Paper!FrameAges(m)
     \/ Paper!Restart
  /\ UNCHANGED <<reel, commands, engineVars>>

Next ==
  \/ \E m \in Match, c \in Paper!Clock, s \in Scores : Publish(m, c, s)
  \/ \E w \in Worker, ok, delivered \in BOOLEAN : Emit(w, ok, delivered)
  \/ \E side \in Side, ok \in BOOLEAN : CommandRunLoop(side, ok)
  \/ EngineAlone \/ EngineCrash \/ BrokerAlone \/ BrokerCrash

Spec == Init /\ [][Next]_vars

-----------------------------------------------------------------------------
(* FULLTIME frames of a match, and those after the frame a bet answers.    *)
FullTimes(m) == {i \in DOMAIN reel : reel[i].match = m /\ reel[i].clock = "FULLTIME"}

FinalsAfter(order) == {i \in FullTimes(order.match) : order.n < i}

GradedOnOwnFinal(e) ==
  e.result # "unresolved" => \E i \in FinalsAfter(e.fill.id) : reel[i].score = e.score

(* A match is played again under its identifier.  The sweep never grades a *)
(* bet on the score of a cycle that was over before the bet: between its   *)
(* two reads of the hash new cycles may begin and end, but a live frame is *)
(* in the hash before the engine can answer it (interfaces.go:199-203,     *)
(* :294-298, redis.go:92-107).                                             *)
SweepGradesOwnCycle ==
  \A e \in ledger : e.source = "stale_sweep" => GradedOnOwnFinal(e)

(* The gate holds end to end: however the frames of a match are spread     *)
(* over the workers and wherever a frame, an order or the executor is      *)
(* lost, a market gets no more bets in the life of an engine than one, and *)
(* one for every FULLTIME frame of its match (position_gate.py:12-27).     *)
Bets(m, k, life) == {f \in placed : f.match = m /\ f.id.market = k /\ f.id.life = life}

OneBetPerFullTime ==
  \A m \in Match, k \in Market, life \in 0..engineCrashes :
    Cardinality(Bets(m, k, life)) <= 1 + Cardinality(FullTimes(m))
=============================================================================
