-------------------------- MODULE AnalyticsEngine --------------------------
(***************************************************************************)
(* The event broker of analytics-engine-py (src/main.py) with its position *)
(* gate (src/position_gate.py).  One asyncio process: a listener puts the  *)
(* frames of matches:live on a bounded queue, worker tasks take them off,  *)
(* settle and release a match on FULLTIME, and publish an order for every  *)
(* market whose verdict says so and whose position is free.                *)
(*                                                                         *)
(* A task runs alone until it awaits something that suspends it, which is  *)
(* only an empty queue or a publish: gate_lock is never held across one,   *)
(* so it never suspends.  An action is the code from one such await to the *)
(* next.                                                                   *)
(*                                                                         *)
(* Abstractions: the verdict of the filter engine and the outcome of an    *)
(* audit are any set of markets; the momentum window of a match is there   *)
(* or not.                                                                 *)
(***************************************************************************)
EXTENDS Naturals, Sequences

CONSTANTS
  Match,       \* match identifiers
  Market,      \* scoped markets of a match
  Worker,      \* worker tasks (4 in the code)
  MaxQueue,    \* size of the frame queue (4096 in the code)
  MaxFrames,   \* bound: frames on the channel
  MaxCrashes,  \* bound: crashes of the engine
  MaxFaults    \* bound: publishes that raise

ASSUME EngineAssumption ==
  /\ MaxQueue \in Nat /\ MaxFrames \in Nat
  /\ MaxCrashes \in Nat /\ MaxFaults \in Nat

VARIABLES
  queue,       \* AnalyticsBroker.frames
  dropped,     \* AnalyticsBroker.dropped
  worker,      \* what each worker task is suspended on
  open,        \* PositionGate._open: the keys (match, market)
  windows,     \* FeatureStudy._windows: matches with a momentum window
  up,          \* is the engine running?
  emitted,     \* history: orders published on execution:commands
  diagnosed,   \* history: audits published on diagnostics:events
  cycle,       \* history: how often each match was released
  last,        \* history: clock of the last frame of each match that was queued
  published, crashes, faults   \* counters behind the bounds

processVars == <<queue, dropped, worker, open, windows, up>>
feedVars    == <<last, published>>
vars        == <<processVars, feedVars, emitted, diagnosed, cycle, crashes, faults>>

-----------------------------------------------------------------------------
(* HT stands for the frames nothing happens on: half time, no market.      *)
Clock == {"LIVE", "HT", "FULLTIME"}
Frame == [n : Nat, match : Match, clock : Clock]
Key   == Match \X Market
Order == [n : Nat, match : Match, market : Market, cycle : Nat, life : Nat]

NoTask == [step |-> "idle"]
Task   == [step : {"idle"}]
          \cup [step : {"diagnose"}, match : Match, todo : SUBSET Market]
          \cup [step : {"publish"}, order : Order, todo : SUBSET Market]

Idle(w) == worker[w].step = "idle"

Init ==
  /\ queue = <<>> /\ dropped = 0
  /\ worker = [w \in Worker |-> NoTask]
  /\ open = {} /\ windows = {}
  /\ up = TRUE
  /\ emitted = {} /\ diagnosed = {}
  /\ cycle = [m \in Match |-> 0]
  /\ last = [m \in Match |-> "none"]
  /\ published = 0 /\ crashes = 0 /\ faults = 0

(* A publish returns, or raises within the bound on faults; one that       *)
(* raised may have been delivered all the same.                            *)
PublishCall(ok, delivered) ==
  /\ ok => delivered
  /\ ok \/ faults < MaxFaults
  /\ faults' = IF ok THEN faults ELSE faults + 1

(* run: the listener queues a frame, or drops it when the queue is full.   *)
(* Nobody keeps a frame for an engine that is down.                        *)
Listen(m, clock) ==
  LET frame  == [n |-> published + 1, match |-> m, clock |-> clock]
      queued == up /\ Len(queue) < MaxQueue
  IN  /\ published < MaxFrames
      /\ published' = published + 1
      /\ queue' = IF queued THEN Append(queue, frame) ELSE queue
      /\ last' = IF queued THEN [last EXCEPT ![m] = clock] ELSE last
      /\ dropped' = IF up /\ ~queued THEN dropped + 1 ELSE dropped
      /\ UNCHANGED <<worker, open, windows, up, emitted, diagnosed, cycle,
                     crashes, faults>>

-----------------------------------------------------------------------------
(* PositionGate.release: close every position of the match.                *)
Release(m) ==
  /\ open' = {k \in open : k[1] # m}
  /\ cycle' = [cycle EXCEPT ![m] = @ + 1]

(* Mutant: the worker task ends with its frame, or with a failed publish.   *)
Die(w) == worker' = [worker EXCEPT ![w] = [step |-> "dead"]]

Finish(w) == worker' = [worker EXCEPT ![w] = NoTask]

(* "never kill the listener loop": the exception ends the frame only.      *)
Abandon(w) == worker' = [worker EXCEPT ![w] = NoTask]

(* Mutant: the gate is consulted before the publish and marked after it.    *)
CheckThenAct(w, m, n, todo) ==
  LET free == {k \in todo : <<m, k>> \notin open}
  IN  /\ open' = IF worker[w].step = "publish"
                    THEN open \cup {<<worker[w].order.match, worker[w].order.market>>}
                    ELSE open
      /\ \/ free = {} /\ Finish(w)
         \/ \E k \in free : worker' = [worker EXCEPT ![w] =
              [step |-> "publish", todo |-> free \ {k},
               order |-> [n |-> n, match |-> m, market |-> k,
                          cycle |-> cycle[m], life |-> crashes]]]

(* The loop over the snapshots that should execute, up to the next publish *)
(* or its end: try_acquire passes over the markets whose position is open  *)
(* and claims the first free one.  The order of the markets is arbitrary.  *)
Trigger(w, m, n, todo) ==
  LET free == {k \in todo : <<m, k>> \notin open}
  IN  \/ /\ free = {}
         /\ Finish(w)
         /\ UNCHANGED open
      \/ \E k \in free, gated \in SUBSET (todo \ free) :
           /\ open' = open \cup {<<m, k>>}
           /\ worker' = [worker EXCEPT ![w] =
                [step |-> "publish", todo |-> todo \ (gated \cup {k}),
                 order |-> [n |-> n, match |-> m, market |-> k,
                            cycle |-> cycle[m], life |-> crashes]]]

(* observe_many and evaluate: a live frame extends the match's window, and *)
(* the filter triggers on some of its markets.                             *)
Observe(w, f, triggers) ==
  /\ f.clock = "LIVE"
  /\ windows' = windows \cup {f.match}
  /\ Trigger(w, f.match, f.n, triggers)
  /\ UNCHANGED cycle

(* Mutant: the window survives as long as the audits are being published.   *)
SettleLate(w, f, lost) ==
  /\ f.clock = "FULLTIME"
  /\ IF lost = {} THEN Release(f.match) /\ Finish(w) /\ windows' = windows \ {f.match}
     ELSE /\ worker' = [worker EXCEPT ![w] =
               [step |-> "diagnose", match |-> f.match, todo |-> lost]]
          /\ UNCHANGED <<open, cycle, windows>>

(* collect_settled and audit: the window goes, and every market on which   *)
(* the longest odds lost is to be published before the release.            *)
Settle(w, f, lost) ==
  /\ f.clock = "FULLTIME"
  /\ windows' = windows \ {f.match}
  /\ IF lost = {} THEN Release(f.match) /\ Finish(w)
     ELSE /\ worker' = [worker EXCEPT ![w] =
               [step |-> "diagnose", match |-> f.match, todo |-> lost]]
          /\ UNCHANGED <<open, cycle>>

(* A worker takes the next frame off the queue.                            *)
Take(w) ==
  LET f == Head(queue)
  IN  /\ up /\ Idle(w) /\ queue # <<>>
      /\ queue' = Tail(queue)
      /\ \/ f.clock = "HT" /\ UNCHANGED <<worker, open, windows, cycle>>
         \/ \E markets \in SUBSET Market : Observe(w, f, markets) \/ Settle(w, f, markets)
      /\ UNCHANGED <<dropped, up, feedVars, emitted, diagnosed, crashes, faults>>

(* The publish of one audit, and after the last one the release.           *)
Diagnose(w, ok, delivered) ==
  /\ up /\ worker[w].step = "diagnose"
  /\ PublishCall(ok, delivered)
  /\ \E k \in worker[w].todo :
       /\ diagnosed' = IF delivered THEN diagnosed \cup {<<worker[w].match, k>>}
                                     ELSE diagnosed
       /\ IF ~ok THEN Abandon(w) /\ UNCHANGED <<open, cycle>>
          ELSE IF worker[w].todo = {k} THEN Release(worker[w].match) /\ Finish(w)
          ELSE worker' = [worker EXCEPT ![w].todo = @ \ {k}] /\ UNCHANGED <<open, cycle>>
  /\ UNCHANGED <<queue, dropped, windows, up, feedVars, emitted, crashes>>

(* The publish of an order, and the loop's next trigger.                   *)
Emit(w, ok, delivered) ==
  LET order == worker[w].order
  IN  /\ up /\ worker[w].step = "publish"
      /\ PublishCall(ok, delivered)
      /\ emitted' = IF delivered THEN emitted \cup {order} ELSE emitted
      /\ IF ok THEN Trigger(w, order.match, order.n, worker[w].todo)
               ELSE Abandon(w) /\ UNCHANGED open
      /\ UNCHANGED <<queue, dropped, windows, up, feedVars, diagnosed, cycle, crashes>>

-----------------------------------------------------------------------------
(* The process dies and is started again: all of its state was in memory.  *)
Crash ==
  /\ up /\ crashes < MaxCrashes
  /\ crashes' = crashes + 1
  /\ up' = FALSE
  /\ queue' = <<>> /\ dropped' = 0
  /\ worker' = [w \in Worker |-> NoTask]
  /\ open' = {} /\ windows' = {}
  /\ UNCHANGED <<feedVars, emitted, diagnosed, cycle, faults>>

Restart ==
  /\ ~up
  /\ up' = TRUE
  /\ UNCHANGED <<queue, dropped, worker, open, windows, feedVars, emitted,
                 diagnosed, cycle, crashes, faults>>

WorkerStep(w) ==
  \/ Take(w)
  \/ \E ok, delivered \in BOOLEAN : Diagnose(w, ok, delivered) \/ Emit(w, ok, delivered)

Next ==
  \/ \E m \in Match, clock \in Clock : Listen(m, clock)
  \/ \E w \in Worker : WorkerStep(w)
  \/ Crash
  \/ Restart

Spec == Init /\ [][Next]_vars

-----------------------------------------------------------------------------
(* Properties *)

TypeOK ==
  /\ queue \in Seq(Frame)
  /\ dropped \in Nat
  /\ worker \in [Worker -> Task]
  /\ open \subseteq Key
  /\ windows \subseteq Match
  /\ up \in BOOLEAN
  /\ emitted \subseteq Order
  /\ diagnosed \subseteq Key
  /\ cycle \in [Match -> Nat]
  /\ last \in [Match -> Clock \cup {"none"}]
  /\ published \in Nat /\ crashes \in Nat /\ faults \in Nat

(* "Prevents the engine from re-sending an identical order every frame     *)
(* while a market is already exposed" (position_gate.py:2-3): between two  *)
(* releases of a match, and as long as the engine lives, a market gets at  *)
(* most one order, whichever workers hold its frames.                      *)
OneOrderPerCycle ==
  \A a, b \in emitted :
    /\ a.match = b.match /\ a.market = b.market
    /\ a.cycle = b.cycle /\ a.life = b.life
    => a = b

(* The memory of a finished match is given back: a momentum window belongs *)
(* to a match whose last queued frame is not FULLTIME, or whose FULLTIME   *)
(* is still waiting in the queue, even when the publish of an audit raises *)
(* (main.py:138-148, feature_study.py:246-247).                            *)
WindowsOfLiveMatches ==
  \A m \in windows :
    \/ last[m] # "FULLTIME"
    \/ \E i \in DOMAIN queue : queue[i].match = m /\ queue[i].clock = "FULLTIME"

(* "the FULLTIME frame resets all of a match's positions so the next cycle *)
(* can trade again" (position_gate.py:3-4): once everything queued is      *)
(* handled, and nothing was dropped or raised, a match whose last frame is *)
(* FULLTIME has no open position.                                          *)
FullTimeResetsPositions ==
  queue = <<>> /\ (\A w \in Worker : Idle(w)) /\ dropped = 0 /\ faults = 0 =>
    \A k \in open : last[k[1]] # "FULLTIME"

-----------------------------------------------------------------------------
(* The inductive invariant behind OneOrderPerCycle: whatever was claimed   *)
(* since the last release, published or about to be, is in the gate, and   *)
(* no two claims are for the same position.                                *)
Publishing(w) == worker[w].step = "publish"

Current(o) == o.cycle = cycle[o.match] /\ o.life = crashes

SamePosition(a, b) ==
  /\ a.match = b.match /\ a.market = b.market
  /\ a.cycle = b.cycle /\ a.life = b.life

NoFuture(o) == o.cycle <= cycle[o.match] /\ o.life <= crashes

ClaimsHeld ==
  /\ \A o \in emitted : Current(o) => <<o.match, o.market>> \in open
  /\ \A w \in Worker : Publishing(w) /\ Current(worker[w].order) =>
       <<worker[w].order.match, worker[w].order.market>> \in open
  /\ \A o \in emitted : NoFuture(o)
  /\ \A w \in Worker : Publishing(w) => NoFuture(worker[w].order)

ClaimsDistinct ==
  /\ \A v, w \in Worker : Publishing(v) /\ Publishing(w) /\ v # w =>
       ~SamePosition(worker[v].order, worker[w].order)
  /\ \A w \in Worker : Publishing(w) =>
       \A o \in emitted : ~SamePosition(o, worker[w].order)

IInv == TypeOK /\ ClaimsHeld /\ ClaimsDistinct /\ OneOrderPerCycle

(* The inductive invariant behind WindowsOfLiveMatches: a match whose last *)
(* queued frame is FULLTIME has that frame behind every other one that the *)
(* queue still holds of it.                                                *)
FullTimeQueuedFrom(i, m) ==
  \E j \in i..Len(queue) : queue[j].match = m /\ queue[j].clock = "FULLTIME"

LastFrameQueued ==
  \A i \in 1..Len(queue) :
    last[queue[i].match] = "FULLTIME" => FullTimeQueuedFrom(i, queue[i].match)

WindowInv == WindowsOfLiveMatches /\ LastFrameQueued

-----------------------------------------------------------------------------
(* The event loop runs every task that can run, and a publish returns or   *)
(* raises in the end.                                                      *)
FairSpec == Spec /\ \A w \in Worker : WF_vars(WorkerStep(w)) /\ WF_vars(Restart)

(* "never kill the listener loop" (main.py:186): whatever raises, the      *)
(* workers go on until the queue is empty.                                 *)
QueueDrains == queue # <<>> ~> queue = <<>>
=============================================================================
