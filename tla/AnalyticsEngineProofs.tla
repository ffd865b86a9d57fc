------------------------ MODULE AnalyticsEngineProofs ------------------------
(***************************************************************************)
(* Proof that the position gate keeps one order per market and cycle, for  *)
(* every set of matches, markets and workers and every bound.              *)
(***************************************************************************)
EXTENDS AnalyticsEngine, TLAPS

(* The order a worker claims for market k on frame n of match m.           *)
Claim(n, m, k) ==
  [n |-> n, match |-> m, market |-> k, cycle |-> cycle[m], life |-> crashes]

(* The order a worker was publishing may have reached the channel.         *)
Delivered(w) ==
  \A q \in emitted' : q \in emitted \/ (Publishing(w) /\ q = worker[w].order)

Claimed(w, n, m, k, rest) ==
  /\ <<m, k>> \notin open
  /\ open' = open \cup {<<m, k>>}
  /\ worker' = [worker EXCEPT ![w] =
       [step |-> "publish", todo |-> rest, order |-> Claim(n, m, k)]]

LEMMA InitInv == Init => IInv
BY EngineAssumption
   DEF Init, IInv, TypeOK, ClaimsHeld, ClaimsDistinct, OneOrderPerCycle,
       Publishing, NoTask, Task, Clock

(* What the trigger loop does: it ends, or claims a free position.         *)
LEMMA TriggerCases ==
  ASSUME TypeOK, NEW w \in Worker, NEW m \in Match, NEW n \in Nat,
         NEW todo \in SUBSET Market, Trigger(w, m, n, todo)
  PROVE  \/ Finish(w) /\ open' = open
         \/ \E k \in Market, rest \in SUBSET Market : Claimed(w, n, m, k, rest)
<1>1. ASSUME NEW k \in todo, NEW gated,
             <<m, k>> \notin open, open' = open \cup {<<m, k>>},
             worker' = [worker EXCEPT ![w] =
               [step |-> "publish", todo |-> todo \ (gated \cup {k}),
                order |-> Claim(n, m, k)]]
      PROVE  \E l \in Market, rest \in SUBSET Market : Claimed(w, n, m, l, rest)
  <2>1. k \in Market /\ todo \ (gated \cup {k}) \in SUBSET Market
    OBVIOUS
  <2>2. Claimed(w, n, m, k, todo \ (gated \cup {k}))
    BY <1>1 DEF Claimed
  <2> QED BY <2>1, <2>2
<1> QED BY <1>1 DEF Trigger, Claim

(* Workers that publish what they published before stay distinct.          *)
LEMMA KeptDistinct ==
  ASSUME ClaimsDistinct, emitted' = emitted,
         \A v \in Worker : Publishing(v)' => Publishing(v) /\ worker'[v] = worker[v]
  PROVE  ClaimsDistinct'
<1>1. ASSUME NEW u \in Worker, NEW v \in Worker, u # v, Publishing(u)', Publishing(v)'
      PROVE  ~SamePosition(worker'[u].order, worker'[v].order)
  BY <1>1 DEF ClaimsDistinct
<1>2. ASSUME NEW v \in Worker, Publishing(v)', NEW q \in emitted
      PROVE  ~SamePosition(q, worker'[v].order)
  BY <1>2 DEF ClaimsDistinct
<1> QED BY <1>1, <1>2 DEF ClaimsDistinct, SamePosition

(* The order that a worker was publishing differs from those published and *)
(* those that others publish.                                              *)
LEMMA DeliveredDistinct ==
  ASSUME IInv, NEW w \in Worker, Delivered(w), UNCHANGED <<cycle, crashes>>
  PROVE  /\ emitted' \subseteq Order
         /\ OneOrderPerCycle'
         /\ \A q \in emitted' : NoFuture(q)
         /\ \A v \in Worker \ {w} : Publishing(v) =>
              \A q \in emitted' : ~SamePosition(q, worker[v].order)
<1> USE DEF IInv, Delivered
<1>1. Publishing(w) => worker[w].order \in Order
  BY DEF TypeOK, Task, Publishing
<1>2. emitted' \subseteq Order
  BY <1>1 DEF TypeOK
<1>3. ASSUME NEW a \in emitted', NEW b \in emitted', SamePosition(a, b)
      PROVE  a = b
  <2>1. SamePosition(b, a)
    BY <1>3 DEF SamePosition
  <2> QED BY <1>3, <2>1 DEF ClaimsDistinct, OneOrderPerCycle, SamePosition
<1>4. OneOrderPerCycle'
  BY <1>3 DEF OneOrderPerCycle, SamePosition
<1>5. \A q \in emitted' : NoFuture(q)
  BY DEF ClaimsHeld
<1>6. \A v \in Worker \ {w} : Publishing(v) =>
        \A q \in emitted' : ~SamePosition(q, worker[v].order)
  BY DEF ClaimsDistinct
<1> QED BY <1>2, <1>4, <1>5, <1>6

(* A worker that becomes idle disturbs nothing.                            *)
LEMMA FinishInv ==
  ASSUME IInv, up, NEW w \in Worker, Finish(w), open' = open, Delivered(w),
         UNCHANGED <<up, cycle, crashes>>
  PROVE  /\ worker' \in [Worker -> Task] /\ emitted' \subseteq Order
         /\ ClaimsHeld' /\ ClaimsDistinct' /\ OneOrderPerCycle'
<1> USE DEF IInv, TypeOK, Finish
<1>1. worker' \in [Worker -> Task]
  BY DEF NoTask, Task
<1>2. \A v \in Worker : Publishing(v)' => Publishing(v) /\ worker'[v] = worker[v] /\ v # w
  BY DEF Publishing, NoTask
<1>3. ClaimsHeld'
  <2>1. \A q \in emitted' : NoFuture(q)
    BY DeliveredDistinct
  <2>2. \A q \in emitted' : Current(q) => <<q.match, q.market>> \in open'
    BY DEF ClaimsHeld, Delivered
  <2>3. ASSUME NEW v \in Worker, Publishing(v)'
        PROVE  /\ Current(worker'[v].order) =>
                    <<worker'[v].order.match, worker'[v].order.market>> \in open'
               /\ NoFuture(worker'[v].order)
    BY <1>2, <2>3 DEF ClaimsHeld
  <2> QED BY <2>1, <2>2, <2>3 DEF ClaimsHeld, Current, NoFuture
<1>4. ClaimsDistinct'
  <2>1. ASSUME NEW u \in Worker, NEW v \in Worker, u # v, Publishing(u)', Publishing(v)'
        PROVE  ~SamePosition(worker'[u].order, worker'[v].order)
    BY <1>2, <2>1 DEF ClaimsDistinct
  <2>2. ASSUME NEW v \in Worker, Publishing(v)', NEW q \in emitted'
        PROVE  ~SamePosition(q, worker'[v].order)
    BY <1>2, <2>2, DeliveredDistinct
  <2> QED BY <2>1, <2>2 DEF ClaimsDistinct, SamePosition
<1>5. OneOrderPerCycle' /\ emitted' \subseteq Order
  BY DeliveredDistinct
<1> QED BY <1>1, <1>3, <1>4, <1>5

(* A worker that claims a free position disturbs nothing either: what is   *)
(* current is in the gate, so nobody else claims that position.            *)
LEMMA ClaimInv ==
  ASSUME IInv, up, NEW w \in Worker, NEW m \in Match, NEW k \in Market, NEW n \in Nat,
         NEW rest \in SUBSET Market, Claimed(w, n, m, k, rest), Delivered(w),
         UNCHANGED <<up, cycle, crashes>>
  PROVE  /\ worker' \in [Worker -> Task] /\ emitted' \subseteq Order /\ open' \subseteq Key
         /\ ClaimsHeld' /\ ClaimsDistinct' /\ OneOrderPerCycle'
<1> DEFINE o == Claim(n, m, k)
<1> USE DEF IInv, TypeOK, Claimed
<1>1. /\ o \in Order /\ o.n = n /\ o.match = m /\ o.market = k
      /\ o.cycle = cycle[m] /\ o.life = crashes
  BY DEF Claim, Order
<1> HIDE DEF o
<1>2. worker' \in [Worker -> Task] /\ open' \subseteq Key
  BY <1>1 DEF Task, Key, o
<1>3. /\ worker'[w].order = o
      /\ \A v \in Worker \ {w} : worker'[v] = worker[v] /\ (Publishing(v)' <=> Publishing(v))
  BY DEF o, Publishing
<1>4. \A q \in Order : SamePosition(q, o) \/ SamePosition(o, q) =>
        Current(q) /\ <<q.match, q.market>> = <<m, k>>
  BY <1>1 DEF SamePosition, Current
<1>5. /\ \A q \in emitted' : Current(q) => <<q.match, q.market>> \in open
      /\ \A v \in Worker : Publishing(v) /\ Current(worker[v].order) =>
           <<worker[v].order.match, worker[v].order.market>> \in open
      /\ \A v \in Worker : Publishing(v) => NoFuture(worker[v].order)
  BY DEF ClaimsHeld, Delivered
<1>6. emitted' \subseteq Order /\ OneOrderPerCycle' /\ \A q \in emitted' : NoFuture(q)
  BY DeliveredDistinct
<1>7. ClaimsHeld'
  <2>1. \A q \in emitted' : Current(q) => <<q.match, q.market>> \in open'
    BY <1>5
  <2>2. ASSUME NEW v \in Worker, Publishing(v)'
        PROVE  /\ Current(worker'[v].order) =>
                    <<worker'[v].order.match, worker'[v].order.market>> \in open'
               /\ NoFuture(worker'[v].order)
    BY <1>1, <1>3, <1>5, <2>2 DEF Current, NoFuture
  <2> QED BY <1>6, <2>1, <2>2 DEF ClaimsHeld, Current, NoFuture
<1>8. ClaimsDistinct'
  <2>1. \A v \in Worker : Publishing(v) => worker[v].order \in Order
    BY DEF Publishing, Task
  <2>2. ASSUME NEW u \in Worker, NEW v \in Worker, u # v, Publishing(u)', Publishing(v)'
        PROVE  ~SamePosition(worker'[u].order, worker'[v].order)
    BY <1>3, <1>4, <1>5, <2>1, <2>2 DEF ClaimsDistinct
  <2>3. ASSUME NEW v \in Worker, Publishing(v)', NEW q \in emitted'
        PROVE  ~SamePosition(q, worker'[v].order)
    <3>1. CASE v = w
      BY <1>3, <1>4, <1>5, <1>6, <3>1
    <3>2. CASE v # w
      BY <1>3, <2>3, <3>2, DeliveredDistinct
    <3> QED BY <3>1, <3>2
  <2> QED BY <2>2, <2>3 DEF ClaimsDistinct, SamePosition
<1> QED BY <1>2, <1>6, <1>7, <1>8

LEMMA TriggerInv ==
  ASSUME IInv, up, NEW w \in Worker, NEW m \in Match, NEW n \in Nat,
         NEW todo \in SUBSET Market, Trigger(w, m, n, todo), Delivered(w),
         UNCHANGED <<up, cycle, crashes>>
  PROVE  /\ worker' \in [Worker -> Task] /\ emitted' \subseteq Order /\ open' \subseteq Key
         /\ ClaimsHeld' /\ ClaimsDistinct' /\ OneOrderPerCycle'
<1>1. TypeOK
  BY DEF IInv
<1>2. \/ Finish(w) /\ open' = open
      \/ \E k \in Market, rest \in SUBSET Market : Claimed(w, n, m, k, rest)
  BY <1>1, TriggerCases
<1>3. CASE Finish(w) /\ open' = open
  BY <1>1, <1>3, FinishInv DEF TypeOK
<1>4. ASSUME NEW k \in Market, NEW rest \in SUBSET Market, Claimed(w, n, m, k, rest)
      PROVE  /\ worker' \in [Worker -> Task] /\ emitted' \subseteq Order /\ open' \subseteq Key
             /\ ClaimsHeld' /\ ClaimsDistinct' /\ OneOrderPerCycle'
  BY <1>4, ClaimInv
<1> QED BY <1>2, <1>3, <1>4

(* The release of a match begins a new cycle: no claim on it is current.   *)
LEMMA ReleaseInv ==
  ASSUME IInv, NEW w \in Worker, NEW m \in Match, Release(m), Finish(w),
         UNCHANGED <<up, emitted, crashes>>
  PROVE  /\ worker' \in [Worker -> Task] /\ open' \subseteq Key /\ cycle' \in [Match -> Nat]
         /\ ClaimsHeld' /\ ClaimsDistinct' /\ OneOrderPerCycle'
<1> USE DEF IInv, TypeOK, Finish, Release
<1>1. /\ worker' \in [Worker -> Task] /\ open' \subseteq Key /\ cycle' \in [Match -> Nat]
      /\ \A q \in Match : cycle[q] \in Nat /\ cycle'[q] \in Nat
                          /\ (q # m => cycle'[q] = cycle[q]) /\ cycle'[m] = cycle[m] + 1
  BY DEF NoTask, Task
<1>2. \A v \in Worker : Publishing(v)' => Publishing(v) /\ worker'[v] = worker[v]
                                          /\ worker[v].order \in Order
  BY DEF Publishing, NoTask, Task
<1>3. \A q \in Order : NoFuture(q) =>
        /\ NoFuture(q)'
        /\ Current(q)' => Current(q) /\ q.match # m
  BY <1>1 DEF Order, NoFuture, Current
<1>4. ClaimsHeld'
  BY <1>2, <1>3 DEF ClaimsHeld
<1>5. ClaimsDistinct'
  BY <1>2, KeptDistinct
<1>6. OneOrderPerCycle'
  BY DEF OneOrderPerCycle
<1> QED BY <1>1, <1>4, <1>5, <1>6

-----------------------------------------------------------------------------
LEMMA ListenInv ==
  ASSUME IInv, NEW m \in Match, NEW clock \in Clock, Listen(m, clock)
  PROVE  IInv'
<1> USE DEF IInv, Listen
<1>1. TypeOK'
  <2>1. [n |-> published + 1, match |-> m, clock |-> clock] \in Frame
    BY DEF TypeOK, Frame
  <2>2. queue' \in Seq(Frame)
    BY <2>1 DEF TypeOK
  <2> QED BY <2>2 DEF TypeOK
<1>2. ClaimsHeld' /\ ClaimsDistinct' /\ OneOrderPerCycle'
  BY DEF ClaimsHeld, ClaimsDistinct, OneOrderPerCycle, Current, NoFuture, Publishing,
         SamePosition
<1> QED BY <1>1, <1>2

LEMMA TakeInv ==
  ASSUME IInv, NEW w \in Worker, Take(w)
  PROVE  IInv'
<1> DEFINE f == Head(queue)
<1> USE DEF IInv, Take
<1>1. f \in Frame /\ f.n \in Nat /\ f.match \in Match /\ queue' \in Seq(Frame)
  <2>1. queue \in Seq(Frame) /\ queue # <<>> /\ queue' = Tail(queue)
    BY DEF TypeOK
  <2>2. Head(queue) \in Frame /\ Tail(queue) \in Seq(Frame)
    BY <2>1
  <2> QED BY <2>1, <2>2 DEF Frame
<1> HIDE DEF f
<1>2. up /\ UNCHANGED <<up, emitted, crashes>> /\ Delivered(w)
  BY DEF Delivered
<1>3. CASE UNCHANGED <<worker, open, windows, cycle>>
  BY <1>1, <1>3 DEF TypeOK, feedVars, ClaimsHeld, ClaimsDistinct, OneOrderPerCycle,
                    Current, NoFuture, Publishing, SamePosition
<1>4. ASSUME NEW markets \in SUBSET Market, Observe(w, f, markets)
      PROVE  IInv'
  <2>1. /\ worker' \in [Worker -> Task] /\ open' \subseteq Key
        /\ ClaimsHeld' /\ ClaimsDistinct' /\ OneOrderPerCycle'
    BY <1>1, <1>2, <1>4, TriggerInv DEF Observe
  <2> QED BY <1>1, <1>4, <2>1 DEF TypeOK, Observe, feedVars
<1>5. ASSUME NEW markets \in SUBSET Market, Settle(w, f, markets)
      PROVE  IInv'
  <2>1. CASE markets = {}
    <3>1. Release(f.match) /\ Finish(w) /\ windows' \subseteq Match
      BY <1>5, <2>1 DEF Settle, TypeOK
    <3>2. /\ worker' \in [Worker -> Task] /\ open' \subseteq Key /\ cycle' \in [Match -> Nat]
          /\ ClaimsHeld' /\ ClaimsDistinct' /\ OneOrderPerCycle'
      BY <1>1, <1>2, <3>1, ReleaseInv
    <3> QED BY <1>1, <3>1, <3>2 DEF TypeOK, feedVars
  <2>2. CASE markets # {}
    <3>1. /\ worker' = [worker EXCEPT ![w] =
                [step |-> "diagnose", match |-> f.match, todo |-> markets]]
          /\ UNCHANGED <<open, cycle>> /\ windows' \subseteq Match
      BY <1>5, <2>2 DEF Settle, TypeOK
    <3>2. TypeOK'
      BY <1>1, <3>1 DEF TypeOK, Task, feedVars
    <3>3. \A v \in Worker : Publishing(v)' => Publishing(v) /\ worker'[v] = worker[v]
      BY <3>1 DEF Publishing, TypeOK
    <3>4. ClaimsHeld'
      BY <3>1, <3>3 DEF ClaimsHeld, Current, NoFuture
    <3>5. ClaimsDistinct'
      BY <3>3, KeptDistinct
    <3> QED BY <3>2, <3>4, <3>5 DEF OneOrderPerCycle
  <2> QED BY <2>1, <2>2
<1> QED BY <1>3, <1>4, <1>5 DEF f

LEMMA DiagnoseInv ==
  ASSUME IInv, NEW w \in Worker, NEW ok \in BOOLEAN, NEW delivered \in BOOLEAN,
         Diagnose(w, ok, delivered)
  PROVE  IInv'
<1> USE DEF IInv, Diagnose
<1>1. /\ up /\ UNCHANGED <<up, emitted, crashes>>
      /\ worker[w].match \in Match /\ worker[w].todo \in SUBSET Market
      /\ worker[w].step = "diagnose" /\ worker[w] \in Task
  BY DEF TypeOK, Task
<1>2. diagnosed' \subseteq Key /\ faults' \in Nat
  BY <1>1 DEF TypeOK, Key, PublishCall
<1>3. PICK k \in worker[w].todo :
        IF ~ok THEN Abandon(w) /\ UNCHANGED <<open, cycle>>
        ELSE IF worker[w].todo = {k} THEN Release(worker[w].match) /\ Finish(w)
        ELSE worker' = [worker EXCEPT ![w].todo = @ \ {k}] /\ UNCHANGED <<open, cycle>>
  OBVIOUS
<1>4. CASE Release(worker[w].match) /\ Finish(w)
  <2>1. /\ worker' \in [Worker -> Task] /\ open' \subseteq Key /\ cycle' \in [Match -> Nat]
        /\ ClaimsHeld' /\ ClaimsDistinct' /\ OneOrderPerCycle'
    BY <1>1, <1>4, ReleaseInv
  <2> QED BY <1>2, <2>1 DEF TypeOK, feedVars
<1>5. CASE Abandon(w) /\ UNCHANGED <<open, cycle>>
  <2>1. /\ worker' \in [Worker -> Task]
        /\ ClaimsHeld' /\ ClaimsDistinct' /\ OneOrderPerCycle'
    <3>1. Finish(w) /\ Delivered(w) /\ open' = open /\ cycle' = cycle
      BY <1>1, <1>5 DEF Abandon, Finish, Delivered
    <3> QED BY <1>1, <3>1, FinishInv
  <2> QED BY <1>2, <1>5, <2>1 DEF TypeOK, feedVars
<1>6. CASE /\ worker' = [worker EXCEPT ![w].todo = @ \ {k}]
           /\ UNCHANGED <<open, cycle>>
  <2>1. worker' = [worker EXCEPT ![w] =
          [step |-> "diagnose", match |-> worker[w].match, todo |-> worker[w].todo \ {k}]]
    <3>1. worker[w] \in [step : {"diagnose"}, match : Match, todo : SUBSET Market]
      BY <1>1 DEF Task
    <3>2. [worker[w] EXCEPT !.todo = @ \ {k}] =
            [step |-> "diagnose", match |-> worker[w].match, todo |-> worker[w].todo \ {k}]
      BY <3>1
    <3> QED BY <1>6, <3>2
  <2>2. TypeOK'
    BY <1>1, <1>2, <1>6, <2>1 DEF TypeOK, Task, feedVars
  <2>3. \A v \in Worker : Publishing(v)' => Publishing(v) /\ worker'[v] = worker[v]
    BY <2>1 DEF Publishing, TypeOK
  <2>4. ClaimsHeld'
    BY <1>1, <1>6, <2>3 DEF ClaimsHeld, Current, NoFuture
  <2>5. ClaimsDistinct'
    BY <1>1, <2>3, KeptDistinct
  <2> QED BY <1>1, <2>2, <2>4, <2>5 DEF OneOrderPerCycle
<1> QED BY <1>3, <1>4, <1>5, <1>6

(* A claim that was distinct stays so when it is published.                *)
LEMMA EmitInv ==
  ASSUME IInv, NEW w \in Worker, NEW ok \in BOOLEAN, NEW delivered \in BOOLEAN,
         Emit(w, ok, delivered)
  PROVE  IInv'
<1> DEFINE o == worker[w].order
<1> USE DEF IInv, Emit
<1>1. /\ o \in Order /\ worker[w].todo \in SUBSET Market /\ Publishing(w) /\ up
      /\ o.match \in Match /\ o.n \in Nat /\ UNCHANGED <<up, cycle, crashes>>
  BY DEF TypeOK, Task, Publishing, Order
<1>2. Delivered(w) /\ faults' \in Nat
  BY <1>1 DEF Delivered, TypeOK, PublishCall
<1>3. /\ worker' \in [Worker -> Task] /\ emitted' \subseteq Order /\ open' \subseteq Key
      /\ ClaimsHeld' /\ ClaimsDistinct' /\ OneOrderPerCycle'
  <2>1. CASE ok
    <3>1. Trigger(w, o.match, o.n, worker[w].todo)
      BY <2>1
    <3> HIDE DEF o
    <3> QED BY <1>1, <1>2, <3>1, TriggerInv
  <2>2. CASE ~ok
    <3>1. Finish(w) /\ open' = open
      BY <2>2 DEF Abandon, Finish
    <3> QED BY <1>1, <1>2, <3>1, FinishInv DEF TypeOK
  <2> QED BY <2>1, <2>2
<1> QED BY <1>1, <1>2, <1>3 DEF TypeOK, feedVars

LEMMA CrashInv ==
  ASSUME IInv, Crash \/ Restart
  PROVE  IInv'
<1> USE DEF IInv
<1>1. CASE Crash
  <2>1. TypeOK'
    <3>1. worker' \in [Worker -> Task] /\ queue' \in Seq(Frame)
      BY <1>1 DEF Crash, Task, NoTask
    <3>2. /\ dropped' = 0 /\ open' = {} /\ windows' = {} /\ up' = FALSE
          /\ UNCHANGED <<last, published, emitted, diagnosed, cycle, faults>>
      BY <1>1 DEF Crash, feedVars
    <3>3. crashes' \in Nat
      BY <1>1 DEF Crash, TypeOK
    <3> HIDE DEF IInv
    <3>4. TypeOK
      BY DEF IInv
    <3> QED BY <3>1, <3>2, <3>3, <3>4 DEF TypeOK
  <2>2. \A v \in Worker : ~Publishing(v)'
    BY <1>1 DEF Crash, Publishing, NoTask
  <2>3. \A q \in emitted : q.cycle <= cycle'[q.match] /\ q.life <= crashes'
    BY <1>1 DEF Crash, ClaimsHeld, NoFuture, TypeOK, Order
  <2>4. \A q \in emitted : q.life # crashes'
    BY <1>1 DEF Crash, ClaimsHeld, NoFuture, TypeOK, Order
  <2>5. ClaimsHeld'
    BY <1>1, <2>2, <2>3, <2>4 DEF Crash, ClaimsHeld, NoFuture, Current
  <2>6. ClaimsDistinct' /\ OneOrderPerCycle'
    BY <1>1, <2>2 DEF Crash, ClaimsDistinct, OneOrderPerCycle
  <2> QED BY <2>1, <2>5, <2>6
<1>2. CASE Restart
  <2>1. TypeOK'
    BY <1>2 DEF Restart, TypeOK, feedVars
  <2>2. ClaimsHeld' /\ ClaimsDistinct' /\ OneOrderPerCycle'
    BY <1>2 DEF Restart, ClaimsHeld, ClaimsDistinct, OneOrderPerCycle, Current, NoFuture,
                Publishing, SamePosition
  <2> QED BY <2>1, <2>2
<1> QED BY <1>1, <1>2

LEMMA Invariance == Spec => []IInv
<1>1. ASSUME IInv, [Next]_vars
      PROVE  IInv'
  <2>1. CASE \E m \in Match, clock \in Clock : Listen(m, clock)
    BY <1>1, <2>1, ListenInv
  <2>2. CASE \E w \in Worker : WorkerStep(w)
    BY <1>1, <2>2, TakeInv, DiagnoseInv, EmitInv DEF WorkerStep
  <2>3. CASE Crash \/ Restart
    BY <1>1, <2>3, CrashInv
  <2>4. CASE UNCHANGED vars
    BY <1>1, <2>4 DEF IInv, vars, processVars, feedVars, TypeOK, ClaimsHeld, ClaimsDistinct,
                      OneOrderPerCycle, Current, NoFuture, Publishing, SamePosition
  <2> QED BY <1>1, <2>1, <2>2, <2>3, <2>4 DEF Next
<1> QED BY InitInv, <1>1, PTL DEF Spec

-----------------------------------------------------------------------------
(* Every variable of the engine keeps its type.                            *)
THEOREM TypeCorrect == Spec => []TypeOK
<1>1. IInv => TypeOK
  BY DEF IInv
<1> QED BY <1>1, Invariance, PTL

(* The gate lets one order through per market between two releases of the  *)
(* match (position_gate.py:2-3), however many workers interleave.          *)
THEOREM OnePerCycle == Spec => []OneOrderPerCycle
<1>1. IInv => OneOrderPerCycle
  BY DEF IInv
<1> QED BY <1>1, Invariance, PTL

-----------------------------------------------------------------------------
(* WindowsOfLiveMatches in terms of the indices of the queue.              *)
LEMMA WindowsByIndex ==
  ASSUME TypeOK, WindowsOfLiveMatches, NEW m \in windows, last[m] = "FULLTIME"
  PROVE  FullTimeQueuedFrom(1, m)
<1>1. DOMAIN queue = 1..Len(queue)
  BY DEF TypeOK
<1> QED BY <1>1 DEF WindowsOfLiveMatches, FullTimeQueuedFrom

LEMMA IndicesOfWindows ==
  ASSUME TypeOK',
         \A m \in windows' : last'[m] # "FULLTIME" \/ FullTimeQueuedFrom(1, m)'
  PROVE  WindowsOfLiveMatches'
<1>1. DOMAIN queue' = 1..Len(queue')
  BY DEF TypeOK
<1> QED BY <1>1 DEF WindowsOfLiveMatches, FullTimeQueuedFrom

(* A step that leaves the queue alone and opens no window.                 *)
LEMMA KeptWindows ==
  ASSUME TypeOK, TypeOK', WindowInv, UNCHANGED <<queue, last>>, windows' \subseteq windows
  PROVE  WindowInv'
<1>1. ASSUME NEW i, NEW m, FullTimeQueuedFrom(i, m) PROVE FullTimeQueuedFrom(i, m)'
  BY <1>1 DEF FullTimeQueuedFrom
<1>2. WindowsOfLiveMatches'
  BY <1>1, WindowsByIndex, IndicesOfWindows DEF WindowInv
<1> QED BY <1>1, <1>2 DEF WindowInv, LastFrameQueued

(* A frame goes to the end of the queue and becomes the last of its match. *)
LEMMA ListenWindows ==
  ASSUME TypeOK, TypeOK', WindowInv, NEW m \in Match, NEW clock \in Clock, Listen(m, clock)
  PROVE  WindowInv'
<1> DEFINE frame == [n |-> published + 1, match |-> m, clock |-> clock]
<1>1. CASE UNCHANGED <<queue, last>>
  BY <1>1, KeptWindows DEF Listen
<1>2. CASE queue' = Append(queue, frame) /\ last' = [last EXCEPT ![m] = clock]
  <2>1. /\ Len(queue) \in Nat /\ Len(queue') = Len(queue) + 1
        /\ \A i \in 1..Len(queue) : i \in 1..Len(queue') /\ queue'[i] = queue[i]
        /\ queue'[Len(queue) + 1].match = m /\ queue'[Len(queue) + 1].clock = clock
    <3>1. queue \in Seq(Frame) /\ frame \in Frame
      BY DEF TypeOK, Frame
    <3> QED BY <1>2, <3>1
  <2>2. ASSUME NEW k \in Match
        PROVE  last'[k] = IF k = m THEN clock ELSE last[k]
    BY <1>2 DEF TypeOK
  <2>3. ASSUME NEW i \in 1..(Len(queue) + 1), clock = "FULLTIME"
        PROVE  FullTimeQueuedFrom(i, m)'
    BY <2>1, <2>3 DEF FullTimeQueuedFrom
  <2>4. ASSUME NEW i \in 1..Len(queue), NEW k, FullTimeQueuedFrom(i, k)
        PROVE  FullTimeQueuedFrom(i, k)'
    BY <2>1, <2>4 DEF FullTimeQueuedFrom
  <2>5. ASSUME NEW k \in windows', last'[k] = "FULLTIME"
        PROVE  FullTimeQueuedFrom(1, k)'
    <3>1. k \in windows /\ k \in Match
      BY DEF Listen, TypeOK
    <3>2. CASE k = m
      BY <2>1, <2>2, <2>3, <2>5, <3>1, <3>2
    <3>3. CASE k # m
      <4>1. FullTimeQueuedFrom(1, k)
        BY <2>2, <2>5, <3>1, <3>3, WindowsByIndex DEF WindowInv
      <4>2. 1 \in 1..Len(queue)
        BY <2>1, <4>1 DEF FullTimeQueuedFrom
      <4> QED BY <2>4, <4>1, <4>2
    <3> QED BY <3>2, <3>3
  <2>6. ASSUME NEW i \in 1..Len(queue'), last'[queue'[i].match] = "FULLTIME"
        PROVE  FullTimeQueuedFrom(i, queue[i].match)'
    <3>1. queue'[i].match \in Match
      <4>1. queue' \in Seq(Frame)
        BY DEF TypeOK
      <4>2. queue'[i] \in Frame
        BY <4>1
      <4> QED BY <4>2 DEF Frame
    <3>2. CASE queue'[i].match = m
      BY <2>1, <2>2, <2>3, <2>6, <3>2
    <3>3. CASE queue'[i].match # m
      <4>1. i \in 1..Len(queue) /\ queue'[i] = queue[i]
        BY <2>1, <3>3
      <4>2. FullTimeQueuedFrom(i, queue[i].match)
        BY <2>2, <2>6, <3>1, <3>3, <4>1 DEF WindowInv, LastFrameQueued
      <4> QED BY <2>4, <4>1, <4>2
    <3> QED BY <3>2, <3>3
  <2>7. WindowsOfLiveMatches'
    BY <2>5, IndicesOfWindows
  <2> QED BY <2>6, <2>7 DEF WindowInv, LastFrameQueued
<1> QED BY <1>1, <1>2 DEF Listen

(* The head of the queue is handled: a live one opens a window only if a   *)
(* later FULLTIME, if the match has one, is still in the queue.            *)
LEMMA TakeWindows ==
  ASSUME TypeOK, TypeOK', WindowInv, NEW w \in Worker, Take(w)
  PROVE  WindowInv'
<1> DEFINE f == Head(queue)
<1>1. /\ queue \in Seq(Frame) /\ queue # <<>> /\ queue' = Tail(queue)
      /\ windows' \subseteq windows \cup {f.match} /\ UNCHANGED last
      /\ f.clock = "FULLTIME" => windows' = windows \ {f.match}
  BY DEF Take, Observe, Settle, TypeOK, feedVars
<1>2. /\ Len(queue) \in Nat \ {0} /\ Len(queue') = Len(queue) - 1 /\ f = queue[1]
      /\ \A i \in 1..Len(queue') : i + 1 \in 1..Len(queue) /\ queue'[i] = queue[i + 1]
  BY <1>1
<1>3. f.clock # "FULLTIME" => windows' \subseteq windows \cup {f.match}
  BY <1>1
<1> HIDE DEF f
<1>4. ASSUME NEW i \in 1..Len(queue), NEW k, FullTimeQueuedFrom(i + 1, k)
      PROVE  FullTimeQueuedFrom(i, k)'
  <2>1. PICK j \in (i + 1)..Len(queue) : queue[j].match = k /\ queue[j].clock = "FULLTIME"
    BY <1>4 DEF FullTimeQueuedFrom
  <2>2. j - 1 \in i..Len(queue') /\ j - 1 \in 1..Len(queue') /\ (j - 1) + 1 = j
    BY <1>2, <2>1
  <2> QED BY <1>2, <2>1, <2>2 DEF FullTimeQueuedFrom
<1>5. ASSUME NEW k, FullTimeQueuedFrom(1, k), k # f.match \/ f.clock # "FULLTIME"
      PROVE  FullTimeQueuedFrom(1 + 1, k)
  BY <1>2, <1>5 DEF FullTimeQueuedFrom
<1>6. ASSUME NEW k \in windows', last'[k] = "FULLTIME"
      PROVE  FullTimeQueuedFrom(1, k)'
  <2>1. FullTimeQueuedFrom(1, k)
    <3>1. CASE k \in windows
      BY <1>1, <1>6, <3>1, WindowsByIndex DEF WindowInv
    <3>2. CASE k = f.match
      <4>1. 1 \in 1..Len(queue)
        BY <1>2
      <4> QED BY <1>1, <1>2, <1>6, <3>2, <4>1 DEF WindowInv, LastFrameQueued
    <3> QED BY <1>1, <3>1, <3>2
  <2>2. k # f.match \/ f.clock # "FULLTIME"
    BY <1>1, <1>6
  <2>3. 1 \in 1..Len(queue)
    BY <1>2
  <2> QED BY <1>4, <1>5, <2>1, <2>2, <2>3
<1>7. ASSUME NEW i \in 1..Len(queue'), last'[queue'[i].match] = "FULLTIME"
      PROVE  FullTimeQueuedFrom(i, queue[i].match)'
  <2>1. i + 1 \in 1..Len(queue) /\ queue'[i] = queue[i + 1] /\ i \in 1..Len(queue)
    BY <1>2
  <2>2. FullTimeQueuedFrom(i + 1, queue[i + 1].match)
    BY <1>1, <1>7, <2>1 DEF WindowInv, LastFrameQueued
  <2> QED BY <1>4, <2>1, <2>2
<1>8. WindowsOfLiveMatches'
  BY <1>6, IndicesOfWindows
<1> QED BY <1>7, <1>8 DEF WindowInv, LastFrameQueued

(* WindowsOfLiveMatches (main.py:138-148, feature_study.py:246-247): the   *)
(* engine gives the memory of a finished match back, whichever worker      *)
(* handles its frames, whatever is dropped, raises or crashes.             *)
THEOREM WindowsGivenBack == Spec => []WindowsOfLiveMatches
<1>1. Init => WindowInv
  BY DEF Init, WindowInv, WindowsOfLiveMatches, LastFrameQueued
<1>2. ASSUME TypeOK, TypeOK', WindowInv, [Next]_vars
      PROVE  WindowInv'
  <2>1. CASE \E m \in Match, clock \in Clock : Listen(m, clock)
    BY <1>2, <2>1, ListenWindows
  <2>2. CASE \E w \in Worker : Take(w)
    BY <1>2, <2>2, TakeWindows
  <2>3. CASE \E w \in Worker, ok, delivered \in BOOLEAN :
               Diagnose(w, ok, delivered) \/ Emit(w, ok, delivered)
    BY <1>2, <2>3, KeptWindows DEF Diagnose, Emit, feedVars
  <2>4. CASE Crash
    <3>1. queue' = <<>> /\ windows' = {} /\ Len(queue') = 0
      BY <2>4 DEF Crash
    <3> QED BY <3>1 DEF WindowInv, WindowsOfLiveMatches, LastFrameQueued
  <2>5. CASE Restart \/ UNCHANGED vars
    BY <1>2, <2>5, KeptWindows DEF Restart, vars, processVars, feedVars
  <2> QED BY <1>2, <2>1, <2>2, <2>3, <2>4, <2>5 DEF Next, WorkerStep
<1>3. WindowInv => WindowsOfLiveMatches
  BY DEF WindowInv
<1> QED BY TypeCorrect, <1>1, <1>2, <1>3, PTL DEF Spec
=============================================================================
