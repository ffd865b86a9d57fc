----------------------------- MODULE LiveBroker -----------------------------
(***************************************************************************)
(* The live broker of execution-engine-go (internal/broker/client.go) with *)
(* the bookmaker it dials.  Commands come over HTTP, each in a goroutine   *)
(* of its own, and over the Redis channel, which Run serves one at a time. *)
(* Each order has its own connection: auth, ack, order, fill.  A second    *)
(* goroutine, settleLoop, grades the settlements of the bookmaker.         *)
(*                                                                         *)
(* An action of the executor is the code between two waits or two locks.   *)
(***************************************************************************)
EXTENDS MockVendor

CONSTANTS
  Sides,      \* sides the engine bets on
  NoCall,     \* Run is between two commands
  Cap,        \* positions kept, 500 in the code
  MaxFaults   \* bound: crashes, lost connections and failing Redis calls

ASSUME LiveBrokerAssumption ==
  /\ Sides \subseteq Score /\ NoCall \notin Calls
  /\ Cap \in Nat /\ Cap > 0 /\ MaxFaults \in Nat

VARIABLES
  up,         \* is the executor running?
  call,       \* progress of every command
  side,       \* side of the order
  wire,       \* message under way on the call's connection
  ticket,     \* order_id in the bookmaker's answer, 0 before it
  queue,      \* commands in the buffer of the Redis subscription
  serving,    \* command that Run is executing
  positions,  \* Broker.positions (its keys)
  held,       \* Broker.orderSeq
  inbox,      \* settlements in the buffer of settleLoop's subscription
  loop,       \* settleLoop: where it is, and the settlement it handles
  session,    \* Broker.session
  hash,       \* pnl:session in Redis
  base,       \* history: pnl:session when the executor started
  unsaved,    \* history: did a write of pnl:session fail since then?
  graded,     \* history: calls whose order was graded
  faults      \* counter behind MaxFaults

callVars   == <<call, side, wire, ticket>>
runVars    == <<queue, serving>>
storeVars  == <<positions, held>>
settleVars == <<inbox, loop, session, hash, base, unsaved, graded>>
vars == <<vendorVars, up, callVars, runVars, storeVars, settleVars, faults>>

Idle == [at |-> "idle"]
Busy == {"auth", "order"}

TypeOK ==
  /\ VendorTypeOK
  /\ up \in BOOLEAN
  /\ call \in [Calls -> {"new", "queued", "filled", "failed"} \cup Busy]
  /\ side \in [Calls -> Score]
  /\ wire \in [Calls -> {"none", "auth", "ack", "order", "fill"}]
  /\ ticket \in [Calls -> 0..Cardinality(Calls)]
  /\ queue \in Seq(Calls)
  /\ serving \in Calls \cup {NoCall}
  /\ positions \in SUBSET (1..Cardinality(Calls))
  /\ held \in Seq(1..Cardinality(Calls))
  /\ inbox \in Seq(SettlementFrame)
  /\ loop \in {Idle} \cup [at : {"graded", "saved"}, frame : SettlementFrame]
  /\ session \in Totals /\ hash \in Totals /\ base \in Totals
  /\ unsaved \in BOOLEAN
  /\ graded \in SUBSET Calls
  /\ faults \in 0..MaxFaults

ExecutorInit ==
  /\ up = TRUE
  /\ call = [c \in Calls |-> "new"]
  /\ side = [c \in Calls |-> "draw"]
  /\ wire = [c \in Calls |-> "none"]
  /\ ticket = [c \in Calls |-> 0]
  /\ queue = <<>> /\ serving = NoCall
  /\ positions = {} /\ held = <<>>
  /\ inbox = <<>> /\ loop = Idle
  /\ session = NoTotals /\ hash = NoTotals /\ base = NoTotals
  /\ unsaved = FALSE /\ graded = {} /\ faults = 0

Init == VendorInit /\ ExecutorInit

Fault == faults < MaxFaults /\ faults' = faults + 1

-----------------------------------------------------------------------------
(* Commands.                                                               *)

(* The dial succeeds, and the signed auth frame is on its way.             *)
Dialled(c) ==
  /\ call' = [call EXCEPT ![c] = "auth"]
  /\ wire' = [wire EXCEPT ![c] = "auth"]

HttpExecute(c) ==
  /\ up /\ call[c] = "new"
  /\ Dialled(c)
  /\ \E s \in Sides : side' = [side EXCEPT ![c] = s]
  /\ UNCHANGED <<vendorVars, up, ticket, runVars, storeVars, settleVars, faults>>

(* A command is published on the Redis channel.                            *)
Command(c) ==
  /\ up /\ call[c] = "new"
  /\ call' = [call EXCEPT ![c] = "queued"]
  /\ \E s \in Sides : side' = [side EXCEPT ![c] = s]
  /\ queue' = Append(queue, c)
  /\ UNCHANGED <<vendorVars, up, wire, ticket, serving, storeVars, settleVars, faults>>

TakeCommand ==
  /\ up /\ serving = NoCall /\ queue # <<>>
  /\ serving' = Head(queue) /\ queue' = Tail(queue)
  /\ Dialled(Head(queue))
  /\ UNCHANGED <<vendorVars, up, side, ticket, storeVars, settleVars, faults>>

(* The call of Run returns, and Run turns to its next command.             *)
Return(c) == serving' = IF serving = c THEN NoCall ELSE serving

(* authHandshake read the ack, and placeOrder sends the order.             *)
Authenticated(c) ==
  /\ up /\ call[c] = "auth" /\ wire[c] = "ack"
  /\ call' = [call EXCEPT ![c] = "order"]
  /\ wire' = [wire EXCEPT ![c] = "order"]
  /\ UNCHANGED <<vendorVars, up, side, ticket, runVars, storeVars, settleVars, faults>>

(* Mutant: the order that leaves the queue stays in the position store.    *)
recordLeaky(id) ==
  IF id \in positions
  THEN UNCHANGED storeVars
  ELSE /\ held' = Append(IF Len(held) < Cap THEN held ELSE Tail(held), id)
       /\ positions' = positions \cup {id}

recordFill(id) ==
  IF id \in positions
  THEN UNCHANGED storeVars
  ELSE LET kept == IF Len(held) < Cap THEN held ELSE Tail(held)
       IN /\ held' = Append(kept, id)
          /\ positions' = (IF kept = held THEN positions ELSE positions \ {Head(held)})
                             \cup {id}

(* The fill arrives in time and is recorded.                               *)
Filled(c) ==
  /\ up /\ call[c] = "order" /\ wire[c] = "fill"
  /\ call' = [call EXCEPT ![c] = "filled"]
  /\ wire' = [wire EXCEPT ![c] = "none"]
  /\ recordFill(ticket[c])
  /\ Return(c)
  /\ UNCHANGED <<vendorVars, up, side, ticket, queue, settleVars, faults>>

Failed(c) ==
  /\ call' = [call EXCEPT ![c] = "failed"]
  /\ Return(c)

(* Mutant: no read deadline is set.                                        *)
NoDeadline(c) == wire[c] = "none"

(* The read deadline bounds the wait for the fill, not the one for the ack.*)
GivesUp(c) == wire[c] = "none" \/ call[c] = "order"

(* The read returns an error: the connection is gone or the deadline is    *)
(* over.  Closing the connection does not take the order back.             *)
ReadFails(c) ==
  /\ up /\ call[c] \in Busy /\ GivesUp(c)
  /\ Failed(c)
  /\ UNCHANGED <<vendorVars, up, side, wire, ticket, queue, storeVars, settleVars, faults>>

(* The network loses the connection.                                       *)
ConnectionLost(c) ==
  /\ Fault
  /\ wire[c] # "none"
  /\ wire' = [wire EXCEPT ![c] = "none"]
  /\ UNCHANGED <<vendorVars, up, call, side, ticket, runVars, storeVars, settleVars>>

-----------------------------------------------------------------------------
(* The bookmaker's side of the trade connection.                           *)

AnswerAuth(c) ==
  /\ wire[c] = "auth"
  /\ wire' = [wire EXCEPT ![c] = "ack"]
  /\ UNCHANGED <<vendorVars, up, call, side, ticket, runVars, storeVars, settleVars, faults>>

(* Mutant: the order stays where it is after it was booked.                *)
Reread(c) == UNCHANGED wire

Answered(c) == wire' = [wire EXCEPT ![c] = "fill"]

AnswerOrder(c) ==
  /\ wire[c] = "order"
  /\ BookOrder(c, side[c])
  /\ ticket' = [ticket EXCEPT ![c] = orderSeq + 1]
  /\ Answered(c)
  /\ UNCHANGED <<up, call, side, runVars, storeVars, settleVars, faults>>

(* The settlement reaches the executor, unless there is nothing to settle, *)
(* the executor is down, or the vendor has lost Redis.                     *)
Publishes(s) == inbox' = IF book # {} /\ up THEN Append(inbox, settlement(s)) ELSE inbox

PublishSettlement(s) ==
  /\ FullTime(s)
  /\ \/ Publishes(s) /\ UNCHANGED faults
     \/ Fault /\ UNCHANGED inbox
  /\ UNCHANGED <<up, callVars, runVars, storeVars, loop, session, hash, base, unsaved, graded>>

PlayReel(s) ==
  /\ Connection(s) \/ SendFrame(s) \/ EndOfReel(s)
  /\ UNCHANGED <<up, callVars, runVars, storeVars, settleVars, faults>>

IngestorHangsUp(s) ==
  /\ Fault
  /\ HangUp(s)
  /\ UNCHANGED <<up, callVars, runVars, storeVars, settleVars>>

(* Its connections break with the vendor.                                  *)
VendorCrash ==
  /\ Fault
  /\ VendorRestart
  /\ wire' = [c \in Calls |-> "none"]
  /\ UNCHANGED <<up, call, side, ticket, runVars, storeVars, settleVars>>

-----------------------------------------------------------------------------
(* settleLoop.                                                             *)

SettledOrders(frame) ==
  {[call |-> o.call, result |-> Verdict(o.side, frame.score, frame.verified)] :
     o \in frame.orders}

settlementTotals(frame) ==
  [n \in Counter |-> Cardinality({o \in SettledOrders(frame) : o.result \in Counts[n]})]

Grade ==
  /\ up /\ loop = Idle /\ inbox # <<>>
  /\ loop' = [at |-> "graded", frame |-> Head(inbox)]
  /\ inbox' = Tail(inbox)
  /\ session' = Plus(session, settlementTotals(Head(inbox)))
  /\ graded' = graded \cup {o.call : o \in Head(inbox).orders}
  /\ UNCHANGED <<vendorVars, up, callVars, runVars, storeVars, hash, base, unsaved, faults>>

(* Mutant: the cumulative session is written, not the delta.               *)
saveSession(frame) == hash' = Plus(hash, session)

saveDelta(frame) == hash' = Plus(hash, settlementTotals(frame))

(* The snapshot is published, then the delta goes to Redis in one          *)
(* transaction; a failure of either is only logged.                        *)
PersistSession ==
  /\ up /\ loop.at = "graded"
  /\ loop' = [loop EXCEPT !.at = "saved"]
  /\ \/ saveDelta(loop.frame) /\ UNCHANGED <<unsaved, faults>>
     \/ Fault /\ unsaved' = TRUE /\ UNCHANGED hash
  /\ UNCHANGED <<vendorVars, up, callVars, runVars, storeVars, inbox, session, base, graded>>

Ids(frame) == {o.order_id : o \in frame.orders}

(* The queue without the orders of ids, entry by entry.                    *)
Without(q, ids) ==
  LET rest[i \in 0..Len(q)] ==
        IF i = 0 THEN <<>>
        ELSE IF q[i] \in ids THEN rest[i - 1] ELSE Append(rest[i - 1], q[i])
  IN rest[Len(q)]

Forget ==
  /\ up /\ loop.at = "saved"
  /\ loop' = Idle
  /\ positions' = positions \ Ids(loop.frame)
  /\ held' = Without(held, Ids(loop.frame))
  /\ UNCHANGED <<vendorVars, up, callVars, runVars, inbox, session, hash, base,
                 unsaved, graded, faults>>

-----------------------------------------------------------------------------
(* The executor dies: everything but Redis is gone.                        *)
Crash ==
  /\ up /\ Fault
  /\ up' = FALSE
  /\ call' = [c \in Calls |-> IF call[c] \in Busy \cup {"queued"} THEN "failed" ELSE call[c]]
  /\ queue' = <<>> /\ serving' = NoCall
  /\ positions' = {} /\ held' = <<>>
  /\ inbox' = <<>> /\ loop' = Idle /\ session' = NoTotals
  /\ UNCHANGED <<vendorVars, side, wire, ticket, hash, base, unsaved, graded>>

Restart ==
  /\ ~up /\ up' = TRUE
  /\ base' = hash /\ unsaved' = FALSE
  /\ UNCHANGED <<vendorVars, callVars, runVars, storeVars, inbox, loop, session, hash,
                 graded, faults>>

Placing(c) == Authenticated(c) \/ Filled(c) \/ ReadFails(c)

SettleLoop == Grade \/ PersistSession \/ Forget

Next ==
  \/ \E c \in Calls :
       \/ HttpExecute(c) \/ Command(c) \/ Placing(c) \/ ConnectionLost(c)
       \/ AnswerAuth(c) \/ AnswerOrder(c)
  \/ \E s \in Sockets : PlayReel(s) \/ PublishSettlement(s) \/ IngestorHangsUp(s)
  \/ TakeCommand \/ SettleLoop
  \/ VendorCrash \/ Crash \/ Restart

Spec == Init /\ [][Next]_vars

(* Go schedules every goroutine that can run, a process that died is       *)
(* started again, and the mock vendor's timer ticks while ingestors        *)
(* reconnect.  Nothing is assumed of how fast the bookmaker answers.       *)
FairSpec ==
  /\ Spec
  /\ \A c \in Calls : WF_vars(Placing(c))
  /\ \A s \in Sockets : WF_vars(PlayReel(s)) /\ WF_vars(PublishSettlement(s))
  /\ WF_vars(TakeCommand) /\ WF_vars(SettleLoop) /\ WF_vars(Restart)

-----------------------------------------------------------------------------
(* Properties.                                                             *)

CallsOf(frame) == {o.call : o \in frame.orders}

(* An order is in one place: in the bookmaker's book, in one settlement    *)
(* that waits, or graded.  So no order is ever graded twice, although the  *)
(* executor keeps no list of what it has graded, sockets settle the same   *)
(* book, and order ids repeat when the vendor restarts.                    *)
OneWhereabouts ==
  /\ \A o \in book : o.call \notin graded
  /\ \A i \in 1..Len(inbox) :
       /\ CallsOf(inbox[i]) \cap graded = {}
       /\ \A o \in book : o.call \notin CallsOf(inbox[i])
       /\ \A j \in 1..Len(inbox) :
            i # j => CallsOf(inbox[i]) \cap CallsOf(inbox[j]) = {}

(* Between two settlements pnl:session holds what it held at the start     *)
(* plus the session, unless a write of it failed: deltas are written, not  *)
(* totals, and a crash between grading and writing loses both alike.       *)
HashIsBaseAndSession ==
  up /\ loop.at # "graded" /\ ~unsaved => hash = Plus(base, session)

(* The position store and the queue that bounds it hold the same orders,   *)
(* none twice, and never more than the cap; two goroutines update them,    *)
(* and an id of the bookmaker can come back.                               *)
StoreMatchesQueue ==
  /\ positions = {held[i] : i \in 1..Len(held)}
  /\ Cardinality(positions) = Len(held)
  /\ Len(held) <= Cap

(* Once a call was let in by the bookmaker it returns, even if the         *)
(* bookmaker never answers the order.                                      *)
AuthedCallsReturn ==
  \A c \in Calls : (call[c] = "order") ~> (call[c] \in {"filled", "failed"})

(* As long as ingestors reconnect, fills do not stay in the book: some     *)
(* reel reaches FULLTIME, and it settles the orders of every socket.       *)
BookDrains == (book # {}) ~> (book = {})
=============================================================================
