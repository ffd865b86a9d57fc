-------------------------- MODULE LiveBrokerProofs --------------------------
(***************************************************************************)
(* Proofs about the live broker, for every number of commands, vendor      *)
(* sockets and faults: it grades no order twice, its variables have their  *)
(* types, its position store agrees with the queue that bounds it, and     *)
(* pnl:session agrees with the session.                                    *)
(*                                                                         *)
(* Neither side keeps a list of what was graded: an order is graded once   *)
(* because a command is dialled once, its connection carries one order,    *)
(* and the book is emptied by the callback that publishes it.              *)
(***************************************************************************)
EXTENDS LiveBroker, FunctionTheorems, FiniteSetTheorems, NaturalsInduction,
        WellFoundedInduction, TLAPS

AnyOrder == [order_id : Nat, call : Calls, side : Score]
Message  == [orders : SUBSET AnyOrder, score : Score, verified : BOOLEAN]

(* The types the argument needs.                                           *)
Typed ==
  /\ book \in SUBSET AnyOrder /\ orderSeq \in Nat
  /\ result \in [Sockets -> Score]
  /\ call \in [Calls -> {"new", "queued", "filled", "failed"} \cup Busy]
  /\ side \in [Calls -> Score]
  /\ wire \in [Calls -> {"none", "auth", "ack", "order", "fill"}]
  /\ queue \in Seq(Calls)
  /\ inbox \in Seq(Message)

(* The bookmaker has, or had, an order of the call.                        *)
Booked(c) ==
  \/ c \in CallsOf([orders |-> book])
  \/ \E i \in 1..Len(inbox) : c \in CallsOf(inbox[i])
  \/ c \in graded

(* The order of a call has not been sent.                                  *)
Unsent(c) == call[c] \in {"new", "queued", "auth"}

(* An order that is under way was sent by its call, and no order is sent   *)
(* for a call that has one already.                                        *)
SentOnce ==
  /\ \A c \in Calls : wire[c] = "order" => ~Unsent(c)
  /\ \A c \in Calls : Booked(c) => ~Unsent(c) /\ wire[c] \in {"none", "fill"}

(* The subscription's buffer holds every command once, before its dial.    *)
QueuedOnce ==
  /\ \A i \in 1..Len(queue) : call[queue[i]] = "queued"
  /\ \A i, j \in 1..Len(queue) : i # j => queue[i] # queue[j]

IInv == Typed /\ SentOnce /\ QueuedOnce /\ OneWhereabouts

LEMMA InitInv == Init => IInv
BY LiveBrokerAssumption
   DEF Init, VendorInit, ExecutorInit, IInv, Typed, SentOnce, QueuedOnce, OneWhereabouts,
       Booked, Unsent, CallsOf, Score, Busy

-----------------------------------------------------------------------------
(* Steps that leave book, inbox and graded alone move no order; they keep  *)
(* the invariant if they send nothing for a call that has an order.        *)
LEMMA NoOrderMoves ==
  ASSUME IInv, Typed', QueuedOnce', UNCHANGED <<book, inbox, graded>>,
         \A c \in Calls : (wire[c] = "order" => ~Unsent(c)) =>
                          (wire'[c] = "order" => ~Unsent(c)'),
         \A c \in Calls : ~Unsent(c) /\ wire[c] \in {"none", "fill"} =>
                          ~Unsent(c)' /\ wire'[c] \in {"none", "fill"}
  PROVE  IInv'
<1>1. OneWhereabouts'
  BY DEF IInv, OneWhereabouts, CallsOf
<1>2. \A c \in Calls : Booked(c)' <=> Booked(c)
  BY DEF Booked, CallsOf
<1>3. SentOnce'
  BY <1>2 DEF IInv, SentOnce
<1> QED BY <1>1, <1>3 DEF IInv

(* Commands and what becomes of them.                                      *)
LEMMA CommandInv ==
  ASSUME IInv, NEW c \in Calls, HttpExecute(c) \/ Command(c)
  PROVE  IInv'
<1>1. CASE HttpExecute(c)
  <2>1. Typed'
    BY <1>1, LiveBrokerAssumption DEF IInv, Typed, HttpExecute, Dialled, vendorVars, runVars,
                                      settleVars, Busy
  <2>2. QueuedOnce'
    BY <1>1 DEF IInv, Typed, QueuedOnce, HttpExecute, Dialled, runVars
  <2>3. \A d \in Calls : d # c => call'[d] = call[d] /\ wire'[d] = wire[d]
    BY <1>1 DEF IInv, Typed, HttpExecute, Dialled
  <2>4. wire'[c] = "auth" /\ call[c] = "new"
    BY <1>1 DEF IInv, Typed, HttpExecute, Dialled
  <2> QED BY <1>1, <2>1, <2>2, <2>3, <2>4, NoOrderMoves
          DEF HttpExecute, vendorVars, settleVars, Unsent
<1>2. CASE Command(c)
  <2>1. Typed'
    BY <1>2, LiveBrokerAssumption DEF IInv, Typed, Command, vendorVars, settleVars, Busy
  <2>2. QueuedOnce'
    <3>1. queue \in Seq(Calls) /\ queue' = Append(queue, c)
          /\ call \in [Calls -> {"new", "queued", "filled", "failed"} \cup Busy]
          /\ call' = [call EXCEPT ![c] = "queued"] /\ call[c] = "new"
      BY <1>2 DEF IInv, Typed, Command
    <3>2. \A i \in 1..Len(queue) : queue[i] \in Calls /\ queue[i] # c /\ queue'[i] = queue[i]
      BY <3>1 DEF IInv, QueuedOnce
    <3>3. Len(queue') = Len(queue) + 1 /\ queue'[Len(queue')] = c /\ Len(queue) \in Nat
      BY <3>1
    <3>4. \A i \in 1..Len(queue') : i \in 1..Len(queue) \/ i = Len(queue')
      BY <3>3
    <3>5. \A i \in 1..Len(queue') : call'[queue'[i]] = "queued"
      BY <3>1, <3>2, <3>3, <3>4 DEF IInv, QueuedOnce
    <3>6. \A i, j \in 1..Len(queue') : i # j => queue'[i] # queue'[j]
      BY <3>2, <3>3, <3>4 DEF IInv, QueuedOnce
    <3> QED BY <3>5, <3>6 DEF QueuedOnce
  <2>3. \A d \in Calls : /\ d # c => call'[d] = call[d]
                         /\ wire'[d] = wire[d]
    BY <1>2 DEF IInv, Typed, Command
  <2>4. call[c] = "new"
    BY <1>2 DEF Command
  <2>5. \A d \in Calls : d # c => (Unsent(d)' <=> Unsent(d))
    BY <2>3 DEF Unsent
  <2>6. Unsent(c) /\ wire'[c] = wire[c]
    BY <2>3, <2>4 DEF Unsent
  <2>7. UNCHANGED <<book, inbox, graded>>
    BY <1>2 DEF Command, vendorVars, settleVars
  <2> QED BY <2>1, <2>2, <2>3, <2>5, <2>6, <2>7, NoOrderMoves
<1> QED BY <1>1, <1>2

LEMMA TakeCommandInv ==
  ASSUME IInv, TakeCommand
  PROVE  IInv'
<1> DEFINE c == Head(queue)
<1>1. queue \in Seq(Calls) /\ queue # <<>>
  BY DEF IInv, Typed, TakeCommand
<1>2. c \in Calls /\ c = queue[1] /\ Tail(queue) \in Seq(Calls) /\ Len(queue) \in Nat
      /\ Len(queue) > 0
      /\ Len(Tail(queue)) = Len(queue) - 1
      /\ \A i \in 1..Len(Tail(queue)) : Tail(queue)[i] = queue[i + 1]
  BY <1>1
<1>3. call[c] = "queued"
  BY <1>2 DEF IInv, QueuedOnce
<1>4. /\ call' = [call EXCEPT ![c] = "auth"] /\ wire' = [wire EXCEPT ![c] = "auth"]
      /\ queue' = Tail(queue)
  BY DEF TakeCommand, Dialled
<1>5. Typed'
  BY <1>2, <1>4 DEF IInv, Typed, TakeCommand, vendorVars, settleVars, Busy
<1>6. QueuedOnce'
  <2>1. \A i \in 1..Len(Tail(queue)) : queue[i + 1] # c /\ queue[i + 1] \in Calls
    BY <1>1, <1>2 DEF IInv, QueuedOnce
  <2>2. \A i \in 1..Len(queue') : call'[queue'[i]] = "queued"
    BY <1>2, <1>4, <2>1 DEF IInv, Typed, QueuedOnce
  <2>3. \A i, j \in 1..Len(queue') : i # j => queue'[i] # queue'[j]
    BY <1>2, <1>4 DEF IInv, QueuedOnce
  <2> QED BY <2>2, <2>3 DEF QueuedOnce
<1>7. /\ wire'[c] = "auth"
      /\ \A d \in Calls : d # c => call'[d] = call[d] /\ wire'[d] = wire[d]
  BY <1>2, <1>4 DEF IInv, Typed
<1> QED BY <1>3, <1>5, <1>6, <1>7, NoOrderMoves
        DEF TakeCommand, vendorVars, settleVars, Unsent

-----------------------------------------------------------------------------
(* The trade connection: one lemma for the steps that move no order.       *)
LEMMA ConnectionInv ==
  ASSUME IInv, NEW c \in Calls,
         Authenticated(c) \/ Filled(c) \/ ReadFails(c) \/ ConnectionLost(c) \/ AnswerAuth(c)
  PROVE  IInv'
<1>1. UNCHANGED <<vendorVars, queue, inbox, graded, side>>
  BY DEF Authenticated, Filled, ReadFails, ConnectionLost, AnswerAuth, runVars, settleVars
<1>2. \E s \in {"queued", "auth", "order", "filled", "failed"}, w \in {"none", "ack", "order", "fill"} :
        /\ call' = [call EXCEPT ![c] = s] \/ call' = call
        /\ wire' = [wire EXCEPT ![c] = w] \/ wire' = wire
  BY DEF Authenticated, Filled, ReadFails, Failed, ConnectionLost, AnswerAuth
<1>3. /\ \A d \in Calls : d # c => call'[d] = call[d] /\ wire'[d] = wire[d]
      /\ call' \in [Calls -> {"new", "queued", "filled", "failed"} \cup Busy]
      /\ wire' \in [Calls -> {"none", "auth", "ack", "order", "fill"}]
  BY <1>2 DEF IInv, Typed, Busy
<1>4. Typed'
  BY <1>1, <1>3 DEF IInv, Typed, vendorVars
<1>5. call'[c] # call[c] => call[c] \in Busy
  BY DEF IInv, Typed, Authenticated, Filled, ReadFails, ConnectionLost, AnswerAuth, Busy
<1>6. QueuedOnce'
  BY <1>1, <1>3, <1>5 DEF IInv, Typed, QueuedOnce, Busy
<1>7. ~Unsent(c) => ~Unsent(c)'
  BY DEF IInv, Typed, Unsent, Authenticated, Filled, ReadFails, Failed, ConnectionLost, AnswerAuth
<1>8. wire'[c] = "order" => ~Unsent(c)' \/ (wire[c] = "order" /\ Unsent(c))
  BY <1>7 DEF IInv, Typed, Unsent, Authenticated, Filled, ReadFails, Failed, ConnectionLost,
              AnswerAuth
<1>9. ~Unsent(c) /\ wire[c] \in {"none", "fill"} => wire'[c] \in {"none", "fill"}
  BY DEF IInv, Typed, Unsent, Authenticated, Filled, ReadFails, ConnectionLost, AnswerAuth
<1>10. \A d \in Calls : d # c => (Unsent(d)' <=> Unsent(d))
  BY <1>3 DEF Unsent
<1> QED BY <1>1, <1>3, <1>4, <1>6, <1>7, <1>8, <1>9, <1>10, NoOrderMoves DEF vendorVars

(* The order leaves the wire for the book.                                 *)
LEMMA AnswerOrderInv ==
  ASSUME IInv, NEW c \in Calls, AnswerOrder(c)
  PROVE  IInv'
<1> DEFINE o == [order_id |-> orderSeq + 1, call |-> c, side |-> side[c]]
<1>1. /\ book' = book \cup {o} /\ orderSeq' = orderSeq + 1
      /\ wire[c] = "order" /\ wire' = [wire EXCEPT ![c] = "fill"]
      /\ UNCHANGED <<result, call, side, queue, inbox, graded>>
  BY DEF AnswerOrder, BookOrder, Answered, runVars, settleVars
<1>2. o \in AnyOrder /\ o.call = c
  BY DEF AnyOrder, IInv, Typed
<1>3. Typed'
  BY <1>1, <1>2 DEF IInv, Typed
<1>4. ~Unsent(c) /\ ~Booked(c)
  BY <1>1 DEF IInv, SentOnce
<1>5. \A d \in Calls : Booked(d)' => Booked(d) \/ d = c
  BY <1>1, <1>2 DEF Booked, CallsOf
<1>6. \A d \in Calls : /\ Unsent(d)' <=> Unsent(d)
                       /\ d # c => wire'[d] = wire[d]
  BY <1>1 DEF Unsent, IInv, Typed
<1>7. wire'[c] = "fill"
  BY <1>1 DEF IInv, Typed
<1>8. SentOnce'
  BY <1>4, <1>5, <1>6, <1>7 DEF IInv, SentOnce
<1>9. QueuedOnce'
  BY <1>1 DEF IInv, QueuedOnce
<1>10. OneWhereabouts'
  <2>1. c \notin graded /\ \A i \in 1..Len(inbox) : c \notin CallsOf(inbox[i])
    BY <1>4 DEF Booked
  <2>2. \A p \in book' : p \in book \/ p.call = c
    BY <1>1, <1>2
  <2> QED BY <1>1, <2>1, <2>2 DEF IInv, OneWhereabouts
<1> QED BY <1>3, <1>8, <1>9, <1>10 DEF IInv

-----------------------------------------------------------------------------
(* Settlements.                                                            *)

(* The book goes, as it is, into one settlement or is lost.                *)
LEMMA PublishSettlementInv ==
  ASSUME IInv, NEW s \in Sockets, PublishSettlement(s)
  PROVE  IInv'
<1> DEFINE f == settlement(s)
<1>1. /\ book' = {} /\ inbox' \in {inbox, Append(inbox, f)}
      /\ UNCHANGED <<orderSeq, result, call, side, wire, queue, graded>>
  BY DEF PublishSettlement, Publishes, FullTime, DeleteSettled, callVars, runVars
<1>2. f \in Message /\ f.orders = book /\ CallsOf(f) = CallsOf([orders |-> book])
  BY DEF settlement, Message, CallsOf, IInv, Typed
<1>3. inbox \in Seq(Message) /\ inbox' \in Seq(Message)
  <2>1. inbox \in Seq(Message)
    BY DEF IInv, Typed
  <2>2. Append(inbox, f) \in Seq(Message)
    BY <1>2, <2>1
  <2> QED BY <1>1, <2>1, <2>2
<1>4. Typed'
  BY <1>1, <1>3 DEF IInv, Typed
<1>5. \A i \in 1..Len(inbox') :
        \/ i \in 1..Len(inbox) /\ inbox'[i] = inbox[i]
        \/ i \notin 1..Len(inbox) /\ i = Len(inbox) + 1 /\ inbox'[i] = f
  BY <1>1, <1>2, <1>3
<1>6. \A d \in Calls : Booked(d)' => Booked(d)
  BY <1>1, <1>2, <1>5 DEF Booked, CallsOf
<1>7. SentOnce'
  BY <1>1, <1>6 DEF IInv, SentOnce, Unsent
<1>8. QueuedOnce'
  BY <1>1 DEF IInv, QueuedOnce
<1>9. OneWhereabouts'
  <2>1. CallsOf(f) \cap graded = {}
    BY <1>2 DEF IInv, OneWhereabouts, CallsOf
  <2>2. \A i \in 1..Len(inbox) : CallsOf(inbox[i]) \cap CallsOf(f) = {}
    BY <1>2 DEF IInv, OneWhereabouts, CallsOf
  <2>3. \A i \in 1..Len(inbox') : CallsOf(inbox'[i]) \cap graded' = {}
    BY <1>1, <1>5, <2>1 DEF IInv, OneWhereabouts
  <2>4. ASSUME NEW i \in 1..Len(inbox'), NEW j \in 1..Len(inbox'), i # j
        PROVE  CallsOf(inbox'[i]) \cap CallsOf(inbox'[j]) = {}
    <3>1. CASE i \in 1..Len(inbox) /\ j \in 1..Len(inbox)
      BY <1>5, <2>4, <3>1 DEF IInv, OneWhereabouts
    <3>2. CASE i \notin 1..Len(inbox) \/ j \notin 1..Len(inbox)
      BY <1>5, <2>2, <2>4, <3>2
    <3> QED BY <3>1, <3>2
  <2> QED BY <1>1, <2>3, <2>4 DEF OneWhereabouts, CallsOf
<1> QED BY <1>4, <1>7, <1>8, <1>9 DEF IInv

(* A settlement leaves the buffer and its orders count as graded.          *)
LEMMA GradeInv ==
  ASSUME IInv, Grade
  PROVE  IInv'
<1> DEFINE f == Head(inbox)
<1>1. /\ inbox \in Seq(Message) /\ inbox # <<>> /\ inbox' = Tail(inbox)
      /\ graded' = graded \cup CallsOf(f)
      /\ UNCHANGED <<book, orderSeq, result, call, side, wire, queue>>
  BY DEF IInv, Typed, Grade, CallsOf, vendorVars, callVars, runVars
<1>2. /\ Len(inbox) \in Nat /\ Len(inbox) > 0 /\ f = inbox[1]
      /\ Tail(inbox) \in Seq(Message) /\ Len(Tail(inbox)) = Len(inbox) - 1
      /\ \A i \in 1..Len(Tail(inbox)) : Tail(inbox)[i] = inbox[i + 1]
  BY <1>1
<1>3. \A i \in 1..Len(inbox') : i + 1 \in 1..Len(inbox) /\ inbox'[i] = inbox[i + 1]
                               /\ i + 1 # 1 /\ 1 \in 1..Len(inbox)
  BY <1>1, <1>2
<1>4. Typed'
  BY <1>1, <1>2 DEF IInv, Typed
<1>5. \A d \in Calls : Booked(d)' => Booked(d)
  BY <1>1, <1>2, <1>3 DEF Booked, CallsOf
<1>6. SentOnce'
  BY <1>1, <1>5 DEF IInv, SentOnce, Unsent
<1>7. QueuedOnce'
  BY <1>1 DEF IInv, QueuedOnce
<1>8. OneWhereabouts'
  <2>1. \A o \in book' : o.call \notin graded'
    BY <1>1, <1>2, <1>3 DEF IInv, OneWhereabouts, CallsOf
  <2>2. \A i \in 1..Len(inbox') : /\ CallsOf(inbox'[i]) \cap graded = {}
                                 /\ CallsOf(inbox'[i]) \cap CallsOf(f) = {}
    BY <1>2, <1>3 DEF IInv, OneWhereabouts
  <2>3. \A i \in 1..Len(inbox') : \A o \in book' : o.call \notin CallsOf(inbox'[i])
    BY <1>1, <1>3 DEF IInv, OneWhereabouts
  <2>4. \A i, j \in 1..Len(inbox') : i # j => CallsOf(inbox'[i]) \cap CallsOf(inbox'[j]) = {}
    <3>1. \A i, j \in 1..Len(inbox') : i # j => i + 1 # j + 1
      OBVIOUS
    <3> QED BY <1>3, <3>1 DEF IInv, OneWhereabouts
  <2> QED BY <1>1, <2>1, <2>2, <2>3, <2>4 DEF OneWhereabouts, CallsOf
<1> QED BY <1>4, <1>6, <1>7, <1>8 DEF IInv

-----------------------------------------------------------------------------
(* Crashes of either side, which only ever take orders away.               *)
LEMMA CrashInv ==
  ASSUME IInv, Crash \/ VendorCrash
  PROVE  IInv'
<1>1. /\ book' \subseteq book /\ inbox' \in {inbox, <<>>}
      /\ queue' \in {queue, <<>>} /\ orderSeq' \in Nat
      /\ UNCHANGED <<result, side, graded>>
  BY DEF IInv, Typed, Crash, VendorCrash, VendorRestart, vendorVars, callVars, runVars, settleVars
<1>2. /\ \A d \in Calls : call'[d] = call[d] \/ call'[d] = "failed"
      /\ \A d \in Calls : wire'[d] = wire[d] \/ wire'[d] = "none"
      /\ call' \in [Calls -> {"new", "queued", "filled", "failed"} \cup Busy]
      /\ wire' \in [Calls -> {"none", "auth", "ack", "order", "fill"}]
  BY DEF IInv, Typed, Crash, VendorCrash, callVars
<1>3. queue' = <<>> \/ (call' = call /\ queue' = queue)
  <2>1. CASE Crash
    BY <2>1 DEF Crash
  <2>2. CASE VendorCrash
    BY <2>2 DEF VendorCrash, runVars
  <2> QED BY <2>1, <2>2
<1>4. inbox' \in Seq(Message) /\ queue' \in Seq(Calls)
  <2>1. <<>> \in Seq(Message) /\ <<>> \in Seq(Calls)
    OBVIOUS
  <2>2. inbox \in Seq(Message) /\ queue \in Seq(Calls)
    BY DEF IInv, Typed
  <2> QED BY <1>1, <2>1, <2>2
<1>5. Typed'
  BY <1>1, <1>2, <1>4 DEF IInv, Typed
<1>6. QueuedOnce'
  BY <1>3 DEF IInv, QueuedOnce
<1>7. \A d \in Calls : (Booked(d)' => Booked(d)) /\ (~Unsent(d) => ~Unsent(d)')
  BY <1>1, <1>2 DEF Booked, CallsOf, Unsent
<1>8. SentOnce'
  BY <1>2, <1>7 DEF IInv, SentOnce
<1>9. OneWhereabouts'
  <2>1. CASE inbox' = inbox
    BY <1>1, <2>1 DEF IInv, OneWhereabouts
  <2>2. CASE inbox' = <<>>
    BY <1>1, <2>2 DEF IInv, OneWhereabouts
  <2> QED BY <1>1, <2>1, <2>2
<1> QED BY <1>5, <1>6, <1>8, <1>9 DEF IInv

(* Steps that touch no variable of the invariant but reel and result.      *)
LEMMA ElsewhereInv ==
  ASSUME IInv,
         \/ \E s \in Sockets : PlayReel(s) \/ IngestorHangsUp(s)
         \/ PersistSession \/ Forget \/ Restart \/ UNCHANGED vars
  PROVE  IInv'
<1>1. /\ UNCHANGED <<book, orderSeq, call, side, wire, queue, inbox, graded>>
      /\ result' \in [Sockets -> Score]
  BY LiveBrokerAssumption, MockVendorAssumption
     DEF IInv, Typed, PlayReel, Connection, SendFrame, EndOfReel, IngestorHangsUp, HangUp,
         PersistSession, Forget, Restart, vars, vendorVars, callVars, runVars, settleVars
<1>2. Typed'
  BY <1>1 DEF IInv, Typed
<1> QED BY <1>1, <1>2 DEF IInv, SentOnce, QueuedOnce, OneWhereabouts, Booked, Unsent, CallsOf

-----------------------------------------------------------------------------
LEMMA Invariance == Spec => []IInv
<1>1. ASSUME IInv, [Next]_vars
      PROVE  IInv'
  <2>1. CASE \E c \in Calls : HttpExecute(c) \/ Command(c)
    BY <1>1, <2>1, CommandInv
  <2>2. CASE \E c \in Calls : Placing(c) \/ ConnectionLost(c) \/ AnswerAuth(c)
    BY <1>1, <2>2, ConnectionInv DEF Placing
  <2>3. CASE \E c \in Calls : AnswerOrder(c)
    BY <1>1, <2>3, AnswerOrderInv
  <2>4. CASE \E s \in Sockets : PublishSettlement(s)
    BY <1>1, <2>4, PublishSettlementInv
  <2>5. CASE TakeCommand
    BY <1>1, <2>5, TakeCommandInv
  <2>6. CASE Grade
    BY <1>1, <2>6, GradeInv
  <2>7. CASE VendorCrash \/ Crash
    BY <1>1, <2>7, CrashInv
  <2>8. CASE \/ \E s \in Sockets : PlayReel(s) \/ IngestorHangsUp(s)
             \/ PersistSession \/ Forget \/ Restart \/ UNCHANGED vars
    BY <1>1, <2>8, ElsewhereInv
  <2> QED BY <1>1, <2>1, <2>2, <2>3, <2>4, <2>5, <2>6, <2>7, <2>8 DEF Next, SettleLoop
<1> QED BY InitInv, <1>1, PTL DEF Spec

(* No order is settled twice, although neither the executor nor the        *)
(* bookmaker keeps a list of what it has settled (client.go settleLoop,    *)
(* server.js publishSettlement), sockets settle one book, and either side  *)
(* crashes at any step.                                                    *)
THEOREM SettledOnce == Spec => []OneWhereabouts
<1>1. IInv => OneWhereabouts
  BY DEF IInv
<1> QED BY <1>1, Invariance, PTL
-----------------------------------------------------------------------------
(* The queue that forget leaves.  Without is recursive: its function is    *)
(* built, and what it computes shown, by induction over the numbers.       *)

(* The least number of a set.                                              *)
LEMMA LeastNat ==
  ASSUME NEW S \in SUBSET Nat, S # {}
  PROVE  \E n \in S : \A m \in S : n <= m
<1>1. PICK n \in S : \A m \in S : <<m, n>> \notin OpToRel(<, Nat)
  BY WFMin, NatLessThanWellFounded, Zenon
<1>2. \A m \in S : ~(m < n)
  BY <1>1, Zenon DEF OpToRel
<1> QED BY <1>2

(* Induction over the numbers up to n, with a set for the property.        *)
LEMMA Upward ==
  ASSUME NEW n \in Nat, NEW T, 0 \in T, \A i \in 0..n : i # 0 /\ i - 1 \in T => i \in T
  PROVE  0..n \subseteq T
<1> DEFINE S == {i \in 0..n : i \notin T}
<1>1. SUFFICES ASSUME S # {} PROVE FALSE
  OBVIOUS
<1>2. PICK m \in S : \A k \in S : m <= k
  <2>1. S \in SUBSET Nat
    OBVIOUS
  <2> HIDE DEF S
  <2> QED BY <1>1, <2>1, LeastNat
<1>3. m # 0 /\ m - 1 \in 0..n
  BY <1>2
<1>4. m - 1 \in T
  BY <1>2, <1>3
<1>5. m \in 0..n /\ m \notin T
  BY <1>2
<1> QED BY <1>3, <1>4, <1>5

(* g is the function that Without computes, up to entry n.                 *)
Entries(g, q, ids, n) ==
  g = [i \in 0..n |-> IF i = 0 THEN <<>>
                      ELSE IF q[i] \in ids THEN g[i - 1] ELSE Append(g[i - 1], q[i])]

(* The function exists, so Without is what its definition says.            *)
LEMMA EntriesExist ==
  ASSUME NEW q, NEW ids, NEW n \in Nat
  PROVE  \E g : Entries(g, q, ids, n)
<1> DEFINE T == {m \in Nat : \E g : Entries(g, q, ids, m)}
<1>1. 0 \in T
  <2>1. Entries([i \in 0..0 |-> <<>>], q, ids, 0)
    BY DEF Entries
  <2> QED BY <2>1
<1>2. ASSUME NEW m \in 0..n, m # 0, m - 1 \in T
      PROVE  m \in T
  <2>1. PICK g : Entries(g, q, ids, m - 1)
    BY <1>2
  <2> DEFINE h == [i \in 0..m |-> IF i < m THEN g[i]
                     ELSE IF q[m] \in ids THEN g[m - 1] ELSE Append(g[m - 1], q[m])]
  <2>2. \A i \in 0..(m - 1) :
          g[i] = IF i = 0 THEN <<>>
                 ELSE IF q[i] \in ids THEN g[i - 1] ELSE Append(g[i - 1], q[i])
    BY <2>1 DEF Entries
  <2>3. \A i \in 0..m : /\ i < m => i \in 0..(m - 1) /\ h[i] = g[i]
                        /\ i # 0 => i - 1 \in 0..m /\ h[i - 1] = g[i - 1]
                        /\ i < m \/ i = m
    OBVIOUS
  <2>4. \A i \in 0..m : h[i] = IF i = 0 THEN <<>>
                               ELSE IF q[i] \in ids THEN h[i - 1] ELSE Append(h[i - 1], q[i])
    BY <1>2, <2>2, <2>3
  <2>5. Entries(h, q, ids, m)
    BY <2>4 DEF Entries
  <2> QED BY <1>2, <2>5
<1> HIDE DEF T
<1>3. 0..n \subseteq T
  BY <1>1, <1>2, Upward
<1>4. n \in T
  BY <1>3
<1> QED BY <1>4 DEF T

LEMMA WithoutIs ==
  ASSUME NEW q, NEW ids, Len(q) \in Nat
  PROVE  \E g : Entries(g, q, ids, Len(q)) /\ Without(q, ids) = g[Len(q)]
<1> DEFINE r == CHOOSE g : Entries(g, q, ids, Len(q))
<1>1. Entries(r, q, ids, Len(q))
  BY EntriesExist, Zenon
<1>2. Without(q, ids) = r[Len(q)]
  BY DEF Without, Entries
<1> QED BY <1>1, <1>2

NoneTwice(q) == \A i, j \in 1..Len(q) : i # j => q[i] # q[j]
Entry(q)     == {q[i] : i \in 1..Len(q)}

(* forget takes the settled orders out of a queue that holds none twice.   *)
LEMMA WithoutKeeps ==
  ASSUME NEW S, NEW q \in Seq(S), NEW ids, NoneTwice(q)
  PROVE  /\ Without(q, ids) \in Seq(S) /\ Len(Without(q, ids)) <= Len(q)
         /\ NoneTwice(Without(q, ids))
         /\ Entry(Without(q, ids)) = Entry(q) \ ids
<1> DEFINE n == Len(q)
<1>1. PICK g : Entries(g, q, ids, n) /\ Without(q, ids) = g[n]
  BY WithoutIs
<1> DEFINE T == {m \in 0..n :
                   /\ g[m] \in Seq(S) /\ Len(g[m]) <= m
                   /\ \A i, j \in 1..Len(g[m]) : i # j => g[m][i] # g[m][j]
                   /\ {g[m][i] : i \in 1..Len(g[m])} = {q[i] : i \in 1..m} \ ids}
<1>2. 0 \in T
  <2>1. n \in Nat /\ g[0] = <<>>
    BY <1>1 DEF Entries
  <2>2. g[0] \in Seq(S) /\ Len(g[0]) = 0 /\ 1..0 = {}
    BY <2>1
  <2>3. {g[0][i] : i \in 1..Len(g[0])} = {q[i] : i \in 1..0} \ ids
    BY <2>2
  <2>4. \A i, j \in 1..Len(g[0]) : i # j => g[0][i] # g[0][j]
    BY <2>2
  <2>5. 0 \in 0..n /\ Len(g[0]) <= 0
    BY <2>1, <2>2
  <2> HIDE DEF n
  <2> QED BY <2>2, <2>3, <2>4, <2>5, Zenon
<1>3. ASSUME NEW m \in 0..n, m # 0, m - 1 \in T
      PROVE  m \in T
  <2> DEFINE p == g[m - 1]
  <2>1. g[m] = IF q[m] \in ids THEN p ELSE Append(p, q[m])
    BY <1>1, <1>3 DEF Entries
  <2>2. /\ p \in Seq(S) /\ Len(p) <= m - 1
        /\ \A i, j \in 1..Len(p) : i # j => p[i] # p[j]
        /\ {p[i] : i \in 1..Len(p)} = {q[i] : i \in 1..(m - 1)} \ ids
    BY <1>3
  <2>3. {q[i] : i \in 1..m} = {q[i] : i \in 1..(m - 1)} \cup {q[m]}
    BY <1>3
  <2>4. q[m] \in S /\ m \in 1..n
    BY <1>3
  <2> HIDE DEF p
  <2>5. CASE q[m] \in ids
    <3>1. g[m] = p
      BY <2>1, <2>5
    <3>2. {q[i] : i \in 1..m} \ ids = {q[i] : i \in 1..(m - 1)} \ ids
      BY <2>3, <2>5
    <3>3. g[m] \in Seq(S) /\ Len(g[m]) <= m
      BY <2>2, <3>1
    <3> QED BY <2>2, <3>1, <3>2, <3>3
  <2>6. CASE q[m] \notin ids
    <3>1. g[m] = Append(p, q[m])
      BY <2>1, <2>6
    <3>2. /\ g[m] \in Seq(S) /\ Len(g[m]) = Len(p) + 1 /\ Len(p) \in Nat
          /\ \A i \in 1..Len(p) : g[m][i] = p[i]
          /\ g[m][Len(p) + 1] = q[m]
      BY <2>2, <2>4, <3>1
    <3>3. \A i \in 1..Len(p) : p[i] # q[m]
      <4>1. \A i \in 1..Len(p) : p[i] \in {q[j] : j \in 1..(m - 1)}
        BY <2>2
      <4>2. \A j \in 1..(m - 1) : q[j] # q[m]
        BY <2>4 DEF NoneTwice
      <4> QED BY <4>1, <4>2
    <3>4. \A i \in 1..Len(g[m]) : i \in 1..Len(p) \/ i = Len(p) + 1
      BY <3>2
    <3>5. \A i, j \in 1..Len(g[m]) : i # j => g[m][i] # g[m][j]
      BY <2>2, <3>2, <3>3, <3>4
    <3>6. {g[m][i] : i \in 1..Len(g[m])} = {p[i] : i \in 1..Len(p)} \cup {q[m]}
      BY <3>2, <3>4
    <3>7. {q[i] : i \in 1..m} \ ids = ({q[i] : i \in 1..(m - 1)} \ ids) \cup {q[m]}
      BY <2>3, <2>6
    <3>8. Len(g[m]) <= m
      BY <2>2, <3>2
    <3> QED BY <2>2, <3>2, <3>5, <3>6, <3>7, <3>8
  <2> QED BY <2>5, <2>6
<1> HIDE DEF T
<1>4. n \in Nat
  OBVIOUS
<1>5. n \in T
  <2>1. 0..n \subseteq T
    BY <1>2, <1>3, <1>4, Upward
  <2> QED BY <1>4, <2>1
<1> QED BY <1>1, <1>5 DEF T, NoneTwice, Entry
-----------------------------------------------------------------------------
(* Types.  order_ids stay within the number of calls, because an order the *)
(* bookmaker numbers has left its connection for good.                     *)

N == Cardinality(Calls)

(* Calls that have sent an order which is not under way: those the         *)
(* bookmaker has booked are among them.                                    *)
Taken == {c \in Calls : ~Unsent(c) /\ wire[c] # "order"}

TypeInv ==
  /\ TypeOK
  /\ orderSeq <= Cardinality(Taken)
  /\ \A c \in Calls : wire[c] = "fill" => ticket[c] > 0

LEMMA FiniteCalls ==
  ASSUME NEW S \in SUBSET Calls
  PROVE  N \in Nat /\ IsFiniteSet(S) /\ Cardinality(S) \in 0..N
BY MockVendorAssumption, FS_Subset, FS_CardinalityType DEF N

(* The counters of a settlement are numbers.                               *)
LEMMA TotalsOfFrame ==
  ASSUME NEW f \in SettlementFrame
  PROVE  settlementTotals(f) \in Totals
<1> DEFINE Graded == [call : Calls, result : Result]
<1>1. IsFiniteSet(Calls \X Result)
  <2>1. IsFiniteSet(Result)
    <3>1. IsFiniteSet({}) /\ Result = {} \cup {"won"} \cup {"lost"} \cup {"void"} \cup {"unresolved"}
      BY FS_EmptySet DEF Result
    <3> QED BY <3>1, FS_AddElement, Zenon
  <2> QED BY <2>1, MockVendorAssumption, FS_Product
<1>2. IsFiniteSet(Graded)
  <2> DEFINE h == [g \in Graded |-> <<g.call, g.result>>]
  <2>1. h \in [Graded -> Calls \X Result]
    OBVIOUS
  <2>2. \A a, b \in Graded : h[a] = h[b] => a = b
    OBVIOUS
  <2>3. h \in Injection(Graded, Calls \X Result)
    BY <2>1, <2>2 DEF Injection, IsInjective
  <2> QED BY <1>1, <2>3, FS_Injection
<1>3. SettledOrders(f) \in SUBSET Graded
  <2>1. \A o \in f.orders : o.call \in Calls /\ o.side \in Score
    BY DEF SettlementFrame, BookedOrder
  <2>2. \A o \in f.orders : Verdict(o.side, f.score, f.verified) \in Result
    BY <2>1 DEF Verdict, outcomeFor, Result
  <2> QED BY <2>1, <2>2 DEF SettledOrders
<1>4. \A n \in Counter : Cardinality({o \in SettledOrders(f) : o.result \in Counts[n]}) \in Nat
  BY <1>2, <1>3, FS_Subset, FS_CardinalityType
<1> QED BY <1>4 DEF settlementTotals, Totals

LEMMA PlusType ==
  ASSUME NEW a \in Totals, NEW b \in Totals
  PROVE  Plus(a, b) \in Totals
BY DEF Plus, Totals

LEMMA InitTypes == Init => TypeInv
<1> SUFFICES ASSUME Init PROVE TypeInv
  OBVIOUS
<1>1. N \in Nat /\ Cardinality(Taken) \in Nat
  BY FiniteCalls DEF Taken
<1>2. NoTotals \in Totals /\ Closed \in 0..Closed
  BY MockVendorAssumption DEF NoTotals, Totals, Closed
<1>3. VendorTypeOK
  BY <1>1, <1>2 DEF Init, VendorInit, VendorTypeOK, N, Score
<1>4. ExecutorInit
  BY DEF Init
<1>5. <<>> \in Seq(Calls) /\ <<>> \in Seq(1..N) /\ <<>> \in Seq(SettlementFrame)
  OBVIOUS
<1>6. /\ call \in [Calls -> {"new", "queued", "filled", "failed"} \cup Busy]
      /\ side \in [Calls -> Score] /\ ticket \in [Calls -> 0..N]
      /\ wire \in [Calls -> {"none", "auth", "ack", "order", "fill"}]
  BY <1>1, <1>4 DEF ExecutorInit, Score
<1>7. /\ queue \in Seq(Calls) /\ held \in Seq(1..N) /\ inbox \in Seq(SettlementFrame)
      /\ positions \in SUBSET (1..N) /\ serving \in Calls \cup {NoCall}
      /\ session \in Totals /\ hash \in Totals /\ base \in Totals
      /\ faults \in 0..MaxFaults
  BY <1>2, <1>4, <1>5, LiveBrokerAssumption DEF ExecutorInit
<1>8. TypeOK
  BY <1>3, <1>4, <1>6, <1>7 DEF ExecutorInit, TypeOK, N
<1> QED BY <1>1, <1>8 DEF TypeInv, Init, VendorInit, ExecutorInit

(* Steps after which the bookmaker has not booked more.                    *)
LEMMA TakenKept ==
  ASSUME TypeInv, IInv, orderSeq' \in 0..orderSeq,
         \A c \in Calls : ~Unsent(c) /\ wire[c] # "order" =>
                          ~Unsent(c)' /\ wire'[c] # "order",
         ticket' = ticket,
         \A c \in Calls : wire'[c] = "fill" => wire[c] = "fill"
  PROVE  /\ orderSeq' <= Cardinality(Taken')
         /\ \A c \in Calls : wire'[c] = "fill" => ticket'[c] > 0
<1>1. Taken \in SUBSET Taken' /\ Taken' \in SUBSET Calls
  BY DEF Taken
<1>2. Cardinality(Taken) <= Cardinality(Taken') /\ Cardinality(Taken) \in Nat
      /\ Cardinality(Taken') \in Nat
  BY <1>1, FiniteCalls, FS_Subset
<1>3. orderSeq \in Nat /\ orderSeq <= Cardinality(Taken)
  BY DEF TypeInv, IInv, Typed
<1> QED BY <1>2, <1>3 DEF TypeInv

LEMMA CommandTypes ==
  ASSUME TypeInv, IInv, NEW c \in Calls, HttpExecute(c) \/ Command(c)
  PROVE  TypeInv'
<1>1. TypeOK'
  <2>1. /\ call' \in [Calls -> {"new", "queued", "filled", "failed"} \cup Busy]
        /\ wire' \in [Calls -> {"none", "auth", "ack", "order", "fill"}]
    BY DEF TypeInv, TypeOK, HttpExecute, Command, Dialled, Busy
  <2>2. side' \in [Calls -> Score]
    BY LiveBrokerAssumption DEF TypeInv, TypeOK, HttpExecute, Command
  <2>3. queue' \in Seq(Calls)
    <3>1. queue \in Seq(Calls)
      BY DEF TypeInv, TypeOK
    <3>2. Append(queue, c) \in Seq(Calls)
      BY <3>1
    <3> QED BY <3>1, <3>2 DEF HttpExecute, Command, runVars
  <2>4. UNCHANGED <<vendorVars, up, ticket, serving, storeVars, settleVars, faults>>
    BY DEF HttpExecute, Command, runVars
  <2> QED BY <2>1, <2>2, <2>3, <2>4
          DEF TypeInv, TypeOK, VendorTypeOK, vendorVars, storeVars, settleVars
<1>2. \A d \in Calls : /\ d # c => call'[d] = call[d] /\ wire'[d] = wire[d]
                       /\ wire'[d] # wire[d] => wire'[d] = "auth"
  BY DEF TypeInv, TypeOK, HttpExecute, Command, Dialled
<1>3. Unsent(c) /\ UNCHANGED <<orderSeq, ticket>>
  BY DEF HttpExecute, Command, Unsent, vendorVars
<1>4. orderSeq' \in 0..orderSeq
  BY <1>3 DEF IInv, Typed
<1>5. \A d \in Calls : ~Unsent(d) /\ wire[d] # "order" => ~Unsent(d)' /\ wire'[d] # "order"
  BY <1>2, <1>3 DEF Unsent
<1>6. \A d \in Calls : wire'[d] = "fill" => wire[d] = "fill"
  BY <1>2
<1> QED BY <1>1, <1>3, <1>4, <1>5, <1>6, TakenKept DEF TypeInv

LEMMA TakeCommandTypes ==
  ASSUME TypeInv, IInv, TakeCommand
  PROVE  TypeInv'
<1> DEFINE c == Head(queue)
<1>1. c \in Calls /\ call[c] = "queued" /\ Tail(queue) \in Seq(Calls)
  <2>1. queue \in Seq(Calls) /\ queue # <<>>
    BY DEF IInv, Typed, TakeCommand
  <2>2. c = queue[1] /\ 1 \in 1..Len(queue) /\ c \in Calls /\ Tail(queue) \in Seq(Calls)
    BY <2>1
  <2> QED BY <2>2 DEF IInv, QueuedOnce
<1>2. /\ call' = [call EXCEPT ![c] = "auth"] /\ wire' = [wire EXCEPT ![c] = "auth"]
      /\ queue' = Tail(queue) /\ serving' = c
      /\ UNCHANGED <<vendorVars, up, side, ticket, storeVars, settleVars, faults>>
  BY DEF TakeCommand, Dialled
<1>3. TypeOK'
  BY <1>1, <1>2 DEF TypeInv, TypeOK, VendorTypeOK, vendorVars, storeVars, settleVars, Busy
<1>4. /\ \A d \in Calls : d # c => call'[d] = call[d] /\ wire'[d] = wire[d]
      /\ wire'[c] = "auth" /\ call'[c] = "auth"
  BY <1>1, <1>2 DEF TypeInv, TypeOK
<1>5. \A d \in Calls : ~Unsent(d) /\ wire[d] # "order" => ~Unsent(d)' /\ wire'[d] # "order"
  BY <1>1, <1>4 DEF Unsent
<1>6. \A d \in Calls : wire'[d] = "fill" => wire[d] = "fill"
  BY <1>4
<1>7. orderSeq' \in 0..orderSeq /\ ticket' = ticket
  BY <1>2 DEF IInv, Typed, vendorVars
<1> QED BY <1>3, <1>5, <1>6, <1>7, TakenKept DEF TypeInv

LEMMA ConnectionTypes ==
  ASSUME TypeInv, IInv, NEW c \in Calls,
         Authenticated(c) \/ Filled(c) \/ ReadFails(c) \/ ConnectionLost(c) \/ AnswerAuth(c)
  PROVE  TypeInv'
<1>1. /\ UNCHANGED <<vendorVars, up, side, ticket, queue, settleVars>>
      /\ serving' \in {serving, NoCall} /\ faults' \in 0..MaxFaults
  <2>1. faults \in 0..MaxFaults /\ MaxFaults \in Nat
    BY LiveBrokerAssumption DEF TypeInv, TypeOK
  <2>2. faults' \in 0..MaxFaults
    BY <2>1 DEF Authenticated, Filled, ReadFails, ConnectionLost, AnswerAuth, Fault
  <2>3. serving' \in {serving, NoCall}
    BY DEF Authenticated, Filled, ReadFails, Failed, Return, ConnectionLost, AnswerAuth, runVars
  <2> QED BY <2>2, <2>3
          DEF Authenticated, Filled, ReadFails, ConnectionLost, AnswerAuth, runVars
<1>2. /\ call' \in [Calls -> {"new", "queued", "filled", "failed"} \cup Busy]
      /\ wire' \in [Calls -> {"none", "auth", "ack", "order", "fill"}]
  BY DEF TypeInv, TypeOK, Authenticated, Filled, ReadFails, Failed, ConnectionLost, AnswerAuth,
         Busy
<1>3. positions' \in SUBSET (1..N) /\ held' \in Seq(1..N)
  <2>1. CASE Filled(c)
    <3>1. ticket[c] \in 1..N
      BY <2>1, FiniteCalls DEF Filled, TypeInv, TypeOK, N
    <3>2. held \in Seq(1..N) /\ positions \in SUBSET (1..N)
      BY DEF TypeInv, TypeOK, N
    <3>3. Len(held) >= Cap => Tail(held) \in Seq(1..N)
      BY <3>2, LiveBrokerAssumption
    <3>4. (IF Len(held) < Cap THEN held ELSE Tail(held)) \in Seq(1..N)
      <4>1. CASE Len(held) < Cap
        BY <3>2, <4>1
      <4>2. CASE ~(Len(held) < Cap)
        <5>1. Len(held) >= Cap
          BY <3>2, <4>2, LiveBrokerAssumption
        <5> QED BY <3>3, <4>2, <5>1
      <4> QED BY <4>1, <4>2
    <3>5. Append(IF Len(held) < Cap THEN held ELSE Tail(held), ticket[c]) \in Seq(1..N)
      BY <3>1, <3>4
    <3> QED BY <2>1, <3>1, <3>2, <3>5 DEF Filled, recordFill, storeVars
  <2>2. CASE ~Filled(c)
    BY <2>2 DEF TypeInv, TypeOK, N, Authenticated, ReadFails, ConnectionLost, AnswerAuth, storeVars
  <2> QED BY <2>1, <2>2
<1>4. TypeOK'
  BY <1>1, <1>2, <1>3 DEF TypeInv, TypeOK, VendorTypeOK, N, vendorVars, settleVars
<1>5. \A d \in Calls : d # c => call'[d] = call[d] /\ wire'[d] = wire[d]
  BY DEF TypeInv, TypeOK, Authenticated, Filled, ReadFails, Failed, ConnectionLost, AnswerAuth
<1>6. /\ ~Unsent(c) => ~Unsent(c)'
      /\ wire'[c] = "order" => wire[c] = "order" \/ Unsent(c)
      /\ wire'[c] = "fill" => wire[c] = "fill"
  BY DEF TypeInv, TypeOK, Unsent, Authenticated, Filled, ReadFails, Failed, ConnectionLost,
         AnswerAuth
<1>7. \A d \in Calls : ~Unsent(d) /\ wire[d] # "order" => ~Unsent(d)' /\ wire'[d] # "order"
  BY <1>5, <1>6 DEF Unsent
<1>8. \A d \in Calls : wire'[d] = "fill" => wire[d] = "fill"
  BY <1>5, <1>6
<1>9. orderSeq' \in 0..orderSeq
  BY <1>1 DEF IInv, Typed, vendorVars
<1> QED BY <1>1, <1>4, <1>7, <1>8, <1>9, TakenKept DEF TypeInv

(* The bookmaker takes one more order, and numbers it.                     *)
LEMMA AnswerOrderTypes ==
  ASSUME TypeInv, IInv, NEW c \in Calls, AnswerOrder(c)
  PROVE  TypeInv'
<1> DEFINE o == [order_id |-> orderSeq + 1, call |-> c, side |-> side[c]]
<1>1. /\ book' = book \cup {o} /\ orderSeq' = orderSeq + 1
      /\ wire[c] = "order" /\ wire' = [wire EXCEPT ![c] = "fill"]
      /\ ticket' = [ticket EXCEPT ![c] = orderSeq + 1]
      /\ UNCHANGED <<reel, result, up, call, side, runVars, storeVars, settleVars, faults>>
  BY DEF AnswerOrder, BookOrder, Answered
<1>2. Taken' = Taken \cup {c} /\ c \notin Taken
  <2>1. ~Unsent(c)
    BY <1>1 DEF IInv, SentOnce
  <2>2. \A d \in Calls : /\ Unsent(d)' <=> Unsent(d)
                         /\ d # c => wire'[d] = wire[d]
    BY <1>1 DEF Unsent, TypeInv, TypeOK
  <2>3. wire'[c] = "fill"
    BY <1>1 DEF TypeInv, TypeOK
  <2> QED BY <1>1, <2>1, <2>2, <2>3 DEF Taken
<1>3. Cardinality(Taken') = Cardinality(Taken) + 1 /\ Cardinality(Taken) \in Nat
  <2>1. IsFiniteSet(Taken) /\ Cardinality(Taken) \in Nat
    BY FiniteCalls DEF Taken
  <2> QED BY <1>2, <2>1, FS_AddElement
<1>4. Cardinality(Taken') \in 0..N /\ N \in Nat
  <2>1. Taken' \in SUBSET Calls
    BY DEF Taken
  <2> QED BY <2>1, FiniteCalls
<1>5. orderSeq \in Nat /\ orderSeq <= Cardinality(Taken)
  BY DEF TypeInv, IInv, Typed
<1>6. orderSeq + 1 \in 1..N /\ orderSeq' <= Cardinality(Taken')
  BY <1>1, <1>3, <1>4, <1>5
<1>7. o \in BookedOrder
  BY <1>6 DEF BookedOrder, N, TypeInv, TypeOK
<1>8. VendorTypeOK'
  BY <1>1, <1>6, <1>7 DEF TypeInv, TypeOK, VendorTypeOK, N
<1>9. TypeOK'
  BY <1>1, <1>6, <1>8
     DEF TypeInv, TypeOK, N, runVars, storeVars, settleVars
<1>10. \A d \in Calls : wire'[d] = "fill" => ticket'[d] > 0
  BY <1>1, <1>6 DEF TypeInv, TypeOK
<1> QED BY <1>6, <1>9, <1>10 DEF TypeInv

LEMMA VendorTypes ==
  ASSUME TypeInv, IInv, NEW s \in Sockets,
         PublishSettlement(s) \/ PlayReel(s) \/ IngestorHangsUp(s)
  PROVE  TypeInv'
<1>1. /\ UNCHANGED <<orderSeq, up, callVars, runVars, storeVars>>
      /\ UNCHANGED <<loop, session, hash, base, unsaved, graded>>
      /\ book' \in {book, {}} /\ faults' \in 0..MaxFaults
      /\ inbox' \in {inbox, Append(inbox, settlement(s))}
  <2>1. faults \in 0..MaxFaults /\ MaxFaults \in Nat
    BY LiveBrokerAssumption DEF TypeInv, TypeOK
  <2>2. CASE PublishSettlement(s)
    <3>1. faults' \in 0..MaxFaults /\ inbox' \in {inbox, Append(inbox, settlement(s))}
      BY <2>1, <2>2 DEF PublishSettlement, Publishes, Fault
    <3> QED BY <2>2, <3>1 DEF PublishSettlement, FullTime, DeleteSettled
  <2>3. CASE PlayReel(s)
    BY <2>1, <2>3 DEF PlayReel, Connection, SendFrame, EndOfReel, settleVars
  <2>4. CASE IngestorHangsUp(s)
    <3>1. faults' \in 0..MaxFaults
      BY <2>1, <2>4 DEF IngestorHangsUp, Fault
    <3> QED BY <2>4, <3>1 DEF IngestorHangsUp, HangUp, settleVars
  <2> QED BY <2>2, <2>3, <2>4
<1>2. reel' \in [Sockets -> 0..Closed] /\ result' \in [Sockets -> Score]
  <2>1. Frames \in Nat /\ Outcomes \subseteq Score /\ Closed = Frames + 1
        /\ reel \in [Sockets -> 0..Closed] /\ result \in [Sockets -> Score]
    BY MockVendorAssumption DEF TypeInv, TypeOK, VendorTypeOK, Closed
  <2>2. result' \in [Sockets -> Score]
    BY <2>1 DEF PublishSettlement, FullTime, PlayReel, Connection, SendFrame, EndOfReel,
                IngestorHangsUp, HangUp
  <2>3. \E r \in 0..Closed : reel' = [reel EXCEPT ![s] = r]
    <3>1. CASE PlayReel(s)
      BY <2>1, <3>1 DEF PlayReel, Connection, SendFrame, EndOfReel
    <3>2. CASE PublishSettlement(s) \/ IngestorHangsUp(s)
      BY <2>1, <3>2 DEF PublishSettlement, FullTime, IngestorHangsUp, HangUp
    <3> QED BY <3>1, <3>2
  <2> QED BY <2>1, <2>2, <2>3
<1>3. settlement(s) \in SettlementFrame
  BY DEF settlement, SettlementFrame, TypeInv, TypeOK, VendorTypeOK
<1>4. inbox' \in Seq(SettlementFrame)
  <2>1. inbox \in Seq(SettlementFrame)
    BY DEF TypeInv, TypeOK
  <2>2. Append(inbox, settlement(s)) \in Seq(SettlementFrame)
    BY <1>3, <2>1
  <2> QED BY <1>1, <2>1, <2>2
<1>5. TypeOK'
  BY <1>1, <1>2, <1>4 DEF TypeInv, TypeOK, VendorTypeOK, callVars, runVars, storeVars
<1>6. orderSeq' \in 0..orderSeq /\ UNCHANGED <<call, wire, ticket>>
  BY <1>1 DEF IInv, Typed, callVars
<1> QED BY <1>5, <1>6, TakenKept DEF TypeInv, Unsent

LEMMA SettleTypes ==
  ASSUME TypeInv, IInv, SettleLoop \/ Restart \/ UNCHANGED vars,
         held' \in Seq(1..N)
  PROVE  TypeInv'
<1>1. /\ UNCHANGED <<vendorVars, callVars, runVars, faults>> \/ Grade \/ PersistSession
      /\ UNCHANGED <<vendorVars, callVars, runVars>>
  BY DEF SettleLoop, Grade, PersistSession, Forget, Restart, vars, runVars
<1>2. CASE Grade
  <2>1. inbox \in Seq(SettlementFrame) /\ inbox # <<>>
    BY <1>2 DEF Grade, TypeInv, TypeOK
  <2>2. Head(inbox) \in SettlementFrame /\ Tail(inbox) \in Seq(SettlementFrame)
    BY <2>1
  <2>3. /\ inbox' = Tail(inbox) /\ loop' = [at |-> "graded", frame |-> Head(inbox)]
        /\ session' = Plus(session, settlementTotals(Head(inbox)))
        /\ graded' = graded \cup {o.call : o \in Head(inbox).orders}
        /\ UNCHANGED <<vendorVars, up, callVars, runVars, storeVars, hash, base, unsaved, faults>>
    BY <1>2 DEF Grade
  <2>4. session' \in Totals
    BY <2>2, <2>3, TotalsOfFrame, PlusType DEF TypeInv, TypeOK
  <2>5. graded' \in SUBSET Calls
    BY <2>2, <2>3 DEF SettlementFrame, BookedOrder, TypeInv, TypeOK
  <2>6. loop' \in [at : {"graded", "saved"}, frame : SettlementFrame]
    BY <2>2, <2>3
  <2>7. TypeOK'
    BY <2>2, <2>3, <2>4, <2>5, <2>6
       DEF TypeInv, TypeOK, VendorTypeOK, vendorVars, callVars, runVars, storeVars
  <2> QED BY <2>3, <2>7, TakenKept DEF TypeInv, IInv, Typed, Unsent, vendorVars, callVars
<1>3. CASE PersistSession
  <2>1. loop.at = "graded" /\ loop' = [loop EXCEPT !.at = "saved"]
    BY <1>3 DEF PersistSession
  <2>2. loop \in [at : {"graded", "saved"}, frame : SettlementFrame]
    BY <2>1 DEF TypeInv, TypeOK, Idle
  <2>3. loop.frame \in SettlementFrame
        /\ loop' \in [at : {"graded", "saved"}, frame : SettlementFrame]
    BY <2>1, <2>2
  <2>4. hash' \in Totals
    BY <1>3, <2>3, TotalsOfFrame, PlusType DEF PersistSession, saveDelta, TypeInv, TypeOK
  <2>5. faults' \in 0..MaxFaults /\ unsaved' \in BOOLEAN
        /\ UNCHANGED <<up, storeVars, inbox, session, base, graded>>
    <3>1. faults \in 0..MaxFaults /\ MaxFaults \in Nat /\ unsaved \in BOOLEAN
      BY LiveBrokerAssumption DEF TypeInv, TypeOK
    <3>2. faults' \in 0..MaxFaults
      BY <1>3, <3>1 DEF PersistSession, Fault
    <3> QED BY <1>3, <3>1, <3>2 DEF PersistSession
  <2>6. TypeOK'
    BY <1>1, <2>3, <2>4, <2>5
       DEF TypeInv, TypeOK, VendorTypeOK, vendorVars, callVars, runVars, storeVars
  <2> QED BY <1>1, <2>6, TakenKept DEF TypeInv, IInv, Typed, Unsent, vendorVars, callVars
<1>4. CASE ~Grade /\ ~PersistSession
  <2>1. TypeOK'
    BY <1>1, <1>4
       DEF TypeInv, TypeOK, VendorTypeOK, N, SettleLoop, Forget, Restart, vars, vendorVars,
           callVars, runVars, storeVars, settleVars
  <2> QED BY <1>1, <2>1, TakenKept DEF TypeInv, IInv, Typed, Unsent, vendorVars, callVars
<1> QED BY <1>2, <1>3, <1>4

LEMMA CrashTypes ==
  ASSUME TypeInv, IInv, Crash \/ VendorCrash
  PROVE  TypeInv'
<1>1. NoTotals \in Totals /\ Closed \in 0..Closed /\ N \in Nat
  BY MockVendorAssumption, FiniteCalls DEF NoTotals, Totals, Closed
<1>2. <<>> \in Seq(Calls) /\ <<>> \in Seq(1..N) /\ <<>> \in Seq(SettlementFrame)
  OBVIOUS
<1>3. faults' \in 0..MaxFaults
  <2>1. faults \in 0..MaxFaults /\ MaxFaults \in Nat
    BY LiveBrokerAssumption DEF TypeInv, TypeOK
  <2> QED BY <2>1 DEF Crash, VendorCrash, Fault
<1>4. CASE Crash
  <2>1. call' \in [Calls -> {"new", "queued", "filled", "failed"} \cup Busy]
    BY <1>4 DEF Crash, TypeInv, TypeOK, Busy
  <2>2. TypeOK'
    BY <1>1, <1>2, <1>3, <1>4, <2>1 DEF Crash, TypeInv, TypeOK, VendorTypeOK, N, vendorVars, Idle
  <2>3. \A d \in Calls : ~Unsent(d) => ~Unsent(d)'
    BY <1>4 DEF Crash, Unsent, TypeInv, TypeOK
  <2>4. UNCHANGED <<orderSeq, ticket, wire>>
    BY <1>4 DEF Crash, vendorVars
  <2>5. orderSeq' \in 0..orderSeq
    BY <2>4 DEF IInv, Typed
  <2> QED BY <2>2, <2>3, <2>4, <2>5, TakenKept DEF TypeInv
<1>5. CASE VendorCrash
  <2>1. VendorTypeOK'
    BY <1>1, <1>5 DEF VendorCrash, VendorRestart, TypeInv, TypeOK, VendorTypeOK, N
  <2>2. TypeOK'
    BY <1>3, <1>5, <2>1
       DEF VendorCrash, TypeInv, TypeOK, runVars, storeVars, settleVars
  <2>3. orderSeq' \in 0..orderSeq /\ UNCHANGED <<call, ticket>>
        /\ \A d \in Calls : wire'[d] = "none"
    BY <1>5 DEF VendorCrash, VendorRestart, IInv, Typed
  <2> QED BY <2>2, <2>3, TakenKept DEF TypeInv, Unsent
<1> QED BY <1>4, <1>5

-----------------------------------------------------------------------------
(* The position store and the queue that bounds it.                        *)

StoreInv ==
  /\ NoneTwice(held)
  /\ positions = Entry(held)
  /\ Len(held) <= Cap

LEMMA FilledStore ==
  ASSUME TypeInv, StoreInv, NEW c \in Calls, Filled(c)
  PROVE  StoreInv'
<1> DEFINE id == ticket[c]
           kept == IF Len(held) < Cap THEN held ELSE Tail(held)
<1>1. held \in Seq(1..N) /\ Len(held) \in Nat /\ Len(held) <= Cap /\ Cap \in Nat /\ Cap > 0
      /\ id \in 1..N
  BY LiveBrokerAssumption, FiniteCalls DEF TypeInv, TypeOK, N, StoreInv, Filled
<1>2. CASE id \in positions
  BY <1>2 DEF Filled, recordFill, storeVars, StoreInv
<1>3. CASE id \notin positions
  <2>1. held' = Append(kept, id)
        /\ positions' = (IF kept = held THEN positions ELSE positions \ {Head(held)}) \cup {id}
    BY <1>3 DEF Filled, recordFill
  <2>2. /\ kept \in Seq(1..N) /\ Len(kept) < Cap
        /\ NoneTwice(kept)
        /\ Entry(kept) = IF kept = held THEN positions ELSE positions \ {Head(held)}
    <3>1. CASE Len(held) < Cap
      BY <1>1, <3>1 DEF StoreInv
    <3>2. CASE ~(Len(held) < Cap)
      <4>1. /\ Len(held) = Cap /\ kept = Tail(held) /\ Head(held) = held[1]
            /\ kept \in Seq(1..N) /\ Len(kept) = Len(held) - 1
            /\ \A i \in 1..Len(kept) : kept[i] = held[i + 1]
        BY <1>1, <3>2
      <4>2. \A i \in 1..Len(kept) : i + 1 \in 1..Len(held) /\ i + 1 # 1
        BY <1>1, <4>1
      <4>3. NoneTwice(kept)
        <5>1. \A i, j \in 1..Len(kept) : i # j => i + 1 # j + 1
          BY <1>1, <4>1
        <5> QED BY <4>1, <4>2, <5>1 DEF StoreInv, NoneTwice
      <4>4. Entry(kept) = positions \ {Head(held)}
        <5>1. \A k \in 1..Len(held) : held[k] # Head(held) =>
                k - 1 \in 1..Len(kept) /\ kept[k - 1] = held[k]
          BY <1>1, <4>1
        <5>2. \A k \in 1..Len(kept) : kept[k] # Head(held)
          BY <1>1, <4>1, <4>2 DEF StoreInv, NoneTwice
        <5> HIDE DEF kept
        <5>3. \A x : x \in Entry(kept) => x \in positions \ {Head(held)}
          BY <4>1, <4>2, <5>2 DEF StoreInv, Entry
        <5>4. \A x : x \in positions \ {Head(held)} => x \in Entry(kept)
          BY <5>1 DEF StoreInv, Entry
        <5> QED BY <5>3, <5>4
      <4>5. kept # held /\ Len(kept) < Cap
        BY <1>1, <4>1
      <4> QED BY <4>1, <4>3, <4>4, <4>5
    <3> QED BY <3>1, <3>2
  <2> HIDE DEF kept, id
  <2>3. /\ Len(held') = Len(kept) + 1 /\ Len(kept) \in Nat /\ held'[Len(kept) + 1] = id
        /\ \A i \in 1..Len(kept) : held'[i] = kept[i]
    BY <1>1, <2>1, <2>2
  <2>4. \A i \in 1..Len(kept) : kept[i] # id
    <3>1. Entry(kept) \subseteq positions
      BY <2>2
    <3> QED BY <1>3, <3>1 DEF Entry
  <2>5. \A i \in 1..Len(held') : i \in 1..Len(kept) \/ i = Len(kept) + 1
    BY <2>3
  <2>6. NoneTwice(held')
    BY <2>2, <2>3, <2>4, <2>5 DEF NoneTwice
  <2>7. Entry(held') = Entry(kept) \cup {id}
    BY <2>3, <2>5 DEF Entry
  <2>8. positions' = Entry(held')
    BY <2>1, <2>2, <2>7
  <2>9. Len(held') <= Cap
    BY <1>1, <2>2, <2>3
  <2> QED BY <2>6, <2>8, <2>9 DEF StoreInv
<1> QED BY <1>2, <1>3

LEMMA ForgetStore ==
  ASSUME TypeInv, StoreInv, Forget
  PROVE  StoreInv' /\ held' \in Seq(1..N)
<1> DEFINE ids == Ids(loop.frame)
<1>1. held \in Seq(1..N) /\ Cap \in Nat
  BY LiveBrokerAssumption DEF TypeInv, TypeOK, N
<1>2. held' = Without(held, ids) /\ positions' = positions \ ids
  BY DEF Forget
<1> HIDE DEF ids
<1>3. /\ held' \in Seq(1..N) /\ Len(held') <= Len(held)
      /\ NoneTwice(held') /\ Entry(held') = Entry(held) \ ids
  <2>1. NoneTwice(held)
    BY DEF StoreInv
  <2> QED BY <1>1, <1>2, <2>1, WithoutKeeps
<1>4. Len(held') <= Cap
  BY <1>1, <1>3 DEF StoreInv
<1> QED BY <1>2, <1>3, <1>4 DEF StoreInv

LEMMA StoreStep ==
  ASSUME TypeInv, StoreInv, [Next]_vars
  PROVE  StoreInv' /\ (SettleLoop \/ Restart \/ UNCHANGED vars => held' \in Seq(1..N))
<1>1. held \in Seq(1..N)
  BY DEF TypeInv, TypeOK, N
<1>2. CASE UNCHANGED storeVars
  BY <1>1, <1>2 DEF StoreInv, storeVars
<1>3. CASE \E c \in Calls : Filled(c)
  <2>1. ~(SettleLoop \/ Restart \/ UNCHANGED vars) \/ UNCHANGED storeVars \/ Forget
    BY DEF SettleLoop, Grade, PersistSession, Restart, vars
  <2> QED BY <1>2, <1>3, <2>1, FilledStore, ForgetStore
<1>4. CASE Forget
  BY <1>4, ForgetStore
<1>5. CASE Crash
  <2>1. held' = <<>> /\ positions' = {} /\ <<>> \in Seq(1..N) /\ Len(<<>>) = 0
    BY <1>5 DEF Crash
  <2>2. Cap \in Nat /\ 1..0 = {}
    BY LiveBrokerAssumption
  <2> QED BY <2>1, <2>2 DEF StoreInv, NoneTwice, Entry
<1>6. UNCHANGED storeVars \/ (\E c \in Calls : Filled(c)) \/ Forget \/ Crash
  BY DEF Next, HttpExecute, Command, Placing, Authenticated, ReadFails, ConnectionLost,
         AnswerAuth, AnswerOrder, PlayReel, PublishSettlement, IngestorHangsUp, TakeCommand,
         SettleLoop, Grade, PersistSession, VendorCrash, Restart, vars
<1> QED BY <1>2, <1>3, <1>4, <1>5, <1>6

LEMMA TypesAndStore == Spec => [](TypeInv /\ StoreInv)
<1>1. Init => TypeInv /\ StoreInv
  <2> SUFFICES ASSUME Init PROVE StoreInv
    BY InitTypes
  <2>1. held = <<>> /\ positions = {} /\ Len(<<>>) = 0 /\ 1..0 = {} /\ Cap \in Nat
    BY LiveBrokerAssumption DEF Init, ExecutorInit
  <2> QED BY <2>1 DEF StoreInv, NoneTwice, Entry
<1>2. ASSUME TypeInv, StoreInv, IInv, [Next]_vars
      PROVE  TypeInv' /\ StoreInv'
  <2>1. StoreInv' /\ (SettleLoop \/ Restart \/ UNCHANGED vars => held' \in Seq(1..N))
    BY <1>2, StoreStep
  <2>2. CASE \E c \in Calls : HttpExecute(c) \/ Command(c)
    BY <1>2, <2>1, <2>2, CommandTypes
  <2>3. CASE \E c \in Calls : Placing(c) \/ ConnectionLost(c) \/ AnswerAuth(c)
    BY <1>2, <2>1, <2>3, ConnectionTypes DEF Placing
  <2>4. CASE \E c \in Calls : AnswerOrder(c)
    BY <1>2, <2>1, <2>4, AnswerOrderTypes
  <2>5. CASE \E s \in Sockets : PlayReel(s) \/ PublishSettlement(s) \/ IngestorHangsUp(s)
    BY <1>2, <2>1, <2>5, VendorTypes
  <2>6. CASE TakeCommand
    BY <1>2, <2>1, <2>6, TakeCommandTypes
  <2>7. CASE VendorCrash \/ Crash
    BY <1>2, <2>1, <2>7, CrashTypes
  <2>8. CASE SettleLoop \/ Restart \/ UNCHANGED vars
    BY <1>2, <2>1, <2>8, SettleTypes
  <2> QED BY <1>2, <2>2, <2>3, <2>4, <2>5, <2>6, <2>7, <2>8 DEF Next
<1> QED BY <1>1, <1>2, Invariance, PTL DEF Spec

(* Every variable of the broker and of its bookmaker has its type; for the *)
(* numbers of the orders this says that the mock numbers no order twice    *)
(* between two starts (server.js tradeServer).                             *)
THEOREM TypesOfBroker == Spec => []TypeOK
<1>1. TypeInv => TypeOK
  BY DEF TypeInv
<1> QED BY <1>1, TypesAndStore, PTL

(* The position store and the queue that bounds it hold the same orders,   *)
(* none twice, and never more than the cap, whatever order ids come back   *)
(* (client.go recordFill, forget).                                         *)
THEOREM StoreIsQueue == Spec => []StoreMatchesQueue
<1>1. ASSUME TypeInv, StoreInv
      PROVE  StoreMatchesQueue
  <2>1. held \in Seq(1..N) /\ Len(held) \in Nat
    BY <1>1 DEF TypeInv, TypeOK, N
  <2>2. held \in [1..Len(held) -> positions]
    BY <1>1, <2>1 DEF StoreInv, Entry
  <2>3. held \in Bijection(1..Len(held), positions)
    BY <1>1, <2>1, <2>2 DEF StoreInv, NoneTwice, Entry, Bijection, Injection, Surjection, IsInjective
  <2>4. Cardinality(positions) = Cardinality(1..Len(held)) /\ IsFiniteSet(1..Len(held))
    BY <2>1, <2>3, FS_Interval, FS_Bijection DEF ExistsBijection
  <2>5. Cardinality(1..Len(held)) = Len(held)
    <3>1. 1 \in Int /\ Len(held) \in Int
      BY <2>1
    <3>2. Cardinality(1..Len(held)) = IF 1 > Len(held) THEN 0 ELSE Len(held) - 1 + 1
      BY <3>1, FS_Interval, Zenon
    <3> QED BY <2>1, <3>2
  <2> QED BY <1>1, <2>4, <2>5 DEF StoreInv, Entry, StoreMatchesQueue
<1> QED BY <1>1, TypesAndStore, PTL

-----------------------------------------------------------------------------
(* pnl:session.                                                            *)

(* The part of the session that settleLoop has not written yet.            *)
Unwritten == IF loop.at = "graded" THEN settlementTotals(loop.frame) ELSE NoTotals

HashInv ==
  /\ ~up => loop = Idle /\ session = NoTotals
  /\ up /\ ~unsaved => \A n \in Counter : hash[n] + Unwritten[n] = base[n] + session[n]

LEMMA HashStep ==
  ASSUME TypeInv, HashInv, [Next]_vars
  PROVE  HashInv'
<1>1. /\ session \in [Counter -> Nat] /\ hash \in [Counter -> Nat] /\ base \in [Counter -> Nat]
      /\ NoTotals = [n \in Counter |-> 0]
  BY DEF TypeInv, TypeOK, Totals, NoTotals
<1>2. CASE Grade
  <2>1. Head(inbox) \in SettlementFrame
    BY <1>2 DEF Grade, TypeInv, TypeOK
  <2>2. settlementTotals(Head(inbox)) \in [Counter -> Nat]
    BY <2>1, TotalsOfFrame DEF Totals
  <2>3. up /\ UNCHANGED <<up, unsaved, hash, base>> /\ loop.at # "graded"
    BY <1>2 DEF Grade, Idle
  <2>4. Unwritten' = settlementTotals(Head(inbox)) /\ Unwritten = NoTotals
    BY <1>2, <2>3 DEF Grade, Unwritten, settlementTotals, SettledOrders
  <2>5. session' = [n \in Counter |-> session[n] + settlementTotals(Head(inbox))[n]]
    BY <1>2 DEF Grade, Plus
  <2> HIDE DEF NoTotals
  <2>6. ~unsaved => \A n \in Counter : hash[n] + Unwritten'[n] = base[n] + session'[n]
    BY <1>1, <2>2, <2>3, <2>4, <2>5 DEF HashInv
  <2> QED BY <2>3, <2>6 DEF HashInv
<1>3. CASE PersistSession
  <2>1. /\ loop.at = "graded" /\ loop' = [loop EXCEPT !.at = "saved"]
        /\ up /\ UNCHANGED <<up, base, session>>
    BY <1>3 DEF PersistSession
  <2>2. loop \in [at : {"graded", "saved"}, frame : SettlementFrame]
    BY <2>1 DEF TypeInv, TypeOK, Idle
  <2>3. settlementTotals(loop.frame) \in [Counter -> Nat]
    BY <2>2, TotalsOfFrame DEF Totals
  <2>4. Unwritten = settlementTotals(loop.frame) /\ Unwritten' = NoTotals
    BY <2>1, <2>2 DEF Unwritten
  <2>5. CASE unsaved'
    BY <2>1, <2>5 DEF HashInv
  <2>6. CASE ~unsaved'
    <3>1. ~unsaved /\ hash' = [n \in Counter |-> hash[n] + settlementTotals(loop.frame)[n]]
      BY <1>3, <2>6 DEF PersistSession, saveDelta, Plus
    <3>2. \A n \in Counter : hash'[n] + Unwritten'[n] = base[n] + session[n]
      BY <1>1, <2>1, <2>3, <2>4, <3>1 DEF HashInv
    <3> QED BY <2>1, <3>2 DEF HashInv
  <2> QED BY <2>5, <2>6
<1>4. CASE Restart
  <2>1. /\ ~up /\ up' = TRUE /\ base' = hash /\ unsaved' = FALSE
        /\ loop' = Idle /\ session' = NoTotals /\ hash' = hash
    BY <1>4 DEF Restart, HashInv
  <2>2. Unwritten' = NoTotals
    BY <2>1 DEF Unwritten, Idle
  <2> QED BY <1>1, <2>1, <2>2 DEF HashInv
<1>5. CASE Crash
  BY <1>5 DEF Crash, HashInv
<1>6. CASE Forget
  <2>1. /\ loop.at = "saved" /\ loop' = Idle /\ up
        /\ UNCHANGED <<up, session, hash, base, unsaved>>
    BY <1>6 DEF Forget
  <2>2. Unwritten' = NoTotals /\ Unwritten = NoTotals
    BY <2>1 DEF Unwritten, Idle
  <2> QED BY <2>1, <2>2 DEF HashInv
<1>7. CASE UNCHANGED <<up, loop, session, hash, base, unsaved>>
  <2>1. Unwritten' = Unwritten
    BY <1>7 DEF Unwritten, settlementTotals, SettledOrders
  <2> QED BY <1>7, <2>1 DEF HashInv
<1>8. \/ UNCHANGED <<up, loop, session, hash, base, unsaved>>
      \/ SettleLoop \/ Crash \/ Restart
  BY DEF Next, HttpExecute, Command, Placing, Authenticated, Filled, ReadFails, ConnectionLost,
         AnswerAuth, AnswerOrder, PlayReel, PublishSettlement, IngestorHangsUp, TakeCommand,
         VendorCrash, vars, settleVars
<1> QED BY <1>2, <1>3, <1>4, <1>5, <1>6, <1>7, <1>8 DEF SettleLoop

(* Between two settlements pnl:session is what it was when the executor    *)
(* started plus the session, as long as its writes succeed (client.go      *)
(* settleLoop, persistSession): deltas are written, once per settlement.   *)
THEOREM HashIsSession == Spec => []HashIsBaseAndSession
<1>1. Init => HashInv
  BY DEF Init, ExecutorInit, HashInv, Unwritten, NoTotals, Idle, Counter
<1>2. ASSUME TypeInv, HashInv
      PROVE  HashIsBaseAndSession
  <2>1. SUFFICES ASSUME up, loop.at # "graded", ~unsaved
                 PROVE  hash = Plus(base, session)
    BY DEF HashIsBaseAndSession
  <2>2. hash \in [Counter -> Nat] /\ Unwritten = [n \in Counter |-> 0]
    BY <1>2, <2>1 DEF TypeInv, TypeOK, Totals, Unwritten, NoTotals
  <2>3. \A n \in Counter : hash[n] = base[n] + session[n]
    BY <1>2, <2>1, <2>2 DEF HashInv
  <2> QED BY <2>2, <2>3 DEF Plus
<1> QED BY <1>1, <1>2, HashStep, TypesAndStore, PTL DEF Spec
=============================================================================
