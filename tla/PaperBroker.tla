---------------------------- MODULE PaperBroker ----------------------------
(***************************************************************************)
(* The paper broker of execution-engine-go.  Three goroutines of one       *)
(* process share Redis:                                                    *)
(*                                                                         *)
(*   - CommandRunLoop (or POST /execute) logs a fill for every envelope;   *)
(*   - PaperRunLoop   grades a match's orders on its FULLTIME frame;       *)
(*   - StaleSweep     settles, once a minute, the orders of matches that   *)
(*                    have been over for long.                             *)
(*                                                                         *)
(* The two graders take the same four steps for a batch of orders (add to  *)
(* the PnL hash, append to the ledger, publish a snapshot, delete from the *)
(* order hash) and nothing excludes one from the other between steps.  A   *)
(* crash of the process may fall between any two.                          *)
(*                                                                         *)
(* Abstractions: a score is the side it favours (see Settlement);          *)
(* odds and stakes are left out, the PnL hash is its three counters (its   *)
(* net is incremented in the same transaction from the same batch); the    *)
(* ledger's MaxLen ~1000 trim is not reached within the bounds.            *)
(***************************************************************************)
EXTENDS Settlement, Sequences

CONSTANTS
  Match,        \* match identifiers
  NoMatch,      \* an envelope that carries no match_id
  OrderId,      \* order identifiers, one per PlaceOrder
  Side,         \* sides that are bet: members of Score, or another market's
  Scores,       \* bound: scores the ingestor publishes
  HasKickoff,   \* matches whose feed knows the kickoff time
  HashExpires,  \* may the 24 hour TTL of a match hash run out?
  InboxSize,    \* go-redis channel buffer of PaperRunLoop (64 in the code)
  MaxFrames,    \* bound: frames the ingestor publishes
  MaxCrashes,   \* bound: crashes of the executor
  MaxFaults     \* bound: Redis commands that fail

ASSUME ConstantsAssumption ==
  /\ NoMatch \notin Match
  /\ HasKickoff \subseteq Match
  /\ Scores \subseteq {"home", "draw", "away"}
  /\ HashExpires \in BOOLEAN
  /\ InboxSize \in Nat
  /\ MaxFrames \in Nat
  /\ MaxCrashes \in Nat
  /\ MaxFaults \in Nat

VARIABLES
  paperOrders,  \* hash execution:paper_orders
  matchHash,    \* the hashes match:<id>
  kickoffOld,   \* has the match kicked off more than 180 minutes ago?
  inbox,        \* matches:live frames buffered for PaperRunLoop
  job,          \* the batch each grader is working on
  sweep,        \* local variables of sweepStale
  cycle,        \* PaperBroker.cycle
  session,      \* PaperBroker.session
  pnl,          \* hash pnl:session
  ledger,       \* stream execution:paper_settlements
  nextXid,      \* number of the next write to that stream
  snapshot,     \* last message on execution:pnl
  up,           \* is the executor process running?
  placed,       \* history: every fill that reached the order hash
  finals,       \* history: scores published in FULLTIME frames, per match
  frames, crashes, faults   \* counters behind the bounds

feedVars    == <<matchHash, kickoffOld, finals, frames>>
processVars == <<inbox, job, sweep, cycle, session, up>>
storeVars   == <<paperOrders, pnl, ledger, nextXid, snapshot>>
vars        == <<feedVars, processVars, storeVars, placed, crashes, faults>>

-----------------------------------------------------------------------------
(* Data *)

Clock   == {"LIVE", "FULLTIME"}
Grader  == {"feed_ft", "stale_sweep"}
Fill    == [id : OrderId, match : Match \cup {NoMatch}, side : Side]
Frame   == [match : Match, clock : Clock, score : Score]
Step    == {"idle", "persist", "record", "publish", "clear"}
Job     == [step : Step, match : Match \cup {NoMatch}, score : Score, verified : BOOLEAN,
            batch : SUBSET Fill, cycle : Nat]
Entry   == [xid : Nat, fill : Fill, match : Match, score : Score,
            result : Result, source : Grader]

(* A key that does not exist reads as an empty map: no clock, and a score  *)
(* that parses as 0-0.                                                     *)
NoHash  == [clock |-> "none", score |-> "draw", receivedOld |-> FALSE]
Hash    == [clock : Clock \cup {"none"}, score : Score, receivedOld : BOOLEAN]

NoSweep  == [unchecked |-> {}, stale |-> {}]
NoJob    == [step |-> "idle", match |-> NoMatch, score |-> "draw",
             verified |-> FALSE, batch |-> {}, cycle |-> 0]

ResultOf(f, j) == Verdict(f.side, j.score, j.verified)

(* Mutant: the switch forgets the unresolved orders.                        *)
TotalsWithoutUnresolved(j) ==
  [c \in Counter |-> Cardinality({f \in j.batch :
     ResultOf(f, j) \in Counts[c] \ {"unresolved"}})]

(* settlementTotals: what a batch adds to each counter.                    *)
settlementTotals(j) ==
  [c \in Counter |-> Cardinality({f \in j.batch : ResultOf(f, j) \in Counts[c]})]

(* Mutant: the age of the last frame is not considered.                     *)
StaleByKickoffOnly(m) ==
  matchHash[m].clock # "none" /\ m \in HasKickoff /\ kickoffOld[m]

(* sweepStale: the match is over, by its kickoff or by the age of its last *)
(* frame.  A hash that expired has neither field.                          *)
Stale(m) ==
  /\ matchHash[m].clock # "none"
  /\ (m \in HasKickoff /\ kickoffOld[m]) \/ matchHash[m].receivedOld

(* Mutant: any recorded score counts as final.                              *)
ConfirmedByAnyFrame(meta) == meta.clock # "none"

(* Only a recorded FULLTIME makes the score of a match hash a final one.    *)
Confirmed(meta) == meta.clock = "FULLTIME"

(* The orders a FULLTIME frame grades: those of the match, and those that  *)
(* name none.                                                              *)
OrdersOf(m) == {f \in paperOrders : f.match \in {NoMatch, m}}

Idle(g) == job[g].step = "idle"

(* A Redis command succeeds, or fails within the bound on faults.          *)
Command(ok) ==
  /\ ok \/ faults < MaxFaults
  /\ faults' = IF ok THEN faults ELSE faults + 1

-----------------------------------------------------------------------------
ProcessInit ==
  /\ paperOrders = {}
  /\ matchHash = [m \in Match |-> NoHash]
  /\ kickoffOld = [m \in Match |-> FALSE]
  /\ inbox = <<>>
  /\ job = [g \in Grader |-> NoJob]
  /\ sweep = NoSweep
  /\ cycle = 0
  /\ session = NoTotals
  /\ snapshot = [cycle |-> 0, session |-> NoTotals]
  /\ up = TRUE
  /\ placed = {}
  /\ finals = [m \in Match |-> {}]
  /\ frames = 0 /\ crashes = 0 /\ faults = 0

Init ==
  /\ ProcessInit
  /\ pnl = [totals |-> NoTotals, cycle |-> 0]
  /\ ledger = {}
  /\ nextXid = 1

(* PublishMatch: one transaction writes the match hash and publishes the   *)
(* frame.  A broker that is down is not subscribed, and go-redis drops a   *)
(* message whose channel stays full.                                       *)
PublishMatch(m, clock, score) ==
  LET frame == [match |-> m, clock |-> clock, score |-> score]
  IN  /\ frames < MaxFrames
      /\ frames' = frames + 1
      /\ matchHash' = [matchHash EXCEPT ![m] =
                         [clock |-> clock, score |-> score, receivedOld |-> FALSE]]
      /\ finals' = IF clock = "FULLTIME"
                     THEN [finals EXCEPT ![m] = @ \cup {score}] ELSE finals
      /\ inbox' = IF up /\ Len(inbox) < InboxSize
                    THEN Append(inbox, frame) ELSE inbox
      /\ UNCHANGED <<kickoffOld, job, sweep, cycle, session, up, storeVars,
                     placed, crashes, faults>>

(* Time passes: 180 minutes since the kickoff, or since the last frame.    *)
KickoffAges(m) ==
  /\ m \in HasKickoff
  /\ ~kickoffOld[m]
  /\ matchHash[m].clock # "none"
  /\ kickoffOld' = [kickoffOld EXCEPT ![m] = TRUE]
  /\ UNCHANGED <<matchHash, finals, frames, processVars, storeVars, placed,
                 crashes, faults>>

FrameAges(m) ==
  /\ matchHash[m].clock # "none"
  /\ ~matchHash[m].receivedOld
  /\ matchHash' = [matchHash EXCEPT ![m].receivedOld = TRUE]
  /\ UNCHANGED <<kickoffOld, finals, frames, processVars, storeVars, placed,
                 crashes, faults>>

(* 24 hours since the last frame: Redis expires the hash.  The sweep runs  *)
(* every minute, so 21 hours without one are an outage of the broker.      *)
HashTtl(m) ==
  /\ HashExpires
  /\ ~up
  /\ matchHash[m].receivedOld
  /\ matchHash' = [matchHash EXCEPT ![m] = NoHash]
  /\ UNCHANGED <<kickoffOld, finals, frames, processVars, storeVars, placed,
                 crashes, faults>>

(* ExecuteEnvelope: PlaceOrder makes the fill, logFill stores it; a failed *)
(* write is only logged.  Envelopes come from analytics-engine-py, which   *)
(* answers a frame of the match, or carry no match at all.                 *)
ExecuteEnvelope(f, ok) ==
  /\ up
  /\ \A g \in placed : g.id # f.id
  /\ f.match # NoMatch => matchHash[f.match].clock # "none"
  /\ Command(ok)
  /\ placed' = IF ok THEN placed \cup {f} ELSE placed
  /\ paperOrders' = IF ok THEN paperOrders \cup {f} ELSE paperOrders
  /\ UNCHANGED <<feedVars, processVars, pnl, ledger, nextXid, snapshot, crashes>>

-----------------------------------------------------------------------------
(* Grading.  StartJob is settleOrders followed by the batch number.        *)
StartJob(g, m, score, verified, batch) ==
  /\ cycle' = cycle + 1
  /\ job' = [job EXCEPT ![g] =
       [step |-> "persist", match |-> m, score |-> score, verified |-> verified,
        batch |-> batch, cycle |-> cycle + 1]]

(* PaperRunLoop receives a frame: anything but a FULLTIME is skipped, and  *)
(* so is a FULLTIME whose order hash cannot be read or holds no order of   *)
(* the match (an order without a match counts as one of any match).        *)
FeedReceive(ok) ==
  LET frame  == Head(inbox)
      orders == OrdersOf(frame.match)
  IN  /\ up /\ Idle("feed_ft") /\ inbox # <<>>
      /\ inbox' = Tail(inbox)
      /\ Command(ok)
      /\ ok \/ frame.clock = "FULLTIME"
      /\ IF ok /\ frame.clock = "FULLTIME" /\ orders # {}
           THEN StartJob("feed_ft", frame.match, frame.score, TRUE, orders)
           ELSE UNCHANGED <<cycle, job>>
      /\ UNCHANGED <<feedVars, sweep, session, up, storeVars, placed, crashes>>

(* The ticker of StaleSweep: read the order hash.                          *)
SweepBegin ==
  LET orders == {f \in paperOrders : f.match # NoMatch}
  IN  /\ up /\ Idle("stale_sweep") /\ sweep = NoSweep
      /\ orders # {}
      /\ sweep' = [unchecked |-> orders, stale |-> {}]
      /\ UNCHANGED <<feedVars, inbox, job, cycle, session, up, storeVars, placed,
                     crashes, faults>>

(* First pass: is the order's match over?  An unreadable hash is skipped.  *)
SweepCheck(f, ok) ==
  /\ up /\ f \in sweep.unchecked
  /\ Command(ok)
  /\ sweep' = [unchecked |-> sweep.unchecked \ {f},
               stale |-> IF ok /\ Stale(f.match)
                         THEN sweep.stale \cup {f} ELSE sweep.stale]
  /\ UNCHANGED <<feedVars, inbox, job, cycle, session, up, storeVars, placed,
                 crashes>>

(* Second pass: read the hash again; only a recorded FULLTIME verifies.    *)
SweepGrade(f, ok) ==
  LET meta == matchHash[f.match]
  IN  /\ up /\ Idle("stale_sweep") /\ sweep.unchecked = {}
      /\ f \in sweep.stale
      /\ sweep' = [sweep EXCEPT !.stale = @ \ {f}]
      /\ Command(ok)
      /\ IF ok
           THEN StartJob("stale_sweep", f.match, meta.score,
                         Confirmed(meta), {f})
           ELSE UNCHANGED <<cycle, job>>
      /\ UNCHANGED <<feedVars, inbox, session, up, storeVars, placed, crashes>>

Advance(g, from, to) ==
  /\ up /\ job[g].step = from
  /\ job' = [job EXCEPT ![g].step = to]

(* Mutant: the orders are deleted before the ledger is written.             *)
PersistAndClear(g, ok) ==
  /\ Advance(g, "persist", "record")
  /\ session' = Plus(session, settlementTotals(job[g]))
  /\ Command(ok)
  /\ pnl' = [totals |-> Plus(pnl.totals, settlementTotals(job[g])),
             cycle |-> job[g].cycle]
  /\ paperOrders' = paperOrders \ job[g].batch
  /\ UNCHANGED <<feedVars, inbox, sweep, cycle, up, ledger, nextXid, snapshot,
                 placed, crashes>>

(* persistSession: the totals go to memory, then to the PnL hash.          *)
PersistSession(g, ok) ==
  /\ Advance(g, "persist", "record")
  /\ session' = Plus(session, settlementTotals(job[g]))
  /\ Command(ok)
  /\ pnl' = IF ok
              THEN [totals |-> Plus(pnl.totals, settlementTotals(job[g])),
                    cycle  |-> job[g].cycle]
              ELSE pnl
  /\ UNCHANGED <<feedVars, inbox, sweep, cycle, up, paperOrders, ledger, nextXid,
                 snapshot, placed, crashes>>

Entries(g) ==
  {[xid |-> nextXid, fill |-> f, match |-> job[g].match, score |-> job[g].score,
    result |-> ResultOf(f, job[g]), source |-> g] : f \in job[g].batch}

(* recordSettlements: append the batch to the ledger stream, in a pipeline *)
(* that is no transaction: one that fails may have written some entries.   *)
RecordSettlements(g, ok) ==
  /\ Advance(g, "record", "publish")
  /\ Command(ok)
  /\ \E written \in SUBSET Entries(g) :
       /\ ok => written = Entries(g)
       /\ ledger' = ledger \cup written
  /\ nextXid' = nextXid + 1
  /\ UNCHANGED <<feedVars, inbox, sweep, cycle, session, up, paperOrders, pnl,
                 snapshot, placed, crashes>>

(* publishPaperSnapshot: the batch number and the session at this moment.  *)
PublishSnapshot(g, ok) ==
  /\ Advance(g, "publish", "clear")
  /\ Command(ok)
  /\ snapshot' = IF ok THEN [cycle |-> job[g].cycle, session |-> session]
                        ELSE snapshot
  /\ UNCHANGED <<feedVars, inbox, sweep, cycle, session, up, paperOrders, pnl,
                 ledger, nextXid, placed, crashes>>

(* Mutant: the graded orders stay in the hash.                              *)
ClearNothing(g, ok) ==
  /\ up /\ job[g].step = "clear"
  /\ job' = [job EXCEPT ![g] = NoJob]
  /\ Command(ok)
  /\ UNCHANGED <<feedVars, inbox, sweep, cycle, session, up, storeVars, placed,
                 crashes>>

(* HDEL of the graded orders, whose failure goes unnoticed.                *)
ClearOrders(g, ok) ==
  /\ up /\ job[g].step = "clear"
  /\ job' = [job EXCEPT ![g] = NoJob]
  /\ Command(ok)
  /\ paperOrders' = IF ok THEN paperOrders \ job[g].batch ELSE paperOrders
  /\ UNCHANGED <<feedVars, inbox, sweep, cycle, session, up, pnl, ledger, nextXid,
                 snapshot, placed, crashes>>

-----------------------------------------------------------------------------
(* The process dies between any two steps and starts again: Redis keeps    *)
(* what was written, memory and the subscription's buffer are lost.        *)
Crash ==
  /\ up
  /\ crashes < MaxCrashes
  /\ crashes' = crashes + 1
  /\ up' = FALSE
  /\ inbox' = <<>>
  /\ job' = [g \in Grader |-> NoJob]
  /\ sweep' = NoSweep
  /\ cycle' = 0
  /\ session' = NoTotals
  /\ UNCHANGED <<feedVars, storeVars, placed, faults>>

Restart ==
  /\ ~up
  /\ up' = TRUE
  /\ UNCHANGED <<feedVars, inbox, job, sweep, cycle, session, storeVars, placed,
                 crashes, faults>>

Settle(g, ok) ==
  \/ PersistSession(g, ok)
  \/ RecordSettlements(g, ok)
  \/ PublishSnapshot(g, ok)
  \/ ClearOrders(g, ok)

Ingestor ==
  \/ \E m \in Match, c \in Clock, s \in Scores : PublishMatch(m, c, s)
  \/ \E m \in Match : KickoffAges(m) \/ FrameAges(m) \/ HashTtl(m)

PaperRunLoop(ok) == FeedReceive(ok) \/ Settle("feed_ft", ok)

StaleSweep(ok) ==
  \/ SweepBegin
  \/ \E f \in sweep.unchecked : SweepCheck(f, ok)
  \/ \E f \in sweep.stale : SweepGrade(f, ok)
  \/ Settle("stale_sweep", ok)

Next ==
  \/ Ingestor
  \/ \E ok \in BOOLEAN :
       \/ \E f \in Fill : ExecuteEnvelope(f, ok)
       \/ PaperRunLoop(ok)
       \/ StaleSweep(ok)
  \/ Crash
  \/ Restart

Spec == Init /\ [][Next]_vars

-----------------------------------------------------------------------------
(* Properties *)

TypeOK ==
  /\ paperOrders \subseteq Fill
  /\ matchHash \in [Match -> Hash]
  /\ kickoffOld \in [Match -> BOOLEAN]
  /\ inbox \in Seq(Frame)
  /\ job \in [Grader -> Job]
  /\ sweep \in [unchecked : SUBSET Fill, stale : SUBSET Fill]
  /\ cycle \in Nat
  /\ session \in Totals
  /\ pnl \in [totals : Totals, cycle : Nat]
  /\ ledger \subseteq Entry
  /\ nextXid \in Nat
  /\ snapshot \in [cycle : Nat, session : Totals]
  /\ up \in BOOLEAN
  /\ placed \subseteq Fill
  /\ finals \in [Match -> SUBSET Score]
  /\ frames \in Nat /\ crashes \in Nat /\ faults \in Nat

(* An order is graded only against a confirmed final score of its own      *)
(* match: whatever is won, lost or void in the ledger was graded on a      *)
(* score that a FULLTIME frame of the recorded match carried, although the *)
(* sweep takes its score from a hash that live frames keep overwriting     *)
(* (interfaces.go:147-149, :198-203).                                      *)
GradedOnFinalScore ==
  \A e \in ledger :
    /\ e.result # "unresolved" => e.score \in finals[e.match]
    /\ e.fill.match \in {NoMatch, e.match}

InLedger(f) == \E e \in ledger : e.fill = f

(* No order is lost: one that reached the order hash is pending there or   *)
(* has a ledger entry, through any crash, as long as Redis took every      *)
(* write.  The HDEL that comes last, after the ledger, ensures it.         *)
NoOrderLost ==
  faults = 0 => \A f \in placed : f \in paperOrders \/ InLedger(f)

(* One grader never settles an order twice: the order leaves the hash      *)
(* before that goroutine reads the hash again.  (Both graders may settle   *)
(* it, once each; a crash before the HDEL makes a grader do it again.)     *)
OncePerGrader ==
  crashes = 0 /\ faults = 0 =>
    \A e1, e2 \in ledger : e1.fill = e2.fill /\ e1.source = e2.source => e1 = e2

Recorded(c) == Cardinality({e \in ledger : e.result \in Counts[c]})
InFlight(c) ==
  LET n(g) == IF job[g].step = "record" THEN settlementTotals(job[g])[c] ELSE 0
  IN  n("feed_ft") + n("stale_sweep")

(* The dashboard's two sources agree: the PnL hash counts the ledger's     *)
(* entries and the batches whose entries are about to be written.  A crash *)
(* can make it count a batch that the ledger does not hold, never the      *)
(* other way round: the hash is written first (interfaces.go:181-185,      *)
(* :288-291).                                                              *)
HashCountsLedger ==
  faults = 0 => \A c \in Counter :
    /\ pnl.totals[c] >= Recorded(c)
    /\ crashes = 0 => pnl.totals[c] = Recorded(c) + InFlight(c)

(* The inductive invariant behind GradedOnFinalScore and NoOrderLost: what *)
(* the graders hold, the inbox and the match hashes are as sound as what   *)
(* they will write to the ledger.                                          *)
Final(m, score) == m \in Match /\ score \in finals[m]

KnownOrders ==
  /\ IsFiniteSet(placed)
  /\ paperOrders \subseteq placed
  /\ \A g \in Grader : job[g].batch \subseteq placed
  /\ \A f \in sweep.unchecked \cup sweep.stale : f \in placed /\ f.match # NoMatch

FramesSound ==
  /\ \A m \in Match : Confirmed(matchHash[m]) => Final(m, matchHash[m].score)
  /\ \A i \in DOMAIN inbox :
       inbox[i].clock = "FULLTIME" => Final(inbox[i].match, inbox[i].score)

JobsSound ==
  \A g \in Grader : ~Idle(g) =>
    /\ job[g].match \in Match
    /\ job[g].verified => Final(job[g].match, job[g].score)
    /\ \A f \in job[g].batch : f.match \in {NoMatch, job[g].match}

LedgerSound ==
  \A e \in ledger :
    /\ e.fill \in placed
    /\ e.fill.match \in {NoMatch, e.match}
    /\ e.result # "unresolved" =>
         Final(e.match, e.score) /\ e.result = outcomeFor(e.fill.side, e.score)

RecordedJobs ==
  faults = 0 => \A g \in Grader : job[g].step \in {"publish", "clear"} =>
                  \A f \in job[g].batch : InLedger(f)

IInv == /\ TypeOK /\ KnownOrders /\ FramesSound /\ JobsSound
        /\ LedgerSound /\ RecordedJobs /\ NoOrderLost

(* The inductive invariant behind OncePerGrader: what a grader has put in  *)
(* the ledger it reads again neither from the order hash, nor from what it *)
(* is working on, nor from the local variables of its sweep.               *)
Graded(g, f) == \E e \in ledger : e.fill = f /\ e.source = g

GradedOnce ==
  /\ \A g \in Grader : Idle(g) => job[g].batch = {}
  /\ \A g \in Grader, f \in paperOrders : Graded(g, f) =>
       job[g].step \in {"publish", "clear"} /\ f \in job[g].batch
  /\ \A g \in Grader : job[g].step \in {"persist", "record"} =>
       \A f \in job[g].batch : ~Graded(g, f)
  /\ \A f \in sweep.unchecked \cup sweep.stale :
       ~Graded("stale_sweep", f) /\ f \notin job["stale_sweep"].batch

OnceInv == OncePerGrader /\ (crashes = 0 /\ faults = 0 => GradedOnce)

(* The inductive invariant behind HashCountsLedger: every write has a new  *)
(* number, and the hash counts at least the ledger and what is in flight.  *)
CountInv ==
  /\ IsFiniteSet(ledger)
  /\ \A e \in ledger : e.xid < nextXid
  /\ faults = 0 => \A c \in Counter :
       /\ pnl.totals[c] >= Recorded(c) + InFlight(c)
       /\ crashes = 0 => pnl.totals[c] = Recorded(c) + InFlight(c)

-----------------------------------------------------------------------------
(* Liveness.  The goroutines run, time passes, and the supervisor restarts *)
(* the process; nothing makes a frame or a command arrive.                 *)
Fairness ==
  /\ WF_vars(PaperRunLoop(TRUE))
  /\ WF_vars(StaleSweep(TRUE))
  /\ \A m \in Match : WF_vars(KickoffAges(m)) /\ WF_vars(FrameAges(m))
  /\ WF_vars(Restart)

FairSpec == Spec /\ Fairness

(* The safety net of StaleSweep (interfaces.go:193-196): no order with a   *)
(* match sits pending forever, even if no FULLTIME frame ever comes.       *)
EveryOrderSettles ==
  \A f \in Fill : f.match # NoMatch =>
    (f \in paperOrders ~> f \notin paperOrders)

-----------------------------------------------------------------------------
(* While Redis takes every write (MaxFaults = 0) the broker is an          *)
(* OrderBook: the hash holds the pending orders, the ledger the reports.   *)
Book == INSTANCE OrderBook WITH
  Order    <- Fill,
  pending  <- paperOrders,
  reported <- {[fill |-> e.fill, match |-> e.match, score |-> e.score,
                result |-> e.result] : e \in ledger}

(* Every behaviour of the broker is one of the order book: reports before  *)
(* removals, verdicts only on final scores, nothing taken back.            *)
ImplementsOrderBook == Book!BookSpec
=============================================================================
