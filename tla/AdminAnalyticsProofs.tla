----------------------- MODULE AdminAnalyticsProofs -----------------------
(***************************************************************************)
(* Proofs about the paper broker and its maintenance handlers, for every   *)
(* set of matches, orders and sides and every number of requests, crashes  *)
(* and failed commands: the broker's invariants and the order book that it *)
(* implements; a request that runs alone leaves the hash equal to the      *)
(* ledger, and a regrade keeps the number of bets.                         *)
(*                                                                         *)
(* A request has met nobody only while no grader is at work, so what it    *)
(* reads stays true until it writes.  From then on the graders add to hash *)
(* and ledger alike, as they do from the start of a new session.           *)
(***************************************************************************)
EXTENDS AdminAnalytics, FiniteSetTheorems, FunctionTheorems, TLAPS

-----------------------------------------------------------------------------
(* The broker, without the handlers.                                       *)
USE DEF Grader, Clock

(* The totals of a batch of known orders are natural numbers.              *)
LEMMA TotalsType ==
  ASSUME NEW j \in Job, NEW S, IsFiniteSet(S), j.batch \subseteq S
  PROVE  settlementTotals(j) \in Totals
<1>1. ASSUME NEW c \in Counter
      PROVE  Cardinality({f \in j.batch : ResultOf(f, j) \in Counts[c]}) \in Nat
  <2>1. IsFiniteSet({f \in j.batch : ResultOf(f, j) \in Counts[c]})
    BY FS_Subset
  <2> QED BY <2>1, FS_CardinalityType
<1> QED BY <1>1 DEF settlementTotals, Totals

LEMMA PlusType ==
  ASSUME NEW a \in Totals, NEW b \in Totals
  PROVE  Plus(a, b) \in Totals
BY DEF Plus, Totals

LEMMA VerdictType ==
  ASSUME NEW f \in Fill, NEW j \in Job
  PROVE  ResultOf(f, j) \in Result
BY DEF ResultOf, Verdict, outcomeFor, Result

-----------------------------------------------------------------------------
LEMMA InitInv == Init => IInv
<1> SUFFICES ASSUME Init PROVE IInv
  OBVIOUS
<1> USE ConstantsAssumption DEF Init, ProcessInit
<1>1. NoJob \in Job
  BY DEF NoJob, Job, Step, Score
<1>2. NoHash \in Hash
  BY DEF NoHash, Hash, Score
<1>3. NoTotals \in Totals
  BY DEF NoTotals, Totals
<1>4. TypeOK
  BY <1>1, <1>2, <1>3 DEF TypeOK, NoSweep
<1>5. KnownOrders
  BY FS_EmptySet DEF KnownOrders, NoJob, NoSweep
<1>6. FramesSound
  BY DEF FramesSound, Confirmed, NoHash
<1>7. JobsSound /\ LedgerSound /\ RecordedJobs /\ NoOrderLost
  BY DEF JobsSound, Idle, NoJob, LedgerSound, RecordedJobs, NoOrderLost
<1> QED BY <1>4, <1>5, <1>6, <1>7 DEF IInv

LEMMA PublishMatchInv ==
  ASSUME IInv, NEW m \in Match, NEW c \in Clock, NEW s \in Scores,
         PublishMatch(m, c, s)
  PROVE  IInv'
<1> USE ConstantsAssumption DEF IInv, PublishMatch, processVars, storeVars
<1>1. TypeOK'
  <2>1. [match |-> m, clock |-> c, score |-> s] \in Frame
    BY DEF Frame, Score
  <2>2. inbox' \in Seq(Frame)
    BY <2>1 DEF TypeOK
  <2>3. matchHash' \in [Match -> Hash] /\ finals' \in [Match -> SUBSET Score]
    BY DEF TypeOK, Hash, Score
  <2> QED BY <2>2, <2>3 DEF TypeOK
<1>2. KnownOrders'
  BY DEF KnownOrders
<1>3. \A n \in Match : \A x : Final(n, x) => Final(n, x)'
  BY DEF Final, TypeOK
<1>4. FramesSound'
  BY <1>3 DEF FramesSound, Confirmed, Final, TypeOK, Hash, Frame, Score
<1>5. JobsSound'
  BY <1>3 DEF JobsSound, Idle, TypeOK
<1>6. LedgerSound'
  BY <1>3 DEF LedgerSound, TypeOK, Entry
<1>7. RecordedJobs' /\ NoOrderLost'
  BY DEF RecordedJobs, NoOrderLost, InLedger
<1> QED BY <1>1, <1>2, <1>4, <1>5, <1>6, <1>7 DEF IInv

(* Steps that change neither orders, jobs, ledger nor what was confirmed.   *)
LEMMA TimeInv ==
  ASSUME IInv, NEW m \in Match, KickoffAges(m) \/ FrameAges(m) \/ HashTtl(m)
  PROVE  IInv'
<1> USE DEF IInv, processVars, storeVars
<1>1. matchHash' \in [Match -> Hash] /\ kickoffOld' \in [Match -> BOOLEAN]
  <2>1. CASE KickoffAges(m)
    BY <2>1 DEF TypeOK, KickoffAges
  <2>2. CASE FrameAges(m)
    <3>1. matchHash[m] \in Hash
      BY DEF TypeOK
    <3>2. [matchHash[m] EXCEPT !.receivedOld = TRUE] \in Hash
      BY <3>1 DEF Hash
    <3> QED BY <2>2, <3>2 DEF TypeOK, FrameAges
  <2>3. CASE HashTtl(m)
    <3>1. NoHash \in Hash
      BY DEF NoHash, Hash, Score
    <3> QED BY <2>3, <3>1 DEF TypeOK, HashTtl
  <2> QED BY <2>1, <2>2, <2>3
<1>2. \A n \in Match : Confirmed(matchHash'[n]) =>
         Confirmed(matchHash[n]) /\ matchHash'[n].score = matchHash[n].score
  BY DEF TypeOK, Hash, NoHash, Confirmed, KickoffAges, FrameAges, HashTtl
<1>3. UNCHANGED <<finals, frames, inbox, job, sweep, cycle, session, up, paperOrders,
                  pnl, ledger, nextXid, snapshot, placed, crashes, faults>>
  BY DEF KickoffAges, FrameAges, HashTtl
<1>4. TypeOK'
  BY <1>1, <1>3 DEF TypeOK
<1>5. FramesSound'
  BY <1>2, <1>3 DEF FramesSound, Final
<1>6. KnownOrders' /\ JobsSound' /\ LedgerSound' /\ RecordedJobs' /\ NoOrderLost'
  BY <1>3 DEF KnownOrders, JobsSound, Idle, Final, LedgerSound, RecordedJobs,
              NoOrderLost, InLedger
<1> QED BY <1>4, <1>5, <1>6

LEMMA ExecuteEnvelopeInv ==
  ASSUME IInv, NEW f \in Fill, NEW ok \in BOOLEAN, ExecuteEnvelope(f, ok)
  PROVE  IInv'
<1> USE DEF IInv, ExecuteEnvelope, Command, feedVars, processVars
<1>1. TypeOK'
  BY DEF TypeOK
<1>2. KnownOrders'
  BY FS_AddElement DEF KnownOrders
<1>3. FramesSound' /\ JobsSound'
  BY DEF FramesSound, JobsSound, Idle, Final
<1>4. LedgerSound'
  BY DEF LedgerSound, Final
<1>5. RecordedJobs' /\ NoOrderLost'
  BY DEF RecordedJobs, NoOrderLost, InLedger, TypeOK
<1> QED BY <1>1, <1>2, <1>3, <1>4, <1>5

(* A job that StartJob hands to a grader.                                  *)
LEMMA StartJobInv ==
  ASSUME IInv, NEW g \in Grader, NEW m \in Match, NEW score \in Score,
         NEW verified \in BOOLEAN, NEW batch \in SUBSET placed,
         verified => Final(m, score),
         \A f \in batch : f.match \in {NoMatch, m},
         StartJob(g, m, score, verified, batch),
         UNCHANGED <<placed, finals, ledger>>,
         faults' = 0 => faults = 0
  PROVE  /\ cycle' \in Nat /\ job' \in [Grader -> Job]
         /\ \A h \in Grader : job'[h].batch \subseteq placed
         /\ JobsSound' /\ RecordedJobs'
<1> USE DEF IInv, StartJob
<1> DEFINE new == [step |-> "persist", match |-> m, score |-> score,
                   verified |-> verified, batch |-> batch, cycle |-> cycle + 1]
<1>1. new \in Job /\ cycle + 1 \in Nat
  BY DEF TypeOK, Job, Step
<1>2. job' = [job EXCEPT ![g] = new]
  OBVIOUS
<1>3. job \in [Grader -> Job]
  BY DEF TypeOK
<1> HIDE DEF new
<1>4. job' \in [Grader -> Job]
  BY <1>1, <1>2, <1>3
<1>5. \A h \in Grader : job'[h] = IF h = g THEN new ELSE job[h]
  BY <1>2, <1>3
<1>6. \A h \in Grader : job'[h].batch \subseteq placed
  BY <1>5 DEF KnownOrders, new
<1>7. JobsSound'
  BY <1>5 DEF JobsSound, Idle, Final, new
<1>8. RecordedJobs'
  BY <1>5 DEF RecordedJobs, InLedger, new
<1> QED BY <1>1, <1>4, <1>6, <1>7, <1>8

LEMMA FeedReceiveInv ==
  ASSUME IInv, NEW ok \in BOOLEAN, FeedReceive(ok)
  PROVE  IInv'
<1> USE DEF IInv, FeedReceive, Command, feedVars, storeVars
<1> DEFINE frame == Head(inbox)
<1>1. inbox # <<>> /\ inbox \in Seq(Frame)
  BY DEF TypeOK
<1>2. frame \in Frame /\ inbox' \in Seq(Frame)
  BY <1>1
<1>3. \A i \in DOMAIN inbox' : i + 1 \in DOMAIN inbox /\ inbox'[i] = inbox[i + 1]
  BY <1>1
<1>4. FramesSound'
  BY <1>3 DEF FramesSound, Final
<1>5. frame.clock = "FULLTIME" => Final(frame.match, frame.score)
  BY <1>1 DEF FramesSound
<1>6. /\ cycle' \in Nat /\ job' \in [Grader -> Job]
      /\ \A h \in Grader : job'[h].batch \subseteq placed
      /\ JobsSound' /\ RecordedJobs'
  <2>1. CASE ok /\ frame.clock = "FULLTIME" /\ OrdersOf(frame.match) # {}
    <3>1. StartJob("feed_ft", frame.match, frame.score, TRUE, OrdersOf(frame.match))
      BY <2>1
    <3>2. frame.match \in Match /\ frame.score \in Score
      BY <1>2 DEF Frame
    <3>3. OrdersOf(frame.match) \subseteq placed
      BY DEF OrdersOf, KnownOrders
    <3>4. \A f \in OrdersOf(frame.match) : f.match \in {NoMatch, frame.match}
      BY DEF OrdersOf
    <3>5. UNCHANGED <<placed, finals, ledger>> /\ (faults' = 0 => faults = 0)
      BY <2>1
    <3> QED BY <1>5, <2>1, <3>1, <3>2, <3>3, <3>4, <3>5, StartJobInv
  <2>2. CASE ~(ok /\ frame.clock = "FULLTIME" /\ OrdersOf(frame.match) # {})
    <3>1. UNCHANGED <<cycle, job, ledger, finals, placed>>
      BY <2>2
    <3>2. faults' = 0 => faults = 0
      BY DEF TypeOK
    <3> QED BY <3>1, <3>2 DEF TypeOK, KnownOrders, JobsSound, Idle, Final,
                             RecordedJobs, InLedger
  <2> QED BY <2>1, <2>2
<1>7. TypeOK'
  BY <1>2, <1>6 DEF TypeOK
<1>8. KnownOrders' /\ LedgerSound' /\ NoOrderLost'
  BY <1>6 DEF KnownOrders, LedgerSound, Final, NoOrderLost, InLedger, TypeOK
<1> QED BY <1>4, <1>6, <1>7, <1>8

LEMMA SweepReadInv ==
  ASSUME IInv,
         SweepBegin \/ \E ok \in BOOLEAN : \E f \in sweep.unchecked : SweepCheck(f, ok)
  PROVE  IInv'
<1> USE DEF IInv, feedVars, storeVars
<1>1. /\ sweep'.unchecked \subseteq paperOrders \cup sweep.unchecked
      /\ sweep'.stale \subseteq sweep.unchecked \cup sweep.stale
      /\ \A f \in sweep'.unchecked \cup sweep'.stale : f.match # NoMatch
      /\ sweep' \in [unchecked : SUBSET Fill, stale : SUBSET Fill]
  BY DEF TypeOK, KnownOrders, SweepBegin, SweepCheck
<1>2. /\ UNCHANGED <<feedVars, inbox, job, cycle, session, up, storeVars, placed, crashes>>
      /\ faults' \in Nat
      /\ faults' = 0 => faults = 0
  BY DEF TypeOK, SweepBegin, SweepCheck, Command
<1>3. TypeOK'
  BY <1>1, <1>2 DEF TypeOK
<1>4. KnownOrders'
  BY <1>1, <1>2 DEF KnownOrders
<1>5. FramesSound' /\ JobsSound' /\ LedgerSound' /\ RecordedJobs' /\ NoOrderLost'
  BY <1>2 DEF FramesSound, JobsSound, Idle, Final, LedgerSound, RecordedJobs,
              NoOrderLost, InLedger
<1> QED BY <1>3, <1>4, <1>5

LEMMA SweepGradeInv ==
  ASSUME IInv, NEW f \in sweep.stale, NEW ok \in BOOLEAN, SweepGrade(f, ok)
  PROVE  IInv'
<1> USE DEF IInv, SweepGrade, feedVars, storeVars
<1> DEFINE meta == matchHash[f.match]
<1>1. f \in placed /\ f \in Fill /\ f.match \in Match
  BY DEF TypeOK, KnownOrders, Fill
<1>2. meta \in Hash /\ meta.score \in Score /\ Confirmed(meta) \in BOOLEAN
  BY <1>1 DEF TypeOK, Hash, Confirmed
<1>3. Confirmed(meta) => Final(f.match, meta.score)
  BY <1>1 DEF FramesSound
<1>4. /\ faults' \in Nat
      /\ faults' = 0 => faults = 0
      /\ UNCHANGED <<placed, finals, ledger>>
  BY DEF TypeOK, Command
<1>5. /\ cycle' \in Nat /\ job' \in [Grader -> Job]
      /\ \A h \in Grader : job'[h].batch \subseteq placed
      /\ JobsSound' /\ RecordedJobs'
  <2>1. CASE ok
    <3>1. StartJob("stale_sweep", f.match, meta.score, Confirmed(meta), {f})
      BY <2>1
    <3>2. {f} \in SUBSET placed /\ \A x \in {f} : x.match \in {NoMatch, f.match}
      BY <1>1
    <3> QED BY <1>1, <1>2, <1>3, <1>4, <3>1, <3>2, StartJobInv
  <2>2. CASE ~ok
    <3>1. UNCHANGED <<cycle, job>>
      BY <2>2
    <3> QED BY <1>4, <3>1 DEF TypeOK, KnownOrders, JobsSound, Idle, Final,
                             RecordedJobs, InLedger
  <2> QED BY <2>1, <2>2
<1>6. sweep' \in [unchecked : SUBSET Fill, stale : SUBSET Fill]
      /\ sweep'.unchecked \subseteq sweep.unchecked /\ sweep'.stale \subseteq sweep.stale
  BY DEF TypeOK
<1>7. TypeOK'
  BY <1>4, <1>5, <1>6 DEF TypeOK
<1>8. KnownOrders'
  BY <1>5, <1>6 DEF KnownOrders
<1>9. FramesSound' /\ LedgerSound' /\ NoOrderLost'
  BY <1>4 DEF FramesSound, LedgerSound, Final, NoOrderLost, InLedger
<1> QED BY <1>5, <1>7, <1>8, <1>9

-----------------------------------------------------------------------------
(* The four steps of a settlement.                                         *)
LEMMA AdvanceType ==
  ASSUME TypeOK, NEW g \in Grader, NEW from, NEW to \in Step, Advance(g, from, to)
  PROVE  /\ job' \in [Grader -> Job]
         /\ \A h \in Grader : /\ job'[h].batch = job[h].batch
                              /\ job'[h].match = job[h].match
                              /\ job'[h].score = job[h].score
                              /\ job'[h].verified = job[h].verified
                              /\ h # g => job'[h] = job[h]
         /\ job'[g].step = to /\ job[g].step = from
<1>1. job[g] \in Job /\ [job[g] EXCEPT !.step = to] \in Job
  BY DEF TypeOK, Job
<1>2. job' = [job EXCEPT ![g].step = to] /\ job \in [Grader -> Job]
  BY DEF TypeOK, Advance
<1>3. \A h \in Grader : job'[h] = IF h = g THEN [job[g] EXCEPT !.step = to] ELSE job[h]
  BY <1>2
<1>4. job' \in [Grader -> Job]
  BY <1>1, <1>2
<1>5. \A h \in Grader : job[h] \in Job
  BY <1>2
<1> QED BY <1>1, <1>3, <1>4, <1>5 DEF Advance, Job

LEMMA PersistSessionInv ==
  ASSUME IInv, NEW g \in Grader, NEW ok \in BOOLEAN, PersistSession(g, ok)
  PROVE  IInv'
<1> USE DEF IInv, PersistSession, Command, feedVars
<1>1. Advance(g, "persist", "record") /\ "record" \in Step /\ TypeOK
  BY DEF Step
<1>2. /\ job' \in [Grader -> Job]
      /\ \A h \in Grader : /\ job'[h].batch = job[h].batch
                           /\ job'[h].match = job[h].match
                           /\ job'[h].score = job[h].score
                           /\ job'[h].verified = job[h].verified
                           /\ h # g => job'[h] = job[h]
      /\ job'[g].step = "record" /\ job[g].step = "persist"
  BY <1>1, AdvanceType
<1>3. settlementTotals(job[g]) \in Totals
  BY TotalsType DEF TypeOK, KnownOrders
<1>4. session' \in Totals /\ pnl' \in [totals : Totals, cycle : Nat]
  <2>1. session \in Totals /\ pnl.totals \in Totals /\ pnl \in [totals : Totals, cycle : Nat]
        /\ job[g].cycle \in Nat
    BY DEF TypeOK, Job
  <2>2. Plus(session, settlementTotals(job[g])) \in Totals
        /\ Plus(pnl.totals, settlementTotals(job[g])) \in Totals
    BY <1>3, <2>1, PlusType
  <2> QED BY <2>1, <2>2
<1>5. TypeOK'
  BY <1>2, <1>4 DEF TypeOK
<1>6. KnownOrders' /\ FramesSound' /\ LedgerSound'
  BY <1>2 DEF KnownOrders, FramesSound, LedgerSound, Final
<1>7. JobsSound'
  BY <1>2 DEF JobsSound, Idle, Final
<1>8. RecordedJobs' /\ NoOrderLost'
  BY <1>2 DEF RecordedJobs, NoOrderLost, InLedger, TypeOK
<1> QED BY <1>5, <1>6, <1>7, <1>8

LEMMA RecordSettlementsInv ==
  ASSUME IInv, NEW g \in Grader, NEW ok \in BOOLEAN, RecordSettlements(g, ok)
  PROVE  IInv'
<1> USE DEF IInv, RecordSettlements, Command, feedVars
<1>1. Advance(g, "record", "publish") /\ "publish" \in Step /\ TypeOK
  BY DEF Step
<1>2. /\ job' \in [Grader -> Job]
      /\ \A h \in Grader : /\ job'[h].batch = job[h].batch
                           /\ job'[h].match = job[h].match
                           /\ job'[h].score = job[h].score
                           /\ job'[h].verified = job[h].verified
                           /\ h # g => job'[h] = job[h]
      /\ job'[g].step = "publish" /\ job[g].step = "record"
  BY <1>1, AdvanceType
<1>3. job[g] \in Job /\ job[g].match \in Match
  BY <1>2 DEF TypeOK, JobsSound, Idle
<1>4. ledger' \subseteq ledger \cup Entries(g) /\ ledger \subseteq ledger'
      /\ (faults' = 0 => faults = 0 /\ ledger' = ledger \cup Entries(g))
      /\ faults' \in Nat /\ nextXid' \in Nat
  BY DEF TypeOK
<1>5. ASSUME NEW e \in Entries(g)
      PROVE  /\ e \in Entry /\ e.fill \in placed
             /\ e.fill.match \in {NoMatch, e.match}
             /\ e.result # "unresolved" =>
                  Final(e.match, e.score) /\ e.result = outcomeFor(e.fill.side, e.score)
  <2>1. PICK f \in job[g].batch :
          e = [xid |-> nextXid, fill |-> f, match |-> job[g].match,
               score |-> job[g].score, result |-> ResultOf(f, job[g]), source |-> g]
    BY <1>5 DEF Entries
  <2>2. f \in Fill /\ f \in placed /\ f.match \in {NoMatch, job[g].match}
    BY <1>2, <1>3 DEF TypeOK, KnownOrders, JobsSound, Idle, Job
  <2>3. e \in Entry
    BY <1>3, <2>1, <2>2, VerdictType DEF TypeOK, Entry, Job
  <2>4. e.result # "unresolved" => job[g].verified
    BY <2>1 DEF ResultOf, Verdict
  <2>5. job[g].verified => Final(e.match, e.score)
                           /\ e.result = outcomeFor(e.fill.side, e.score)
    BY <1>2, <2>1 DEF JobsSound, Idle, ResultOf, Verdict
  <2> QED BY <2>1, <2>2, <2>3, <2>4, <2>5
<1>6. TypeOK'
  <2>1. ledger' \subseteq Entry
    BY <1>4, <1>5 DEF TypeOK
  <2> QED BY <1>2, <1>4, <2>1 DEF TypeOK
<1>7. KnownOrders' /\ FramesSound'
  BY <1>2 DEF KnownOrders, FramesSound, Final
<1>8. JobsSound'
  BY <1>2 DEF JobsSound, Idle, Final
<1>9. LedgerSound'
  BY <1>4, <1>5 DEF LedgerSound, Final
<1>10. RecordedJobs'
  <2> SUFFICES ASSUME faults' = 0, NEW h \in Grader, job'[h].step \in {"publish", "clear"},
                      NEW f \in job'[h].batch
               PROVE  InLedger(f)'
    BY DEF RecordedJobs
  <2>1. CASE h = g
    <3> DEFINE e == [xid |-> nextXid, fill |-> f, match |-> job[g].match,
                     score |-> job[g].score, result |-> ResultOf(f, job[g]), source |-> g]
    <3>1. e \in Entries(g)
      BY <1>2, <2>1 DEF Entries
    <3> QED BY <1>4, <3>1 DEF InLedger
  <2>2. CASE h # g
    BY <1>2, <1>4, <2>2 DEF RecordedJobs, InLedger
  <2> QED BY <2>1, <2>2
<1>11. NoOrderLost'
  BY <1>4 DEF NoOrderLost, InLedger
<1> QED BY <1>6, <1>7, <1>8, <1>9, <1>10, <1>11

LEMMA PublishSnapshotInv ==
  ASSUME IInv, NEW g \in Grader, NEW ok \in BOOLEAN, PublishSnapshot(g, ok)
  PROVE  IInv'
<1> USE DEF IInv, PublishSnapshot, Command, feedVars
<1>1. Advance(g, "publish", "clear") /\ "clear" \in Step /\ TypeOK
  BY DEF Step
<1>2. /\ job' \in [Grader -> Job]
      /\ \A h \in Grader : /\ job'[h].batch = job[h].batch
                           /\ job'[h].match = job[h].match
                           /\ job'[h].score = job[h].score
                           /\ job'[h].verified = job[h].verified
                           /\ h # g => job'[h] = job[h]
      /\ job'[g].step = "clear" /\ job[g].step = "publish"
  BY <1>1, AdvanceType
<1>3. snapshot' \in [cycle : Nat, session : Totals]
  BY DEF TypeOK, Job
<1>4. TypeOK'
  BY <1>2, <1>3 DEF TypeOK
<1>5. KnownOrders' /\ FramesSound' /\ LedgerSound'
  BY <1>2 DEF KnownOrders, FramesSound, LedgerSound, Final
<1>6. JobsSound'
  BY <1>2 DEF JobsSound, Idle, Final
<1>7. RecordedJobs' /\ NoOrderLost'
  BY <1>2 DEF RecordedJobs, NoOrderLost, InLedger, TypeOK
<1> QED BY <1>4, <1>5, <1>6, <1>7

LEMMA ClearOrdersInv ==
  ASSUME IInv, NEW g \in Grader, NEW ok \in BOOLEAN, ClearOrders(g, ok)
  PROVE  IInv'
<1> USE DEF IInv, ClearOrders, Command, feedVars
<1>1. NoJob \in Job
  BY DEF NoJob, Job, Step, Score
<1>2. /\ job' \in [Grader -> Job]
      /\ \A h \in Grader : job'[h] = IF h = g THEN NoJob ELSE job[h]
  BY <1>1 DEF TypeOK
<1>3. faults' \in Nat /\ (faults' = 0 => faults = 0)
      /\ paperOrders' \subseteq paperOrders /\ paperOrders \subseteq paperOrders' \cup job[g].batch
  BY DEF TypeOK
<1>4. TypeOK'
  BY <1>2, <1>3 DEF TypeOK
<1>5. KnownOrders' /\ FramesSound' /\ LedgerSound'
  BY <1>2, <1>3 DEF KnownOrders, FramesSound, LedgerSound, Final, NoJob
<1>6. JobsSound' /\ RecordedJobs'
  BY <1>2, <1>3 DEF JobsSound, Idle, Final, NoJob, RecordedJobs, InLedger
<1>7. NoOrderLost'
  BY <1>3 DEF NoOrderLost, RecordedJobs, InLedger
<1> QED BY <1>4, <1>5, <1>6, <1>7

LEMMA CrashInv ==
  ASSUME IInv, Crash
  PROVE  IInv'
<1> USE DEF IInv, Crash, feedVars, storeVars
<1>1. NoJob \in Job /\ NoTotals \in Totals
  BY DEF NoJob, Job, Step, Score, NoTotals, Totals
<1>2. TypeOK'
  <2>1. job' \in [Grader -> Job] /\ inbox' \in Seq(Frame) /\ crashes' \in Nat
    BY <1>1 DEF TypeOK
  <2>2. sweep' \in [unchecked : SUBSET Fill, stale : SUBSET Fill]
    BY DEF NoSweep
  <2> QED BY <1>1, <2>1, <2>2 DEF TypeOK
<1>3. KnownOrders' /\ FramesSound' /\ LedgerSound'
  BY DEF KnownOrders, FramesSound, LedgerSound, Final, NoJob, NoSweep
<1>4. JobsSound' /\ RecordedJobs' /\ NoOrderLost'
  BY DEF JobsSound, Idle, NoJob, RecordedJobs, NoOrderLost, InLedger
<1> QED BY <1>2, <1>3, <1>4

(* Restarting the process, and steps that change nothing.                  *)
LEMMA RestartInv ==
  ASSUME IInv, Restart \/ UNCHANGED vars
  PROVE  IInv'
<1>1. /\ UNCHANGED <<feedVars, inbox, job, sweep, cycle, session, storeVars, placed,
                     crashes, faults>>
      /\ up' \in BOOLEAN
  BY DEF IInv, TypeOK, Restart, vars, processVars
<1> QED BY <1>1 DEF IInv, TypeOK, KnownOrders, FramesSound, JobsSound, Idle, Final,
                   LedgerSound, RecordedJobs, NoOrderLost, InLedger, feedVars, storeVars

LEMMA SettleInv ==
  ASSUME IInv, NEW g \in Grader, NEW ok \in BOOLEAN, Settle(g, ok)
  PROVE  IInv'
BY PersistSessionInv, RecordSettlementsInv, PublishSnapshotInv, ClearOrdersInv DEF Settle

-----------------------------------------------------------------------------
(* Everything IInv asserts is established by Init and kept by every step.  *)
LEMMA Invariance == Spec => []IInv
<1>1. ASSUME IInv, [Next]_vars
      PROVE  IInv'
  <2>1. CASE \E m \in Match, c \in Clock, s \in Scores : PublishMatch(m, c, s)
    BY <1>1, <2>1, PublishMatchInv
  <2>2. CASE \E m \in Match : KickoffAges(m) \/ FrameAges(m) \/ HashTtl(m)
    BY <1>1, <2>2, TimeInv
  <2>3. CASE \E ok \in BOOLEAN : \E f \in Fill : ExecuteEnvelope(f, ok)
    BY <1>1, <2>3, ExecuteEnvelopeInv
  <2>4. CASE \E ok \in BOOLEAN : PaperRunLoop(ok)
    BY <1>1, <2>4, FeedReceiveInv, SettleInv DEF PaperRunLoop
  <2>5. CASE \E ok \in BOOLEAN : StaleSweep(ok)
    BY <1>1, <2>5, SweepReadInv, SweepGradeInv, SettleInv DEF StaleSweep
  <2>6. CASE Crash
    BY <1>1, <2>6, CrashInv
  <2>7. CASE Restart \/ UNCHANGED vars
    BY <1>1, <2>7, RestartInv
  <2> QED BY <1>1, <2>1, <2>2, <2>3, <2>4, <2>5, <2>6, <2>7 DEF Next, Ingestor
<1> QED BY InitInv, <1>1, PTL DEF Spec

(* TypeOK: every variable keeps its type, whatever fails or crashes.       *)
THEOREM TypeCorrect == Spec => []TypeOK
<1>1. IInv => TypeOK
  BY DEF IInv
<1> QED BY Invariance, <1>1, PTL

(* GradedOnFinalScore (interfaces.go:147-149, :198-203): a won, lost or    *)
(* void verdict rests on a score that a FULLTIME frame of the match        *)
(* carried, and an order that names a match is settled under that match.   *)
THEOREM GradedOnFinal == Spec => []GradedOnFinalScore
<1>1. IInv => GradedOnFinalScore
  BY DEF IInv, LedgerSound, Final, GradedOnFinalScore
<1> QED BY Invariance, <1>1, PTL

(* NoOrderLost: whatever the interleaving of the two graders and wherever  *)
(* the process crashes, a logged order is pending or in the ledger, as     *)
(* long as Redis took every write.                                         *)
THEOREM OrdersKept == Spec => []NoOrderLost
<1>1. IInv => NoOrderLost
  BY DEF IInv
<1> QED BY Invariance, <1>1, PTL

-----------------------------------------------------------------------------
(* OncePerGrader, for a process that has not crashed and a Redis that took *)
(* every write.  What a step from such a state may rely on:                *)
NeverFailed == TypeOK /\ KnownOrders /\ LedgerSound /\ GradedOnce

(* Steps that write nothing to the ledger and start no job: the order hash *)
(* and the sweep's variables shrink, or gain orders no ledger entry names. *)
LEMMA QuietOnce ==
  ASSUME NeverFailed, UNCHANGED ledger,
         \A g \in Grader : job'[g].batch = job[g].batch,
         \A g \in Grader : \/ job'[g].step = job[g].step
                           \/ job[g].step = "persist" /\ job'[g].step = "record"
                           \/ job[g].step = "publish" /\ job'[g].step = "clear",
         \A f \in paperOrders' : f \in paperOrders \/ f \notin placed,
         sweep'.unchecked \cup sweep'.stale \subseteq sweep.unchecked \cup sweep.stale
  PROVE  GradedOnce'
<1> USE DEF NeverFailed
<1>1. ASSUME NEW g, NEW f PROVE Graded(g, f)' <=> Graded(g, f)
  BY DEF Graded
<1>2. ASSUME NEW g \in Grader, NEW f \in paperOrders', Graded(g, f)
      PROVE  f \in paperOrders
  BY <1>2 DEF Graded, LedgerSound
<1>3. \A g \in Grader : Idle(g)' => Idle(g)
  BY DEF Idle
<1> QED BY <1>1, <1>2, <1>3 DEF GradedOnce

(* A grader starts a job on orders it has not settled yet.                 *)
LEMMA StartOnce ==
  ASSUME NeverFailed, NEW g \in Grader, NEW m, NEW score, NEW verified, NEW batch,
         StartJob(g, m, score, verified, batch), UNCHANGED <<ledger, paperOrders>>,
         Idle(g), \A f \in batch : ~Graded(g, f),
         sweep'.unchecked \cup sweep'.stale \subseteq sweep.unchecked \cup sweep.stale,
         \A f \in sweep'.unchecked \cup sweep'.stale : g = "stale_sweep" => f \notin batch
  PROVE  GradedOnce'
<1> USE DEF NeverFailed
<1>1. \A h \in Grader : /\ job'[h].step = IF h = g THEN "persist" ELSE job[h].step
                        /\ job'[h].batch = IF h = g THEN batch ELSE job[h].batch
  BY DEF StartJob, TypeOK
<1>2. ASSUME NEW h, NEW f PROVE Graded(h, f)' <=> Graded(h, f)
  BY <1>2 DEF Graded
<1>3. \A f \in paperOrders : ~Graded(g, f)
  BY DEF GradedOnce, Idle
<1> QED BY <1>1, <1>2, <1>3 DEF GradedOnce, Idle

LEMMA FeedReceiveOnce ==
  ASSUME NeverFailed, FeedReceive(TRUE)
  PROVE  GradedOnce'
<1>1. UNCHANGED <<ledger, paperOrders, sweep, placed>> /\ Idle("feed_ft")
  BY DEF FeedReceive, storeVars
<1>2. CASE UNCHANGED job
  BY <1>1, <1>2, QuietOnce
<1>3. ASSUME NEW m, NEW score, StartJob("feed_ft", m, score, TRUE, OrdersOf(m))
      PROVE  GradedOnce'
  <2>1. \A f \in OrdersOf(m) : ~Graded("feed_ft", f)
    BY <1>1 DEF NeverFailed, GradedOnce, OrdersOf, Idle
  <2> QED BY <1>1, <1>3, <2>1, StartOnce
<1> QED BY <1>2, <1>3 DEF FeedReceive

LEMMA SweepOnce ==
  ASSUME NeverFailed,
         \/ SweepBegin
         \/ \E f \in sweep.unchecked : SweepCheck(f, TRUE)
         \/ \E f \in sweep.stale : SweepGrade(f, TRUE)
  PROVE  GradedOnce'
<1>1. CASE SweepBegin
  <2>1. /\ UNCHANGED <<ledger, paperOrders, job>> /\ Idle("stale_sweep")
        /\ sweep'.unchecked \cup sweep'.stale \subseteq paperOrders
    BY <1>1 DEF SweepBegin, storeVars
  <2>2. ASSUME NEW g, NEW f PROVE Graded(g, f)' <=> Graded(g, f)
    BY <2>1 DEF Graded
  <2> QED BY <2>1, <2>2 DEF NeverFailed, GradedOnce, Idle
<1>2. CASE \E f \in sweep.unchecked : SweepCheck(f, TRUE)
  <2>1. /\ UNCHANGED <<ledger, paperOrders, job>>
        /\ sweep'.unchecked \cup sweep'.stale \subseteq sweep.unchecked \cup sweep.stale
    BY <1>2 DEF SweepCheck, storeVars
  <2> QED BY <2>1, QuietOnce
<1>3. ASSUME NEW f \in sweep.stale, SweepGrade(f, TRUE)
      PROVE  GradedOnce'
  <2>1. /\ UNCHANGED <<ledger, paperOrders>> /\ Idle("stale_sweep")
        /\ sweep'.unchecked \cup sweep'.stale \subseteq sweep.unchecked \cup sweep.stale
        /\ f \notin sweep'.unchecked \cup sweep'.stale
    BY <1>3 DEF SweepGrade, storeVars, NeverFailed, TypeOK
  <2>2. PICK score, verified : StartJob("stale_sweep", f.match, score, verified, {f})
    BY <1>3 DEF SweepGrade
  <2>3. ~Graded("stale_sweep", f)
    BY DEF NeverFailed, GradedOnce
  <2> QED BY <2>1, <2>2, <2>3, StartOnce
<1> QED BY <1>1, <1>2, <1>3

LEMMA RecordOnce ==
  ASSUME NeverFailed, OncePerGrader, crashes = 0, faults = 0,
         NEW g \in Grader, RecordSettlements(g, TRUE)
  PROVE  OncePerGrader' /\ GradedOnce'
<1> USE DEF NeverFailed
<1>1. ledger' = ledger \cup Entries(g) /\ UNCHANGED <<paperOrders, sweep>>
  BY DEF RecordSettlements
<1>2. /\ \A h \in Grader : job'[h].batch = job[h].batch /\ (h # g => job'[h] = job[h])
      /\ job'[g].step = "publish" /\ job[g].step = "record"
  BY AdvanceType DEF RecordSettlements, Step
<1>3. \A f \in job[g].batch : ~Graded(g, f)
  BY <1>2 DEF GradedOnce
<1>4. \A e \in Entries(g) : e.fill \in job[g].batch /\ e.source = g
  BY DEF Entries
<1>5. \A e1, e2 \in Entries(g) : e1.fill = e2.fill => e1 = e2
  BY DEF Entries
<1>6. ASSUME NEW e1 \in ledger', NEW e2 \in ledger', e1.fill = e2.fill, e1.source = e2.source
      PROVE  e1 = e2
  <2>1. CASE e1 \in ledger /\ e2 \in ledger
    BY <1>6, <2>1 DEF OncePerGrader
  <2>2. CASE e1 \in Entries(g) /\ e2 \in Entries(g)
    BY <1>5, <1>6, <2>2
  <2>3. ~(e1 \in ledger /\ e2 \in Entries(g))
    BY <1>3, <1>4, <1>6 DEF Graded
  <2>4. ~(e1 \in Entries(g) /\ e2 \in ledger)
    BY <1>3, <1>4, <1>6 DEF Graded
  <2> QED BY <1>1, <1>6, <2>1, <2>2, <2>3, <2>4
<1>7. ASSUME NEW h \in Grader, NEW f PROVE Graded(h, f)' <=> Graded(h, f) \/ (h = g /\ f \in job[g].batch)
  <2>1. ASSUME f \in job[g].batch PROVE \E e \in Entries(g) : e.fill = f /\ e.source = g
    <3> DEFINE e == [xid |-> nextXid, fill |-> f, match |-> job[g].match,
                     score |-> job[g].score, result |-> ResultOf(f, job[g]), source |-> g]
    <3>1. e \in Entries(g) /\ e.fill = f /\ e.source = g
      BY <2>1 DEF Entries
    <3> QED BY <3>1
  <2> QED BY <1>1, <1>4, <2>1 DEF Graded
<1>8. GradedOnce'
  <2>1. \A h \in Grader : Idle(h)' => job'[h].batch = {}
    BY <1>2 DEF GradedOnce, Idle
  <2>2. \A h \in Grader, f \in paperOrders' : Graded(h, f)' =>
          job'[h].step \in {"publish", "clear"} /\ f \in job'[h].batch
    BY <1>1, <1>2, <1>7 DEF GradedOnce
  <2>3. \A h \in Grader : job'[h].step \in {"persist", "record"} =>
          \A f \in job'[h].batch : ~Graded(h, f)'
    BY <1>2, <1>7 DEF GradedOnce
  <2>4. \A f \in sweep'.unchecked \cup sweep'.stale :
          ~Graded("stale_sweep", f)' /\ f \notin job'["stale_sweep"].batch
    BY <1>1, <1>2, <1>7 DEF GradedOnce
  <2> QED BY <2>1, <2>2, <2>3, <2>4 DEF GradedOnce
<1> QED BY <1>6, <1>8 DEF OncePerGrader

LEMMA ClearOnce ==
  ASSUME NeverFailed, NEW g \in Grader, ClearOrders(g, TRUE)
  PROVE  GradedOnce'
<1> USE DEF NeverFailed
<1>1. UNCHANGED <<ledger, sweep>> /\ paperOrders' = paperOrders \ job[g].batch
  BY DEF ClearOrders
<1>2. \A h \in Grader : job'[h] = IF h = g THEN NoJob ELSE job[h]
  BY DEF ClearOrders, TypeOK
<1>3. ASSUME NEW h, NEW f PROVE Graded(h, f)' <=> Graded(h, f)
  BY <1>1 DEF Graded
<1> QED BY <1>1, <1>2, <1>3 DEF GradedOnce, Idle, NoJob

(* A crash and a failed write are counted.                                 *)
LEMMA CountersGrow ==
  ASSUME TypeOK, Next
  PROVE  /\ crashes' >= crashes /\ faults' >= faults
         /\ Crash => crashes' = crashes + 1
<1>1. ASSUME NEW ok \in BOOLEAN, Command(ok) PROVE faults' >= faults
  BY <1>1 DEF Command, TypeOK
<1>2. Crash => crashes' = crashes + 1
  BY DEF Crash
<1>3. CASE Ingestor \/ Restart \/ Crash
  <2>1. faults' = faults /\ (crashes' = crashes \/ crashes' = crashes + 1)
    BY <1>3 DEF Ingestor, PublishMatch, KickoffAges, FrameAges, HashTtl, Restart, Crash
  <2> QED BY <1>2, <2>1 DEF TypeOK
<1>4. ASSUME NEW ok \in BOOLEAN,
             \/ \E f \in Fill : ExecuteEnvelope(f, ok)
             \/ FeedReceive(ok)
             \/ SweepBegin
             \/ \E f \in sweep.unchecked : SweepCheck(f, ok)
             \/ \E f \in sweep.stale : SweepGrade(f, ok)
             \/ \E g \in Grader : Settle(g, ok)
      PROVE  crashes' = crashes /\ faults' >= faults
  <2>1. crashes' = crashes
    BY <1>4 DEF ExecuteEnvelope, FeedReceive, SweepBegin, SweepCheck, SweepGrade, Settle,
                PersistSession, RecordSettlements, PublishSnapshot, ClearOrders
  <2>2. Command(ok) \/ faults' = faults
    BY <1>4 DEF ExecuteEnvelope, FeedReceive, SweepBegin, SweepCheck, SweepGrade, Settle,
                PersistSession, RecordSettlements, PublishSnapshot, ClearOrders
  <2> QED BY <1>1, <2>1, <2>2 DEF TypeOK
<1>5. CASE \E ok \in BOOLEAN : \E f \in Fill : ExecuteEnvelope(f, ok)
  BY <1>4, <1>2, <1>5 DEF TypeOK
<1>6. CASE \E ok \in BOOLEAN : PaperRunLoop(ok)
  BY <1>4, <1>2, <1>6 DEF PaperRunLoop, TypeOK
<1>7. CASE \E ok \in BOOLEAN : StaleSweep(ok)
  BY <1>4, <1>2, <1>7 DEF StaleSweep, TypeOK
<1> QED BY <1>3, <1>2, <1>5, <1>6, <1>7 DEF Next

LEMMA OnceStep ==
  ASSUME IInv, OnceInv, [Next]_vars
  PROVE  OnceInv'
<1>1. CASE UNCHANGED vars
  <2>1. UNCHANGED <<ledger, paperOrders, sweep, job, crashes, faults>>
    BY <1>1 DEF vars, storeVars, processVars
  <2> QED BY <2>1 DEF OnceInv, OncePerGrader, GradedOnce, Idle, Graded
<1>2. CASE crashes' # 0 \/ faults' # 0
  BY <1>2 DEF OnceInv, OncePerGrader
<1> SUFFICES ASSUME Next, crashes' = 0, faults' = 0 PROVE OnceInv'
  BY <1>1, <1>2
<1>3. crashes = 0 /\ faults = 0 /\ ~Crash
  BY CountersGrow DEF IInv, TypeOK
<1>4. NeverFailed /\ OncePerGrader
  BY <1>3 DEF NeverFailed, IInv, OnceInv
<1>5. ASSUME UNCHANGED ledger, GradedOnce'
      PROVE  OnceInv'
  BY <1>3, <1>4, <1>5 DEF OnceInv, OncePerGrader
<1>6. CASE Ingestor \/ Restart
  <2>1. UNCHANGED <<ledger, paperOrders, sweep, job>>
    BY <1>6 DEF Ingestor, PublishMatch, KickoffAges, FrameAges, HashTtl, Restart, storeVars,
                processVars
  <2> QED BY <1>4, <1>5, <2>1, QuietOnce
<1>7. ASSUME NEW f \in Fill, NEW ok \in BOOLEAN, ExecuteEnvelope(f, ok)
      PROVE  OnceInv'
  <2>1. /\ UNCHANGED <<ledger, sweep, job>> /\ f \notin placed
        /\ paperOrders' \subseteq paperOrders \cup {f}
    BY <1>7 DEF ExecuteEnvelope, processVars
  <2> QED BY <1>4, <1>5, <2>1, QuietOnce
<1>8. ASSUME NEW g \in Grader, NEW ok \in BOOLEAN, Settle(g, ok)
      PROVE  OnceInv'
  <2>1. CASE PersistSession(g, ok) \/ PublishSnapshot(g, ok)
    <3>1. UNCHANGED <<ledger, paperOrders, sweep>>
      BY <2>1 DEF PersistSession, PublishSnapshot
    <3>2. PICK from \in {"persist", "publish"}, to \in {"record", "clear"} :
            Advance(g, from, to) /\ (from = "persist" <=> to = "record")
      BY <2>1 DEF PersistSession, PublishSnapshot
    <3>3. \A h \in Grader : /\ job'[h].batch = job[h].batch
                            /\ \/ job'[h].step = job[h].step
                               \/ job[h].step = "persist" /\ job'[h].step = "record"
                               \/ job[h].step = "publish" /\ job'[h].step = "clear"
      BY <1>4, <3>2, AdvanceType DEF NeverFailed, Step
    <3> QED BY <1>4, <1>5, <3>1, <3>3, QuietOnce
  <2>2. CASE RecordSettlements(g, ok)
    <3>1. ok = TRUE
      BY <1>3, <2>2 DEF RecordSettlements, Command
    <3> QED BY <1>3, <1>4, <2>2, <3>1, RecordOnce DEF OnceInv
  <2>3. CASE ClearOrders(g, ok)
    <3>1. ok = TRUE /\ UNCHANGED ledger
      BY <1>3, <2>3 DEF ClearOrders, Command
    <3> QED BY <1>4, <1>5, <2>3, <3>1, ClearOnce
  <2> QED BY <1>8, <2>1, <2>2, <2>3 DEF Settle
<1>9. ASSUME NEW ok \in BOOLEAN, FeedReceive(ok)
      PROVE  OnceInv'
  <2>1. ok = TRUE /\ UNCHANGED ledger
    BY <1>3, <1>9 DEF FeedReceive, Command, storeVars
  <2> QED BY <1>4, <1>5, <1>9, <2>1, FeedReceiveOnce
<1>10. ASSUME NEW ok \in BOOLEAN,
              \/ SweepBegin
              \/ \E f \in sweep.unchecked : SweepCheck(f, ok)
              \/ \E f \in sweep.stale : SweepGrade(f, ok)
       PROVE  OnceInv'
  <2>1. UNCHANGED ledger
    BY <1>10 DEF SweepBegin, SweepCheck, SweepGrade, storeVars
  <2>2. SweepBegin \/ ok = TRUE
    <3>1. ASSUME Command(ok) PROVE ok = TRUE
      BY <1>3, <3>1 DEF Command
    <3> QED BY <1>10, <3>1 DEF SweepCheck, SweepGrade
  <2> QED BY <1>4, <1>5, <1>10, <2>1, <2>2, SweepOnce
<1> QED BY <1>3, <1>6, <1>7, <1>8, <1>9, <1>10 DEF Next, PaperRunLoop, StaleSweep

(* OncePerGrader (interfaces.go:147-191, :198-236): a goroutine that was   *)
(* not interrupted settles no order twice, whatever the other one does.    *)
THEOREM GradersSettleOnce == Spec => []OncePerGrader
<1>1. Init => OnceInv
  BY DEF Init, ProcessInit, OnceInv, OncePerGrader, GradedOnce, Graded, NoJob, NoSweep
<1>2. OnceInv => OncePerGrader
  BY DEF OnceInv
<1>3. IInv /\ OnceInv /\ [Next]_vars => OnceInv'
  BY OnceStep
<1> QED BY Invariance, <1>1, <1>2, <1>3, PTL DEF Spec

-----------------------------------------------------------------------------
(* HashCountsLedger.  What a grader adds to the hash is the number of the  *)
(* entries that it appends to the ledger next, counter by counter.         *)
Pending(g, c) == IF job[g].step = "record" THEN settlementTotals(job[g])[c] ELSE 0

LEMMA InFlightSum ==
  ASSUME NEW c
  PROVE  InFlight(c) = Pending("feed_ft", c) + Pending("stale_sweep", c)
BY DEF InFlight, Pending

LEMMA JobTotals ==
  ASSUME IInv, NEW g \in Grader
  PROVE  settlementTotals(job[g]) \in Totals
BY TotalsType DEF IInv, TypeOK, KnownOrders

LEMMA PendingType ==
  ASSUME IInv, NEW g \in Grader, NEW c \in Counter
  PROVE  Pending(g, c) \in Nat
BY JobTotals DEF Pending, Totals

EntryOf(g, f) ==
  [xid |-> nextXid, fill |-> f, match |-> job[g].match, score |-> job[g].score,
   result |-> ResultOf(f, job[g]), source |-> g]

(* A grader writes one entry per order.                                    *)
LEMMA OneEntryEach ==
  ASSUME NEW g, NEW T, IsFiniteSet(T)
  PROVE  /\ IsFiniteSet({EntryOf(g, f) : f \in T})
         /\ Cardinality({EntryOf(g, f) : f \in T}) = Cardinality(T)
<1> DEFINE B == {EntryOf(g, f) : f \in T}
           F == [f \in T |-> EntryOf(g, f)]
<1>1. F \in [T -> B]
  OBVIOUS
<1>2. \A f \in T : F[f].fill = f
  BY DEF EntryOf
<1>3. \A a, b \in T : F[a] = F[b] => a = b
  <2>1. ASSUME NEW a \in T, NEW b \in T, F[a] = F[b] PROVE a = b
    <3> HIDE DEF F
    <3> QED BY <1>2, <2>1
  <2> QED BY <2>1
<1>4. \A e \in B : \E f \in T : F[f] = e
  OBVIOUS
<1> HIDE DEF B, F
<1>5. F \in Bijection(T, B)
  BY <1>1, <1>3, <1>4, Fun_IsBij
<1>6. ExistsBijection(T, B)
  BY <1>5 DEF ExistsBijection
<1>7. IsFiniteSet(B) /\ Cardinality(B) = Cardinality(T)
  BY <1>6, FS_Bijection
<1> QED BY <1>7 DEF B

LEMMA EntriesCounted ==
  ASSUME IInv, NEW g \in Grader, NEW c \in Counter
  PROVE  /\ IsFiniteSet(Entries(g))
         /\ Cardinality({e \in Entries(g) : e.result \in Counts[c]})
              = settlementTotals(job[g])[c]
<1> DEFINE batch == job[g].batch
           T == {f \in batch : ResultOf(f, job[g]) \in Counts[c]}
<1>1. IsFiniteSet(batch) /\ IsFiniteSet(T)
  BY FS_Subset DEF IInv, KnownOrders
<1>2. Entries(g) = {EntryOf(g, f) : f \in batch}
  BY DEF Entries, EntryOf
<1>3. {e \in Entries(g) : e.result \in Counts[c]} = {EntryOf(g, f) : f \in T}
  BY <1>2 DEF EntryOf
<1>4. settlementTotals(job[g])[c] = Cardinality(T)
  BY DEF settlementTotals
<1>5. IsFiniteSet({EntryOf(g, f) : f \in batch})
  BY <1>1, OneEntryEach
<1>6. Cardinality({EntryOf(g, f) : f \in T}) = Cardinality(T)
  BY <1>1, OneEntryEach
<1> QED BY <1>2, <1>3, <1>4, <1>5, <1>6

(* New entries have a new number, so their counts add up with the old.     *)
LEMMA RecordedGrows ==
  ASSUME IInv, CountInv, NEW g \in Grader, NEW c \in Counter,
         ledger' = ledger \cup Entries(g)
  PROVE  /\ Recorded(c) \in Nat
         /\ Recorded(c)' = Recorded(c) + settlementTotals(job[g])[c]
<1> DEFINE A == {e \in ledger : e.result \in Counts[c]}
           B == {e \in Entries(g) : e.result \in Counts[c]}
<1>1. /\ IsFiniteSet(A) /\ IsFiniteSet(B)
      /\ Cardinality(B) = settlementTotals(job[g])[c]
  BY EntriesCounted, FS_Subset DEF CountInv
<1>2. A \cap B = {}
  <2>1. \A e \in Entries(g) : e.xid = nextXid
    BY DEF Entries
  <2>2. \A e \in ledger : e.xid # nextXid
    BY DEF CountInv, IInv, TypeOK, Entry
  <2> QED BY <2>1, <2>2
<1>3. {e \in ledger' : e.result \in Counts[c]} = A \cup B
  OBVIOUS
<1>4. Recorded(c) = Cardinality(A) /\ Recorded(c)' = Cardinality(A \cup B)
  BY <1>3 DEF Recorded
<1> HIDE DEF A, B
<1>5. Cardinality(A) \in Nat /\ Cardinality(B) \in Nat /\ Cardinality(A \cap B) = 0
  BY <1>1, <1>2, FS_CardinalityType, FS_EmptySet
<1>6. Cardinality(A \cup B) = Cardinality(A) + Cardinality(B) - Cardinality(A \cap B)
  BY <1>1, FS_Union
<1> QED BY <1>1, <1>4, <1>5, <1>6

LEMMA RecordedType ==
  ASSUME CountInv, NEW c \in Counter
  PROVE  Recorded(c) \in Nat
BY FS_Subset, FS_CardinalityType DEF CountInv, Recorded

(* Steps that touch neither the hash nor the ledger, nor a job whose       *)
(* totals are in one and not in the other.                                 *)
LEMMA QuietCount ==
  ASSUME IInv, CountInv, UNCHANGED <<ledger, pnl, nextXid>>,
         faults' = 0 => faults = 0, crashes' = 0 => crashes = 0,
         \A g \in Grader : \/ job'[g] = job[g]
                           \/ job[g].step # "record" /\ job'[g].step # "record"
  PROVE  CountInv'
<1>1. \A c \in Counter : Recorded(c)' = Recorded(c)
  BY DEF Recorded
<1>2. \A g \in Grader, c \in Counter : Pending(g, c)' = Pending(g, c)
  <2>1. ASSUME NEW g \in Grader, NEW c \in Counter
        PROVE  Pending(g, c)' = Pending(g, c)
    <3>1. CASE job'[g] = job[g]
      <4>1. settlementTotals(job[g])' = settlementTotals(job[g])
        BY <3>1 DEF settlementTotals, ResultOf
      <4> QED BY <3>1, <4>1 DEF Pending
    <3>2. CASE job[g].step # "record" /\ job'[g].step # "record"
      BY <3>2 DEF Pending
    <3> QED BY <3>1, <3>2
  <2> QED BY <2>1
<1>3. \A c \in Counter : InFlight(c)' = InFlight(c)
  BY <1>2 DEF InFlight, Pending
<1> QED BY <1>1, <1>3 DEF CountInv

LEMMA PersistCount ==
  ASSUME IInv, CountInv, NEW g \in Grader, NEW ok \in BOOLEAN, PersistSession(g, ok)
  PROVE  CountInv'
<1>1. UNCHANGED <<ledger, nextXid, crashes>>
  BY DEF PersistSession
<1>2. /\ job'[g].step = "record" /\ job[g].step = "persist"
      /\ \A h \in Grader : /\ job'[h].batch = job[h].batch
                           /\ job'[h].score = job[h].score
                           /\ job'[h].verified = job[h].verified
                           /\ h # g => job'[h] = job[h]
  BY AdvanceType DEF PersistSession, IInv, Step
<1>3. ASSUME NEW c \in Counter, faults' = 0
      PROVE  /\ faults = 0
             /\ pnl'.totals[c] = pnl.totals[c] + settlementTotals(job[g])[c]
  <2>1. faults = 0 /\ ok = TRUE
    BY <1>3 DEF PersistSession, Command, IInv, TypeOK
  <2> QED BY <2>1 DEF PersistSession, Plus
<1>4. ASSUME NEW c \in Counter
      PROVE  /\ Pending(g, c) = 0 /\ Pending(g, c)' = settlementTotals(job[g])[c]
             /\ \A h \in Grader \ {g} : Pending(h, c)' = Pending(h, c)
  <2>1. \A h \in Grader : settlementTotals(job[h])' = settlementTotals(job[h])
    BY <1>2 DEF settlementTotals, ResultOf
  <2> QED BY <1>2, <2>1 DEF Pending
<1>5. ASSUME NEW c \in Counter
      PROVE  InFlight(c)' = InFlight(c) + settlementTotals(job[g])[c]
  <2>1. settlementTotals(job[g])[c] \in Nat /\ \A h \in Grader : Pending(h, c) \in Nat
    BY JobTotals, PendingType DEF Totals
  <2>2. InFlight(c) = Pending("feed_ft", c) + Pending("stale_sweep", c)
    BY InFlightSum
  <2>3. InFlight(c)' = Pending("feed_ft", c)' + Pending("stale_sweep", c)'
    BY DEF InFlight, Pending
  <2> QED BY <1>4, <2>1, <2>2, <2>3
<1>6. ASSUME NEW c \in Counter
      PROVE  /\ Recorded(c)' = Recorded(c) /\ Recorded(c) \in Nat /\ InFlight(c) \in Nat
             /\ pnl.totals[c] \in Nat /\ settlementTotals(job[g])[c] \in Nat
  <2>1. Recorded(c)' = Recorded(c)
    BY <1>1 DEF Recorded
  <2>2. pnl.totals[c] \in Nat
    BY DEF IInv, TypeOK, Totals
  <2>3. InFlight(c) \in Nat
    BY InFlightSum, PendingType
  <2> QED BY <2>1, <2>2, <2>3, RecordedType, JobTotals DEF Totals
<1> QED BY <1>1, <1>3, <1>5, <1>6 DEF CountInv

LEMMA RecordCount ==
  ASSUME IInv, CountInv, NEW g \in Grader, NEW ok \in BOOLEAN, RecordSettlements(g, ok)
  PROVE  CountInv'
<1>1. /\ UNCHANGED <<pnl, crashes>> /\ nextXid' = nextXid + 1 /\ nextXid \in Nat
      /\ ledger' \subseteq ledger \cup Entries(g)
      /\ faults' = 0 => faults = 0 /\ ledger' = ledger \cup Entries(g)
  <2>1. faults' = 0 => faults = 0 /\ ok = TRUE
    BY DEF RecordSettlements, Command, IInv, TypeOK
  <2> QED BY <2>1 DEF RecordSettlements, IInv, TypeOK
<1>2. /\ job'[g].step = "publish" /\ job[g].step = "record"
      /\ \A h \in Grader : h # g => job'[h] = job[h]
  BY AdvanceType DEF RecordSettlements, IInv, Step
<1>3. IsFiniteSet(ledger') /\ \A e \in ledger' : e.xid < nextXid'
  <2>1. IsFiniteSet(ledger \cup Entries(g))
    <3>1. "won" \in Counter
      BY DEF Counter
    <3> QED BY <3>1, EntriesCounted, FS_Union DEF CountInv
  <2>2. \A e \in ledger : e.xid \in Nat /\ e.xid < nextXid
    BY DEF CountInv, IInv, TypeOK, Entry
  <2>3. \A e \in Entries(g) : e.xid = nextXid
    BY DEF Entries
  <2> QED BY <1>1, <2>1, <2>2, <2>3, FS_Subset
<1>4. ASSUME NEW c \in Counter
      PROVE  InFlight(c) = InFlight(c)' + settlementTotals(job[g])[c]
  <2>1. settlementTotals(job[g])[c] \in Nat /\ \A h \in Grader : Pending(h, c) \in Nat
    BY JobTotals, PendingType DEF Totals
  <2>2. Pending(g, c) = settlementTotals(job[g])[c] /\ Pending(g, c)' = 0
    BY <1>2 DEF Pending
  <2>3. \A h \in Grader \ {g} : Pending(h, c)' = Pending(h, c)
    <3>1. \A h \in Grader \ {g} : settlementTotals(job[h])' = settlementTotals(job[h])
      BY <1>2 DEF settlementTotals, ResultOf
    <3> QED BY <1>2, <3>1 DEF Pending
  <2>4. InFlight(c) = Pending("feed_ft", c) + Pending("stale_sweep", c)
    BY InFlightSum
  <2>5. InFlight(c)' = Pending("feed_ft", c)' + Pending("stale_sweep", c)'
    BY DEF InFlight, Pending
  <2> QED BY <2>1, <2>2, <2>3, <2>4, <2>5
<1>5. ASSUME NEW c \in Counter
      PROVE  /\ settlementTotals(job[g])[c] \in Nat /\ InFlight(c) \in Nat
             /\ pnl.totals[c] \in Nat /\ InFlight(c)' \in Nat
  <2>1. settlementTotals(job[g])[c] \in Nat /\ \A h \in Grader : Pending(h, c) \in Nat
    BY JobTotals, PendingType DEF Totals
  <2>2. \A h \in Grader : Pending(h, c)' \in Nat
    <3>1. \A h \in Grader \ {g} : settlementTotals(job[h])' = settlementTotals(job[h])
      BY <1>2 DEF settlementTotals, ResultOf
    <3> QED BY <1>2, <2>1, <3>1 DEF Pending
  <2>3. pnl.totals[c] \in Nat
    BY DEF IInv, TypeOK, Totals
  <2>4. InFlight(c) = Pending("feed_ft", c) + Pending("stale_sweep", c)
    BY InFlightSum
  <2>5. InFlight(c)' = Pending("feed_ft", c)' + Pending("stale_sweep", c)'
    BY DEF InFlight, Pending
  <2> QED BY <2>1, <2>2, <2>3, <2>4, <2>5
<1>6. ASSUME faults' = 0, NEW c \in Counter
      PROVE  /\ pnl'.totals[c] >= Recorded(c)' + InFlight(c)'
             /\ crashes' = 0 => pnl'.totals[c] = Recorded(c)' + InFlight(c)'
  <2>1. /\ Recorded(c) \in Nat
        /\ Recorded(c)' = Recorded(c) + settlementTotals(job[g])[c]
    BY <1>1, <1>6, RecordedGrows
  <2> QED BY <1>1, <1>4, <1>5, <1>6, <2>1 DEF CountInv
<1> QED BY <1>3, <1>6 DEF CountInv

LEMMA CountStep ==
  ASSUME IInv, CountInv, [Next]_vars
  PROVE  CountInv'
<1>1. CASE UNCHANGED vars
  BY <1>1, QuietCount DEF vars, storeVars, processVars
<1> SUFFICES ASSUME Next PROVE CountInv'
  BY <1>1
<1>2. (faults' = 0 => faults = 0) /\ (crashes' = 0 => crashes = 0)
  BY CountersGrow DEF IInv, TypeOK
<1>3. CASE Ingestor \/ Restart \/ \E ok \in BOOLEAN : \E f \in Fill : ExecuteEnvelope(f, ok)
  <2>1. UNCHANGED <<ledger, pnl, nextXid, job>>
    BY <1>3 DEF Ingestor, PublishMatch, KickoffAges, FrameAges, HashTtl, Restart,
                ExecuteEnvelope, storeVars, processVars
  <2> QED BY <1>2, <2>1, QuietCount
<1>4. ASSUME NEW g \in Grader, NEW ok \in BOOLEAN, Settle(g, ok)
      PROVE  CountInv'
  <2>1. CASE PublishSnapshot(g, ok)
    <3>1. UNCHANGED <<ledger, pnl, nextXid>>
      BY <2>1 DEF PublishSnapshot
    <3>2. /\ \A h \in Grader : h # g => job'[h] = job[h]
          /\ job'[g].step = "clear" /\ job[g].step = "publish"
      BY <2>1, AdvanceType DEF PublishSnapshot, IInv, Step
    <3> QED BY <1>2, <3>1, <3>2, QuietCount
  <2>2. CASE ClearOrders(g, ok)
    <3>1. UNCHANGED <<ledger, pnl, nextXid>> /\ job[g].step = "clear"
      BY <2>2 DEF ClearOrders
    <3>2. \A h \in Grader : job'[h] = IF h = g THEN NoJob ELSE job[h]
      BY <2>2 DEF ClearOrders, IInv, TypeOK
    <3> QED BY <1>2, <3>1, <3>2, QuietCount DEF NoJob
  <2> QED BY <1>4, <2>1, <2>2, PersistCount, RecordCount DEF Settle
<1>5. ASSUME NEW ok \in BOOLEAN,
             \/ FeedReceive(ok)
             \/ SweepBegin
             \/ \E f \in sweep.unchecked : SweepCheck(f, ok)
             \/ \E f \in sweep.stale : SweepGrade(f, ok)
      PROVE  CountInv'
  <2>1. UNCHANGED <<ledger, pnl, nextXid>>
    BY <1>5 DEF FeedReceive, SweepBegin, SweepCheck, SweepGrade, storeVars
  <2>2. ASSUME NEW g \in Grader, NEW m, NEW score, NEW verified, NEW batch,
               Idle(g), StartJob(g, m, score, verified, batch)
        PROVE  CountInv'
    <3>1. /\ \A h \in Grader : h # g => job'[h] = job[h]
          /\ job'[g].step = "persist" /\ job[g].step = "idle"
      BY <2>2 DEF StartJob, Idle, IInv, TypeOK
    <3> QED BY <1>2, <2>1, <3>1, QuietCount
  <2>3. CASE UNCHANGED job
    BY <1>2, <2>1, <2>3, QuietCount
  <2>4. CASE FeedReceive(ok)
    BY <2>2, <2>3, <2>4 DEF FeedReceive
  <2>5. CASE \E f \in sweep.stale : SweepGrade(f, ok)
    BY <2>2, <2>3, <2>5 DEF SweepGrade
  <2>6. CASE SweepBegin \/ \E f \in sweep.unchecked : SweepCheck(f, ok)
    BY <2>3, <2>6 DEF SweepBegin, SweepCheck
  <2> QED BY <1>5, <2>4, <2>5, <2>6
<1>6. CASE Crash
  <2>1. UNCHANGED <<ledger, pnl, nextXid, faults>> /\ crashes' # 0
        /\ \A g \in Grader : job'[g].step = "idle"
    BY <1>6 DEF Crash, storeVars, IInv, TypeOK, NoJob
  <2>2. ASSUME NEW c \in Counter
        PROVE  /\ Recorded(c)' = Recorded(c) /\ InFlight(c)' = 0
               /\ Recorded(c) \in Nat /\ InFlight(c) \in Nat
               /\ pnl.totals[c] \in Nat
    <3>1. Recorded(c)' = Recorded(c)
      BY <2>1 DEF Recorded
    <3>2. InFlight(c)' = 0
      BY <2>1 DEF InFlight
    <3>3. InFlight(c) \in Nat
      BY InFlightSum, PendingType
    <3>4. pnl.totals[c] \in Nat
      BY DEF IInv, TypeOK, Totals
    <3> QED BY <3>1, <3>2, <3>3, <3>4, RecordedType
  <2> QED BY <2>1, <2>2 DEF CountInv
<1> QED BY <1>3, <1>4, <1>5, <1>6 DEF Next, PaperRunLoop, StaleSweep

(* HashCountsLedger (interfaces.go:181-185, :288-291): the dashboard's two *)
(* sources agree, however the graders and crashes interleave, as long as   *)
(* Redis took every write.                                                 *)
THEOREM DashboardAgrees == Spec => []HashCountsLedger
<1>1. Init => CountInv
  <2> SUFFICES ASSUME Init PROVE CountInv
    OBVIOUS
  <2>1. ledger = {} /\ \A c \in Counter : pnl.totals[c] = 0
    BY DEF Init, NoTotals
  <2>2. \A c \in Counter : Recorded(c) = 0
    <3>1. \A c \in Counter : {e \in ledger : e.result \in Counts[c]} = {}
      BY <2>1
    <3> QED BY <3>1, FS_EmptySet DEF Recorded
  <2>3. \A c \in Counter : InFlight(c) = 0
    BY DEF Init, ProcessInit, InFlight, NoJob
  <2> QED BY <2>1, <2>2, <2>3, FS_EmptySet DEF CountInv
<1>2. IInv /\ CountInv => HashCountsLedger
  <2> SUFFICES ASSUME IInv, CountInv, faults = 0, NEW c \in Counter
               PROVE  /\ pnl.totals[c] >= Recorded(c)
                      /\ crashes = 0 => pnl.totals[c] = Recorded(c) + InFlight(c)
    BY DEF HashCountsLedger
  <2>1. InFlight(c) \in Nat /\ Recorded(c) \in Nat /\ pnl.totals[c] \in Nat
    <3>1. InFlight(c) \in Nat
      BY InFlightSum, PendingType
    <3>2. pnl.totals[c] \in Nat
      BY DEF IInv, TypeOK, Totals
    <3> QED BY <3>1, <3>2, RecordedType
  <2> QED BY <2>1 DEF CountInv
<1>3. IInv /\ CountInv /\ [Next]_vars => CountInv'
  BY CountStep
<1> QED BY Invariance, <1>1, <1>2, <1>3, PTL DEF Spec

-----------------------------------------------------------------------------
(* Refinement of OrderBook, for a Redis that takes every write.            *)
Reports == {[fill |-> e.fill, match |-> e.match, score |-> e.score,
             result |-> e.result] : e \in ledger}

LEMMA StutterRefines ==
  ASSUME UNCHANGED <<placed, paperOrders, ledger, finals>>
  PROVE  UNCHANGED Book!bookVars
BY DEF Book!bookVars

LEMMA RecordRefines ==
  ASSUME IInv, IInv', faults' = 0, NEW g \in Grader, NEW ok \in BOOLEAN,
         RecordSettlements(g, ok)
  PROVE  Book!Report
<1>1. UNCHANGED <<placed, paperOrders, finals>> /\ ledger \subseteq ledger'
  BY DEF RecordSettlements, feedVars
<1>2. Reports \subseteq Reports'
  BY <1>1 DEF Reports
<1>3. \A v \in Reports' : Book!Sound(v)
  <2> SUFFICES ASSUME NEW e \in ledger'
               PROVE  Book!Sound([fill |-> e.fill, match |-> e.match, score |-> e.score,
                                  result |-> e.result])
    BY DEF Reports
  <2>1. /\ e.fill \in placed
        /\ e.fill.match \in {NoMatch, e.match}
        /\ e.result # "unresolved" =>
             e.score \in finals[e.match] /\ e.result = outcomeFor(e.fill.side, e.score)
    BY <1>1 DEF IInv, LedgerSound, Final
  <2> QED BY <2>1 DEF Book!Sound, Book!outcomeFor, Book!Score, outcomeFor, Score
<1> QED BY <1>1, <1>2, <1>3 DEF Book!Report, Reports

LEMMA ClearRefines ==
  ASSUME IInv, faults = 0, NEW g \in Grader, NEW ok \in BOOLEAN, ClearOrders(g, ok)
  PROVE  Book!Close
<1>1. /\ UNCHANGED <<placed, ledger, finals>>
      /\ paperOrders' \subseteq paperOrders
      /\ paperOrders \ paperOrders' \subseteq job[g].batch
  BY DEF ClearOrders, feedVars
<1>2. \A f \in job[g].batch : \E v \in Reports : v.fill = f
  <2>1. \A f \in job[g].batch : \E e \in ledger : e.fill = f
    BY DEF ClearOrders, IInv, RecordedJobs, InLedger
  <2>2. \A e \in ledger : [fill |-> e.fill, match |-> e.match, score |-> e.score,
                         result |-> e.result] \in Reports
    BY DEF Reports
  <2> QED BY <2>1, <2>2
<1> QED BY <1>1, <1>2 DEF Book!Close, Reports

LEMMA StepRefines ==
  ASSUME IInv, IInv', faults = 0, faults' = 0, [Next]_vars
  PROVE  [Book!BookNext]_(Book!bookVars)
<1>1. CASE \E m \in Match, c \in Clock, s \in Scores : PublishMatch(m, c, s)
  <2>1. UNCHANGED <<placed, paperOrders, ledger>>
    BY <1>1 DEF PublishMatch, storeVars
  <2>2. \A m \in DOMAIN finals : finals[m] \subseteq finals'[m]
    BY <1>1 DEF PublishMatch, IInv, TypeOK
  <2>3. Book!Confirm
    BY <2>1, <2>2 DEF Book!Confirm
  <2> QED BY <2>3 DEF Book!BookNext
<1>2. CASE \E m \in Match : KickoffAges(m) \/ FrameAges(m) \/ HashTtl(m)
  <2>1. UNCHANGED <<placed, paperOrders, ledger, finals>>
    BY <1>2 DEF KickoffAges, FrameAges, HashTtl, storeVars
  <2> QED BY <2>1, StutterRefines
<1>3. CASE \E ok \in BOOLEAN : \E f \in Fill : ExecuteEnvelope(f, ok)
  <2>1. PICK ok \in BOOLEAN, f \in Fill : ExecuteEnvelope(f, ok)
    BY <1>3
  <2>2. UNCHANGED <<ledger, finals>> /\ f \notin placed
    BY <2>1 DEF ExecuteEnvelope, feedVars
  <2>3. CASE ok
    <3>1. placed' = placed \cup {f} /\ paperOrders' = paperOrders \cup {f}
      BY <2>1, <2>3 DEF ExecuteEnvelope
    <3>2. Book!Place
      BY <2>2, <3>1 DEF Book!Place
    <3> QED BY <3>2 DEF Book!BookNext
  <2>4. CASE ~ok
    BY <2>1, <2>2, <2>4, StutterRefines DEF ExecuteEnvelope
  <2> QED BY <2>3, <2>4
<1>4. CASE \E g \in Grader, ok \in BOOLEAN : Settle(g, ok)
  <2>1. PICK g \in Grader, ok \in BOOLEAN : Settle(g, ok)
    BY <1>4
  <2>2. CASE PersistSession(g, ok) \/ PublishSnapshot(g, ok)
    BY <2>2, StutterRefines DEF PersistSession, PublishSnapshot, feedVars
  <2>3. CASE RecordSettlements(g, ok)
    BY <2>3, RecordRefines DEF Book!BookNext
  <2>4. CASE ClearOrders(g, ok)
    BY <2>4, ClearRefines DEF Book!BookNext
  <2> QED BY <2>1, <2>2, <2>3, <2>4 DEF Settle
<1>5. ASSUME NEW ok \in BOOLEAN,
             \/ FeedReceive(ok)
             \/ SweepBegin
             \/ \E f \in sweep.unchecked : SweepCheck(f, ok)
             \/ \E f \in sweep.stale : SweepGrade(f, ok)
      PROVE  UNCHANGED Book!bookVars
  <2>1. UNCHANGED <<placed, paperOrders, ledger, finals>>
    BY <1>5 DEF FeedReceive, SweepBegin, SweepCheck, SweepGrade, feedVars, storeVars
  <2> QED BY <2>1, StutterRefines
<1>6. CASE Crash \/ Restart \/ UNCHANGED vars
  <2>1. UNCHANGED <<placed, paperOrders, ledger, finals>>
    BY <1>6 DEF Crash, Restart, vars, feedVars, storeVars
  <2> QED BY <2>1, StutterRefines
<1>7. CASE \E ok \in BOOLEAN : PaperRunLoop(ok)
  BY <1>4, <1>5, <1>7 DEF PaperRunLoop
<1>8. CASE \E ok \in BOOLEAN : StaleSweep(ok)
  <2>1. PICK ok \in BOOLEAN : \/ SweepBegin
                              \/ \E f \in sweep.unchecked : SweepCheck(f, ok)
                              \/ \E f \in sweep.stale : SweepGrade(f, ok)
                              \/ Settle("stale_sweep", ok)
    BY <1>8 DEF StaleSweep
  <2>2. CASE Settle("stale_sweep", ok)
    BY <1>4, <2>2
  <2>3. CASE ~Settle("stale_sweep", ok)
    BY <1>5, <2>1, <2>3
  <2> QED BY <2>2, <2>3
<1>9. CASE Ingestor
  BY <1>1, <1>2, <1>9 DEF Ingestor
<1> QED BY <1>3, <1>6, <1>7, <1>8, <1>9 DEF Next

(* ImplementsOrderBook: as long as no write fails, the two racing graders, *)
(* with crashes at any point, keep the order book's promise for every      *)
(* instance of the constants.                                              *)
THEOREM Refinement == Spec /\ [](faults = 0) => ImplementsOrderBook
<1>1. Init => Book!BookInit
  BY DEF Init, ProcessInit, Book!BookInit
<1>2. IInv /\ IInv' /\ faults = 0 /\ (faults = 0)' /\ [Next]_vars
        => [Book!BookNext]_(Book!bookVars)
  BY StepRefines
<1> QED BY Invariance, <1>1, <1>2, PTL DEF Spec, ImplementsOrderBook, Book!BookSpec

HIDE DEF Grader, Clock

-----------------------------------------------------------------------------
(* The broker with the handlers.                                           *)
-----------------------------------------------------------------------------
(* Types, as far as the counts need them.  Every entry has a number that   *)
(* was given, and orders are finitely many.                                *)
Known(e, n) ==
  /\ e = [xid |-> e.xid, fill |-> e.fill, match |-> e.match, score |-> e.score,
          result |-> e.result, source |-> e.source]
  /\ e.xid \in Nat /\ e.xid < n /\ e.result \in Result

Regular(E, n) == IsFiniteSet(E) /\ \A e \in E : Known(e, n)

JobTyped(j) ==
  /\ j = [step |-> j.step, match |-> j.match, score |-> j.score,
          verified |-> j.verified, batch |-> j.batch, cycle |-> j.cycle]
  /\ j.batch \subseteq placed

BrokerTyped ==
  /\ IsFiniteSet(placed) /\ placed \subseteq Fill /\ paperOrders \subseteq placed
  /\ sweep \in [unchecked : SUBSET placed, stale : SUBSET placed]
  /\ job = [g \in Grader |-> job[g]] /\ \A g \in Grader : JobTyped(job[g])
  /\ pnl.totals \in Totals /\ nextXid \in Nat
  /\ crashes \in Nat /\ faults \in Nat

RequestTyped(a, n) ==
  /\ a = [handler |-> a.handler, step |-> a.step, toDelete |-> a.toDelete,
          regraded |-> a.regraded, remaining |-> a.remaining]
  /\ Regular(a.regraded, n) /\ Regular(a.remaining, n)

AdminTyped ==
  /\ Regular(ledger, nextXid)
  /\ admin = [r \in Request |-> admin[r]]
  /\ \A r \in Request : RequestTyped(admin[r], nextXid)
  /\ requests \in Nat

Typed == BrokerTyped /\ AdminTyped

-----------------------------------------------------------------------------
(* The hash after a request that ran alone.                                *)
HashAgrees == \A c \in Counter : pnl.totals[c] = Recorded(c) + InFlight(c)

Alone(r) == /\ \A g \in Grader : Idle(g)
            /\ \A q \in Request \ {r} : ~Active(q)

AloneInv ==
  /\ \A r \in met : Active(r)
  /\ \A r \in Request \ met : Active(r) => Alone(r)
  /\ ~up => \A r \in Request : ~Active(r)

(* What it has read, and what it has deleted, is still so.                 *)
ReadInv ==
  \A r \in Request \ met :
    /\ admin[r].step = "write" => admin[r].remaining = ledger
    /\ admin[r].step = "ledger" => pnl.totals = NoTotals

TrustInv ==
  trusted => /\ met = {}
             /\ (\A r \in Request : ~Active(r)) => HashAgrees

DashInv == AloneInv /\ ReadInv /\ TrustInv

-----------------------------------------------------------------------------
(* The bets of the old rule, while requests come one at a time.            *)
OneVerdict(l) ==
  \E e \in ledger : /\ e.result \in {"void", "lost"}
                    /\ \A x \in ledger : x.fill = l.fill <=> x = e

(* The entry is out of the ledger, to come back as a loss.                 *)
Regrading(r, l) ==
  /\ admin[r].step = "readd"
  /\ \E e \in admin[r].regraded : \A x \in admin[r].regraded : x.fill = l.fill <=> x = e
  /\ \A x \in ledger : x.fill # l.fill

Spares(r, l) == admin[r].step = "readd" => \A e \in admin[r].regraded : e.fill # l.fill

Choice(r) ==
  admin[r].step = "delete" =>
    /\ admin[r].toDelete \subseteq ledger
    /\ \/ admin[r].handler = "regrade" /\ admin[r].regraded = admin[r].toDelete
       \/ /\ admin[r].handler # "regrade"
          /\ \A e \in admin[r].toDelete : e.result = "unresolved"

BetsOf(r) == /\ Choice(r)
             /\ \A l \in Legacy : Regrading(r, l) \/ (OneVerdict(l) /\ Spares(r, l))

BetsInv ==
  Cardinality(Request) = 1 /\ crashes = 0 /\ faults = 0 /\ ~cleared =>
    \A r \in Request : BetsOf(r)

LEMMA KnownLater ==
  ASSUME NEW e, NEW n \in Nat, NEW k \in Nat, n <= k, Known(e, n)
  PROVE  Known(e, k)
BY DEF Known

LEMMA RegularLater ==
  ASSUME NEW E, NEW n \in Nat, NEW k \in Nat, n <= k, Regular(E, n)
  PROVE  Regular(E, k)
BY KnownLater DEF Regular

LEMMA RegularPart ==
  ASSUME NEW E, NEW F, NEW n, Regular(E, n), F \subseteq E
  PROVE  Regular(F, n)
BY FS_Subset DEF Regular

LEMMA RegularBoth ==
  ASSUME NEW E, NEW F, NEW n, Regular(E, n), Regular(F, n)
  PROVE  Regular(E \cup F, n)
BY FS_Union DEF Regular

LEMMA VerdictKnown ==
  ASSUME NEW f, NEW j
  PROVE  ResultOf(f, j) \in Result
BY DEF ResultOf, Verdict, outcomeFor, Result

(* What a batch adds to the counters are numbers.                          *)
LEMMA BatchTotals ==
  ASSUME BrokerTyped, NEW g \in Grader
  PROVE  settlementTotals(job[g]) \in Totals
<1>1. IsFiniteSet(job[g].batch)
  BY FS_Subset DEF BrokerTyped, JobTyped
<1>2. ASSUME NEW c \in Counter
      PROVE  Cardinality({f \in job[g].batch : ResultOf(f, job[g]) \in Counts[c]}) \in Nat
  BY <1>1, FS_Subset, FS_CardinalityType
<1> QED BY <1>2 DEF settlementTotals, Totals

(* One job is replaced.                                                    *)
LEMMA JobReplaced ==
  ASSUME BrokerTyped, NEW g \in Grader, NEW j, job' = [job EXCEPT ![g] = j]
  PROVE  /\ job' = [h \in Grader |-> job'[h]]
         /\ job'[g] = j /\ \A h \in Grader : h # g => job'[h] = job[h]
<1>1. job = [h \in Grader |-> job[h]]
  BY DEF BrokerTyped
<1>2. job' = [h \in Grader |-> IF h = g THEN j ELSE job[h]]
  BY <1>1
<1> QED BY <1>2

LEMMA JobAdvanced ==
  ASSUME BrokerTyped, NEW g \in Grader, NEW from, NEW to, Advance(g, from, to)
  PROVE  /\ job' = [h \in Grader |-> job'[h]]
         /\ \A h \in Grader : h # g => job'[h] = job[h]
         /\ job[g].step = from
         /\ job'[g] = [step |-> to, match |-> job[g].match, score |-> job[g].score,
                       verified |-> job[g].verified, batch |-> job[g].batch,
                       cycle |-> job[g].cycle]
<1> DEFINE j == [job[g] EXCEPT !.step = to]
<1>1. job' = [job EXCEPT ![g] = j] /\ job[g].step = from
  BY DEF Advance
<1>2. job[g] = [step |-> job[g].step, match |-> job[g].match, score |-> job[g].score,
                verified |-> job[g].verified, batch |-> job[g].batch,
                cycle |-> job[g].cycle]
  BY DEF BrokerTyped, JobTyped
<1>3. j = [step |-> to, match |-> job[g].match, score |-> job[g].score,
           verified |-> job[g].verified, batch |-> job[g].batch, cycle |-> job[g].cycle]
  BY <1>2
<1> HIDE DEF j
<1> QED BY <1>1, <1>3, JobReplaced

(* The counters behind the bounds.                                         *)
LEMMA CommandFaults ==
  ASSUME faults \in Nat, NEW ok \in BOOLEAN, Command(ok)
  PROVE  faults' \in Nat /\ faults' >= faults /\ (faults' = faults => ok = TRUE)
BY DEF Command

-----------------------------------------------------------------------------
(* The broker's steps.                                                     *)

(* Jobs whose batch the hash counts and the ledger does not stay the same. *)
QuietStep ==
  /\ UNCHANGED <<ledger, pnl, nextXid>>
  /\ \A g \in Grader : \/ job'[g] = job[g]
                       \/ job[g].step # "record" /\ job'[g].step # "record"

Steps ==
  \/ QuietStep
  \/ Crash
  \/ \E g \in Grader, ok \in BOOLEAN : PersistSession(g, ok) \/ RecordSettlements(g, ok)

LEMMA StartTyped ==
  ASSUME BrokerTyped, NEW g \in Grader, NEW m, NEW score, NEW verified, NEW batch,
         batch \subseteq placed, Idle(g), StartJob(g, m, score, verified, batch),
         UNCHANGED <<placed, ledger, pnl, nextXid>>
  PROVE  /\ job' = [h \in Grader |-> job'[h]] /\ \A h \in Grader : JobTyped(job[h])'
         /\ QuietStep
<1> DEFINE j == [step |-> "persist", match |-> m, score |-> score, verified |-> verified,
                 batch |-> batch, cycle |-> cycle + 1]
<1>1. job' = [job EXCEPT ![g] = j]
  BY DEF StartJob
<1>2. /\ job' = [h \in Grader |-> job'[h]]
      /\ job'[g] = j /\ \A h \in Grader : h # g => job'[h] = job[h]
  BY <1>1, JobReplaced
<1>3. \A h \in Grader : JobTyped(job[h])'
  BY <1>2 DEF JobTyped, BrokerTyped
<1> QED BY <1>2, <1>3 DEF QuietStep, Idle

LEMMA BrokerTypes ==
  ASSUME BrokerTyped, [Next]_vars
  PROVE  BrokerTyped' /\ Steps /\ crashes' >= crashes /\ faults' >= faults
<1>1. /\ nextXid \in Nat /\ crashes \in Nat /\ faults \in Nat /\ pnl.totals \in Totals
      /\ \A g \in Grader : JobTyped(job[g])
  BY DEF BrokerTyped
<1>2. CASE UNCHANGED <<job, sweep, placed, paperOrders, pnl, ledger, nextXid, crashes, faults>>
  BY <1>1, <1>2 DEF BrokerTyped, JobTyped, Steps, QuietStep
<1>3. CASE UNCHANGED vars \/ Ingestor \/ Restart
  BY <1>2, <1>3 DEF vars, feedVars, processVars, storeVars, Ingestor, PublishMatch,
                    KickoffAges, FrameAges, HashTtl, Restart
<1>4. CASE Crash
  <2>1. /\ job' = [g \in Grader |-> NoJob] /\ sweep' = NoSweep
        /\ UNCHANGED <<placed, paperOrders, pnl, ledger, nextXid, faults>>
        /\ crashes' = crashes + 1
    BY <1>4 DEF Crash, storeVars
  <2>2. \A g \in Grader : job'[g] = NoJob
    BY <2>1
  <2>3. job' = [g \in Grader |-> job'[g]] /\ \A g \in Grader : JobTyped(job[g])'
    BY <2>1, <2>2 DEF JobTyped, NoJob
  <2>4. sweep' \in [unchecked : SUBSET placed, stale : SUBSET placed]
    BY <2>1 DEF NoSweep
  <2>5. BrokerTyped'
    BY <1>1, <2>1, <2>3, <2>4 DEF BrokerTyped
  <2> QED BY <1>1, <1>4, <2>1, <2>5 DEF Steps
<1>5. ASSUME NEW f \in Fill, NEW ok \in BOOLEAN, ExecuteEnvelope(f, ok)
      PROVE  BrokerTyped' /\ Steps /\ crashes' >= crashes /\ faults' >= faults
  <2>1. /\ UNCHANGED <<job, sweep, pnl, ledger, nextXid, crashes>> /\ Command(ok)
        /\ \/ UNCHANGED <<placed, paperOrders>>
           \/ placed' = placed \cup {f} /\ paperOrders' = paperOrders \cup {f}
    BY <1>5 DEF ExecuteEnvelope, processVars
  <2>2. faults' \in Nat /\ faults' >= faults
    BY <1>1, <2>1, CommandFaults
  <2>3. IsFiniteSet(placed \cup {f})
    BY FS_AddElement DEF BrokerTyped
  <2>4. BrokerTyped'
    BY <1>1, <2>1, <2>2, <2>3 DEF BrokerTyped, JobTyped
  <2> QED BY <1>1, <2>1, <2>2, <2>4 DEF Steps, QuietStep
<1>6. ASSUME NEW ok \in BOOLEAN,
             \/ FeedReceive(ok)
             \/ SweepBegin
             \/ \E f \in sweep.unchecked : SweepCheck(f, ok)
             \/ \E f \in sweep.stale : SweepGrade(f, ok)
      PROVE  BrokerTyped' /\ Steps /\ crashes' >= crashes /\ faults' >= faults
  <2>1. /\ UNCHANGED <<placed, paperOrders, pnl, ledger, nextXid, crashes>>
        /\ Command(ok) \/ faults' = faults
    BY <1>6 DEF FeedReceive, SweepBegin, SweepCheck, SweepGrade, storeVars
  <2>2. faults' \in Nat /\ faults' >= faults
    <3>1. CASE Command(ok)
      BY <1>1, <3>1, CommandFaults
    <3>2. CASE faults' = faults
      BY <1>1, <3>2
    <3> QED BY <2>1, <3>1, <3>2
  <2>3. sweep' \in [unchecked : SUBSET placed, stale : SUBSET placed]
    <3>1. /\ sweep \in [unchecked : SUBSET placed, stale : SUBSET placed]
          /\ paperOrders \subseteq placed
      BY DEF BrokerTyped
    <3>2. CASE FeedReceive(ok)
      BY <3>1, <3>2 DEF FeedReceive
    <3>3. CASE SweepBegin
      BY <3>1, <3>3 DEF SweepBegin
    <3>4. CASE \E f \in sweep.unchecked : SweepCheck(f, ok)
      <4>1. PICK f \in sweep.unchecked : SweepCheck(f, ok)
        BY <3>4
      <4>2. PICK S \in SUBSET placed :
              sweep' = [unchecked |-> sweep.unchecked \ {f}, stale |-> S]
        BY <3>1, <4>1 DEF SweepCheck
      <4> QED BY <3>1, <4>2
    <3>5. CASE \E f \in sweep.stale : SweepGrade(f, ok)
      BY <3>1, <3>5 DEF SweepGrade
    <3> QED BY <1>6, <3>2, <3>3, <3>4, <3>5
  <2>4. /\ job' = [h \in Grader |-> job'[h]] /\ \A h \in Grader : JobTyped(job[h])'
        /\ QuietStep
    <3>1. CASE UNCHANGED job
      BY <1>1, <2>1, <3>1 DEF BrokerTyped, JobTyped, QuietStep
    <3>2. CASE FeedReceive(ok) /\ ~UNCHANGED job
      <4>1. /\ Idle("feed_ft") /\ OrdersOf(Head(inbox).match) \subseteq placed
            /\ StartJob("feed_ft", Head(inbox).match, Head(inbox).score, TRUE,
                        OrdersOf(Head(inbox).match))
        BY <3>2 DEF FeedReceive, OrdersOf, BrokerTyped
      <4> QED BY <2>1, <4>1, StartTyped DEF Grader
    <3>3. CASE (\E f \in sweep.stale : SweepGrade(f, ok)) /\ ~UNCHANGED job
      <4>1. PICK f \in sweep.stale : SweepGrade(f, ok)
        BY <3>3
      <4>2. /\ Idle("stale_sweep") /\ {f} \subseteq placed
            /\ StartJob("stale_sweep", f.match, matchHash[f.match].score,
                        Confirmed(matchHash[f.match]), {f})
        BY <3>3, <4>1 DEF SweepGrade, BrokerTyped
      <4> QED BY <2>1, <4>2, StartTyped DEF Grader
    <3>4. CASE SweepBegin \/ \E f \in sweep.unchecked : SweepCheck(f, ok)
      BY <3>1, <3>4 DEF SweepBegin, SweepCheck
    <3> QED BY <1>6, <3>1, <3>2, <3>3, <3>4
  <2>5. BrokerTyped'
    BY <1>1, <2>1, <2>2, <2>3, <2>4 DEF BrokerTyped
  <2> QED BY <1>1, <2>1, <2>2, <2>4, <2>5 DEF Steps
<1>7. ASSUME NEW g \in Grader, NEW ok \in BOOLEAN, Settle(g, ok)
      PROVE  BrokerTyped' /\ Steps /\ crashes' >= crashes /\ faults' >= faults
  <2>1. /\ UNCHANGED <<sweep, placed, crashes>> /\ Command(ok)
        /\ paperOrders' \subseteq paperOrders /\ nextXid' \in {nextXid, nextXid + 1}
    BY <1>7 DEF Settle, PersistSession, RecordSettlements, PublishSnapshot, ClearOrders, storeVars
  <2>2. faults' \in Nat /\ faults' >= faults
    BY <1>1, <2>1, CommandFaults
  <2>3. pnl'.totals \in Totals
    <3>1. Plus(pnl.totals, settlementTotals(job[g])) \in Totals
      BY <1>1, BatchTotals, PlusType
    <3> QED BY <1>1, <1>7, <3>1
          DEF Settle, PersistSession, RecordSettlements, PublishSnapshot, ClearOrders, storeVars
  <2>4. /\ job' = [h \in Grader |-> job'[h]] /\ \A h \in Grader : JobTyped(job[h])'
        /\ \A h \in Grader : h # g => job'[h] = job[h]
        /\ PublishSnapshot(g, ok) => job[g].step = "publish" /\ job'[g].step = "clear"
        /\ ClearOrders(g, ok) => job[g].step = "clear" /\ job'[g].step = "idle"
    <3>1. CASE ClearOrders(g, ok)
      <4>1. job' = [job EXCEPT ![g] = NoJob] /\ job[g].step = "clear"
        BY <3>1 DEF ClearOrders
      <4>2. /\ job' = [h \in Grader |-> job'[h]]
            /\ job'[g] = NoJob /\ \A h \in Grader : h # g => job'[h] = job[h]
        BY <4>1, JobReplaced
      <4> QED BY <1>1, <2>1, <4>1, <4>2 DEF JobTyped, NoJob, PublishSnapshot, Advance
    <3>2. ASSUME NEW from, NEW to, Advance(g, from, to)
          PROVE  /\ job' = [h \in Grader |-> job'[h]] /\ \A h \in Grader : JobTyped(job[h])'
                 /\ \A h \in Grader : h # g => job'[h] = job[h]
                 /\ job[g].step = from /\ job'[g].step = to
      <4>1. /\ job' = [h \in Grader |-> job'[h]]
            /\ \A h \in Grader : h # g => job'[h] = job[h]
            /\ job[g].step = from
            /\ job'[g] = [step |-> to, match |-> job[g].match, score |-> job[g].score,
                          verified |-> job[g].verified, batch |-> job[g].batch,
                          cycle |-> job[g].cycle]
        BY <3>2, JobAdvanced
      <4>2. \A h \in Grader : h # g => JobTyped(job[h])'
        BY <1>1, <2>1, <4>1 DEF JobTyped
      <4>3. JobTyped(job[g])' /\ job'[g].step = to
        <5>1. job[g].batch \subseteq placed /\ placed' = placed
          BY <1>1, <2>1 DEF JobTyped
        <5>2. PICK j : j = job'[g]
          OBVIOUS
        <5>3. /\ j.step = to /\ j.batch = job[g].batch
              /\ j = [step |-> j.step, match |-> j.match, score |-> j.score,
                      verified |-> j.verified, batch |-> j.batch, cycle |-> j.cycle]
          BY <4>1, <5>2
        <5> QED BY <5>1, <5>2, <5>3 DEF JobTyped
      <4> QED BY <4>1, <4>2, <4>3
    <3>3. CASE PublishSnapshot(g, ok)
      BY <3>2, <3>3 DEF PublishSnapshot, ClearOrders
    <3>4. CASE PersistSession(g, ok)
      BY <3>2, <3>4 DEF PersistSession, PublishSnapshot, ClearOrders, Advance
    <3>5. CASE RecordSettlements(g, ok)
      BY <3>2, <3>5 DEF RecordSettlements, PublishSnapshot, ClearOrders, Advance
    <3> QED BY <1>7, <3>1, <3>3, <3>4, <3>5 DEF Settle
  <2>5. BrokerTyped'
    BY <1>1, <2>1, <2>2, <2>3, <2>4 DEF BrokerTyped
  <2>6. PublishSnapshot(g, ok) \/ ClearOrders(g, ok) => QuietStep
    BY <2>4 DEF QuietStep, PublishSnapshot, ClearOrders
  <2> QED BY <1>1, <1>7, <2>1, <2>2, <2>5, <2>6 DEF Steps, Settle
<1>8. CASE \E ok \in BOOLEAN : PaperRunLoop(ok)
  BY <1>6, <1>7, <1>8 DEF PaperRunLoop, Grader
<1>9. CASE \E ok \in BOOLEAN : StaleSweep(ok)
  BY <1>6, <1>7, <1>9 DEF StaleSweep, Grader
<1>10. CASE \E ok \in BOOLEAN : \E f \in Fill : ExecuteEnvelope(f, ok)
  BY <1>5, <1>10
<1> QED BY <1>3, <1>4, <1>8, <1>9, <1>10 DEF Next

-----------------------------------------------------------------------------
(* Counting.                                                               *)
LEMMA NewEntries ==
  ASSUME BrokerTyped, NEW g \in Grader
  PROVE  /\ Regular(Entries(g), nextXid + 1)
         /\ \A e \in Entries(g) : e.xid = nextXid /\ e.fill \in Fill
         /\ \A c \in Counter : Cardinality({e \in Entries(g) : e.result \in Counts[c]})
                                 = settlementTotals(job[g])[c]
<1> DEFINE batch == job[g].batch
<1>1. IsFiniteSet(batch) /\ batch \subseteq Fill
  BY FS_Subset DEF BrokerTyped, JobTyped
<1>2. Entries(g) = {EntryOf(g, f) : f \in batch}
  BY DEF Entries, EntryOf
<1>3. IsFiniteSet(Entries(g))
  BY <1>1, <1>2, OneEntryEach
<1>4. ASSUME NEW e \in Entries(g)
      PROVE  Known(e, nextXid + 1) /\ e.xid = nextXid /\ e.fill \in Fill
  <2>1. PICK f \in batch : e = EntryOf(g, f)
    BY <1>2
  <2>2. ResultOf(f, job[g]) \in Result /\ nextXid \in Nat /\ f \in Fill
    BY <1>1, VerdictKnown DEF BrokerTyped
  <2>3. /\ e.xid = nextXid /\ e.fill = f /\ e.match = job[g].match /\ e.score = job[g].score
        /\ e.result = ResultOf(f, job[g]) /\ e.source = g
    BY <2>1 DEF EntryOf
  <2>4. e = [xid |-> e.xid, fill |-> e.fill, match |-> e.match, score |-> e.score,
             result |-> e.result, source |-> e.source]
    BY <2>1, <2>3 DEF EntryOf
  <2> QED BY <2>2, <2>3, <2>4 DEF Known
<1>5. ASSUME NEW c \in Counter
      PROVE  Cardinality({e \in Entries(g) : e.result \in Counts[c]})
               = settlementTotals(job[g])[c]
  <2> DEFINE T == {f \in batch : ResultOf(f, job[g]) \in Counts[c]}
  <2>1. IsFiniteSet(T)
    BY <1>1, FS_Subset
  <2>2. {e \in Entries(g) : e.result \in Counts[c]} = {EntryOf(g, f) : f \in T}
    BY <1>2 DEF EntryOf
  <2>3. Cardinality({EntryOf(g, f) : f \in T}) = Cardinality(T)
    BY <2>1, OneEntryEach
  <2>4. settlementTotals(job[g])[c] = Cardinality(T)
    BY DEF settlementTotals
  <2> QED BY <2>2, <2>3, <2>4
<1> QED BY <1>3, <1>4, <1>5 DEF Regular

LEMMA RecordedNumber ==
  ASSUME IsFiniteSet(ledger), NEW c
  PROVE  Recorded(c) \in Nat
BY FS_Subset, FS_CardinalityType DEF Recorded

(* A batch is recorded: its entries have a new number.                     *)
LEMMA RecordedSum ==
  ASSUME BrokerTyped, Regular(ledger, nextXid), NEW g \in Grader, NEW c \in Counter,
         ledger' = ledger \cup Entries(g)
  PROVE  Recorded(c)' = Recorded(c) + settlementTotals(job[g])[c]
<1> DEFINE A == {e \in ledger : e.result \in Counts[c]}
           B == {e \in Entries(g) : e.result \in Counts[c]}
<1>1. /\ IsFiniteSet(A) /\ IsFiniteSet(B)
      /\ Cardinality(B) = settlementTotals(job[g])[c]
  BY NewEntries, FS_Subset DEF Regular
<1>2. A \cap B = {}
  BY NewEntries DEF Regular, Known, BrokerTyped
<1>3. {e \in ledger' : e.result \in Counts[c]} = A \cup B
  OBVIOUS
<1>4. Recorded(c) = Cardinality(A) /\ Recorded(c)' = Cardinality(A \cup B)
  BY <1>3 DEF Recorded
<1> HIDE DEF A, B
<1>5. Cardinality(A) \in Nat /\ Cardinality(B) \in Nat /\ Cardinality(A \cap B) = 0
  BY <1>1, <1>2, FS_CardinalityType, FS_EmptySet
<1>6. Cardinality(A \cup B) = Cardinality(A) + Cardinality(B) - Cardinality(A \cap B)
  BY <1>1, FS_Union
<1> QED BY <1>1, <1>4, <1>5, <1>6

LEMMA PendingNumber ==
  ASSUME BrokerTyped, NEW g \in Grader, NEW c \in Counter
  PROVE  /\ Pending(g, c) \in Nat /\ settlementTotals(job[g])[c] \in Nat
         /\ InFlight(c) = Pending("feed_ft", c) + Pending("stale_sweep", c)
         /\ InFlight(c)' = Pending("feed_ft", c)' + Pending("stale_sweep", c)'
BY BatchTotals DEF Pending, Totals, InFlight

(* The totals of a job depend on its batch and on how it is graded.        *)
LEMMA SameTotals ==
  ASSUME NEW g \in Grader, job'[g].batch = job[g].batch, job'[g].score = job[g].score,
         job'[g].verified = job[g].verified
  PROVE  settlementTotals(job[g])' = settlementTotals(job[g])
BY DEF settlementTotals, ResultOf

(* As long as the process runs and Redis obeys, the graders keep hash and  *)
(* ledger in step.                                                         *)
LEMMA CountKept ==
  ASSUME BrokerTyped, Regular(ledger, nextXid), Steps, HashAgrees,
         crashes' = crashes, faults' = faults
  PROVE  HashAgrees'
<1>1. /\ \A g \in Grader, c \in Counter : /\ Pending(g, c) \in Nat
                                          /\ settlementTotals(job[g])[c] \in Nat
      /\ \A c \in Counter :
           /\ InFlight(c) = Pending("feed_ft", c) + Pending("stale_sweep", c)
           /\ InFlight(c)' = Pending("feed_ft", c)' + Pending("stale_sweep", c)'
           /\ Recorded(c) \in Nat /\ pnl.totals[c] \in Nat
  <2>1. \A c \in Counter : Recorded(c) \in Nat /\ pnl.totals[c] \in Nat
    BY RecordedNumber DEF Regular, BrokerTyped, Totals
  <2> QED BY <2>1, PendingNumber DEF Grader
<1>2. ~Crash
  BY DEF Crash, BrokerTyped
<1>3. CASE QuietStep
  <2>1. \A c \in Counter : Recorded(c)' = Recorded(c) /\ pnl'.totals[c] = pnl.totals[c]
    BY <1>3 DEF QuietStep, Recorded
  <2>2. ASSUME NEW g \in Grader, NEW c \in Counter PROVE Pending(g, c)' = Pending(g, c)
    <3>1. CASE job'[g] = job[g]
      BY <3>1, SameTotals DEF Pending
    <3>2. CASE job[g].step # "record" /\ job'[g].step # "record"
      BY <3>2 DEF Pending
    <3> QED BY <1>3, <3>1, <3>2 DEF QuietStep
  <2> QED BY <1>1, <2>1, <2>2 DEF HashAgrees, Grader
<1>4. ASSUME NEW g \in Grader, NEW from, NEW to, Advance(g, from, to)
      PROVE  /\ job[g].step = from /\ job'[g].step = to
             /\ settlementTotals(job[g])' = settlementTotals(job[g])
             /\ \A h \in Grader, c \in Counter : h # g => Pending(h, c)' = Pending(h, c)
  <2>1. /\ \A h \in Grader : h # g => job'[h] = job[h]
        /\ job[g].step = from
        /\ job'[g] = [step |-> to, match |-> job[g].match, score |-> job[g].score,
                      verified |-> job[g].verified, batch |-> job[g].batch,
                      cycle |-> job[g].cycle]
    BY <1>4, JobAdvanced
  <2>2. /\ job'[g].step = to /\ job'[g].batch = job[g].batch
        /\ job'[g].score = job[g].score /\ job'[g].verified = job[g].verified
    BY <2>1
  <2>3. ASSUME NEW h \in Grader, NEW c \in Counter, h # g PROVE Pending(h, c)' = Pending(h, c)
    BY <2>1, <2>3, SameTotals DEF Pending
  <2> QED BY <2>1, <2>2, <2>3, SameTotals
<1>5. ASSUME NEW g \in Grader, NEW ok \in BOOLEAN, PersistSession(g, ok) PROVE HashAgrees'
  <2>1. ok = TRUE
    BY <1>5, CommandFaults DEF PersistSession, BrokerTyped
  <2>2. ASSUME NEW c \in Counter
        PROVE  /\ pnl'.totals[c] = pnl.totals[c] + settlementTotals(job[g])[c]
               /\ Recorded(c)' = Recorded(c)
               /\ Pending(g, c) = 0 /\ Pending(g, c)' = settlementTotals(job[g])[c]
               /\ \A h \in Grader : h # g => Pending(h, c)' = Pending(h, c)
    <3>1. ledger' = ledger /\ pnl'.totals = Plus(pnl.totals, settlementTotals(job[g]))
      BY <1>5, <2>1 DEF PersistSession
    <3>2. Recorded(c)' = Recorded(c)
      BY <3>1 DEF Recorded
    <3>3. pnl'.totals[c] = pnl.totals[c] + settlementTotals(job[g])[c]
      BY <3>1 DEF Plus
    <3>4. /\ job[g].step = "persist" /\ job'[g].step = "record"
          /\ settlementTotals(job[g])' = settlementTotals(job[g])
          /\ \A h \in Grader : h # g => Pending(h, c)' = Pending(h, c)
      BY <1>4, <1>5 DEF PersistSession
    <3> QED BY <3>2, <3>3, <3>4 DEF Pending
  <2> QED BY <1>1, <2>2 DEF HashAgrees, Grader
<1>6. ASSUME NEW g \in Grader, NEW ok \in BOOLEAN, RecordSettlements(g, ok) PROVE HashAgrees'
  <2>1. ok = TRUE
    BY <1>6, CommandFaults DEF RecordSettlements, BrokerTyped
  <2>2. ASSUME NEW c \in Counter
        PROVE  /\ pnl'.totals[c] = pnl.totals[c]
               /\ Recorded(c)' = Recorded(c) + settlementTotals(job[g])[c]
               /\ Pending(g, c) = settlementTotals(job[g])[c] /\ Pending(g, c)' = 0
               /\ \A h \in Grader : h # g => Pending(h, c)' = Pending(h, c)
    <3>1. ledger' = ledger \cup Entries(g) /\ pnl' = pnl
      BY <1>6, <2>1 DEF RecordSettlements
    <3>2. Recorded(c)' = Recorded(c) + settlementTotals(job[g])[c]
      BY <3>1, RecordedSum
    <3>3. /\ job[g].step = "record" /\ job'[g].step = "publish"
          /\ \A h \in Grader : h # g => Pending(h, c)' = Pending(h, c)
      BY <1>4, <1>6 DEF RecordSettlements
    <3> QED BY <3>1, <3>2, <3>3 DEF Pending
  <2> QED BY <1>1, <2>2 DEF HashAgrees, Grader
<1> QED BY <1>2, <1>3, <1>5, <1>6 DEF Steps

(* A recount of the ledger while no grader is at work.                     *)
LEMMA RecountAgrees ==
  ASSUME NEW n, Regular(ledger, n), \A g \in Grader : Idle(g), NEW c \in Counter
  PROVE  Recompute(ledger)[c] = Recorded(c) + InFlight(c)
<1>1. InFlight(c) = 0
  BY DEF InFlight, Idle, Grader
<1>2. {e \in ledger : e.result \notin {"won", "lost"}}
        = {e \in ledger : e.result \in Counts["voids"]}
  BY DEF Regular, Known, Result, Counts
<1>3. /\ {e \in ledger : e.result = "won"} = {e \in ledger : e.result \in Counts["won"]}
      /\ {e \in ledger : e.result = "lost"} = {e \in ledger : e.result \in Counts["lost"]}
  BY DEF Counts
<1>4. Recompute(ledger)[c] = Recorded(c)
  <2>1. Recompute(ledger)["won"] = Recorded("won")
    BY <1>3 DEF Recompute, Recorded
  <2>2. Recompute(ledger)["lost"] = Recorded("lost")
    BY <1>3 DEF Recompute, Recorded
  <2>3. Recompute(ledger)["voids"] = Recorded("voids")
    BY <1>2 DEF Recompute, Recorded
  <2> QED BY <2>1, <2>2, <2>3 DEF Counter
<1>5. Recorded(c) \in Nat
  BY RecordedNumber DEF Regular
<1> QED BY <1>1, <1>4, <1>5

(* What was neither written nor moved counts the same.                     *)
LEMMA CountUnmoved ==
  ASSUME UNCHANGED <<job, ledger>>, NEW c
  PROVE  Recorded(c)' = Recorded(c) /\ InFlight(c)' = InFlight(c)
BY DEF Recorded, InFlight, settlementTotals, ResultOf

LEMMA RecountType ==
  ASSUME NEW E, IsFiniteSet(E)
  PROVE  Recompute(E) \in Totals
<1>1. \A S \in SUBSET E : Cardinality(S) \in Nat
  BY FS_Subset, FS_CardinalityType
<1> QED BY <1>1 DEF Recompute, Totals, Counter

-----------------------------------------------------------------------------
(* What the broker does to ledger and hash.                                *)
LEMMA BrokerLedger ==
  ASSUME Typed, [Next]_vars
  PROVE  /\ nextXid' \in Nat /\ nextXid' >= nextXid /\ Regular(ledger, nextXid)'
         /\ \E W : ledger' = ledger \cup W /\ \A e \in W : e.fill \in Fill
         /\ (\A g \in Grader : Idle(g)) => UNCHANGED <<ledger, pnl>>
<1>1. Steps /\ nextXid \in Nat /\ Regular(ledger, nextXid)
  BY BrokerTypes DEF Typed, BrokerTyped, AdminTyped
<1>2. CASE UNCHANGED <<ledger, nextXid>> /\ (pnl' = pnl \/ \E g \in Grader : ~Idle(g))
  <2>1. \E W : ledger' = ledger \cup W /\ \A e \in W : e.fill \in Fill
    <3>1. PICK W : W = {}
      OBVIOUS
    <3>2. ledger' = ledger \cup W /\ \A e \in W : e.fill \in Fill
      BY <1>2, <3>1
    <3> QED BY <3>2
  <2>2. Regular(ledger, nextXid)' /\ nextXid' \in Nat /\ nextXid' >= nextXid
    BY <1>1, <1>2 DEF Regular, Known
  <2>3. (\A g \in Grader : Idle(g)) => UNCHANGED <<ledger, pnl>>
    BY <1>2
  <2> QED BY <2>1, <2>2, <2>3
<1>3. CASE QuietStep \/ Crash
  BY <1>2, <1>3 DEF QuietStep, Crash, storeVars
<1>4. ASSUME NEW g \in Grader, NEW ok \in BOOLEAN, PersistSession(g, ok)
      PROVE  UNCHANGED <<ledger, nextXid>> /\ ~Idle(g)
  BY <1>4 DEF PersistSession, Advance, Idle
<1>5. ASSUME NEW g \in Grader, NEW ok \in BOOLEAN, RecordSettlements(g, ok)
      PROVE  /\ nextXid' \in Nat /\ nextXid' >= nextXid /\ Regular(ledger, nextXid)'
             /\ \E W : ledger' = ledger \cup W /\ \A e \in W : e.fill \in Fill
             /\ ~Idle(g)
  <2>1. PICK W \in SUBSET Entries(g) : ledger' = ledger \cup W
    BY <1>5 DEF RecordSettlements
  <2>2. nextXid' = nextXid + 1 /\ ~Idle(g)
    BY <1>5 DEF RecordSettlements, Advance, Idle
  <2>3. /\ Regular(Entries(g), nextXid + 1) /\ \A e \in Entries(g) : e.fill \in Fill
    BY NewEntries DEF Typed
  <2>4. Regular(ledger \cup W, nextXid + 1)
    <3>1. Regular(W, nextXid + 1)
      BY <2>3, RegularPart
    <3>2. Regular(ledger, nextXid + 1)
      BY <1>1, RegularLater
    <3> QED BY <3>1, <3>2, RegularBoth
  <2> QED BY <1>1, <2>1, <2>2, <2>3, <2>4
<1> QED BY <1>1, <1>2, <1>3, <1>4, <1>5 DEF Steps

(* Only a crash stops the process.                                         *)
LEMMA StaysUp ==
  ASSUME crashes \in Nat, [Next]_vars, crashes' = crashes
  PROVE  up' = up \/ up'
<1>1. ~Crash
  BY DEF Crash
<1>2. CASE UNCHANGED vars \/ Ingestor \/ Restart
  BY <1>2 DEF vars, processVars, Ingestor, PublishMatch, KickoffAges, FrameAges, HashTtl, Restart
<1>3. ASSUME NEW ok \in BOOLEAN, NEW f \in Fill, ExecuteEnvelope(f, ok) PROVE up' = up
  BY <1>3 DEF ExecuteEnvelope, processVars
<1>4. ASSUME NEW ok \in BOOLEAN, NEW g, Settle(g, ok) PROVE up' = up
  BY <1>4 DEF Settle, PersistSession, RecordSettlements, PublishSnapshot, ClearOrders
<1>5. ASSUME NEW ok \in BOOLEAN,
             \/ FeedReceive(ok)
             \/ SweepBegin
             \/ \E f \in sweep.unchecked : SweepCheck(f, ok)
             \/ \E f \in sweep.stale : SweepGrade(f, ok)
      PROVE  up' = up
  BY <1>5 DEF FeedReceive, SweepBegin, SweepCheck, SweepGrade
<1> QED BY <1>1, <1>2, <1>3, <1>4, <1>5 DEF Next, PaperRunLoop, StaleSweep

-----------------------------------------------------------------------------
(* The steps of a request.                                                 *)
RequestAct(r) ==
  \/ \E h \in Handlers : AdminRead(r, h)
  \/ \E ok \in BOOLEAN :
       \/ AdminDelete(r, ok) \/ AdminReadd(r, ok) \/ AdminReread(r, ok)
       \/ AdminWrite(r, ok) \/ ResetLedger(r, ok)
       \/ \E keep \in KeepLedger : ResetHash(r, keep, ok)

LEMMA RequestReplaced ==
  ASSUME AdminTyped, NEW r \in Request, NEW a, admin' = [admin EXCEPT ![r] = a]
  PROVE  /\ admin' = [q \in Request |-> admin'[q]]
         /\ admin'[r] = a /\ \A q \in Request : q # r => admin'[q] = admin[q]
<1>1. admin = [q \in Request |-> admin[q]]
  BY DEF AdminTyped
<1>2. admin' = [q \in Request |-> IF q = r THEN a ELSE admin[q]]
  BY <1>1
<1> QED BY <1>2

(* a is request x at another step.                                         *)
At(x, step) == [handler |-> x.handler, step |-> step, toDelete |-> x.toDelete,
                regraded |-> x.regraded, remaining |-> x.remaining]

LEMMA RequestGoes ==
  ASSUME AdminTyped, NEW r \in Request, NEW step, Goto(r, step)
  PROVE  admin' = [admin EXCEPT ![r] = At(admin[r], step)]
<1>1. [admin[r] EXCEPT !.step = step] = At(admin[r], step)
  BY DEF AdminTyped, RequestTyped, At
<1>2. admin' = [admin EXCEPT ![r] = [admin[r] EXCEPT !.step = step]]
  BY DEF Goto
<1> QED BY <1>1, <1>2

LossOf(e) == [xid |-> nextXid, fill |-> e.fill, match |-> e.match, score |-> e.score,
              result |-> "lost", source |-> "regrade-draws"]

(* One field of an entry is replaced.                                      *)
LEMMA FieldReplaced ==
  ASSUME NEW a, NEW f, NEW m, NEW s, NEW v, NEW c, NEW n, NEW x,
         x = [xid |-> a, fill |-> f, match |-> m, score |-> s, result |-> v, source |-> c]
  PROVE  /\ [x EXCEPT !.xid = n]
              = [xid |-> n, fill |-> f, match |-> m, score |-> s, result |-> v, source |-> c]
         /\ [x EXCEPT !.result = n]
              = [xid |-> a, fill |-> f, match |-> m, score |-> s, result |-> n, source |-> c]
         /\ [x EXCEPT !.source = n]
              = [xid |-> a, fill |-> f, match |-> m, score |-> s, result |-> v, source |-> n]
<1>1. [x EXCEPT !.xid = n]
        = [xid |-> n, fill |-> f, match |-> m, score |-> s, result |-> v, source |-> c]
  OBVIOUS
<1>2. [x EXCEPT !.result = n]
        = [xid |-> a, fill |-> f, match |-> m, score |-> s, result |-> n, source |-> c]
  OBVIOUS
<1>3. [x EXCEPT !.source = n]
        = [xid |-> a, fill |-> f, match |-> m, score |-> s, result |-> v, source |-> n]
  OBVIOUS
<1> QED BY <1>1, <1>2, <1>3

LEMMA Lost ==
  ASSUME NEW e, e = [xid |-> e.xid, fill |-> e.fill, match |-> e.match, score |-> e.score,
                     result |-> e.result, source |-> e.source]
  PROVE  [e EXCEPT !.xid = nextXid, !.result = "lost", !.source = "regrade-draws"] = LossOf(e)
<1> DEFINE d == [e EXCEPT !.xid = nextXid]
           l == [d EXCEPT !.result = "lost"]
<1>1. d = [xid |-> nextXid, fill |-> e.fill, match |-> e.match, score |-> e.score,
           result |-> e.result, source |-> e.source]
  BY FieldReplaced
<1> HIDE DEF d
<1>2. l = [xid |-> nextXid, fill |-> e.fill, match |-> e.match, score |-> e.score,
           result |-> "lost", source |-> e.source]
  BY <1>1, FieldReplaced
<1> HIDE DEF l
<1>3. [l EXCEPT !.source = "regrade-draws"] = LossOf(e)
  BY <1>2, FieldReplaced DEF LossOf
<1> QED BY <1>3 DEF l, d

LEMMA RegradedLosses ==
  ASSUME Typed, NEW r \in Request
  PROVE  /\ Losses(r) = {LossOf(e) : e \in admin[r].regraded}
         /\ Regular(Losses(r), nextXid + 1)
<1> DEFINE R == admin[r].regraded
<1>1. Regular(R, nextXid) /\ nextXid \in Nat
  BY DEF Typed, AdminTyped, RequestTyped, BrokerTyped
<1>2. ASSUME NEW e \in R
      PROVE  [e EXCEPT !.xid = nextXid, !.result = "lost", !.source = "regrade-draws"] = LossOf(e)
  <2>1. e = [xid |-> e.xid, fill |-> e.fill, match |-> e.match, score |-> e.score,
             result |-> e.result, source |-> e.source]
    BY <1>1 DEF Regular, Known
  <2> QED BY <2>1, Lost
<1>3. Losses(r) = {LossOf(e) : e \in R}
  BY <1>2 DEF Losses
<1>4. IsFiniteSet({LossOf(e) : e \in R})
  <2> DEFINE B == {LossOf(e) : e \in R}
             f == [e \in R |-> LossOf(e)]
  <2>1. f \in Surjection(R, B)
    BY DEF Surjection
  <2>2. IsFiniteSet(R)
    BY <1>1 DEF Regular
  <2> HIDE DEF f, B, R
  <2>3. IsFiniteSet(B)
    BY <2>1, <2>2, FS_Surjection DEF ExistsSurjection
  <2> QED BY <2>3 DEF B, R
<1>5. ASSUME NEW x \in {LossOf(e) : e \in R} PROVE Known(x, nextXid + 1)
  <2>1. PICK e \in R : x = LossOf(e)
    BY <1>5
  <2>2. /\ x.xid = nextXid /\ x.fill = e.fill /\ x.match = e.match /\ x.score = e.score
        /\ x.result = "lost" /\ x.source = "regrade-draws"
    BY <2>1 DEF LossOf
  <2>3. x = [xid |-> x.xid, fill |-> x.fill, match |-> x.match, score |-> x.score,
             result |-> x.result, source |-> x.source]
    BY <2>1, <2>2 DEF LossOf
  <2> QED BY <1>1, <2>2, <2>3 DEF Known, Result
<1> QED BY <1>3, <1>4, <1>5 DEF Regular

(* What a step of request r may do to the rest.                            *)
LEMMA RequestFrame ==
  ASSUME Typed, NEW r \in Request, RequestAct(r)
  PROVE  /\ UNCHANGED <<job, sweep, placed, paperOrders, crashes, up>> /\ up
         /\ faults' \in Nat /\ requests' \in Nat
<1>1. AdminFrame(r)
  BY DEF RequestAct, AdminRead, AdminDelete, AdminReadd, AdminReread, AdminWrite, ResetHash,
         ResetLedger
<1>2. faults \in Nat /\ requests \in Nat
  BY DEF Typed, BrokerTyped, AdminTyped
<1>3. faults' = faults \/ \E ok \in BOOLEAN : Command(ok)
  BY DEF RequestAct, AdminRead, AdminDelete, AdminReadd, AdminReread, AdminWrite, ResetHash,
         ResetLedger
<1>4. requests' = requests \/ requests' = requests + 1
  BY DEF RequestAct, AdminRead, AdminDelete, AdminReadd, AdminReread, AdminWrite, ResetHash,
         ResetLedger
<1>5. faults' \in Nat
  BY <1>2, <1>3, CommandFaults
<1>6. requests' \in Nat
  BY <1>2, <1>4
<1> QED BY <1>1, <1>5, <1>6 DEF AdminFrame, processVars

LEMMA RequestFaults ==
  ASSUME Typed, NEW r \in Request, RequestAct(r)
  PROVE  faults' >= faults /\ crashes' >= crashes
<1>1. faults \in Nat /\ crashes \in Nat /\ crashes' = crashes
  BY RequestFrame DEF Typed, BrokerTyped
<1>2. faults' = faults \/ \E ok \in BOOLEAN : Command(ok)
  BY DEF RequestAct, AdminRead, AdminDelete, AdminReadd, AdminReread, AdminWrite, ResetHash,
         ResetLedger
<1>3. crashes' >= crashes /\ faults >= faults
  BY <1>1
<1>4. (\E ok \in BOOLEAN : Command(ok)) => faults' >= faults
  BY <1>1, CommandFaults
<1> QED BY <1>2, <1>3, <1>4

Ends(r) == admin' = [admin EXCEPT ![r] = NoRequest]

Goes(r, step) == admin' = [admin EXCEPT ![r] = At(admin[r], step)]

(* The request chooses entries of the ledger.                              *)
Reads(r) ==
  \E h \in {"prune", "regrade"}, chosen \in SUBSET ledger, step \in {"reread", "delete"} :
    /\ ~Active(r) /\ UNCHANGED <<ledger, pnl, nextXid, faults>> /\ requests' = requests + 1
    /\ admin' = [admin EXCEPT ![r] =
         [handler |-> h, step |-> step, toDelete |-> chosen,
          regraded |-> IF h = "prune" THEN {} ELSE chosen, remaining |-> {}]]
    /\ h = "prune" => \A e \in chosen : e.result = "unresolved"

Fails(r) ==
  /\ Active(r) /\ faults' # faults /\ Ends(r) /\ UNCHANGED pnl
  /\ \/ nextXid' = nextXid /\ ledger' = ledger
     \/ nextXid' = nextXid + 1 /\ \E W \in SUBSET Losses(r) : ledger' = ledger \cup W

Deletes(r) ==
  /\ admin[r].step = "delete" /\ UNCHANGED <<pnl, nextXid>>
  /\ ledger' = ledger \ admin[r].toDelete
  /\ Goes(r, IF admin[r].handler = "regrade" THEN "readd" ELSE "reread")

Readds(r) ==
  /\ admin[r].step = "readd" /\ UNCHANGED pnl /\ nextXid' = nextXid + 1
  /\ ledger' = ledger \cup Losses(r) /\ Goes(r, "reread")

Rereads(r) ==
  /\ admin[r].step = "reread" /\ UNCHANGED <<ledger, pnl, nextXid>>
  /\ admin' = [admin EXCEPT ![r] =
       [handler |-> admin[r].handler, step |-> "write", toDelete |-> admin[r].toDelete,
        regraded |-> admin[r].regraded, remaining |-> ledger]]

Writes(r) ==
  /\ admin[r].step = "write" /\ UNCHANGED <<ledger, nextXid>> /\ Ends(r)
  /\ pnl' = [totals |-> Recompute(admin[r].remaining), cycle |-> 0]

ResetsHash(r) ==
  /\ ~Active(r) /\ requests' = requests + 1 /\ UNCHANGED <<ledger, nextXid>>
  /\ \/ UNCHANGED admin /\ (pnl' = pnl \/ pnl'.totals = NoTotals)
     \/ /\ pnl'.totals = NoTotals
        /\ admin' = [admin EXCEPT ![r] =
             [handler |-> "reset", step |-> "ledger", toDelete |-> admin[r].toDelete,
              regraded |-> admin[r].regraded, remaining |-> admin[r].remaining]]

ResetsLedger(r) ==
  admin[r].step = "ledger" /\ ledger' = {} /\ UNCHANGED <<pnl, nextXid>> /\ Ends(r)

LEMMA HandlerReplaced ==
  ASSUME NEW x, NEW h, NEW s, NEW d, NEW g, NEW k, NEW n,
         x = [handler |-> h, step |-> s, toDelete |-> d, regraded |-> g, remaining |-> k]
  PROVE  /\ [x EXCEPT !.handler = n]
              = [handler |-> n, step |-> s, toDelete |-> d, regraded |-> g, remaining |-> k]
         /\ [x EXCEPT !.step = n]
              = [handler |-> h, step |-> n, toDelete |-> d, regraded |-> g, remaining |-> k]
<1>1. [x EXCEPT !.handler = n]
        = [handler |-> n, step |-> s, toDelete |-> d, regraded |-> g, remaining |-> k]
  OBVIOUS
<1>2. [x EXCEPT !.step = n]
        = [handler |-> h, step |-> n, toDelete |-> d, regraded |-> g, remaining |-> k]
  OBVIOUS
<1> QED BY <1>1, <1>2

LEMMA RequestKinds ==
  ASSUME Typed, NEW r \in Request, RequestAct(r)
  PROVE  \/ Reads(r) \/ Fails(r) \/ Deletes(r) \/ Readds(r) \/ Rereads(r)
         \/ Writes(r) \/ ResetsHash(r) \/ ResetsLedger(r)
<1>1. AdminTyped /\ faults \in Nat
  BY DEF Typed, BrokerTyped
<1>2. ASSUME NEW h \in Handlers, AdminRead(r, h) PROVE Reads(r)
  <2>1. PICK chosen : chosen = IF h = "prune" THEN Unresolved ELSE DrawVoids
    OBVIOUS
  <2>2. PICK step : step = IF chosen = {} THEN "reread" ELSE "delete"
    OBVIOUS
  <2>3. /\ h \in {"prune", "regrade"} /\ chosen \subseteq ledger /\ step \in {"reread", "delete"}
        /\ h = "prune" => \A e \in chosen : e.result = "unresolved"
    BY <1>2, <2>1, <2>2 DEF AdminRead, Unresolved, DrawVoids
  <2>4. /\ ~Active(r) /\ UNCHANGED <<ledger, pnl, nextXid, faults>> /\ requests' = requests + 1
        /\ admin' = [admin EXCEPT ![r] =
             [handler |-> h, step |-> step, toDelete |-> chosen, remaining |-> {},
              regraded |-> IF h = "prune" THEN {} ELSE chosen]]
    BY <1>2, <2>1, <2>2 DEF AdminRead
  <2>5. [handler |-> h, step |-> step, toDelete |-> chosen, remaining |-> {},
         regraded |-> IF h = "prune" THEN {} ELSE chosen]
          = [handler |-> h, step |-> step, toDelete |-> chosen,
             regraded |-> IF h = "prune" THEN {} ELSE chosen, remaining |-> {}]
    OBVIOUS
  <2> QED BY <2>3, <2>4, <2>5 DEF Reads
<1>3. ASSUME NEW step, Goto(r, step) PROVE Goes(r, step)
  BY <1>1, <1>3, RequestGoes DEF Goes
<1>4. ASSUME NEW ok \in BOOLEAN, Command(ok), ~ok PROVE faults' # faults
  BY <1>1, <1>4 DEF Command
<1>5. ASSUME NEW ok \in BOOLEAN, AdminDelete(r, ok) PROVE Deletes(r) \/ Fails(r)
  <2>1. CASE ok
    BY <1>3, <1>5, <2>1 DEF AdminDelete, Deletes
  <2>2. CASE ~ok
    BY <1>4, <1>5, <2>2 DEF AdminDelete, Fails, Ends, End, Active
  <2> QED BY <2>1, <2>2
<1>6. ASSUME NEW ok \in BOOLEAN, AdminReadd(r, ok) PROVE Readds(r) \/ Fails(r)
  <2>1. CASE ok
    BY <1>3, <1>6, <2>1 DEF AdminReadd, Readds
  <2>2. CASE ~ok
    BY <1>4, <1>6, <2>2 DEF AdminReadd, Fails, Ends, End, Active
  <2> QED BY <2>1, <2>2
<1>7. ASSUME NEW ok \in BOOLEAN, AdminReread(r, ok) PROVE Rereads(r) \/ Fails(r)
  <2>1. CASE ok
    <3>1. /\ admin[r].step = "reread" /\ UNCHANGED <<ledger, pnl, nextXid>>
          /\ admin' = [admin EXCEPT ![r] =
                         [[admin[r] EXCEPT !.step = "write"] EXCEPT !.remaining = ledger]]
      BY <1>1, <1>7, <2>1 DEF AdminReread, AdminTyped
    <3>2. [admin[r] EXCEPT !.step = "write"] = At(admin[r], "write")
      BY <1>1 DEF AdminTyped, RequestTyped, At
    <3>3. [At(admin[r], "write") EXCEPT !.remaining = ledger]
            = [handler |-> admin[r].handler, step |-> "write", toDelete |-> admin[r].toDelete,
               regraded |-> admin[r].regraded, remaining |-> ledger]
      BY DEF At
    <3> QED BY <3>1, <3>2, <3>3 DEF Rereads
  <2>2. CASE ~ok
    BY <1>4, <1>7, <2>2 DEF AdminReread, Fails, Ends, End, Active
  <2> QED BY <2>1, <2>2
<1>8. ASSUME NEW ok \in BOOLEAN, AdminWrite(r, ok) PROVE Writes(r) \/ Fails(r)
  <2>1. CASE ok
    BY <1>8, <2>1 DEF AdminWrite, Writes, Ends, End
  <2>2. CASE ~ok
    BY <1>4, <1>8, <2>2 DEF AdminWrite, Fails, Ends, End, Active
  <2> QED BY <2>1, <2>2
<1>9. ASSUME NEW ok \in BOOLEAN, ResetLedger(r, ok) PROVE ResetsLedger(r) \/ Fails(r)
  <2>1. CASE ok
    BY <1>9, <2>1 DEF ResetLedger, ResetsLedger, Ends, End
  <2>2. CASE ~ok
    BY <1>4, <1>9, <2>2 DEF ResetLedger, Fails, Ends, End, Active
  <2> QED BY <2>1, <2>2
<1>10. ASSUME NEW ok \in BOOLEAN, NEW keep \in KeepLedger, ResetHash(r, keep, ok)
       PROVE  ResetsHash(r)
  <2>1. CASE ok /\ ~keep
    <3>1. /\ ~Active(r) /\ requests' = requests + 1 /\ UNCHANGED <<ledger, nextXid>>
          /\ pnl' = [totals |-> NoTotals, cycle |-> 0]
          /\ admin' = [admin EXCEPT ![r] =
                         [[admin[r] EXCEPT !.handler = "reset"] EXCEPT !.step = "ledger"]]
      BY <1>1, <1>10, <2>1 DEF ResetHash, AdminTyped
    <3> DEFINE x == [admin[r] EXCEPT !.handler = "reset"]
    <3>2. x = [handler |-> "reset", step |-> admin[r].step, toDelete |-> admin[r].toDelete,
               regraded |-> admin[r].regraded, remaining |-> admin[r].remaining]
      <4>1. admin[r] = [handler |-> admin[r].handler, step |-> admin[r].step,
                        toDelete |-> admin[r].toDelete, regraded |-> admin[r].regraded,
                        remaining |-> admin[r].remaining]
        BY <1>1 DEF AdminTyped, RequestTyped
      <4> QED BY <4>1, HandlerReplaced
    <3> HIDE DEF x
    <3>3. [x EXCEPT !.step = "ledger"]
            = [handler |-> "reset", step |-> "ledger", toDelete |-> admin[r].toDelete,
               regraded |-> admin[r].regraded, remaining |-> admin[r].remaining]
      BY <3>2, HandlerReplaced
    <3> QED BY <3>1, <3>3 DEF ResetsHash, x
  <2>2. CASE ~(ok /\ ~keep)
    BY <1>10, <2>2 DEF ResetHash, ResetsHash
  <2> QED BY <2>1, <2>2
<1> QED BY <1>2, <1>5, <1>6, <1>7, <1>8, <1>9, <1>10 DEF RequestAct

-----------------------------------------------------------------------------
(* Types are kept.                                                         *)
LEMMA RequestLater ==
  ASSUME NEW a, NEW n \in Nat, NEW k \in Nat, n <= k, RequestTyped(a, n)
  PROVE  RequestTyped(a, k)
BY RegularLater DEF RequestTyped

LEMMA NothingRegular ==
  ASSUME NEW n
  PROVE  Regular({}, n) /\ RequestTyped(NoRequest, n)
BY FS_EmptySet DEF Regular, RequestTyped, NoRequest

LEMMA OneRequestTyped ==
  ASSUME AdminTyped, nextXid \in Nat, nextXid' \in Nat, nextXid <= nextXid',
         NEW r \in Request, NEW a, RequestTyped(a, nextXid'), admin' = [admin EXCEPT ![r] = a],
         Regular(ledger', nextXid'), requests' \in Nat
  PROVE  AdminTyped'
<1>1. /\ admin' = [q \in Request |-> admin'[q]]
      /\ admin'[r] = a /\ \A q \in Request : q # r => admin'[q] = admin[q]
  BY RequestReplaced
<1>2. ASSUME NEW q \in Request PROVE RequestTyped(admin[q], nextXid')
  BY <1>2, RequestLater DEF AdminTyped
<1>3. ASSUME NEW q \in Request PROVE RequestTyped(admin'[q], nextXid')
  BY <1>1, <1>2
<1> QED BY <1>1, <1>3 DEF AdminTyped

LEMMA NumberSame ==
  ASSUME AdminTyped, nextXid \in Nat, nextXid' = nextXid,
         NEW r \in Request, NEW a, RequestTyped(a, nextXid), admin' = [admin EXCEPT ![r] = a],
         Regular(ledger', nextXid), requests' \in Nat
  PROVE  AdminTyped'
<1>1. nextXid <= nextXid
  OBVIOUS
<1>2. /\ RequestTyped(a, nextXid') /\ Regular(ledger', nextXid')
      /\ nextXid' \in Nat /\ nextXid <= nextXid'
  BY <1>1
<1> QED BY <1>2, OneRequestTyped

LEMMA RequestTypes ==
  ASSUME Typed, NEW r \in Request, RequestAct(r)
  PROVE  Typed'
<1>1. /\ AdminTyped /\ nextXid \in Nat /\ pnl.totals \in Totals
      /\ Regular(ledger, nextXid) /\ IsFiniteSet(ledger)
      /\ RequestTyped(admin[r], nextXid)
  BY DEF Typed, AdminTyped, BrokerTyped, Regular
<1>2. /\ UNCHANGED <<job, sweep, placed, paperOrders, crashes>>
      /\ faults' \in Nat /\ requests' \in Nat
  BY RequestFrame
<1>3. ASSUME pnl'.totals \in Totals, nextXid' \in Nat PROVE BrokerTyped'
  BY <1>2, <1>3 DEF Typed, BrokerTyped, JobTyped
<1>4. Regular(ledger, nextXid + 1) /\ nextXid + 1 \in Nat /\ nextXid <= nextXid + 1
  BY <1>1, RegularLater
<1>5. \A W \in SUBSET Losses(r) : Regular(ledger \cup W, nextXid + 1)
  <2>1. \A W \in SUBSET Losses(r) : Regular(W, nextXid + 1)
    BY RegradedLosses, RegularPart
  <2> QED BY <1>4, <2>1, RegularBoth
<1>6. NoTotals \in Totals
  BY DEF NoTotals, Totals
<1>7. CASE Reads(r)
  <2>1. PICK h, chosen, step :
          /\ chosen \subseteq ledger /\ UNCHANGED <<ledger, pnl, nextXid>>
          /\ admin' = [admin EXCEPT ![r] =
               [handler |-> h, step |-> step, toDelete |-> chosen,
                regraded |-> IF h = "prune" THEN {} ELSE chosen, remaining |-> {}]]
    BY <1>7 DEF Reads
  <2>2. PICK R : R = IF h = "prune" THEN {} ELSE chosen
    OBVIOUS
  <2>3. Regular(R, nextXid) /\ Regular({}, nextXid)
    BY <1>1, <2>1, <2>2, RegularPart, NothingRegular
  <2>4. RequestTyped([handler |-> h, step |-> step, toDelete |-> chosen,
                      regraded |-> R, remaining |-> {}], nextXid)
    BY <2>3 DEF RequestTyped
  <2>5. AdminTyped'
    BY <1>1, <1>2, <2>1, <2>2, <2>4, NumberSame
  <2> QED BY <1>1, <1>3, <2>1, <2>5 DEF Typed
<1>8. CASE Fails(r)
  <2>1. nextXid' \in Nat /\ nextXid <= nextXid' /\ Regular(ledger', nextXid') /\ pnl' = pnl
    BY <1>1, <1>4, <1>5, <1>8 DEF Fails
  <2>2. AdminTyped'
    BY <1>1, <1>2, <1>8, <2>1, NothingRegular, OneRequestTyped DEF Fails, Ends
  <2> QED BY <1>1, <1>3, <2>1, <2>2 DEF Typed
<1>9. ASSUME NEW step PROVE RequestTyped(At(admin[r], step), nextXid)
  BY <1>1 DEF RequestTyped, At
<1>10. CASE Deletes(r)
  <2>1. UNCHANGED <<pnl, nextXid>> /\ Regular(ledger', nextXid)
    BY <1>1, <1>10, RegularPart DEF Deletes
  <2>2. AdminTyped'
    BY <1>1, <1>2, <1>9, <1>10, <2>1, NumberSame DEF Deletes, Goes
  <2> QED BY <1>1, <1>3, <2>1, <2>2 DEF Typed
<1>11. CASE Readds(r)
  <2>1. nextXid' = nextXid + 1 /\ pnl' = pnl /\ Regular(ledger', nextXid')
    BY <1>5, <1>11 DEF Readds
  <2>2. RequestTyped(At(admin[r], "reread"), nextXid')
    BY <1>1, <1>4, <1>9, <2>1, RequestLater
  <2>3. AdminTyped'
    BY <1>1, <1>2, <1>4, <1>11, <2>1, <2>2, OneRequestTyped DEF Readds, Goes
  <2> QED BY <1>1, <1>3, <1>4, <2>1, <2>3 DEF Typed
<1>12. CASE Rereads(r)
  <2>1. RequestTyped([handler |-> admin[r].handler, step |-> "write",
                      toDelete |-> admin[r].toDelete, regraded |-> admin[r].regraded,
                      remaining |-> ledger], nextXid)
    BY <1>1 DEF RequestTyped
  <2>2. AdminTyped'
    BY <1>1, <1>2, <1>12, <2>1, NumberSame DEF Rereads
  <2> QED BY <1>1, <1>3, <1>12, <2>2 DEF Typed, Rereads
<1>13. CASE Writes(r)
  <2>1. pnl'.totals \in Totals
    BY <1>1, <1>13, RecountType DEF Writes, RequestTyped, Regular
  <2>2. AdminTyped'
    BY <1>1, <1>2, <1>13, NothingRegular, NumberSame DEF Writes, Ends
  <2> QED BY <1>1, <1>3, <1>13, <2>1, <2>2 DEF Typed, Writes
<1>14. CASE ResetsHash(r)
  <2>1. UNCHANGED <<ledger, nextXid>> /\ pnl'.totals \in Totals
    BY <1>1, <1>6, <1>14 DEF ResetsHash
  <2>2. CASE UNCHANGED admin
    BY <1>1, <1>2, <1>3, <2>1, <2>2 DEF Typed, AdminTyped
  <2>3. CASE admin' = [admin EXCEPT ![r] =
             [handler |-> "reset", step |-> "ledger", toDelete |-> admin[r].toDelete,
              regraded |-> admin[r].regraded, remaining |-> admin[r].remaining]]
    <3>1. RequestTyped([handler |-> "reset", step |-> "ledger",
                        toDelete |-> admin[r].toDelete, regraded |-> admin[r].regraded,
                        remaining |-> admin[r].remaining], nextXid)
      BY <1>1 DEF RequestTyped
    <3>2. AdminTyped'
      BY <1>1, <1>2, <2>1, <2>3, <3>1, NumberSame
    <3> QED BY <1>1, <1>3, <2>1, <3>2 DEF Typed
  <2> QED BY <1>14, <2>2, <2>3 DEF ResetsHash
<1>15. CASE ResetsLedger(r)
  <2>1. AdminTyped'
    BY <1>1, <1>2, <1>15, NothingRegular, NumberSame DEF ResetsLedger, Ends
  <2> QED BY <1>1, <1>3, <1>15, <2>1 DEF Typed, ResetsLedger
<1> QED BY <1>7, <1>8, <1>10, <1>11, <1>12, <1>13, <1>14, <1>15, RequestKinds

LEMMA BrokerStepTypes ==
  ASSUME Typed, BrokerStep
  PROVE  Typed'
<1>1. BrokerTyped' /\ nextXid \in Nat
  BY BrokerTypes DEF Typed, BrokerTyped, BrokerStep
<1>2. nextXid' \in Nat /\ nextXid' >= nextXid /\ Regular(ledger, nextXid)'
  BY BrokerLedger DEF BrokerStep
<1>3. \A q \in Request : admin'[q] \in {admin[q], NoRequest}
  BY DEF BrokerStep
<1>4. \A q \in Request : RequestTyped(admin[q], nextXid') /\ RequestTyped(NoRequest, nextXid')
  BY <1>1, <1>2, RequestLater, NothingRegular DEF Typed, AdminTyped
<1>5. admin' = [q \in Request |-> admin'[q]] /\ requests' \in Nat
  BY DEF BrokerStep, Typed, AdminTyped
<1>6. AdminTyped'
  BY <1>2, <1>3, <1>4, <1>5 DEF AdminTyped
<1> QED BY <1>1, <1>6 DEF Typed

LEMMA StepKinds ==
  ASSUME AdminNext
  PROVE  BrokerStep \/ \E r \in Request : RequestAct(r)
BY DEF AdminNext, AdminStep, RequestAct

LEMMA TypesStep ==
  ASSUME Typed, [AdminNext]_adminVars
  PROVE  Typed'
<1>1. CASE UNCHANGED adminVars
  BY <1>1 DEF Typed, BrokerTyped, JobTyped, AdminTyped, Regular, RequestTyped, adminVars, vars,
              feedVars, processVars, storeVars
<1>2. CASE AdminNext
  BY <1>2, StepKinds, BrokerStepTypes, RequestTypes
<1> QED BY <1>1, <1>2

LEMMA TypesInit ==
  ASSUME AdminInit
  PROVE  Typed
<1>1. IsFiniteSet(placed) /\ placed = {} /\ paperOrders = {} /\ nextXid = 1
  BY FS_EmptySet DEF AdminInit, ProcessInit
<1>2. /\ job = [g \in Grader |-> job[g]] /\ \A g \in Grader : JobTyped(job[g])
      /\ sweep \in [unchecked : SUBSET placed, stale : SUBSET placed]
  BY DEF AdminInit, ProcessInit, NoJob, JobTyped, NoSweep
<1>3. Regular(ledger, nextXid) /\ IsFiniteSet(ledger)
  <2>1. ledger = Legacy /\ IsFiniteSet(Legacy)
    BY AdminAssumption DEF AdminInit
  <2>2. ASSUME NEW l \in Legacy PROVE Known(l, 1)
    <3>1. l = [xid |-> 0, fill |-> l.fill, match |-> l.match, score |-> l.score,
               result |-> "void", source |-> l.source]
      BY AdminAssumption
    <3>2. l.xid = 0 /\ l.result = "void"
      BY <3>1
    <3>3. l = [xid |-> l.xid, fill |-> l.fill, match |-> l.match, score |-> l.score,
               result |-> l.result, source |-> l.source]
      BY <3>1, <3>2
    <3> QED BY <3>2, <3>3 DEF Known, Result
  <2> QED BY <1>1, <2>1, <2>2 DEF Regular
<1>4. pnl.totals \in Totals
  BY <1>3, RecountType DEF AdminInit
<1>5. AdminTyped
  <2>1. \A q \in Request : admin[q] = NoRequest
    BY DEF AdminInit
  <2>2. admin = [q \in Request |-> admin[q]] /\ requests \in Nat
    BY DEF AdminInit
  <2> QED BY <1>3, <2>1, <2>2, NothingRegular DEF AdminTyped
<1>6. crashes \in Nat /\ faults \in Nat
  BY DEF AdminInit, ProcessInit
<1> QED BY <1>1, <1>2, <1>4, <1>5, <1>6 DEF Typed, BrokerTyped

-----------------------------------------------------------------------------
(* The hash of the dashboard.                                              *)

(* Where a step takes request r.                                           *)
LEMMA RequestMoves ==
  ASSUME Typed, NEW r \in Request, RequestAct(r)
  PROVE  /\ \A q \in Request : q # r => admin'[q] = admin[q]
         /\ Reads(r) => admin'[r].step \in {"reread", "delete"}
         /\ Fails(r) \/ Writes(r) \/ ResetsLedger(r) => admin'[r].step = "idle"
         /\ Deletes(r) => admin'[r].step \in {"readd", "reread"}
         /\ Readds(r) => admin'[r].step = "reread"
         /\ Rereads(r) => admin'[r].step = "write" /\ admin'[r].remaining = ledger
         /\ ResetsHash(r) => \/ admin'[r].step = "idle" /\ admin' = admin
                             \/ admin'[r].step = "ledger" /\ pnl'.totals = NoTotals
<1>1. AdminTyped
  BY DEF Typed
<1>2. ASSUME NEW a, admin' = [admin EXCEPT ![r] = a]
      PROVE  admin'[r] = a /\ \A q \in Request : q # r => admin'[q] = admin[q]
  BY <1>1, <1>2, RequestReplaced
<1>3. Reads(r) => /\ admin'[r].step \in {"reread", "delete"}
                  /\ \A q \in Request : q # r => admin'[q] = admin[q]
  <2>1. SUFFICES ASSUME Reads(r)
                 PROVE  /\ admin'[r].step \in {"reread", "delete"}
                        /\ \A q \in Request : q # r => admin'[q] = admin[q]
    OBVIOUS
  <2>2. PICK h \in {"prune", "regrade"}, chosen \in SUBSET ledger, step \in {"reread", "delete"} :
          admin' = [admin EXCEPT ![r] =
            [handler |-> h, step |-> step, toDelete |-> chosen,
             regraded |-> IF h = "prune" THEN {} ELSE chosen, remaining |-> {}]]
    BY <2>1 DEF Reads
  <2>3. PICK a : a = [handler |-> h, step |-> step, toDelete |-> chosen,
                      regraded |-> IF h = "prune" THEN {} ELSE chosen, remaining |-> {}]
    OBVIOUS
  <2>4. a.step \in {"reread", "delete"}
    BY <2>3
  <2>5. admin' = [admin EXCEPT ![r] = a]
    BY <2>2, <2>3
  <2> QED BY <1>2, <2>4, <2>5
<1>4. Fails(r) \/ Writes(r) \/ ResetsLedger(r)
        => admin'[r].step = "idle" /\ \A q \in Request : q # r => admin'[q] = admin[q]
  <2>1. NoRequest.step = "idle"
    BY DEF NoRequest
  <2> QED BY <1>2, <2>1 DEF Fails, Writes, ResetsLedger, Ends
<1>5. ASSUME NEW step, Goes(r, step)
      PROVE  admin'[r].step = step /\ \A q \in Request : q # r => admin'[q] = admin[q]
  <2>1. At(admin[r], step).step = step
    BY DEF At
  <2> QED BY <1>2, <1>5, <2>1 DEF Goes
<1>6. Rereads(r) => /\ admin'[r].step = "write" /\ admin'[r].remaining = ledger
                    /\ \A q \in Request : q # r => admin'[q] = admin[q]
  <2>1. PICK a : a = [handler |-> admin[r].handler, step |-> "write",
                      toDelete |-> admin[r].toDelete, regraded |-> admin[r].regraded,
                      remaining |-> ledger]
    OBVIOUS
  <2>2. a.step = "write" /\ a.remaining = ledger
    BY <2>1
  <2>3. Rereads(r) => admin' = [admin EXCEPT ![r] = a]
    BY <2>1 DEF Rereads
  <2> QED BY <1>2, <2>2, <2>3
<1>7. ResetsHash(r) => /\ \/ admin'[r].step = "idle" /\ admin' = admin
                          \/ admin'[r].step = "ledger" /\ pnl'.totals = NoTotals
                       /\ \A q \in Request : q # r => admin'[q] = admin[q]
  <2>1. CASE UNCHANGED admin
    BY <2>1 DEF ResetsHash, Active
  <2>2. CASE ~UNCHANGED admin
    <3>1. ResetsHash(r) =>
            /\ pnl'.totals = NoTotals
            /\ admin' = [admin EXCEPT ![r] =
                 [handler |-> "reset", step |-> "ledger", toDelete |-> admin[r].toDelete,
                  regraded |-> admin[r].regraded, remaining |-> admin[r].remaining]]
      BY <2>2 DEF ResetsHash
    <3>2. ASSUME NEW d, NEW g, NEW k,
                 admin' = [admin EXCEPT ![r] = [handler |-> "reset", step |-> "ledger",
                             toDelete |-> d, regraded |-> g, remaining |-> k]]
          PROVE  admin'[r].step = "ledger" /\ \A q \in Request : q # r => admin'[q] = admin[q]
      BY <1>2, <3>2
    <3> QED BY <3>1, <3>2
  <2> QED BY <2>1, <2>2
<1>8. /\ Deletes(r) => /\ admin'[r].step \in {"readd", "reread"}
                       /\ \A q \in Request : q # r => admin'[q] = admin[q]
      /\ Readds(r) => /\ admin'[r].step = "reread"
                      /\ \A q \in Request : q # r => admin'[q] = admin[q]
  BY <1>5 DEF Deletes, Readds
<1> QED BY <1>3, <1>4, <1>6, <1>7, <1>8, RequestKinds

LEMMA AloneStep ==
  ASSUME Typed, AloneInv, AdminNext
  PROVE  AloneInv'
<1>1. \A r \in met' : Active(r)'
  BY DEF AdminNext
<1>2. ASSUME NEW r \in Request \ met', Active(r)'
      PROVE  Alone(r)'
  BY <1>2 DEF AdminNext, Meets, Alone
<1>3. ~up' => \A r \in Request : ~Active(r)'
  <2>1. CASE BrokerStep
    <3>1. ~up' => \A r \in Request : admin'[r] = NoRequest
      BY <2>1 DEF BrokerStep
    <3> QED BY <3>1 DEF Active, NoRequest
  <2>2. CASE \E r \in Request : RequestAct(r)
    BY <2>2, RequestFrame
  <2> QED BY <2>1, <2>2, StepKinds
<1> QED BY <1>1, <1>2, <1>3 DEF AloneInv

LEMMA ReadStep ==
  ASSUME Typed, AloneInv, ReadInv, AdminNext
  PROVE  ReadInv'
<1> SUFFICES ASSUME NEW r \in Request \ met', Active(r)'
             PROVE  /\ admin'[r].step = "write" => admin'[r].remaining = ledger'
                    /\ admin'[r].step = "ledger" => pnl'.totals = NoTotals
  BY DEF ReadInv, Active
<1>1. r \notin met
  BY DEF AdminNext
<1>2. /\ admin[r].step = "write" => admin[r].remaining = ledger
      /\ admin[r].step = "ledger" => pnl.totals = NoTotals
      /\ Active(r) => Alone(r)
  BY <1>1 DEF ReadInv, AloneInv
<1>3. CASE BrokerStep
  <2>1. up' /\ admin' = admin
    BY <1>3 DEF BrokerStep, Active, NoRequest
  <2>2. \A g \in Grader : Idle(g)
    BY <1>2, <2>1 DEF Active, Alone
  <2>3. UNCHANGED <<ledger, pnl>>
    BY <1>3, <2>2, BrokerLedger DEF BrokerStep
  <2> QED BY <1>2, <2>1, <2>3
<1>4. CASE RequestAct(r)
  BY <1>4, RequestKinds, RequestMoves DEF Active, Rereads
<1>5. ASSUME NEW q \in Request, q # r, RequestAct(q)
      PROVE  /\ admin'[r].step = "write" => admin'[r].remaining = ledger'
             /\ admin'[r].step = "ledger" => pnl'.totals = NoTotals
  <2>1. admin'[r] = admin[r]
    BY <1>5, RequestMoves
  <2>2. ~Active(q)
    BY <1>2, <1>5, <2>1 DEF Active, Alone
  <2>3. Reads(q) \/ ResetsHash(q)
    BY <1>5, <2>2, RequestKinds
       DEF Active, Fails, Deletes, Readds, Rereads, Writes, ResetsLedger
  <2>4. ledger' = ledger /\ (pnl' = pnl \/ pnl'.totals = NoTotals)
    BY <2>3 DEF Reads, ResetsHash
  <2> QED BY <1>2, <2>1, <2>4
<1> QED BY <1>3, <1>4, <1>5, StepKinds

(* A recount that met nobody is right.                                     *)
LEMMA WriteAgrees ==
  ASSUME Typed, AloneInv, ReadInv, NEW r \in Request \ met, RequestAct(r), Writes(r)
  PROVE  HashAgrees'
<1>1. admin[r].remaining = ledger /\ \A g \in Grader : Idle(g)
  BY DEF Writes, ReadInv, AloneInv, Alone, Active
<1>2. pnl'.totals = Recompute(ledger) /\ UNCHANGED <<job, ledger>>
  BY <1>1, RequestFrame DEF Writes
<1>3. \A c \in Counter : Recompute(ledger)[c] = Recorded(c) + InFlight(c)
  BY <1>1, RecountAgrees DEF Typed, AdminTyped
<1> QED BY <1>2, <1>3, CountUnmoved DEF HashAgrees

LEMMA ResetAgrees ==
  ASSUME Typed, AloneInv, ReadInv, NEW r \in Request \ met, RequestAct(r), ResetsLedger(r)
  PROVE  HashAgrees'
<1>1. /\ pnl'.totals = NoTotals /\ ledger' = {} /\ \A g \in Grader : Idle(g)
  BY DEF ResetsLedger, ReadInv, AloneInv, Alone, Active
<1>2. job' = job
  BY RequestFrame
<1>3. \A c \in Counter : InFlight(c)' = 0
  BY <1>1, <1>2 DEF InFlight, Idle, Grader
<1>4. \A c \in Counter : Recorded(c)' = 0
  <2>1. ASSUME NEW c PROVE {e \in ledger' : e.result \in Counts[c]} = {}
    BY <1>1
  <2> QED BY <2>1, FS_EmptySet DEF Recorded
<1> QED BY <1>1, <1>3, <1>4 DEF HashAgrees, NoTotals

LEMMA TrustStep ==
  ASSUME Typed, DashInv, AdminNext
  PROVE  TrustInv'
<1>1. AloneInv /\ ReadInv /\ TrustInv
  BY DEF DashInv
<1>2. CASE Repairs
  <2>1. PICK r \in Request \ met :
          admin[r].step = "write" /\ ~Active(r)' /\ up' /\ faults' = faults
    BY <1>2 DEF Repairs
  <2>2. Alone(r)
    BY <1>1, <2>1 DEF AloneInv, Active
  <2>3. ~BrokerStep
    BY <2>1 DEF BrokerStep, Active
  <2>4. RequestAct(r) /\ \A q \in Request : q # r => admin'[q] = admin[q]
    BY <2>1, <2>3, StepKinds, RequestMoves DEF Active
  <2>5. Writes(r)
    BY <2>1, <2>4, RequestKinds
       DEF Active, Reads, Fails, Deletes, Readds, Rereads, ResetsHash, ResetsLedger
  <2>6. HashAgrees'
    BY <1>1, <2>4, <2>5, WriteAgrees
  <2>7. \A q \in Request : ~Active(q)'
    BY <2>1, <2>2, <2>4 DEF Alone, Active
  <2> QED BY <2>6, <2>7 DEF TrustInv, AdminNext
<1>3. CASE trusted /\ ~Disturbs
  <2>1. met = {} /\ ((\A r \in Request : ~Active(r)) => HashAgrees)
    BY <1>1, <1>3 DEF TrustInv
  <2>2. /\ crashes' = crashes /\ faults' = faults /\ \A r \in Request : ~Meets(r)'
        /\ (\A r \in Request : ~Active(r)') => requests' = requests
    BY <1>3 DEF Disturbs
  <2>3. met' = {}
    BY <2>1, <2>2 DEF AdminNext
  <2>4. ASSUME \A r \in Request : ~Active(r)'
        PROVE  HashAgrees'
    <3>1. CASE BrokerStep
      <4>1. \A r \in Request : ~Active(r)
        <5>1. up' \/ ~up
          BY <2>2, <3>1, StaysUp DEF BrokerStep, Typed, BrokerTyped
        <5>2. CASE up'
          BY <2>4, <3>1, <5>2 DEF BrokerStep, Active
        <5>3. CASE ~up
          BY <1>1, <5>3 DEF AloneInv
        <5> QED BY <5>1, <5>2, <5>3
      <4>2. Steps
        BY <3>1, BrokerTypes DEF BrokerStep, Typed
      <4> QED BY <2>1, <2>2, <4>1, <4>2, CountKept DEF Typed, AdminTyped
    <3>2. ASSUME NEW r \in Request, RequestAct(r)
          PROVE  HashAgrees'
      <4>1. requests' = requests /\ requests \in Nat /\ admin'[r].step = "idle"
        BY <2>2, <2>4 DEF Active, Typed, AdminTyped
      <4>2. Writes(r) \/ ResetsLedger(r)
        BY <2>2, <3>2, <4>1, RequestKinds, RequestMoves DEF Fails, ResetsHash
      <4> QED BY <1>1, <2>1, <3>2, <4>2, WriteAgrees, ResetAgrees
    <3> QED BY <3>1, <3>2, StepKinds
  <2> QED BY <2>3, <2>4 DEF TrustInv
<1> QED BY <1>2, <1>3 DEF AdminNext, TrustInv

LEMMA DashStep ==
  ASSUME Typed, DashInv, [AdminNext]_adminVars
  PROVE  DashInv'
<1>1. CASE UNCHANGED adminVars
  <2>1. UNCHANGED <<job, ledger, pnl, up, admin, met, trusted>>
    BY <1>1 DEF adminVars, vars, processVars, storeVars
  <2>2. AloneInv' /\ ReadInv'
    BY <2>1 DEF DashInv, AloneInv, ReadInv, Alone, Active, Idle
  <2>3. HashAgrees => HashAgrees'
    BY <2>1, CountUnmoved DEF HashAgrees
  <2>4. TrustInv'
    BY <2>1, <2>3 DEF DashInv, TrustInv, Active
  <2> QED BY <2>2, <2>4 DEF DashInv
<1>2. CASE AdminNext
  BY <1>2, AloneStep, ReadStep, TrustStep DEF DashInv
<1> QED BY <1>1, <1>2

LEMMA DashInit ==
  ASSUME AdminInit
  PROVE  DashInv
<1>1. Typed
  BY TypesInit
<1>2. /\ \A g \in Grader : Idle(g)
      /\ \A r \in Request : ~Active(r) /\ admin[r].step = "idle"
      /\ met = {} /\ ledger = Legacy /\ pnl.totals = Recompute(Legacy)
  BY DEF AdminInit, ProcessInit, NoJob, Idle, Active, NoRequest
<1>3. HashAgrees
  BY <1>1, <1>2, RecountAgrees DEF HashAgrees, Typed, AdminTyped
<1> QED BY <1>2, <1>3 DEF DashInv, AloneInv, ReadInv, TrustInv

(* A request that runs alone leaves the hash equal to the ledger, whatever *)
(* went wrong before, and settlements keep it so until the next request    *)
(* that meets one, crash, failed command or reset of the hash alone        *)
(* (server.go:395-409, 516-530).                                           *)
THEOREM AloneRepairs == AdminSpec => []DashboardTrusted
<1>1. AdminInit => Typed /\ DashInv
  BY TypesInit, DashInit
<1>2. Typed /\ DashInv /\ [AdminNext]_adminVars => (Typed /\ DashInv)'
  BY TypesStep, DashStep
<1>3. Typed /\ DashInv => DashboardTrusted
  BY DEF DashInv, TrustInv, HashAgrees, DashboardTrusted
<1> QED BY <1>1, <1>2, <1>3, PTL DEF AdminSpec

-----------------------------------------------------------------------------
(* The bets of the old rule.                                               *)

(* Outside a regrade each has its one entry.                               *)
LEMMA BetsOutside ==
  ASSUME NEW r \in Request, BetsOf(r), admin[r].step # "readd", NEW l \in Legacy
  PROVE  OneVerdict(l)
BY DEF BetsOf, Regrading

(* Settlements are of other bets.                                          *)
LEMMA BetsSettle ==
  ASSUME Typed, AloneInv, NEW r \in Request, BetsOf(r), BrokerStep, crashes' = crashes
  PROVE  BetsOf(r)'
<1>1. PICK W : ledger' = ledger \cup W /\ \A e \in W : e.fill \in Fill
  BY BrokerLedger DEF BrokerStep
<1>2. \A l \in Legacy : \A x \in ledger' : x.fill = l.fill => x \in ledger
  BY <1>1, AdminAssumption
<1>3. admin'[r] = admin[r] \/ (admin[r].step = "idle" /\ admin'[r].step = "idle")
  <2>1. CASE up'
    BY <2>1 DEF BrokerStep
  <2>2. CASE ~up'
    <3>1. admin[r].step = "idle"
      BY <2>2, StaysUp DEF BrokerStep, Typed, BrokerTyped, AloneInv, Active
    <3>2. admin'[r].step = "idle"
      BY <2>2 DEF BrokerStep, NoRequest
    <3> QED BY <3>1, <3>2
  <2> QED BY <2>1, <2>2
<1>4. Choice(r)'
  BY <1>1, <1>3 DEF BetsOf, Choice
<1>5. ASSUME NEW l \in Legacy
      PROVE  Regrading(r, l)' \/ (OneVerdict(l)' /\ Spares(r, l)')
  <2>1. OneVerdict(l) => OneVerdict(l)'
    BY <1>1, <1>2 DEF OneVerdict
  <2>2. Spares(r, l) => Spares(r, l)'
    BY <1>3 DEF Spares
  <2>3. Regrading(r, l) => Regrading(r, l)'
    <3>1. SUFFICES ASSUME Regrading(r, l) PROVE Regrading(r, l)'
      OBVIOUS
    <3>2. admin'[r] = admin[r]
      BY <1>3, <3>1 DEF Regrading
    <3>3. \A x \in ledger' : x.fill # l.fill
      BY <1>2, <3>1 DEF Regrading
    <3> QED BY <3>1, <3>2, <3>3 DEF Regrading
  <2> QED BY <2>1, <2>2, <2>3 DEF BetsOf
<1> QED BY <1>4, <1>5 DEF BetsOf

(* The ledger is not touched.                                              *)
LEMMA BetsUntouched ==
  ASSUME NEW r \in Request, BetsOf(r), admin[r].step # "readd",
         admin'[r].step # "readd", ledger' = ledger, Choice(r)'
  PROVE  BetsOf(r)'
<1>1. ASSUME NEW l \in Legacy PROVE OneVerdict(l)' /\ Spares(r, l)'
  BY <1>1, BetsOutside DEF OneVerdict, Spares
<1> QED BY <1>1 DEF BetsOf

LEMMA BetsRead ==
  ASSUME Typed, NEW r \in Request, BetsOf(r), RequestAct(r), Reads(r)
  PROVE  BetsOf(r)'
<1>1. /\ admin[r].step = "idle" /\ admin'[r].step \in {"reread", "delete"}
      /\ ledger' = ledger
  BY RequestMoves DEF Reads, Active
<1>2. PICK h \in {"prune", "regrade"}, chosen \in SUBSET ledger, step \in {"reread", "delete"} :
        /\ admin' = [admin EXCEPT ![r] =
             [handler |-> h, step |-> step, toDelete |-> chosen,
              regraded |-> IF h = "prune" THEN {} ELSE chosen, remaining |-> {}]]
        /\ h = "prune" => \A e \in chosen : e.result = "unresolved"
  BY DEF Reads
<1>3. PICK a : a = [handler |-> h, step |-> step, toDelete |-> chosen,
                    regraded |-> IF h = "prune" THEN {} ELSE chosen, remaining |-> {}]
  OBVIOUS
<1>4. /\ a.handler = h /\ a.toDelete = chosen
      /\ h = "regrade" => a.regraded = chosen
  BY <1>3
<1>5. admin'[r] = a
  BY <1>2, <1>3, RequestReplaced DEF Typed
<1>6. Choice(r)'
  BY <1>1, <1>2, <1>4, <1>5 DEF Choice
<1> QED BY <1>1, <1>6, BetsUntouched

LEMMA Arrives ==
  ASSUME Typed, NEW r \in Request, NEW step, Goes(r, step)
  PROVE  admin'[r].step = step /\ admin'[r].regraded = admin[r].regraded
<1>1. admin'[r] = At(admin[r], step)
  BY RequestReplaced DEF Goes, Typed
<1> QED BY <1>1 DEF At

(* A regrade takes the void entry out, a prune leaves it.                  *)
LEMMA BetsDelete ==
  ASSUME Typed, NEW r \in Request, BetsOf(r), Deletes(r)
  PROVE  BetsOf(r)'
<1>1. /\ admin[r].step = "delete" /\ ledger' = ledger \ admin[r].toDelete
      /\ admin[r].toDelete \subseteq ledger
  BY DEF Deletes, BetsOf, Choice
<1>2. CASE admin[r].handler = "regrade"
  <2>1. /\ admin'[r].step = "readd" /\ admin'[r].regraded = admin[r].toDelete
    BY <1>1, <1>2, Arrives DEF Deletes, BetsOf, Choice
  <2>2. ASSUME NEW l \in Legacy
        PROVE  Regrading(r, l)' \/ (OneVerdict(l)' /\ Spares(r, l)')
    <3>1. PICK e \in ledger : /\ e.result \in {"void", "lost"}
                              /\ \A x \in ledger : x.fill = l.fill <=> x = e
      BY <1>1, BetsOutside DEF OneVerdict
    <3>2. CASE e \in admin[r].toDelete
      BY <1>1, <2>1, <3>1, <3>2 DEF Regrading
    <3>3. CASE e \notin admin[r].toDelete
      BY <1>1, <2>1, <3>1, <3>3 DEF OneVerdict, Spares
    <3> QED BY <3>2, <3>3
  <2> QED BY <2>1, <2>2 DEF BetsOf, Choice
<1>3. CASE admin[r].handler # "regrade"
  <2>1. admin'[r].step = "reread" /\ \A e \in admin[r].toDelete : e.result = "unresolved"
    BY <1>1, <1>3, Arrives DEF Deletes, BetsOf, Choice
  <2>2. ASSUME NEW l \in Legacy
        PROVE  OneVerdict(l)' /\ Spares(r, l)'
    <3>1. PICK e \in ledger : /\ e.result \in {"void", "lost"}
                              /\ \A x \in ledger : x.fill = l.fill <=> x = e
      BY <1>1, BetsOutside DEF OneVerdict
    <3>2. e \in ledger'
      BY <1>1, <2>1, <3>1
    <3> QED BY <1>1, <2>1, <3>1, <3>2 DEF OneVerdict, Spares
  <2> QED BY <2>1, <2>2 DEF BetsOf, Choice
<1> QED BY <1>2, <1>3

(* The regraded bets come back as losses.                                  *)
LEMMA BetsReadd ==
  ASSUME Typed, NEW r \in Request, BetsOf(r), Readds(r)
  PROVE  BetsOf(r)'
<1>1. admin[r].step = "readd" /\ admin'[r].step = "reread"
  BY Arrives DEF Readds
<1>2. ledger' = ledger \cup {LossOf(e) : e \in admin[r].regraded}
  BY RegradedLosses DEF Readds
<1>3. \A e : LossOf(e).fill = e.fill /\ LossOf(e).result = "lost"
  BY DEF LossOf
<1>4. ASSUME NEW l \in Legacy PROVE OneVerdict(l)'
  <2>1. CASE Regrading(r, l)
    <3>1. /\ \A x \in ledger : x.fill # l.fill
          /\ \E e \in admin[r].regraded : \A x \in admin[r].regraded : x.fill = l.fill <=> x = e
      BY <2>1 DEF Regrading
    <3>2. PICK e \in admin[r].regraded : \A x \in admin[r].regraded : x.fill = l.fill <=> x = e
      BY <3>1
    <3>3. /\ LossOf(e) \in ledger' /\ LossOf(e).result = "lost"
          /\ \A x \in ledger' : x.fill = l.fill <=> x = LossOf(e)
      BY <1>2, <1>3, <3>1, <3>2
    <3> QED BY <3>3 DEF OneVerdict
  <2>2. CASE OneVerdict(l) /\ Spares(r, l)
    <3>1. PICK e \in ledger : /\ e.result \in {"void", "lost"}
                              /\ \A x \in ledger : x.fill = l.fill <=> x = e
      BY <2>2 DEF OneVerdict
    <3>2. \A x \in admin[r].regraded : LossOf(x).fill # l.fill
      BY <1>1, <1>3, <2>2 DEF Spares
    <3>3. e \in ledger' /\ \A x \in ledger' : x.fill = l.fill <=> x = e
      BY <1>2, <3>1, <3>2
    <3> QED BY <3>1, <3>3 DEF OneVerdict
  <2> QED BY <2>1, <2>2 DEF BetsOf
<1> QED BY <1>1, <1>4 DEF BetsOf, Choice, Spares

LEMMA BetsRequest ==
  ASSUME Typed, NEW r \in Request, BetsOf(r), RequestAct(r), faults' = faults,
         ~ResetsLedger(r)
  PROVE  BetsOf(r)'
<1>1. CASE Reads(r)
  BY <1>1, BetsRead
<1>2. CASE Deletes(r)
  BY <1>2, BetsDelete
<1>3. CASE Readds(r)
  BY <1>3, BetsReadd
<1>4. CASE Rereads(r) \/ Writes(r) \/ ResetsHash(r)
  <2>1. /\ admin[r].step # "readd" /\ ledger' = ledger
        /\ admin'[r].step \in {"write", "idle", "ledger"}
    BY <1>4, RequestMoves DEF Rereads, Writes, ResetsHash, Active
  <2> QED BY <2>1, BetsUntouched DEF Choice
<1> QED BY <1>1, <1>2, <1>3, <1>4, RequestKinds DEF Fails

LEMMA BetsStep ==
  ASSUME Typed, AloneInv, BetsInv, [AdminNext]_adminVars
  PROVE  BetsInv'
<1>1. CASE UNCHANGED adminVars
  BY <1>1 DEF BetsInv, BetsOf, Choice, Regrading, OneVerdict, Spares, adminVars, vars, storeVars
<1>2. CASE AdminNext
  <2>1. SUFFICES ASSUME Cardinality(Request) = 1, crashes' = 0, faults' = 0, ~cleared'
                 PROVE  \A r \in Request : BetsOf(r)'
    BY DEF BetsInv
  <2>2. PICK r : Request = {r}
    BY <2>1, AdminAssumption, FS_Singleton
  <2>3. /\ ~cleared
        /\ \A q \in Request : ~(admin[q].step = "ledger" /\ ledger' = {})
    BY <1>2, <2>1 DEF AdminNext
  <2>4. crashes' >= crashes /\ faults' >= faults
    <3>1. CASE BrokerStep
      BY <3>1, BrokerTypes DEF BrokerStep, Typed
    <3>2. CASE \E q \in Request : RequestAct(q)
      BY <3>2, RequestFaults
    <3> QED BY <1>2, <3>1, <3>2, StepKinds
  <2>5. crashes = 0 /\ faults = 0
    BY <2>1, <2>4 DEF Typed, BrokerTyped
  <2>6. BetsOf(r)
    BY <2>1, <2>2, <2>3, <2>5 DEF BetsInv
  <2>7. CASE BrokerStep
    BY <2>1, <2>2, <2>5, <2>6, <2>7, BetsSettle
  <2>8. CASE RequestAct(r)
    <3>1. ~ResetsLedger(r)
      BY <2>2, <2>3 DEF ResetsLedger
    <3> QED BY <2>1, <2>2, <2>5, <2>6, <2>8, <3>1, BetsRequest
  <2> QED BY <1>2, <2>2, <2>7, <2>8, StepKinds
<1> QED BY <1>1, <1>2

LEMMA BetsInit ==
  ASSUME AdminInit
  PROVE  BetsInv
<1>1. ledger = Legacy /\ \A r \in Request : admin[r].step = "idle"
  BY DEF AdminInit, NoRequest
<1>2. ASSUME NEW l \in Legacy PROVE OneVerdict(l)
  <2>1. l.result = "void" /\ \A k \in Legacy : k.fill = l.fill <=> k = l
    BY AdminAssumption
  <2> QED BY <1>1, <2>1 DEF OneVerdict
<1> QED BY <1>1, <1>2 DEF BetsInv, BetsOf, Choice, Spares

LEMMA BetsKept ==
  ASSUME BetsInv
  PROVE  RegradeConserves
<1> SUFFICES ASSUME Quiet, Cardinality(Request) = 1, crashes = 0, faults = 0, ~cleared,
                    NEW l \in Legacy
             PROVE  /\ Cardinality({e \in ledger : e.fill = l.fill}) = 1
                    /\ \A e \in ledger : e.fill = l.fill => e.result \in {"void", "lost"}
  BY DEF RegradeConserves
<1>1. PICK r : Request = {r}
  BY AdminAssumption, FS_Singleton
<1>2. OneVerdict(l)
  BY <1>1, BetsOutside DEF Quiet, Active, BetsInv
<1>3. PICK e \in ledger : /\ e.result \in {"void", "lost"}
                          /\ \A x \in ledger : x.fill = l.fill <=> x = e
  BY <1>2 DEF OneVerdict
<1>4. {x \in ledger : x.fill = l.fill} = {e}
  BY <1>3
<1> QED BY <1>3, <1>4, FS_Singleton

(* However many regrades, prunes and resets of the hash run one after the  *)
(* other, and whatever settles meanwhile, a bet of the old rule keeps one  *)
(* entry: void, then lost (server.go:480-508).                             *)
THEOREM RegradeKeepsBets == AdminSpec => []RegradeConserves
<1>1. AdminInit => Typed /\ DashInv /\ BetsInv
  BY TypesInit, DashInit, BetsInit
<1>2. Typed /\ DashInv /\ BetsInv /\ [AdminNext]_adminVars => (Typed /\ DashInv /\ BetsInv)'
  BY TypesStep, DashStep, BetsStep DEF DashInv
<1>3. BetsInv => RegradeConserves
  BY BetsKept
<1> QED BY <1>1, <1>2, <1>3, PTL DEF AdminSpec
=============================================================================
