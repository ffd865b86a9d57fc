--------------------------- MODULE AdminAnalytics ---------------------------
(***************************************************************************)
(* The operator's maintenance handlers of execution-engine-go's API        *)
(* (internal/api/server.go), running in the process of the PaperBroker and *)
(* on the same ledger stream and PnL hash, without any lock:               *)
(*                                                                         *)
(*   prune    deletes the unresolved entries and recomputes the hash;      *)
(*   regrade  turns the void home/away entries of draws, which an older    *)
(*            grading rule left, into losses and recomputes the hash;      *)
(*   reset    deletes the hash and, unless told to keep it, the ledger.    *)
(*                                                                         *)
(* Each handler is the sequence of its Redis commands; a request that sees *)
(* a command fail stops there.  XRANGE is limited to 5000 entries, which a *)
(* stream trimmed to about 1000 does not reach.                            *)
(***************************************************************************)
EXTENDS PaperBroker

CONSTANTS
  Request,      \* concurrent requests to the admin endpoints
  Handlers,     \* the endpoints that are called
  KeepLedger,   \* values of keep_ledger that callers of reset pass
  Legacy,       \* ledger entries of the older grading rule
  MaxRequests   \* bound: requests in all

ASSUME AdminAssumption ==
  /\ Handlers \subseteq {"prune", "regrade", "reset"}
  /\ KeepLedger \subseteq BOOLEAN
  /\ MaxRequests \in Nat
  /\ IsFiniteSet(Request) /\ IsFiniteSet(Legacy)
  /\ \A l \in Legacy : /\ l = [xid |-> 0, fill |-> l.fill, match |-> l.match, score |-> l.score,
                             result |-> "void", source |-> l.source]
                       /\ l.fill \notin Fill   \* an order of before
                       /\ \A k \in Legacy : k.fill = l.fill => k = l

VARIABLES
  admin,        \* what each request is doing
  requests,     \* requests so far
  met,          \* history: requests that met a settlement or another request
  trusted,      \* history: has nothing yet put the hash out of step?
  cleared       \* history: did a reset delete the ledger?

adminVars == <<vars, admin, requests, met, trusted, cleared>>

NoRequest == [handler |-> "none", step |-> "idle", toDelete |-> {},
              regraded |-> {}, remaining |-> {}]

Active(r) == admin[r].step # "idle"

(* Mutant: only entries that say void are counted as void.                  *)
RecomputeDroppingUnresolved(entries) ==
  [won   |-> Cardinality({e \in entries : e.result = "won"}),
   lost  |-> Cardinality({e \in entries : e.result = "lost"}),
   voids |-> Cardinality({e \in entries : e.result = "void"})]

(* The hash the handlers write back from the entries they re-read: an      *)
(* entry that is neither won nor lost counts as void.                      *)
Recompute(entries) ==
  [won   |-> Cardinality({e \in entries : e.result = "won"}),
   lost  |-> Cardinality({e \in entries : e.result = "lost"}),
   voids |-> Cardinality({e \in entries : e.result \notin {"won", "lost"}})]

Unresolved == {e \in ledger : e.result = "unresolved"}

DrawVoids == {e \in ledger : /\ e.result = "void"
                             /\ e.fill.side \in {"home", "away"}
                             /\ e.score = "draw"}

AdminInit ==
  /\ ProcessInit
  /\ ledger = Legacy
  /\ pnl = [totals |-> Recompute(Legacy), cycle |-> 0]
  /\ nextXid = 1
  /\ admin = [r \in Request |-> NoRequest]
  /\ requests = 0
  /\ met = {}
  /\ trusted = TRUE
  /\ cleared = FALSE

-----------------------------------------------------------------------------
(* A step of request r leaves everything but the ledger and hash alone.    *)
AdminFrame(r) ==
  /\ up
  /\ UNCHANGED <<feedVars, processVars, paperOrders, snapshot, placed, crashes>>

Goto(r, step) == admin' = [admin EXCEPT ![r].step = step]

End(r) == admin' = [admin EXCEPT ![r] = NoRequest]

(* Prune and regrade first read the stream and choose what to delete.      *)
AdminRead(r, h) ==
  LET chosen == IF h = "prune" THEN Unresolved ELSE DrawVoids
  IN  /\ AdminFrame(r)
      /\ ~Active(r) /\ requests < MaxRequests
      /\ h \in Handlers \cap {"prune", "regrade"}
      /\ requests' = requests + 1
      /\ admin' = [admin EXCEPT ![r] =
           [handler |-> h, step |-> IF chosen = {} THEN "reread" ELSE "delete",
            toDelete |-> chosen, remaining |-> {},
            regraded |-> IF h = "prune" THEN {} ELSE chosen]]
      /\ UNCHANGED <<ledger, pnl, nextXid, faults>>

(* XDEL of the chosen entries; regrade goes on to add them again.          *)
AdminDelete(r, ok) ==
  /\ AdminFrame(r) /\ admin[r].step = "delete"
  /\ Command(ok)
  /\ IF ok THEN /\ ledger' = ledger \ admin[r].toDelete
                /\ Goto(r, IF admin[r].handler = "regrade" THEN "readd" ELSE "reread")
           ELSE ledger' = ledger /\ End(r)
  /\ UNCHANGED <<pnl, nextXid, requests>>

Losses(r) ==
  {[e EXCEPT !.xid = nextXid, !.result = "lost", !.source = "regrade-draws"] :
     e \in admin[r].regraded}

(* Mutant: the void entries come back together with their losses.          *)
ReaddAgain(r, ok) ==
  /\ AdminFrame(r) /\ admin[r].step = "readd"
  /\ Command(ok)
  /\ ledger' = ledger \cup Losses(r) \cup admin[r].regraded
  /\ nextXid' = nextXid + 1
  /\ IF ok THEN Goto(r, "reread") ELSE End(r)
  /\ UNCHANGED <<pnl, requests>>

(* XADD of the regraded entries as losses, in a pipeline that is no        *)
(* transaction.                                                            *)
AdminReadd(r, ok) ==
  /\ AdminFrame(r) /\ admin[r].step = "readd"
  /\ Command(ok)
  /\ \E written \in SUBSET Losses(r) :
       /\ ok => written = Losses(r)
       /\ ledger' = ledger \cup written
  /\ nextXid' = nextXid + 1
  /\ IF ok THEN Goto(r, "reread") ELSE End(r)
  /\ UNCHANGED <<pnl, requests>>

AdminReread(r, ok) ==
  /\ AdminFrame(r) /\ admin[r].step = "reread"
  /\ Command(ok)
  /\ IF ok THEN admin' = [admin EXCEPT ![r].step = "write", ![r].remaining = ledger]
           ELSE End(r)
  /\ UNCHANGED <<ledger, pnl, nextXid, requests>>

(* One transaction replaces the hash; updated_cycle goes with the old one. *)
AdminWrite(r, ok) ==
  /\ AdminFrame(r) /\ admin[r].step = "write"
  /\ Command(ok)
  /\ pnl' = IF ok THEN [totals |-> Recompute(admin[r].remaining), cycle |-> 0] ELSE pnl
  /\ End(r)
  /\ UNCHANGED <<ledger, nextXid, requests>>

(* Reset deletes the hash, then the ledger unless keep_ledger was given.   *)
ResetHash(r, keepLedger, ok) ==
  /\ AdminFrame(r)
  /\ ~Active(r) /\ requests < MaxRequests /\ "reset" \in Handlers
  /\ requests' = requests + 1
  /\ Command(ok)
  /\ pnl' = IF ok THEN [totals |-> NoTotals, cycle |-> 0] ELSE pnl
  /\ admin' = IF ok /\ ~keepLedger
              THEN [admin EXCEPT ![r].handler = "reset", ![r].step = "ledger"] ELSE admin
  /\ UNCHANGED <<ledger, nextXid>>

ResetLedger(r, ok) ==
  /\ AdminFrame(r) /\ admin[r].step = "ledger"
  /\ Command(ok)
  /\ ledger' = IF ok THEN {} ELSE ledger
  /\ End(r)
  /\ UNCHANGED <<pnl, nextXid, requests>>

-----------------------------------------------------------------------------
(* A crash of the process ends the requests it was serving.                *)
BrokerStep ==
  /\ Next
  /\ admin' = IF up' THEN admin ELSE [r \in Request |-> NoRequest]
  /\ UNCHANGED requests

AdminStep ==
  \E r \in Request :
    \/ \E h \in Handlers : AdminRead(r, h)
    \/ \E ok \in BOOLEAN :
         \/ AdminDelete(r, ok) \/ AdminReadd(r, ok) \/ AdminReread(r, ok)
         \/ AdminWrite(r, ok) \/ ResetLedger(r, ok)
         \/ \E keep \in KeepLedger : ResetHash(r, keep, ok)

(* Request r is at work together with a settlement or another request.     *)
Meets(r) == /\ Active(r)
            /\ \/ \E g \in Grader : ~Idle(g)
               \/ \E q \in Request \ {r} : Active(q)

(* A prune or regrade that met nobody writes the hash.                     *)
Repairs ==
  \E r \in Request \ met : /\ admin[r].step = "write" /\ ~Active(r)'
                          /\ up' /\ faults' = faults

(* What puts the hash out of step: a request that meets another writer, a  *)
(* crash, a failed command, a reset that keeps the ledger.                 *)
Disturbs ==
  \/ \E r \in Request : Meets(r)'
  \/ crashes' # crashes \/ faults' # faults
  \/ (requests' # requests /\ \A r \in Request : ~Active(r)')

AdminNext ==
  /\ BrokerStep \/ AdminStep
  /\ met' = {r \in Request : Active(r)' /\ (r \in met \/ Meets(r)')}
  /\ trusted' = (Repairs \/ (trusted /\ ~Disturbs))
  /\ cleared' = (cleared \/ \E r \in Request : admin[r].step = "ledger" /\ ledger' = {})

AdminSpec == AdminInit /\ [][AdminNext]_adminVars

-----------------------------------------------------------------------------
Quiet == /\ \A g \in Grader : Idle(g)
         /\ \A r \in Request : ~Active(r)

(* A prune or regrade that ran alone leaves the hash equal to the ledger,  *)
(* whatever crash, failed command or race came before it, and it stays so, *)
(* settlements included, until the next of these: the handlers' counting   *)
(* (server.go:395-409, 516-530) agrees with the executor's own             *)
(* (settlementTotals), unresolved orders included.                         *)
DashboardTrusted ==
  trusted /\ (\A r \in Request : ~Active(r)) =>
    \A c \in Counter : pnl.totals[c] = Recorded(c) + InFlight(c)

(* A regrade changes the verdict of a bet, never the number of bets: when  *)
(* no two requests run at once, an order of the old rule has one entry,    *)
(* void until regraded, although settlements go on meanwhile and any       *)
(* number of regrades, prunes and resets of the hash alone follow          *)
(* (server.go:480-508).                                                    *)
RegradeConserves ==
  Quiet /\ Cardinality(Request) = 1 /\ crashes = 0 /\ faults = 0 /\ ~cleared =>
    \A l \in Legacy :
      /\ Cardinality({e \in ledger : e.fill = l.fill}) = 1
      /\ \A e \in ledger : e.fill = l.fill => e.result \in {"void", "lost"}
=============================================================================
