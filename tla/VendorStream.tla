---------------------------- MODULE VendorStream ----------------------------
(***************************************************************************)
(* The default mode of the ingestor: the WebSocket client of               *)
(* data-ingestion-go (internal/stream/client.go) and the live feed it      *)
(* dials, the vendorServer of mock-vendor/server.js.                       *)
(*                                                                         *)
(* Every connection plays the vendor's match from its kickoff: one frame   *)
(* for each step of the TEMPLATE, the last one FULLTIME, then the vendor   *)
(* closes the socket and the client dials again after its backoff.  What   *)
(* the FULLTIME frame settles is in module MockVendor.  The frames of the  *)
(* mock are valid and in scope, so parseFrame refuses none of them.        *)
(***************************************************************************)
EXTENDS Naturals, Sequences

CONSTANTS
  Match,       \* match identifiers; the vendor plays one of them
  MaxGoals,    \* bound: a scoreline is the number of goals so far
  MaxFaults,   \* bound: lost connections and publishes that fail
  MaxCrashes,  \* bound: restarts of the ingestor
  SCORELINES,  \* the scenarios: goals at every step, 15 steps in the code
  MaxDelay,    \* ReconnectMaxDelay, ReconnectBaseDelay being 1: 60 in the code
  Pingers      \* bound: ping loops at one time

(* A reel has a frame, and its goals do not fall.  Assumed by Ingestor.    *)
StreamAssumption ==
  /\ Match # {} /\ SCORELINES # {} /\ MaxDelay \in Nat \ {0} /\ Pingers # {}
  /\ \A s \in SCORELINES :
       /\ s \in Seq(0..MaxGoals) /\ s # <<>>
       /\ \A i, j \in DOMAIN s : i < j => s[i] <= s[j]

VARIABLES
  conn,       \* Handler.Run: "waiting", "dialling" or "reading"
  delay,      \* how long it waits before it dials again
  loop,       \* ping loops: "none", "running", or "cancelled" and not back yet
  reel,       \* what is left of the vendor's scenario
  socket,     \* the vendor's end: "none", "open", "closed"
  pipe,       \* frames between the two
  last,       \* history: last frame of every match since its kickoff
  finals,     \* history: scores of its FULLTIME frames
  faults, crashes   \* counters behind the bounds

clientVars == <<conn, delay, loop>>
vendorVars == <<reel, socket, pipe>>
wireVars   == <<last, finals, faults>>
vars       == <<clientVars, vendorVars, wireVars, crashes>>

FeedFrame == [clock : {"LIVE", "FULLTIME"}, goals : 0..MaxGoals]
NoFrame   == [clock |-> "none", goals |-> 0]
Vendors   == CHOOSE m \in Match : TRUE   \* "epl-2026-0042"

Init ==
  /\ conn = "dialling" /\ delay = 1 /\ loop = [p \in Pingers |-> "none"]
  /\ reel = <<>> /\ socket = "none" /\ pipe = <<>>
  /\ last = [m \in Match |-> NoFrame]
  /\ finals = [m \in Match |-> <<>>]
  /\ faults = 0 /\ crashes = 0

Fault == faults < MaxFaults /\ faults' = faults + 1

-----------------------------------------------------------------------------
(* The vendor.                                                             *)
frame == [clock |-> IF Len(reel) = 1 THEN "FULLTIME" ELSE "LIVE", goals |-> Head(reel)]

(* A connection of its own plays a scenario of its own.                    *)
Accept == socket' = "open" /\ reel' \in SCORELINES

SendFrame ==
  /\ socket = "open" /\ reel # <<>>
  /\ pipe' = Append(pipe, frame) /\ reel' = Tail(reel)
  /\ UNCHANGED <<clientVars, socket, wireVars, crashes>>

EndOfReel ==
  /\ socket = "open" /\ reel = <<>>
  /\ socket' = "closed"
  /\ UNCHANGED <<clientVars, reel, pipe, wireVars, crashes>>

(* The connection breaks; frames under way may not arrive.                 *)
Disconnect ==
  /\ socket = "open" /\ Fault
  /\ socket' = "closed" /\ reel' = <<>>
  /\ \E k \in 0..Len(pipe) : pipe' = SubSeq(pipe, 1, k)
  /\ UNCHANGED <<clientVars, last, finals, crashes>>

-----------------------------------------------------------------------------
(* The client.                                                             *)
KickedOff ==
  /\ last' = [last EXCEPT ![Vendors] = NoFrame]
  /\ finals' = [finals EXCEPT ![Vendors] = <<>>]

(* The client starts a ping loop for the connection.                       *)
Dial ==
  /\ conn = "dialling" /\ conn' = "reading"
  /\ \E p \in Pingers : loop[p] = "none" /\ loop' = [loop EXCEPT ![p] = "running"]
  /\ Accept /\ KickedOff
  /\ UNCHANGED <<delay, pipe, faults, crashes>>

(* The vendor may be away any number of times.                             *)
DialFails ==
  /\ conn = "dialling"
  /\ conn' = "waiting"
  /\ UNCHANGED <<delay, loop, vendorVars, wireVars, crashes>>

(* A frame goes to the sink; if the sink fails, it is logged and gone.     *)
PublishMatch(f) ==
  \/ /\ last' = [last EXCEPT ![Vendors] = f]
     /\ finals' = IF f.clock = "FULLTIME"
                  THEN [finals EXCEPT ![Vendors] = Append(@, f.goals)] ELSE finals
     /\ UNCHANGED faults
  \/ Fault /\ UNCHANGED <<last, finals>>

ReadMessage ==
  /\ conn = "reading" /\ pipe # <<>>
  /\ PublishMatch(Head(pipe))
  /\ pipe' = Tail(pipe)
  /\ UNCHANGED <<clientVars, reel, socket, crashes>>

(* Mutant: the ping loop hangs on the context of the process.              *)
NotCancelled == UNCHANGED loop

(* The deferred cancel of the connection's own context.                    *)
Cancel ==
  loop' = [p \in Pingers |-> IF loop[p] = "running" THEN "cancelled" ELSE loop[p]]

ReadFails ==
  /\ conn = "reading" /\ pipe = <<>> /\ socket = "closed"
  /\ conn' = "waiting" /\ Cancel
  /\ socket' = "none"
  /\ UNCHANGED <<delay, reel, pipe, wireVars, crashes>>

(* The timer fires; the next wait is twice as long, and no connection,     *)
(* however long it lasted, makes it shorter again.                         *)
Retry ==
  /\ conn = "waiting"
  /\ conn' = "dialling"
  /\ delay' = IF 2 * delay < MaxDelay THEN 2 * delay ELSE MaxDelay
  /\ UNCHANGED <<loop, vendorVars, wireVars, crashes>>

pingLoopReturns(p) ==
  /\ loop[p] = "cancelled" /\ loop' = [loop EXCEPT ![p] = "none"]
  /\ UNCHANGED <<conn, delay, vendorVars, wireVars, crashes>>

(* The process restarts, and the vendor drops what it was sending.         *)
Restart ==
  /\ crashes < MaxCrashes /\ crashes' = crashes + 1
  /\ conn' = "dialling" /\ delay' = 1 /\ loop' = [p \in Pingers |-> "none"]
  /\ reel' = <<>> /\ socket' = "none" /\ pipe' = <<>>
  /\ UNCHANGED wireVars

Vendor == SendFrame \/ EndOfReel
Run    == ReadMessage \/ ReadFails \/ Retry

Next ==
  \/ Vendor \/ Disconnect \/ Dial \/ DialFails \/ Run \/ Restart
  \/ \E p \in Pingers : pingLoopReturns(p)

Spec == Init /\ [][Next]_vars

-----------------------------------------------------------------------------
(* A connection that is read has one ping loop, and a wait has none that   *)
(* is not cancelled.                                                       *)
TypeOK ==
  /\ conn \in {"waiting", "dialling", "reading"}
  /\ delay \in 1..MaxDelay
  /\ loop \in [Pingers -> {"none", "running", "cancelled"}]
  /\ \A p, q \in Pingers : loop[p] = "running" => (loop[q] = "running" => p = q)
  /\ (\E p \in Pingers : loop[p] = "running") <=> conn = "reading"
  /\ socket \in (IF conn = "reading" THEN {"open", "closed"} ELSE {"none"})
  /\ pipe \in Seq(FeedFrame)
  /\ \A m \in Match : last[m].goals \in 0..MaxGoals
  /\ faults \in Nat /\ crashes \in Nat

(* After the FULLTIME frame of a reel nothing is left, neither at the      *)
(* vendor nor on its way.                                                  *)
FinalsAreLast == \A m \in Match : finals[m] # <<>> => reel = <<>> /\ pipe = <<>>
=============================================================================
