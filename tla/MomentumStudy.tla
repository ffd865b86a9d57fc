--------------------------- MODULE MomentumStudy ---------------------------
(***************************************************************************)
(* The momentum windows of analytics-engine-py (src/feature_study.py) and  *)
(* their replay by the calibration (scripts/calibrate.py).                 *)
(*                                                                         *)
(* Every live frame of a match extends its window and yields a snapshot,   *)
(* which the filter turns into a verdict.  The ingestor appends the same   *)
(* frame to a stream; the calibration groups the stream into cycles of a   *)
(* match and folds each with a study of its own, to fit the model on what  *)
(* the engine saw.                                                         *)
(*                                                                         *)
(* The two read different clocks: the calibration goes by the time a frame *)
(* was received at, the engine by the time a worker comes to the frame,    *)
(* after Redis and the queue.                                              *)
(*                                                                         *)
(* Abstractions: a frame is published in the instant it is received, and   *)
(* ingestor and engine have the same time; frames are handled in the order *)
(* of the stream; a window is the set of its entries, which carry the      *)
(* number of their frame; a snapshot keeps the frames of the window        *)
(* instead of its start, and the shares of possession instead of their     *)
(* average; score, odds and the features computed from a snapshot are left *)
(* out; the stream is not longer than what the calibration reads.          *)
(***************************************************************************)
EXTENDS Integers, Sequences, FiniteSetsExt

CONSTANTS
  Match,
  Stats,       \* statistics that a frame may carry
  Window,      \* STUDY_WINDOW_SECONDS, in ticks (750 seconds in the code)
  Minute,      \* ticks of an aggregation bucket (60 seconds in the code)
  MaxTicks,    \* bound: ticks of the clock
  MaxFrames,   \* bound: frames
  MaxWaiting,  \* bound: frames that wait for the engine
  MaxFaults    \* bound: frames the engine misses, and its restarts

Counter == {"shots", "shots_on_target", "dangerous_attacks"}
Counts  == [Counter -> Nat]

ASSUME StudyAssumption ==
  /\ Window \in Nat /\ Minute \in Nat \ {0}
  /\ {MaxTicks, MaxFrames, MaxWaiting, MaxFaults} \subseteq Nat /\ Stats # {}
  /\ \A s \in Stats : s.counts \in Counts /\ s.possession \in 0..100

VARIABLES
  now,         \* the clock
  stream,      \* the Redis stream matches:live, never trimmed
  kickoff,     \* kickoff of the cycle under way of every match
  study,       \* the engine's FeatureStudy: _windows and _monotonic
  life,        \* how often the engine was started
  subscribed,  \* frames that were published before it subscribed
  observed,    \* history: when the engine came to a frame, and what it made of it
  faults       \* counter behind MaxFaults

engineVars == <<study, life, subscribed, observed>>
vars == <<now, stream, kickoff, engineVars, faults>>

Frame == [match : Match, kickoff : Nat, clock : {"LIVE", "FULLTIME"}, ts : Nat,
          stats : Stats]
Entry == [frame : Nat, ts : Nat, counts : Counts, possession : 0..100]
Study == [window : SUBSET Entry, monotonic : Counts]
View  == [frames : SUBSET Nat, totals : Counts, shares : SUBSET (Nat \X (0..100))]
Observation == [life : Nat, at : Nat, view : View]

Nothing == [frames |-> {}, totals |-> [c \in Counter |-> 0], shares |-> {}]
Missed  == [life |-> 0, at |-> 0, view |-> Nothing]

TypeOK ==
  /\ now \in Nat /\ life \in Nat \ {0} /\ subscribed \in Nat /\ faults \in Nat
  /\ stream \in Seq(Frame)
  /\ kickoff \in [Match -> Nat]
  /\ study \in [Match -> Study]
  /\ observed \in Seq(Observation)
  /\ Len(observed) <= Len(stream)

-----------------------------------------------------------------------------
(* FeatureStudy for one match, as functions: the engine applies them to    *)
(* its own windows, the calibration to new ones.                           *)

NewStudy == [window |-> {}, monotonic |-> [c \in Counter |-> 0]]

(* Mutant: the counters of a frame are taken as they are.                  *)
Unguarded(monotonic, counts) == counts

(* "A provider reset [...] must not silently rewind the momentum window."  *)
Guarded(monotonic, counts) ==
  [c \in Counter |-> IF counts[c] < monotonic[c] THEN monotonic[c] ELSE counts[c]]

(* The frame is appended, and entries older than the window are pruned.    *)
Extended(s, n, ts, stats) ==
  LET counts == Guarded(s.monotonic, stats.counts)
      entry  == [frame |-> n, ts |-> ts, counts |-> counts,
                 possession |-> stats.possession]
  IN  [window |-> {e \in s.window \cup {entry} : e.ts + Window >= ts},
       monotonic |-> counts]

(* _aggregate: one bucket per minute, with the last possession and the     *)
(* largest counters of its entries.                                        *)
Bucket(e) == e.ts \div Minute

Aggregated(window) ==
  {e \in window : \A o \in window : Bucket(o) = Bucket(e) => o.frame <= e.frame}

(* The counters of a snapshot are the largest of all buckets, which are    *)
(* the largest of all entries; its possession is the average of buckets.   *)
Snapshot(window) ==
  [frames |-> {e.frame : e \in window},
   totals |-> [c \in Counter |-> Max({e.counts[c] : e \in window})],
   shares |-> {<<Bucket(e), e.possession>> : e \in Aggregated(window)}]

(* Mutant: the window of a match that is over is kept.                     *)
KeptOpen(s) == s

(* collect_settled drops the window of the match, and nothing else.        *)
Closed(s) == [s EXCEPT !.window = {}]

-----------------------------------------------------------------------------
Init ==
  /\ now = 0 /\ life = 1 /\ subscribed = 0 /\ faults = 0
  /\ stream = <<>> /\ observed = <<>>
  /\ kickoff = [m \in Match |-> 0]
  /\ study = [m \in Match |-> NewStudy]

Tick ==
  /\ now < MaxTicks
  /\ now' = now + 1
  /\ UNCHANGED <<stream, kickoff, engineVars, faults>>

(* The ingestor appends a frame to the stream and publishes it.            *)
PublishMatch(m, clock, stats) ==
  /\ Len(stream) < MaxFrames /\ Len(stream) < Len(observed) + MaxWaiting
  /\ stream' = Append(stream, [match |-> m, kickoff |-> kickoff[m], clock |-> clock,
                               ts |-> now, stats |-> stats])
  /\ UNCHANGED <<now, kickoff, engineVars, faults>>

(* Nobody reads the statistics of a FULLTIME frame.                        *)
Publish(m) ==
  \/ \E stats \in Stats : PublishMatch(m, "LIVE", stats)
  \/ PublishMatch(m, "FULLTIME", CHOOSE stats \in Stats : TRUE)

(* The match is played again under its identifier: the vendor does so on   *)
(* every connection, at its end or in the middle.                          *)
KickOff(m) ==
  /\ \E i \in DOMAIN stream : stream[i].match = m /\ stream[i].kickoff = kickoff[m]
  /\ kickoff' = [kickoff EXCEPT ![m] = @ + 1]
  /\ UNCHANGED <<now, stream, engineVars, faults>>

(* What frame n makes of study s by the clock of the worker that takes it. *)
After(s, n) ==
  IF stream[n].clock = "LIVE" THEN Extended(s, n, now, stream[n].stats) ELSE Closed(s)

Made(s, n) == IF stream[n].clock = "LIVE" THEN Snapshot(s.window) ELSE Nothing

Observe(n) ==
  /\ n = Len(observed) + 1 /\ n <= Len(stream) /\ subscribed < n
  /\ LET m == stream[n].match
         s == After(study[m], n)
     IN  /\ study' = [study EXCEPT ![m] = s]
         /\ observed' = Append(observed, [life |-> life, at |-> now, view |-> Made(s, n)])
  /\ UNCHANGED <<now, stream, kickoff, life, subscribed, faults>>

(* The frame is lost on its way, the queue is full, or the engine was not  *)
(* there.                                                                  *)
Miss(n) ==
  /\ n = Len(observed) + 1 /\ n <= Len(stream)
  /\ observed' = Append(observed, Missed)
  /\ \/ n <= subscribed /\ UNCHANGED faults
     \/ subscribed < n /\ faults < MaxFaults /\ faults' = faults + 1
  /\ UNCHANGED <<now, stream, kickoff, study, life, subscribed>>

(* What the old engine has not handled is lost with its queue.             *)
Restart ==
  /\ faults < MaxFaults /\ faults' = faults + 1
  /\ life' = life + 1 /\ subscribed' = Len(stream)
  /\ study' = [m \in Match |-> NewStudy]
  /\ UNCHANGED <<now, stream, kickoff, observed>>

Next ==
  \/ Tick \/ Restart
  \/ \E m \in Match : KickOff(m) \/ Publish(m)
  \/ \E n \in DOMAIN stream : Observe(n) \/ Miss(n)

Spec == Init /\ [][Next]_vars

-----------------------------------------------------------------------------
(* The calibration's replay of the stream.                                 *)

(* group_cycles: the frames of one match with one kickoff.                 *)
Cycles == {{j \in DOMAIN stream : stream[j].match = stream[i].match
                                  /\ stream[j].kickoff = stream[i].kickoff}
           : i \in DOMAIN stream}

(* Mutant: one study for the frames of all matches.                        *)
ReplayedTogether(cycle) ==
  LET after[n \in 0..Len(stream)] ==
        IF n = 0 THEN NewStudy
        ELSE IF stream[n].clock = "LIVE"
        THEN Extended(after[n - 1], n, stream[n].ts, stream[n].stats) ELSE after[n - 1]
  IN  [n \in cycle |-> IF stream[n].clock = "LIVE" THEN Snapshot(after[n].window)
                       ELSE Nothing]

(* collect_rows: a new study per cycle; FULLTIME yields no snapshot.       *)
Replayed(cycle) ==
  LET after[n \in 0..Len(stream)] ==
        IF n = 0 THEN NewStudy
        ELSE IF n \in cycle /\ stream[n].clock = "LIVE"
        THEN Extended(after[n - 1], n, stream[n].ts, stream[n].stats) ELSE after[n - 1]
  IN  [n \in cycle |-> IF stream[n].clock = "LIVE" THEN Snapshot(after[n].window)
                       ELSE Nothing]

-----------------------------------------------------------------------------
(* Frames of m that the engine handled in one life, up to frame n.         *)
Handled(m, l, n) == {i \in 1..n : stream[i].match = m /\ observed[i].life = l}

Snapshots == {n \in DOMAIN observed : observed[n].life # 0 /\ stream[n].clock = "LIVE"}

(* The frames that the snapshot of frame n can be about.                   *)
LiveUpTo(n) ==
  {i \in Handled(stream[n].match, observed[n].life, n) : stream[i].clock = "LIVE"}

(* A snapshot reports, of every counter, the largest value the engine has  *)
(* seen of the match: neither a provider reset nor the pruning of old      *)
(* entries rewinds it, and no attack is counted twice                      *)
(* (feature_study.py:160-162, :199-205).                                   *)
TotalsAreLargestSeen ==
  \A n \in Snapshots, c \in Counter :
    /\ \A i \in LiveUpTo(n) : stream[i].stats.counts[c] <= observed[n].view.totals[c]
    /\ \E i \in LiveUpTo(n) : stream[i].stats.counts[c] = observed[n].view.totals[c]

(* Shot accuracy is a ratio: if no frame has more shots on target than     *)
(* shots, no snapshot has, although each counter is guarded on its own     *)
(* (feature_study.py:166-180, :301-304).                                   *)
AccuracyIsARatio ==
  (\A i \in DOMAIN stream :
     stream[i].stats.counts["shots_on_target"] <= stream[i].stats.counts["shots"])
  => \A n \in Snapshots :
       observed[n].view.totals["shots_on_target"] <= observed[n].view.totals["shots"]

(* A window is of one match and one cycle: nothing in it is older than the *)
(* last FULLTIME frame of the match that the engine handled                *)
(* (feature_study.py:3, :246-247).                                         *)
WindowSinceFullTime ==
  \A n \in Snapshots : \A j \in observed[n].view.frames :
    /\ j \in LiveUpTo(n)
    /\ \A i \in Handled(stream[n].match, observed[n].life, n) :
         stream[i].clock = "FULLTIME" => i < j

(* A complete cycle: the engine handled all of its frames in one life, and *)
(* the last of them is the only FULLTIME frame.                            *)
Whole(cycle) ==
  /\ cycle \subseteq DOMAIN observed
  /\ \E l \in 1..life : \A i \in cycle : observed[i].life = l
  /\ \A i \in cycle : stream[i].clock = "FULLTIME" <=> \A j \in cycle : j <= i

Earlier(cycle) ==
  {i \in DOMAIN observed : \E j \in cycle :
     /\ stream[i].match = stream[j].match /\ stream[i].kickoff < stream[j].kickoff
     /\ observed[i].life = observed[j].life}

Seen(cycle) == [n \in cycle |-> observed[n].view]

(* The delay between the receipt of a frame and its handling moves no      *)
(* entry over the edge of a minute or of a window.                         *)
Undisturbed(cycle) ==
  \A i, j \in cycle :
    /\ observed[i].at \div Minute = stream[i].ts \div Minute
    /\ observed[i].at + Window >= observed[j].at <=> stream[i].ts + Window >= stream[j].ts

(* The replay of the first cycle of a match in the life of an engine has   *)
(* the counters the engine saw, however long frames wait and whatever      *)
(* other matches are played next to it.  It has exactly the windows the    *)
(* engine saw only if no delay moves a frame over an edge: the README says *)
(* (src/README.md:92-95) that it always has, but main.py:157 lets the      *)
(* engine go by its own clock (calibrate.py:186-229, feature_study.py:157, *)
(* :196, :277).                                                            *)
FirstCycleReplays ==
  \A cycle \in Cycles : Whole(cycle) /\ Earlier(cycle) = {} =>
    /\ \A n \in cycle : Replayed(cycle)[n].totals = Seen(cycle)[n].totals
    /\ Undisturbed(cycle) => Replayed(cycle) = Seen(cycle)
=============================================================================
