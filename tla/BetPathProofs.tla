--------------------------- MODULE BetPathProofs ---------------------------
(***************************************************************************)
(* Proofs about BetPath: the momentum windows, for every set of matches    *)
(* and statistics and every length of a window; the verdict of the trigger *)
(* rule; and what holds of engine and executor together.                   *)
(*                                                                         *)
(* The rule is arithmetic: of two legs the one with the larger edge is     *)
(* kept, edges are fractions over the prices, and the order of fractions   *)
(* is transitive because a price that is eligible is not zero.             *)
(***************************************************************************)
EXTENDS BetPath, SequenceTheorems, FiniteSetTheorems, NaturalsInduction, WellFoundedInduction,
        TLAPS

-----------------------------------------------------------------------------
(* The momentum windows.                                                   *)

(* Live frames of m that the engine handled in its present life.           *)
Present(m) == {i \in Handled(m, life, Len(observed)) : stream[i].clock = "LIVE"}

(* A window holds present frames, all of them after the last FULLTIME.     *)
WindowSound ==
  \A m \in Match : \A e \in study[m].window :
    /\ e.frame \in Present(m)
    /\ \A i \in Handled(m, life, Len(observed)) : stream[i].clock = "FULLTIME" => i < e.frame
    /\ \A c \in Counter : e.counts[c] <= study[m].monotonic[c]

(* The guard remembers the largest value of every counter.                 *)
GuardSound ==
  \A m \in Match, c \in Counter :
    /\ \A i \in Present(m) : stream[i].stats.counts[c] <= study[m].monotonic[c]
    /\ study[m].monotonic[c] = 0
       \/ \E i \in Present(m) : stream[i].stats.counts[c] = study[m].monotonic[c]

LivesKnown == \A i \in 1..Len(observed) : observed[i].life <= life

IInv ==
  /\ TypeOK /\ LivesKnown /\ WindowSound /\ GuardSound
  /\ TotalsAreLargestSeen /\ WindowSinceFullTime

LEMMA InitInv == Init => IInv
<1> SUFFICES ASSUME Init PROVE IInv
  OBVIOUS
<1> USE DEF Init
<1>1. /\ Len(stream) = 0 /\ Len(observed) = 0
      /\ \A T : stream \in Seq(T) /\ observed \in Seq(T)
  BY EmptySeq
<1>2. TypeOK
  BY <1>1 DEF TypeOK, Study, NewStudy, Counts
<1>3. Snapshots = {} /\ \A m \in Match : Present(m) = {}
  BY <1>1 DEF Snapshots, Present, Handled
<1>4. LivesKnown
  BY <1>1 DEF LivesKnown
<1>5. WindowSound /\ GuardSound
  BY <1>3 DEF WindowSound, GuardSound, NewStudy
<1>6. TotalsAreLargestSeen /\ WindowSinceFullTime
  BY <1>3 DEF TotalsAreLargestSeen, WindowSinceFullTime
<1> QED BY <1>2, <1>4, <1>5, <1>6 DEF IInv

-----------------------------------------------------------------------------
(* The guard returns the larger of what it remembers and what it is given. *)
LEMMA GuardedFacts ==
  ASSUME NEW monotonic \in Counts, NEW counts \in Counts
  PROVE  /\ Guarded(monotonic, counts) \in Counts
         /\ \A c \in Counter :
              LET g == Guarded(monotonic, counts)[c]
              IN  /\ counts[c] <= g /\ monotonic[c] <= g
                  /\ g = counts[c] \/ (g = monotonic[c] /\ g # 0)
BY DEF Guarded, Counts

LEMMA MaxFacts ==
  ASSUME NEW S, NEW m \in S, \A v \in S : v \in Nat /\ v <= m
  PROVE  Max(S) = m
<1>1. \A v \in S : (\A y \in S : v >= y) => v = m
  OBVIOUS
<1>2. \A y \in S : m >= y
  OBVIOUS
<1> QED BY <1>1, <1>2 DEF Max

(* No entry of a window is above what the guard remembers.                *)
UnderGuard(w) == \A e \in w.window, c \in Counter : e.counts[c] <= w.monotonic[c]

(* What a frame n with statistics of a match makes of the window s.        *)
Grown(s, n, stats, x) ==
  /\ x \in Study
  /\ x.monotonic = Guarded(s.monotonic, stats.counts)
  /\ \A e \in x.window : e \in s.window \/ e.frame = n
  /\ UnderGuard(x)
  /\ Snapshot(x.window) \in View
  /\ Snapshot(x.window).totals = x.monotonic

(* An extended window holds the new frame and entries it held before; the  *)
(* totals of its snapshot are what the guard remembers.                    *)
LEMMA ExtendedFacts ==
  ASSUME NEW s \in Study, NEW n \in Nat, NEW ts \in Nat, NEW stats \in Stats,
         UnderGuard(s), NEW x, x = Extended(s, n, ts, stats)
  PROVE  Grown(s, n, stats, x)
<1> DEFINE g == Guarded(s.monotonic, stats.counts)
           new == [frame |-> n, ts |-> ts, counts |-> g, possession |-> stats.possession]
<1>1. /\ s.window \subseteq Entry /\ s.monotonic \in Counts
      /\ stats.counts \in Counts /\ stats.possession \in 0..100 /\ Window \in Nat
  BY StudyAssumption DEF Study
<1>2. g \in Counts /\ \A c \in Counter : s.monotonic[c] <= g[c]
  BY <1>1, GuardedFacts
<1> HIDE DEF g
<1>3. new \in Entry /\ new.frame = n /\ new.counts = g /\ new.ts = ts
  BY <1>1, <1>2 DEF Entry
<1> HIDE DEF new
<1>4. /\ x = [window |-> {e \in s.window \cup {new} : e.ts + Window >= ts}, monotonic |-> g]
  BY DEF Extended, g, new
<1>5. /\ x.window = {e \in s.window \cup {new} : e.ts + Window >= ts} /\ x.monotonic = g
      /\ new \in x.window /\ x.window \subseteq Entry
  BY <1>1, <1>3, <1>4
<1>6. x \in Study
  BY <1>2, <1>4, <1>5 DEF Study
<1>7. \A e \in x.window : e \in s.window \/ e.frame = n
  BY <1>3, <1>5
<1>8. \A e \in x.window, c \in Counter : e.counts[c] <= g[c]
  <2> SUFFICES ASSUME NEW e \in x.window, NEW c \in Counter PROVE e.counts[c] <= g[c]
    OBVIOUS
  <2>1. CASE e = new
    BY <1>2, <1>3, <2>1 DEF Counts
  <2>2. CASE e \in s.window
    <3>1. e.counts[c] <= s.monotonic[c] /\ s.monotonic[c] <= g[c]
      BY <1>2, <2>2 DEF UnderGuard
    <3>2. e.counts[c] \in Nat /\ s.monotonic[c] \in Nat /\ g[c] \in Nat
      BY <1>1, <1>2, <2>2 DEF Entry, Counts
    <3> QED BY <3>1, <3>2
  <2> QED BY <1>5, <2>1, <2>2
<1>9. [c \in Counter |-> Max({e.counts[c] : e \in x.window})] = g
  <2> SUFFICES ASSUME NEW c \in Counter PROVE Max({e.counts[c] : e \in x.window}) = g[c]
    BY <1>2 DEF Counts
  <2>1. g[c] \in {e.counts[c] : e \in x.window}
    BY <1>3, <1>5
  <2>2. \A v \in {e.counts[c] : e \in x.window} : v \in Nat /\ v <= g[c]
    BY <1>5, <1>8 DEF Entry, Counts
  <2> HIDE DEF g
  <2> QED BY <2>1, <2>2, MaxFacts
<1>10. {<<Bucket(e), e.possession>> : e \in Aggregated(x.window)} \subseteq Nat \X (0..100)
  <2>1. \A e \in Aggregated(x.window) : Bucket(e) \in Nat /\ e.possession \in 0..100
    BY <1>5, StudyAssumption DEF Aggregated, Bucket, Entry
  <2> QED BY <2>1
<1>11. {e.frame : e \in x.window} \subseteq Nat
  BY <1>5 DEF Entry
<1>12. Snapshot(x.window) \in View /\ Snapshot(x.window).totals = g
  BY <1>2, <1>9, <1>10, <1>11 DEF Snapshot, View
<1> QED BY <1>5, <1>6, <1>7, <1>8, <1>12 DEF Grown, UnderGuard, g

-----------------------------------------------------------------------------
(* The engine comes to the next frame, and makes o of it.                  *)
Came(o) ==
  /\ Len(observed) < Len(stream) /\ UNCHANGED stream
  /\ observed' = Append(observed, o) /\ o \in Observation

LEMMA CameFacts ==
  ASSUME TypeOK, NEW o, Came(o)
  PROVE  LET N == Len(observed)
         IN  /\ N \in Nat /\ N + 1 \in Nat /\ stream[N + 1] \in Frame
             /\ DOMAIN observed = 1..N /\ DOMAIN observed' = 1..(N + 1)
             /\ observed' \in Seq(Observation) /\ Len(observed') = N + 1
             /\ \A i \in 1..N : observed'[i] = observed[i]
             /\ observed'[N + 1] = o
             /\ stream' = stream /\ N + 1 <= Len(stream) /\ Len(stream) \in Nat
<1> USE DEF TypeOK, Came
<1>1. /\ Len(observed) \in Nat /\ DOMAIN observed = 1..Len(observed)
      /\ Len(stream) \in Nat /\ Len(observed) + 1 <= Len(stream)
  BY LenProperties
<1>2. stream[Len(observed) + 1] \in Frame
  BY <1>1, ElementOfSeq
<1>3. /\ observed' \in Seq(Observation) /\ Len(observed') = Len(observed) + 1
      /\ \A i \in 1..Len(observed) : observed'[i] = observed[i]
      /\ observed'[Len(observed) + 1] = o
  BY AppendProperties
<1>4. DOMAIN observed' = 1..(Len(observed) + 1)
  BY <1>3, LenProperties
<1> QED BY <1>1, <1>2, <1>3, <1>4

(* What the history says of the earlier frames does not change.            *)
LEMMA HistoryKept ==
  ASSUME TypeOK, NEW o, Came(o)
  PROVE  /\ \A n \in 1..Len(observed) : \A m, l : Handled(m, l, n)' = Handled(m, l, n)
         /\ \A n \in 1..Len(observed) :
              /\ LiveUpTo(n)' = LiveUpTo(n)
              /\ n \in Snapshots' <=> n \in Snapshots
<1> DEFINE N == Len(observed)
<1>1. /\ N \in Nat /\ DOMAIN observed = 1..N /\ DOMAIN observed' = 1..(N + 1)
      /\ stream' = stream /\ \A i \in 1..N : observed'[i] = observed[i]
  BY CameFacts
<1> HIDE DEF N
<1>2. ASSUME NEW n \in 1..N, NEW m, NEW l
      PROVE  Handled(m, l, n)' = Handled(m, l, n)
  <2>1. \A i \in 1..n : i \in 1..N
    BY <1>1
  <2> QED BY <1>1, <2>1 DEF Handled
<1>3. ASSUME NEW n \in 1..N
      PROVE  LiveUpTo(n)' = LiveUpTo(n)
  <2>1. \A i \in 1..n : observed'[i] = observed[i]
    BY <1>1
  <2>2. observed'[n] = observed[n] /\ stream' = stream
    BY <1>1
  <2> QED BY <2>1, <2>2 DEF LiveUpTo, Handled
<1>4. ASSUME NEW n \in 1..N
      PROVE  n \in Snapshots' <=> n \in Snapshots
  BY <1>1 DEF Snapshots
<1> QED BY <1>2, <1>3, <1>4 DEF N

(* The last frame is handled in the present life, or in none.              *)
LEMMA HandledNext ==
  ASSUME TypeOK, NEW o, Came(o), NEW f, f = stream[Len(observed) + 1], life' = life
  PROVE  \A m \in Match :
           /\ Handled(m, life, Len(observed))' =
                Handled(m, life, Len(observed)) \cup
                  (IF f.match = m /\ o.life = life THEN {Len(observed) + 1} ELSE {})
           /\ Present(m)' = Present(m) \cup
                (IF f.match = m /\ o.life = life /\ f.clock = "LIVE"
                 THEN {Len(observed) + 1} ELSE {})
<1> DEFINE N == Len(observed)
<1>1. /\ N \in Nat /\ Len(observed') = N + 1
      /\ stream' = stream /\ \A i \in 1..N : observed'[i] = observed[i]
      /\ stream[N + 1] = f /\ observed'[N + 1] = o
  BY CameFacts
<1> HIDE DEF N
<1>2. \A i : i \in 1..(N + 1) <=> i \in 1..N \/ i = N + 1
  BY <1>1
<1> SUFFICES ASSUME NEW m \in Match
             PROVE  /\ Handled(m, life, N)' = Handled(m, life, N) \cup
                         (IF f.match = m /\ o.life = life THEN {N + 1} ELSE {})
                    /\ Present(m)' = Present(m) \cup
                         (IF f.match = m /\ o.life = life /\ f.clock = "LIVE"
                          THEN {N + 1} ELSE {})
  BY DEF N
<1>3. Handled(m, life, N)' = {i \in 1..(N + 1) : stream[i].match = m /\ observed'[i].life = life}
  BY <1>1 DEF Handled, N
<1>4. Handled(m, life, N)' = Handled(m, life, N) \cup
        (IF f.match = m /\ o.life = life THEN {N + 1} ELSE {})
  BY <1>1, <1>2, <1>3 DEF Handled
<1>5. Present(m)' = {i \in Handled(m, life, N)' : stream[i].clock = "LIVE"}
  BY <1>1 DEF Present, N
<1> QED BY <1>1, <1>4, <1>5 DEF Present, N

(* The properties of earlier snapshots are kept; what is left to show is   *)
(* the snapshot of the new frame, if there is one.                         *)
LEMMA SnapshotsNext ==
  ASSUME IInv, NEW o, Came(o), NEW N, N = Len(observed), NEW f, f = stream[N + 1],
         o.life # 0 /\ f.clock = "LIVE" =>
           /\ \A c \in Counter :
                /\ \A i \in LiveUpTo(N + 1)' :
                     stream[i].stats.counts[c] <= o.view.totals[c]
                /\ \E i \in LiveUpTo(N + 1)' :
                     stream[i].stats.counts[c] = o.view.totals[c]
           /\ \A j \in o.view.frames :
                /\ j \in LiveUpTo(N + 1)'
                /\ \A i \in Handled(f.match, o.life, N + 1)' :
                     stream[i].clock = "FULLTIME" => i < j
  PROVE  TotalsAreLargestSeen' /\ WindowSinceFullTime'
<1> USE DEF IInv
<1>1. /\ N \in Nat /\ DOMAIN observed = 1..N /\ DOMAIN observed' = 1..(N + 1)
      /\ stream' = stream /\ \A i \in 1..N : observed'[i] = observed[i]
      /\ stream[N + 1] = f /\ observed'[N + 1] = o
  BY CameFacts
<1>2. /\ \A n \in 1..N : \A m, l : Handled(m, l, n)' = Handled(m, l, n)
      /\ \A n \in 1..N : LiveUpTo(n)' = LiveUpTo(n) /\ (n \in Snapshots' <=> n \in Snapshots)
  BY HistoryKept
<1>4. N + 1 \in Snapshots' <=> o.life # 0 /\ f.clock = "LIVE"
  BY <1>1 DEF Snapshots
<1>5. \A n \in Snapshots' : n \in 1..N \/ n = N + 1
  BY <1>1 DEF Snapshots
<1>7. TotalsAreLargestSeen'
  <2> SUFFICES ASSUME NEW n \in Snapshots', NEW c \in Counter
               PROVE  /\ \A i \in LiveUpTo(n)' :
                           stream[i].stats.counts[c] <= observed'[n].view.totals[c]
                      /\ \E i \in LiveUpTo(n)' :
                           stream[i].stats.counts[c] = observed'[n].view.totals[c]
    BY <1>1 DEF TotalsAreLargestSeen
  <2>1. CASE n \in 1..N
    <3>1. n \in Snapshots /\ observed'[n] = observed[n] /\ LiveUpTo(n)' = LiveUpTo(n)
      BY <1>1, <1>2, <2>1
    <3>2. /\ \A i \in LiveUpTo(n) : stream[i].stats.counts[c] <= observed[n].view.totals[c]
          /\ \E i \in LiveUpTo(n) : stream[i].stats.counts[c] = observed[n].view.totals[c]
      BY <3>1 DEF TotalsAreLargestSeen
    <3> QED BY <3>1, <3>2
  <2>2. CASE n = N + 1
    BY <1>1, <1>4, <2>2
  <2> QED BY <1>5, <2>1, <2>2
<1>8. WindowSinceFullTime'
  <2> SUFFICES ASSUME NEW n \in Snapshots', NEW j \in observed'[n].view.frames
               PROVE  /\ j \in LiveUpTo(n)'
                      /\ \A i \in (Handled(stream[n].match, observed[n].life, n))' :
                           stream[i].clock = "FULLTIME" => i < j
    BY <1>1 DEF WindowSinceFullTime
  <2>1. CASE n \in 1..N
    <3>1. n \in Snapshots /\ j \in observed[n].view.frames /\ LiveUpTo(n)' = LiveUpTo(n)
      BY <1>1, <1>2, <2>1
    <3>2. (Handled(stream[n].match, observed[n].life, n))' =
            Handled(stream[n].match, observed[n].life, n)
      <4>1. /\ stream' = stream /\ observed'[n] = observed[n]
            /\ \A i \in 1..n : observed'[i] = observed[i]
        BY <1>1, <2>1
      <4> QED BY <4>1 DEF Handled
    <3> QED BY <3>1, <3>2 DEF WindowSinceFullTime
  <2>2. CASE n = N + 1
    <3>1. (Handled(stream[n].match, observed[n].life, n))' =
            Handled(f.match, o.life, N + 1)'
      BY <1>1, <2>2 DEF Handled
    <3> QED BY <1>1, <1>4, <2>2, <3>1
  <2> QED BY <1>5, <2>1, <2>2
<1> QED BY <1>7, <1>8

-----------------------------------------------------------------------------
(* A frame that the engine misses is no part of any life.                  *)
LEMMA MissedInv ==
  ASSUME IInv, Came(Missed), faults' \in Nat,
         UNCHANGED <<now, kickoff, study, life, subscribed>>
  PROVE  IInv'
<1> USE DEF IInv
<1>1. PICK N : N = Len(observed)
  OBVIOUS
<1>2. PICK o : Came(o) /\ o.life = 0 /\ life # 0 /\ life \in Nat
  BY DEF TypeOK, Missed
<1>3. /\ N \in Nat /\ N + 1 \in Nat /\ Len(observed') = N + 1 /\ N + 1 <= Len(stream)
      /\ stream' = stream /\ observed' \in Seq(Observation)
      /\ \A i \in 1..N : observed'[i] = observed[i]
      /\ observed'[N + 1] = o
  BY <1>1, <1>2, CameFacts
<1>4. \A m \in Match : /\ Handled(m, life, Len(observed))' = Handled(m, life, Len(observed))
                       /\ Present(m)' = Present(m)
  <2>1. life' = life
    OBVIOUS
  <2> QED BY <1>2, <2>1, HandledNext
<1>5. TypeOK'
  BY <1>3 DEF TypeOK
<1>6. LivesKnown'
  <2>1. \A i : i \in 1..(N + 1) => i \in 1..N \/ i = N + 1
    BY <1>3
  <2>2. \A i \in 1..N : observed[i].life <= life
    BY <1>1 DEF LivesKnown
  <2> QED BY <1>2, <1>3, <2>1, <2>2 DEF LivesKnown
<1>7. WindowSound' /\ GuardSound'
  BY <1>3, <1>4 DEF WindowSound, GuardSound
<1>8. TotalsAreLargestSeen' /\ WindowSinceFullTime'
  BY <1>1, <1>2, SnapshotsNext
<1> QED BY <1>5, <1>6, <1>7, <1>8

(* A FULLTIME frame empties the window of its match.                       *)
LEMMA SettledInv ==
  ASSUME IInv, NEW m \in Match, NEW f, f = stream[Len(observed) + 1],
         f.match = m, f.clock = "FULLTIME",
         Came([life |-> life, at |-> now, view |-> Nothing]),
         study' = [study EXCEPT ![m] = Closed(study[m])],
         UNCHANGED <<now, kickoff, life, subscribed, faults>>
  PROVE  IInv'
<1> USE DEF IInv
<1>1. PICK N : N = Len(observed)
  OBVIOUS
<1>2. PICK o : Came(o) /\ o.life = life /\ life # 0 /\ life \in Nat
  BY DEF TypeOK
<1>3. /\ N \in Nat /\ N + 1 \in Nat /\ Len(observed') = N + 1 /\ N + 1 <= Len(stream)
      /\ stream' = stream /\ observed' \in Seq(Observation)
      /\ \A i \in 1..N : observed'[i] = observed[i]
      /\ observed'[N + 1] = o
  BY <1>1, <1>2, CameFacts
<1>4. \A x \in Match :
        /\ Handled(x, life, Len(observed))' =
             Handled(x, life, Len(observed)) \cup (IF m = x THEN {N + 1} ELSE {})
        /\ Present(x)' = Present(x)
  <2>1. TypeOK /\ Came(o) /\ life' = life /\ f.match = m /\ o.life = life
        /\ f.clock # "LIVE" /\ f = stream[Len(observed) + 1]
    BY <1>2
  <2> HIDE DEF IInv
  <2>2. \A x \in Match :
          /\ Handled(x, life, Len(observed))' =
               Handled(x, life, Len(observed)) \cup
                 (IF f.match = x /\ o.life = life THEN {Len(observed) + 1} ELSE {})
          /\ Present(x)' = Present(x) \cup
               (IF f.match = x /\ o.life = life /\ f.clock = "LIVE"
                THEN {Len(observed) + 1} ELSE {})
    BY <2>1, HandledNext
  <2> QED BY <1>1, <2>1, <2>2
<1>5. /\ study' \in [Match -> Study] /\ study'[m].window = {}
      /\ \A x \in Match : /\ study'[x].monotonic = study[x].monotonic
                          /\ x # m => study'[x] = study[x]
  BY DEF TypeOK, Closed, Study
<1>6. TypeOK'
  BY <1>3, <1>5 DEF TypeOK
<1>7. LivesKnown'
  <2>1. \A i : i \in 1..(N + 1) => i \in 1..N \/ i = N + 1
    BY <1>3
  <2>2. \A i \in 1..N : observed[i].life <= life
    BY <1>1 DEF LivesKnown
  <2> QED BY <1>2, <1>3, <2>1, <2>2 DEF LivesKnown
<1>8. WindowSound'
  <2> SUFFICES ASSUME NEW x \in Match, NEW e \in study'[x].window
               PROVE  /\ e.frame \in Present(x)'
                      /\ \A i \in Handled(x, life, Len(observed))' :
                           stream[i].clock = "FULLTIME" => i < e.frame
                      /\ \A c \in Counter : e.counts[c] <= study'[x].monotonic[c]
    BY <1>3 DEF WindowSound
  <2>1. x # m /\ study'[x] = study[x]
    BY <1>5
  <2> QED BY <1>4, <2>1 DEF WindowSound
<1>9. GuardSound'
  BY <1>3, <1>4, <1>5 DEF GuardSound
<1>10. TotalsAreLargestSeen' /\ WindowSinceFullTime'
  BY <1>1, <1>2, SnapshotsNext
<1> QED BY <1>6, <1>7, <1>8, <1>9, <1>10

(* The same for the window of a match, in the state of the engine.         *)
LEMMA NewSnapshot ==
  ASSUME IInv, NEW m \in Match, NEW stats \in Stats,
         NEW s, s = Extended(study[m], Len(observed) + 1, now, stats)
  PROVE  /\ s \in Study /\ s.monotonic = Guarded(study[m].monotonic, stats.counts)
         /\ \A e \in s.window : e \in study[m].window \/ e.frame = Len(observed) + 1
         /\ \A e \in s.window, c \in Counter : e.counts[c] <= s.monotonic[c]
         /\ Snapshot(s.window) \in View
         /\ Snapshot(s.window).totals = s.monotonic
         /\ \A j \in Snapshot(s.window).frames : \E e \in s.window : j = e.frame
<1>1. Len(observed) + 1 \in Nat /\ now \in Nat /\ study[m] \in Study
  BY LenProperties DEF IInv, TypeOK
<1>2. \A e \in study[m].window, c \in Counter : e.counts[c] <= study[m].monotonic[c]
  BY DEF IInv, WindowSound
<1>3. PICK old, n, ts : /\ old = study[m] /\ n = Len(observed) + 1 /\ ts = now
  OBVIOUS
<1>4. /\ old \in Study /\ n \in Nat /\ ts \in Nat /\ s = Extended(old, n, ts, stats)
      /\ UnderGuard(old)
  BY <1>1, <1>2, <1>3 DEF UnderGuard
<1>5. Grown(old, n, stats, s)
  BY <1>4, ExtendedFacts
<1>6. \A j \in Snapshot(s.window).frames : \E e \in s.window : j = e.frame
  BY DEF Snapshot
<1> QED BY <1>3, <1>5, <1>6 DEF Grown, UnderGuard

(* A live frame: what its snapshot says is what the guard remembers, and   *)
(* that is the largest of what was seen and the new value.                 *)
LEMMA ObservedInv ==
  ASSUME IInv, NEW m \in Match, NEW stats \in Stats,
         NEW f, f = stream[Len(observed) + 1], f.match = m, f.clock = "LIVE", f.stats = stats,
         NEW s, s = Extended(study[m], Len(observed) + 1, now, stats),
         Came([life |-> life, at |-> now, view |-> Snapshot(s.window)]),
         study' = [study EXCEPT ![m] = s],
         UNCHANGED <<now, kickoff, life, subscribed, faults>>
  PROVE  IInv'
<1> USE DEF IInv
<1>1. PICK N : N = Len(observed)
  OBVIOUS
<1>2. PICK o :
      /\ Came(o) /\ o.life = life /\ o.view = Snapshot(s.window)
      /\ life # 0 /\ life \in Nat /\ now \in Nat
  BY DEF TypeOK
<1>3. /\ N \in Nat /\ N + 1 \in Nat /\ Len(observed') = N + 1 /\ N + 1 <= Len(stream)
      /\ stream' = stream /\ observed' \in Seq(Observation)
      /\ \A i \in 1..N : observed'[i] = observed[i]
      /\ observed'[N + 1] = o
  BY <1>1, <1>2, CameFacts
<1>4. \A x \in Match :
        /\ Handled(x, life, Len(observed))' =
             Handled(x, life, Len(observed)) \cup (IF m = x THEN {N + 1} ELSE {})
        /\ Present(x)' = Present(x) \cup (IF m = x THEN {N + 1} ELSE {})
  BY <1>1, <1>2, HandledNext
<1>5. study[m] \in Study /\ \A x \in Match : study[x].monotonic \in Counts
  BY DEF TypeOK, Study
<1>6. \A e \in study[m].window, c \in Counter : e.counts[c] <= study[m].monotonic[c]
  BY DEF WindowSound
<1>7. /\ s \in Study /\ s.monotonic = Guarded(study[m].monotonic, stats.counts)
      /\ \A e \in s.window : e \in study[m].window \/ e.frame = N + 1
      /\ \A e \in s.window, c \in Counter : e.counts[c] <= s.monotonic[c]
      /\ o.view.totals = s.monotonic
      /\ \A j \in o.view.frames : \E e \in s.window : j = e.frame
  <2>1. IInv /\ s = Extended(study[m], Len(observed) + 1, now, stats)
    OBVIOUS
  <2> HIDE DEF IInv
  <2>2. /\ s \in Study /\ s.monotonic = Guarded(study[m].monotonic, stats.counts)
        /\ \A e \in s.window : e \in study[m].window \/ e.frame = Len(observed) + 1
        /\ \A e \in s.window, c \in Counter : e.counts[c] <= s.monotonic[c]
        /\ Snapshot(s.window).totals = s.monotonic
        /\ \A j \in Snapshot(s.window).frames : \E e \in s.window : j = e.frame
    BY <2>1, NewSnapshot
  <2> QED BY <1>1, <1>2, <2>2
<1>8. \A c \in Counter :
        /\ stats.counts[c] <= s.monotonic[c] /\ study[m].monotonic[c] <= s.monotonic[c]
        /\ \/ s.monotonic[c] = stats.counts[c]
           \/ s.monotonic[c] = study[m].monotonic[c] /\ s.monotonic[c] # 0
  BY <1>5, <1>7, GuardedFacts, StudyAssumption
<1>9. \A c \in Counter : stats.counts[c] \in Nat /\ s.monotonic[c] \in Nat
                         /\ study[m].monotonic[c] \in Nat
  BY <1>5, <1>7, StudyAssumption DEF Study, Counts
<1>10. study' \in [Match -> Study] /\ study'[m] = s
       /\ \A x \in Match \ {m} : study'[x] = study[x]
  BY <1>7 DEF TypeOK
<1>11. TypeOK'
  BY <1>3, <1>10 DEF TypeOK
<1>12. LivesKnown'
  <2>1. \A i : i \in 1..(N + 1) => i \in 1..N \/ i = N + 1
    BY <1>3
  <2>2. \A i \in 1..N : observed[i].life <= life
    BY <1>1 DEF LivesKnown
  <2> QED BY <1>2, <1>3, <2>1, <2>2 DEF LivesKnown
<1>13. \A x \in Match : \A i \in Handled(x, life, Len(observed)) : i \in 1..N
  BY <1>1, <1>3 DEF Handled
<1>14. \A x \in Match : \A i \in Present(x) : i \in Handled(x, life, Len(observed))
  BY DEF Present
<1>15. WindowSound'
  <2> SUFFICES ASSUME NEW x \in Match, NEW e \in study'[x].window
               PROVE  /\ e.frame \in Present(x)'
                      /\ \A i \in Handled(x, life, Len(observed))' :
                           stream[i].clock = "FULLTIME" => i < e.frame
                      /\ \A c \in Counter : e.counts[c] <= study'[x].monotonic[c]
    BY <1>3 DEF WindowSound
  <2>1. CASE x # m
    BY <1>4, <1>10, <1>13, <2>1 DEF WindowSound
  <2>2. CASE x = m /\ e \in study[m].window
    <3>1. /\ e.frame \in Present(m)
          /\ \A i \in Handled(m, life, Len(observed)) :
               stream[i].clock = "FULLTIME" => i < e.frame
      BY <2>2 DEF WindowSound
    <3>2. e.frame \in Present(x)'
      BY <1>4, <2>2, <3>1
    <3>3. \A c \in Counter : e.counts[c] <= study'[x].monotonic[c]
      BY <1>7, <1>10, <2>2
    <3>4. stream[N + 1].clock # "FULLTIME"
      BY <1>1
    <3>5. \A i \in Handled(x, life, Len(observed))' :
            i \in Handled(m, life, Len(observed)) \/ i = N + 1
      BY <1>4, <2>2
    <3> QED BY <3>1, <3>2, <3>3, <3>4, <3>5
  <2>3. CASE x = m /\ e.frame = N + 1
    <3>1. \A i \in Handled(x, life, Len(observed))' :
            i \in Handled(x, life, Len(observed)) \/ i = N + 1
      BY <1>4, <2>3
    <3>2. \A i \in Handled(x, life, Len(observed)) : i < N + 1
      BY <1>3, <1>13
    <3>3. e.frame \in Present(x)'
      BY <1>4, <2>3
    <3>4. \A c \in Counter : e.counts[c] <= study'[x].monotonic[c]
      BY <1>7, <1>10, <2>3
    <3>5. stream[N + 1].clock # "FULLTIME"
      BY <1>1
    <3> QED BY <2>3, <3>1, <3>2, <3>3, <3>4, <3>5
  <2> QED BY <1>7, <1>10, <2>1, <2>2, <2>3
<1>16. \A c \in Counter :
         /\ \A i \in Present(m)' : stream[i].stats.counts[c] <= s.monotonic[c]
         /\ \E i \in Present(m)' : stream[i].stats.counts[c] = s.monotonic[c]
  <2> SUFFICES ASSUME NEW c \in Counter
               PROVE  /\ \A i \in Present(m)' : stream[i].stats.counts[c] <= s.monotonic[c]
                      /\ \E i \in Present(m)' : stream[i].stats.counts[c] = s.monotonic[c]
    OBVIOUS
  <2>1. \A i \in Present(m) : /\ stream[i].stats.counts[c] \in Nat
                              /\ stream[i].stats.counts[c] <= study[m].monotonic[c]
    <3>1. \A i \in 1..N : stream[i].stats.counts[c] \in Nat
      <4>1. \A i \in 1..N : stream[i] \in Frame
        BY <1>1, <1>3, ElementOfSeq DEF TypeOK
      <4> QED BY <4>1, StudyAssumption DEF Frame, Counts
    <3> QED BY <1>13, <1>14, <3>1 DEF GuardSound
  <2>2. Present(m)' = Present(m) \cup {N + 1} /\ stream[N + 1].stats.counts[c] = stats.counts[c]
    <3>1. Present(m)' = Present(m) \cup {N + 1}
      BY <1>4
    <3>2. stream[N + 1].stats = stats
      BY <1>1
    <3> QED BY <3>1, <3>2
  <2>3. \A i \in Present(m)' : stream[i].stats.counts[c] <= s.monotonic[c]
    BY <1>8, <1>9, <2>1, <2>2
  <2>4. \E i \in Present(m)' : stream[i].stats.counts[c] = s.monotonic[c]
    <3>1. CASE s.monotonic[c] = stats.counts[c]
      BY <2>2, <3>1
    <3>2. CASE s.monotonic[c] = study[m].monotonic[c] /\ s.monotonic[c] # 0
      BY <2>1, <2>2, <3>2 DEF GuardSound
    <3> QED BY <1>8, <3>1, <3>2
  <2> QED BY <2>3, <2>4
<1>17. GuardSound'
  <2> SUFFICES ASSUME NEW x \in Match, NEW c \in Counter
               PROVE  /\ \A i \in Present(x)' : stream[i].stats.counts[c] <= study'[x].monotonic[c]
                      /\ study'[x].monotonic[c] = 0
                         \/ \E i \in Present(x)' :
                              stream[i].stats.counts[c] = study'[x].monotonic[c]
    BY <1>3 DEF GuardSound
  <2>1. CASE x = m
    BY <1>10, <1>16, <2>1
  <2>2. CASE x # m
    BY <1>4, <1>10, <1>13, <1>14, <2>2 DEF GuardSound
  <2> QED BY <2>1, <2>2
<1>18. TotalsAreLargestSeen' /\ WindowSinceFullTime'
  <2>1. Present(m)' = LiveUpTo(N + 1)'
    <3>1. stream'[N + 1].match = m /\ observed'[N + 1].life = life /\ life' = life
      BY <1>1, <1>2, <1>3
    <3>2. Handled(m, life, Len(observed))'
            = (Handled(stream[N + 1].match, observed[N + 1].life, N + 1))'
      BY <1>3, <3>1 DEF Handled
    <3> QED BY <3>2 DEF Present, LiveUpTo
  <2>2. Handled(f.match, o.life, N + 1)' = Handled(m, life, Len(observed))'
    BY <1>2, <1>3 DEF Handled
  <2>3. \A j \in o.view.frames :
          /\ j \in Present(m)'
          /\ \A i \in Handled(m, life, Len(observed))' : stream[i].clock = "FULLTIME" => i < j
    BY <1>3, <1>7, <1>10, <1>15 DEF WindowSound
  <2>4. \A c \in Counter :
          /\ \A i \in LiveUpTo(N + 1)' : stream[i].stats.counts[c] <= o.view.totals[c]
          /\ \E i \in LiveUpTo(N + 1)' : stream[i].stats.counts[c] = o.view.totals[c]
    BY <1>7, <1>16, <2>1
  <2>5. \A j \in o.view.frames :
          /\ j \in LiveUpTo(N + 1)'
          /\ \A i \in Handled(f.match, o.life, N + 1)' :
               stream[i].clock = "FULLTIME" => i < j
    BY <2>1, <2>2, <2>3
  <2> QED BY <1>1, <1>2, <2>4, <2>5, SnapshotsNext
<1> QED BY <1>11, <1>12, <1>15, <1>17, <1>18

-----------------------------------------------------------------------------
(* The clock, a new kickoff and a frame that is published touch nothing    *)
(* the invariant is about.                                                 *)
LEMMA QuietInv ==
  ASSUME IInv, now' \in Nat, kickoff' \in [Match -> Nat],
         stream' \in Seq(Frame), Len(observed) <= Len(stream'),
         \A i \in 1..Len(observed) : stream'[i] = stream[i],
         UNCHANGED <<study, life, subscribed, observed, faults>>
  PROVE  IInv'
<1> USE DEF IInv
<1>1. TypeOK'
  BY DEF TypeOK
<1>2. LivesKnown'
  BY DEF LivesKnown
<1>3. PICK N : N = Len(observed) /\ N \in Nat /\ DOMAIN observed = 1..N
  BY LenProperties DEF TypeOK
<1>4. \A n \in 0..N : \A m, l : Handled(m, l, n)' = Handled(m, l, n)
  <2> SUFFICES ASSUME NEW n \in 0..N, NEW m, NEW l PROVE Handled(m, l, n)' = Handled(m, l, n)
    OBVIOUS
  <2>1. \A i \in 1..n : stream'[i] = stream[i]
    BY <1>3
  <2> QED BY <2>1 DEF Handled
<1>5. \A m, l, n : \A i \in Handled(m, l, n) : i \in 1..n
  BY DEF Handled
<1>6. \A m : /\ Handled(m, life, Len(observed))' = Handled(m, life, Len(observed))
             /\ \A i \in Handled(m, life, Len(observed)) : stream'[i] = stream[i]
  BY <1>3, <1>4, <1>5
<1>7. \A m : /\ Present(m)' = Present(m)
             /\ \A i \in Present(m) : stream'[i] = stream[i]
  BY <1>6 DEF Present
<1>8. WindowSound' /\ GuardSound'
  BY <1>6, <1>7 DEF WindowSound, GuardSound
<1>9. Snapshots' = Snapshots /\ \A n \in Snapshots : n \in 1..N
  BY <1>3 DEF Snapshots
<1>10. ASSUME NEW n \in Snapshots
       PROVE  /\ LiveUpTo(n)' = LiveUpTo(n)
              /\ \A i \in LiveUpTo(n) : stream'[i] = stream[i]
              /\ (Handled(stream[n].match, observed[n].life, n))'
                   = Handled(stream[n].match, observed[n].life, n)
              /\ \A i \in Handled(stream[n].match, observed[n].life, n) :
                   stream'[i] = stream[i]
  <2>1. n \in 0..N /\ stream'[n] = stream[n]
    BY <1>3, <1>9
  <2>2. \A i \in 1..n : stream'[i] = stream[i]
    BY <1>3, <1>9
  <2>3. /\ (Handled(stream[n].match, observed[n].life, n))'
             = Handled(stream[n].match, observed[n].life, n)
        /\ \A i \in Handled(stream[n].match, observed[n].life, n) : stream'[i] = stream[i]
    BY <2>1, <2>2 DEF Handled
  <2>4. LiveUpTo(n)' = LiveUpTo(n) /\ \A i \in LiveUpTo(n) : stream'[i] = stream[i]
    BY <2>1, <2>2 DEF LiveUpTo, Handled
  <2> QED BY <2>1, <2>3, <2>4
<1>11. TotalsAreLargestSeen'
  BY <1>9, <1>10 DEF TotalsAreLargestSeen
<1>12. WindowSinceFullTime'
  <2> SUFFICES ASSUME NEW n \in Snapshots, NEW j \in observed[n].view.frames
               PROVE  /\ j \in LiveUpTo(n)'
                      /\ \A i \in (Handled(stream[n].match, observed[n].life, n))' :
                           stream'[i].clock = "FULLTIME" => i < j
    BY <1>9 DEF WindowSinceFullTime, Handled
  <2> QED BY <1>10 DEF WindowSinceFullTime
<1> QED BY <1>1, <1>2, <1>8, <1>11, <1>12

(* A frame is published: the stream keeps what it has.                     *)
LEMMA PublishInv ==
  ASSUME IInv, NEW m \in Match, Publish(m)
  PROVE  IInv'
<1>1. PICK clock \in {"LIVE", "FULLTIME"}, stats \in Stats : PublishMatch(m, clock, stats)
  BY StudyAssumption DEF Publish
<1>2. PICK f : f = [match |-> m, kickoff |-> kickoff[m], clock |-> clock, ts |-> now,
                    stats |-> stats]
  OBVIOUS
<1>3. f \in Frame /\ stream \in Seq(Frame) /\ now \in Nat /\ kickoff \in [Match -> Nat]
      /\ Len(observed) \in Nat /\ Len(stream) \in Nat /\ Len(observed) <= Len(stream)
  BY <1>2, LenProperties DEF IInv, TypeOK, Frame
<1>4. stream' = Append(stream, f)
  BY <1>1, <1>2 DEF PublishMatch
<1>5. /\ stream' \in Seq(Frame) /\ Len(stream') = Len(stream) + 1
      /\ \A i \in 1..Len(stream) : stream'[i] = stream[i]
  BY <1>3, <1>4, AppendProperties
<1>6. Len(observed) <= Len(stream') /\ \A i \in 1..Len(observed) : stream'[i] = stream[i]
  BY <1>3, <1>5
<1>7. UNCHANGED <<now, kickoff, study, life, subscribed, observed, faults>>
  BY <1>1 DEF PublishMatch, engineVars
<1> QED BY <1>3, <1>5, <1>6, <1>7, QuietInv

(* A new engine has handled nothing and remembers nothing.                 *)
LEMMA RestartInv == IInv /\ Restart => IInv'
<1> SUFFICES ASSUME IInv, Restart PROVE IInv'
  OBVIOUS
<1> USE DEF IInv, Restart
<1>1. TypeOK'
  BY LenProperties DEF TypeOK, NewStudy, Study, Counts
<1>2. \A i \in 1..Len(observed) : observed[i].life \in Nat /\ observed[i].life <= life
  <2>1. \A i \in 1..Len(observed) : observed[i] \in Observation
    BY ElementOfSeq DEF TypeOK
  <2> QED BY <2>1 DEF LivesKnown, Observation
<1>3. LivesKnown'
  BY <1>2 DEF LivesKnown, TypeOK
<1>4. \A i \in 1..Len(observed) : observed[i].life # life'
  BY <1>2 DEF TypeOK
<1>5. \A m \in Match : Handled(m, life, Len(observed))' = {} /\ Present(m)' = {}
  BY <1>4 DEF Present, Handled
<1>6. WindowSound' /\ GuardSound'
  BY <1>5 DEF WindowSound, GuardSound, NewStudy
<1>7. TotalsAreLargestSeen' /\ WindowSinceFullTime'
  BY DEF TotalsAreLargestSeen, WindowSinceFullTime, Snapshots, LiveUpTo, Handled
<1> QED BY <1>1, <1>3, <1>6, <1>7

(* The engine comes to a frame, or misses it.                              *)
LEMMA NothingIsView == Nothing \in View /\ Missed \in Observation
BY DEF Nothing, View, Counts, Missed, Observation

LEMMA ObserveInv ==
  ASSUME IInv, NEW n, Observe(n)
  PROVE  IInv'
<1>1. PICK f : f = stream[n]
  OBVIOUS
<1>2. PICK m : m = f.match
  OBVIOUS
<1>3. n = Len(observed) + 1 /\ n <= Len(stream)
      /\ UNCHANGED <<now, stream, kickoff, life, subscribed, faults>>
  BY DEF Observe
<1>4. f \in Frame /\ Len(observed) < Len(stream)
  <2>1. Len(observed) \in Nat /\ Len(stream) \in Nat /\ stream \in Seq(Frame)
    BY LenProperties DEF IInv, TypeOK
  <2>2. n \in 1..Len(stream) /\ Len(observed) < Len(stream)
    BY <1>3, <2>1
  <2> QED BY <1>1, <2>1, <2>2, ElementOfSeq
<1>5. m \in Match /\ f.clock \in {"LIVE", "FULLTIME"} /\ f.stats \in Stats
  BY <1>2, <1>4 DEF Frame
<1>6. life \in Nat /\ now \in Nat
  BY DEF IInv, TypeOK
<1>7. CASE f.clock = "LIVE"
  <2>1. PICK s : s = Extended(study[m], n, now, f.stats)
    OBVIOUS
  <2>2. /\ study' = [study EXCEPT ![m] = s]
        /\ observed' = Append(observed, [life |-> life, at |-> now,
                                         view |-> Snapshot(s.window)])
    BY <1>1, <1>2, <1>7, <2>1 DEF Observe, After, Made
  <2>3. Snapshot(s.window) \in View
    BY <1>3, <1>5, <2>1, NewSnapshot
  <2>4. Came([life |-> life, at |-> now, view |-> Snapshot(s.window)])
    BY <1>3, <1>4, <1>6, <2>2, <2>3 DEF Came, Observation
  <2> QED BY <1>1, <1>2, <1>3, <1>5, <1>7, <2>1, <2>2, <2>4, ObservedInv
<1>8. CASE f.clock = "FULLTIME"
  <2>1. /\ study' = [study EXCEPT ![m] = Closed(study[m])]
        /\ observed' = Append(observed, [life |-> life, at |-> now, view |-> Nothing])
    BY <1>1, <1>2, <1>8 DEF Observe, After, Made
  <2>2. Came([life |-> life, at |-> now, view |-> Nothing])
    BY <1>3, <1>4, <1>6, <2>1, NothingIsView DEF Came, Observation
  <2> QED BY <1>1, <1>2, <1>3, <1>5, <1>8, <2>1, <2>2, SettledInv
<1> QED BY <1>5, <1>7, <1>8

LEMMA MissInv ==
  ASSUME IInv, NEW n, Miss(n)
  PROVE  IInv'
<1>1. /\ n = Len(observed) + 1 /\ n <= Len(stream) /\ faults' \in Nat
      /\ observed' = Append(observed, Missed)
      /\ UNCHANGED <<now, stream, kickoff, study, life, subscribed>>
  BY DEF Miss, IInv, TypeOK
<1>2. Len(observed) \in Nat /\ Len(stream) \in Nat
  BY LenProperties DEF IInv, TypeOK
<1>3. Len(observed) < Len(stream)
  BY <1>1, <1>2
<1>4. Came(Missed)
  BY <1>1, <1>3, NothingIsView DEF Came
<1> QED BY <1>1, <1>4, MissedInv

(* The invariant is inductive.                                             *)
LEMMA Invariance == Spec => []IInv
<1>1. IInv /\ [Next]_vars => IInv'
  <2> SUFFICES ASSUME IInv, [Next]_vars PROVE IInv'
    OBVIOUS
  <2>1. /\ now \in Nat /\ kickoff \in [Match -> Nat] /\ stream \in Seq(Frame)
        /\ Len(observed) <= Len(stream)
    BY DEF IInv, TypeOK
  <2>2. CASE Tick
    <3>1. now' \in Nat
      BY <2>1, <2>2 DEF Tick
    <3> QED BY <2>1, <2>2, <3>1, QuietInv DEF Tick, engineVars
  <2>3. CASE Restart
    BY <2>3, RestartInv
  <2>4. ASSUME NEW m \in Match, KickOff(m)
        PROVE  IInv'
    <3>1. kickoff' \in [Match -> Nat]
      BY <2>1, <2>4 DEF KickOff
    <3> QED BY <2>1, <2>4, <3>1, QuietInv DEF KickOff, engineVars
  <2>5. ASSUME NEW m \in Match, Publish(m)
        PROVE  IInv'
    BY <2>5, PublishInv
  <2>6. ASSUME NEW n, Observe(n) \/ Miss(n)
        PROVE  IInv'
    BY <2>6, ObserveInv, MissInv
  <2>7. CASE UNCHANGED vars
    BY <2>1, <2>7, QuietInv DEF vars, engineVars
  <2> QED BY <2>2, <2>3, <2>4, <2>5, <2>6, <2>7 DEF Next
<1> QED BY InitInv, <1>1, PTL DEF Spec

(* Every variable keeps its type (feature_study.py:140-268).               *)
THEOREM TypeCorrect == Spec => []TypeOK
<1>1. IInv => TypeOK
  BY DEF IInv
<1> QED BY <1>1, Invariance, PTL

(* Every counter of a snapshot is the largest value the engine has seen of *)
(* its match, whatever resets and pruning do (feature_study.py:160-205).   *)
THEOREM LargestSeen == Spec => []TotalsAreLargestSeen
<1>1. IInv => TotalsAreLargestSeen
  BY DEF IInv
<1> QED BY <1>1, Invariance, PTL

(* No window reaches over a FULLTIME frame of its match or holds a frame   *)
(* of another (feature_study.py:140-148, :246-247).                        *)
THEOREM OneCycleWindows == Spec => []WindowSinceFullTime
<1>1. IInv => WindowSinceFullTime
  BY DEF IInv
<1> QED BY <1>1, Invariance, PTL

(* Guarding each counter on its own keeps their ratio a ratio: the largest *)
(* number of shots on target came with at least as many shots, and those   *)
(* are remembered too (feature_study.py:166-180, :301-304).                *)
THEOREM RatioKept == Spec => []AccuracyIsARatio
<1>1. IInv => AccuracyIsARatio
  <2> SUFFICES ASSUME IInv,
                      \A i \in DOMAIN stream : stream[i].stats.counts["shots_on_target"]
                                              <= stream[i].stats.counts["shots"],
                      NEW n \in Snapshots
               PROVE  observed[n].view.totals["shots_on_target"]
                        <= observed[n].view.totals["shots"]
    BY DEF AccuracyIsARatio
  <2>1. /\ DOMAIN stream = 1..Len(stream) /\ DOMAIN observed = 1..Len(observed)
        /\ Len(observed) \in Nat /\ Len(stream) \in Nat /\ Len(observed) <= Len(stream)
        /\ n \in 1..Len(observed)
    BY LenProperties DEF IInv, TypeOK, Snapshots
  <2>2. \A i \in 1..Len(observed) : stream[i].stats.counts \in Counts
    <3>1. \A i \in 1..Len(observed) : stream[i] \in Frame
      BY <2>1, ElementOfSeq DEF IInv, TypeOK
    <3> QED BY <3>1, StudyAssumption DEF Frame
  <2>3. observed[n].view.totals \in Counts
    <3>1. observed[n] \in Observation
      BY <2>1, ElementOfSeq DEF IInv, TypeOK
    <3> QED BY <3>1 DEF Observation, View
  <2>4. \A i \in LiveUpTo(n) : i \in 1..Len(observed)
    BY <2>1 DEF LiveUpTo, Handled
  <2>5. PICK i \in LiveUpTo(n) : stream[i].stats.counts["shots_on_target"]
                                  = observed[n].view.totals["shots_on_target"]
    BY DEF IInv, TotalsAreLargestSeen, Counter
  <2>6. stream[i].stats.counts["shots"] <= observed[n].view.totals["shots"]
    BY <2>5 DEF IInv, TotalsAreLargestSeen, Counter
  <2>7. stream[i].stats.counts["shots_on_target"] <= stream[i].stats.counts["shots"]
    BY <2>1, <2>4, <2>5
  <2>8. /\ stream[i].stats.counts["shots"] \in Nat
        /\ observed[n].view.totals["shots_on_target"] \in Nat
        /\ observed[n].view.totals["shots"] \in Nat
    BY <2>2, <2>3, <2>4, <2>5 DEF Counts, Counter
  <2> QED BY <2>5, <2>6, <2>7, <2>8
<1> QED BY <1>1, Invariance, PTL
-----------------------------------------------------------------------------
(* The replay of the first cycle.  The engine's study of a match and the   *)
(* calibration's are both folds over frames: of those the engine handled   *)
(* in a life, by its clock, and of those of the cycle, by the ingestor's.  *)

(* g folds the frames of S, as the engine does.                            *)
Folds(g, S) ==
  g = [n \in 0..Len(observed) |->
         IF n = 0 THEN NewStudy
         ELSE IF n \notin S THEN g[n - 1]
         ELSE IF stream[n].clock = "LIVE"
         THEN Extended(g[n - 1], n, observed[n].at, stream[n].stats)
         ELSE Closed(g[n - 1])]

HandledIn(m, l) == Handled(m, l, Len(observed))

SeenAs(g, n) == IF stream[n].clock = "LIVE" THEN Snapshot(g[n].window) ELSE Nothing

(* What the engine saw in a life, and its study in the present one.        *)
EngineFolds ==
  \A m \in Match, l \in 1..life :
    \E g : /\ Folds(g, HandledIn(m, l))
           /\ \A n \in HandledIn(m, l) : observed[n].view = SeenAs(g, n)
           /\ l = life => study[m] = g[Len(observed)]

(* The cycles of a match do not overlap.                                   *)
KickoffsGrow ==
  \A i, j \in 1..Len(stream) :
    /\ stream[i].kickoff <= kickoff[stream[i].match]
    /\ stream[i].match = stream[j].match /\ i < j => stream[i].kickoff <= stream[j].kickoff

ReplayInv == EngineFolds /\ KickoffsGrow

(* What frame n makes of study s, if it is one of T.                       *)
Gone(s, n, T, at) ==
  IF n \notin T THEN s
  ELSE IF stream[n].clock = "LIVE" THEN Extended(s, n, at, stream[n].stats)
  ELSE Closed(s)

(* A fold goes on with one more frame.                                     *)
LEMMA FoldsNext ==
  ASSUME TypeOK, NEW o, Came(o), NEW N, N = Len(observed),
         NEW S \in SUBSET (1..N), NEW g, Folds(g, S), NEW T, T \in {S, S \cup {N + 1}},
         NEW x, x = Gone(g[N], N + 1, T, o.at),
         NEW h, h = [n \in 0..(N + 1) |-> IF n <= N THEN g[n] ELSE x]
  PROVE  /\ Folds(h, T)'
         /\ \A n \in 1..N : SeenAs(h, n)' = SeenAs(g, n)
         /\ h[N + 1] = x
<1>1. /\ N \in Nat /\ Len(observed') = N + 1
      /\ stream' = stream /\ \A i \in 1..N : observed'[i] = observed[i]
      /\ observed'[N + 1] = o
  BY CameFacts
<1>2. \A n \in 0..N : g[n] = IF n = 0 THEN NewStudy
                             ELSE IF n \notin S THEN g[n - 1]
                             ELSE IF stream[n].clock = "LIVE"
                             THEN Extended(g[n - 1], n, observed[n].at, stream[n].stats)
                             ELSE Closed(g[n - 1])
  BY DEF Folds
<1>3. /\ h = [n \in 0..(N + 1) |-> IF n <= N THEN g[n] ELSE x]
      /\ \A n \in 0..N : h[n] = g[n]
      /\ h[N + 1] = x
  BY <1>1
<1>4. \A n \in 0..N : n \in S <=> n \in T
  BY <1>1
<1>5. \A n \in 0..(N + 1) :
        h[n] = IF n = 0 THEN NewStudy
               ELSE IF n \notin T THEN h[n - 1]
               ELSE IF stream[n].clock = "LIVE"
               THEN Extended(h[n - 1], n, observed'[n].at, stream[n].stats)
               ELSE Closed(h[n - 1])
  <2> SUFFICES ASSUME NEW n \in 0..(N + 1)
               PROVE  h[n] = IF n = 0 THEN NewStudy
                             ELSE IF n \notin T THEN h[n - 1]
                             ELSE IF stream[n].clock = "LIVE"
                             THEN Extended(h[n - 1], n, observed'[n].at, stream[n].stats)
                             ELSE Closed(h[n - 1])
    OBVIOUS
  <2>1. CASE n = 0
    BY <1>1, <1>2, <1>3, <2>1
  <2>2. CASE n \in 1..N
    <3>1. n - 1 \in 0..N /\ n # 0 /\ n \in 0..N
      BY <1>1, <2>2
    <3>2. h[n] = g[n] /\ h[n - 1] = g[n - 1] /\ observed'[n] = observed[n]
      BY <1>1, <1>3, <2>2, <3>1
    <3> QED BY <1>2, <1>4, <3>1, <3>2
  <2>3. CASE n = N + 1
    <3>1. n - 1 = N /\ n # 0 /\ h[n - 1] = g[N]
      BY <1>1, <1>3, <2>3
    <3> QED BY <1>1, <1>3, <2>3, <3>1 DEF Gone
  <2> QED BY <1>1, <2>1, <2>2, <2>3
<1>6. Folds(h, T)'
  BY <1>1, <1>3, <1>5 DEF Folds
<1>7. \A n \in 1..N : SeenAs(h, n)' = SeenAs(g, n)
  BY <1>1, <1>3 DEF SeenAs
<1> QED BY <1>3, <1>6, <1>7

(* The engine comes to one more frame, or misses it.                       *)
LEMMA FoldedNext ==
  ASSUME TypeOK, EngineFolds, NEW m \in Match, NEW o, Came(o),
         NEW f, f = stream[Len(observed) + 1], f.match = m,
         UNCHANGED life, NEW s,
         \/ o.life = 0 /\ UNCHANGED study
         \/ /\ o.life = life
            /\ s = IF f.clock = "LIVE"
                   THEN Extended(study[m], Len(observed) + 1, o.at, f.stats)
                   ELSE Closed(study[m])
            /\ study' = [study EXCEPT ![m] = s]
            /\ o.view = IF f.clock = "LIVE" THEN Snapshot(s.window) ELSE Nothing
  PROVE  EngineFolds'
<1> SUFFICES ASSUME NEW x \in Match, NEW l \in 1..life
             PROVE  \E g : /\ Folds(g, HandledIn(x, l))'
                           /\ \A n \in HandledIn(x, l)' : observed'[n].view = SeenAs(g, n)'
                           /\ l = life => study'[x] = g[Len(observed')]
  BY DEF EngineFolds
<1>1. PICK N : N = Len(observed)
  OBVIOUS
<1>2. /\ N \in Nat /\ Len(observed') = N + 1 /\ life \in Nat \ {0}
      /\ stream' = stream /\ \A i \in 1..N : observed'[i] = observed[i]
      /\ stream[N + 1] = f /\ observed'[N + 1] = o
  BY <1>1, CameFacts DEF TypeOK
<1>3. PICK S : S = HandledIn(x, l)
  OBVIOUS
<1>4. PICK T : T = HandledIn(x, l)'
  OBVIOUS
<1>5. /\ S \in SUBSET (1..N)
      /\ T = S \cup (IF m = x /\ o.life = l THEN {N + 1} ELSE {})
  <2>1. S = {i \in 1..N : stream[i].match = x /\ observed[i].life = l}
    BY <1>1, <1>3 DEF HandledIn, Handled
  <2>2. T = {i \in 1..(N + 1) : stream[i].match = x /\ observed'[i].life = l}
    BY <1>2, <1>4 DEF HandledIn, Handled
  <2>3. \A i : i \in 1..(N + 1) <=> i \in 1..N \/ i = N + 1
    BY <1>2
  <2> QED BY <1>2, <2>1, <2>2, <2>3
<1>6. PICK g : /\ Folds(g, S)
               /\ \A n \in S : observed[n].view = SeenAs(g, n)
               /\ l = life => study[x] = g[N]
  BY <1>1, <1>3 DEF EngineFolds
<1>7. PICK y : y = Gone(g[N], N + 1, T, o.at)
  OBVIOUS
<1>8. PICK h : h = [n \in 0..(N + 1) |-> IF n <= N THEN g[n] ELSE y]
  OBVIOUS
<1>9. /\ Folds(h, T)'
      /\ \A n \in 1..N : SeenAs(h, n)' = SeenAs(g, n)
      /\ h[N + 1] = y
  <2>1. T \in {S, S \cup {N + 1}}
    BY <1>5
  <2>2. S \in SUBSET (1..N) /\ Folds(g, S)
    BY <1>1, <1>5, <1>6
  <2> QED BY <1>1, <1>7, <1>8, <2>1, <2>2, FoldsNext
<1>10. N + 1 \notin S /\ (N + 1 \in T <=> m = x /\ o.life = l)
  BY <1>2, <1>5
<1>11. N + 1 \in T => /\ l = life /\ y = s /\ study'[x] = s
                      /\ o.view = IF f.clock = "LIVE" THEN Snapshot(s.window) ELSE Nothing
  BY <1>1, <1>2, <1>6, <1>7, <1>10 DEF TypeOK, Gone
<1>12. l = life => study'[x] = h[N + 1]
  <2>1. CASE N + 1 \in T
    BY <1>9, <1>11, <2>1
  <2>2. CASE N + 1 \notin T
    <3>1. l = life => study'[x] = study[x]
      BY <1>10, <2>2 DEF TypeOK
    <3> QED BY <1>6, <1>7, <1>9, <2>2, <3>1 DEF Gone
  <2> QED BY <2>1, <2>2
<1>13. \A n \in T : observed'[n].view = SeenAs(h, n)'
  <2> SUFFICES ASSUME NEW n \in T PROVE observed'[n].view = SeenAs(h, n)'
    OBVIOUS
  <2>1. CASE n \in S
    BY <1>2, <1>5, <1>6, <1>9, <2>1
  <2>2. CASE n = N + 1
    BY <1>2, <1>9, <1>11, <2>2 DEF SeenAs
  <2> QED BY <1>5, <2>1, <2>2
<1>14. Folds(h, HandledIn(x, l))'
  BY <1>4, <1>9 DEF Folds
<1> QED BY <1>2, <1>4, <1>12, <1>13, <1>14

(* A new life has folded nothing.                                          *)
LEMMA FoldsRestart ==
  ASSUME TypeOK, LivesKnown, EngineFolds, Restart
  PROVE  EngineFolds'
<1> SUFFICES ASSUME NEW x \in Match, NEW l \in 1..life'
             PROVE  \E g : /\ Folds(g, HandledIn(x, l))'
                           /\ \A n \in HandledIn(x, l)' : observed'[n].view = SeenAs(g, n)'
                           /\ l = life' => study'[x] = g[Len(observed')]
  BY DEF EngineFolds
<1>1. /\ UNCHANGED <<stream, observed>> /\ life' = life + 1 /\ life \in Nat
      /\ study'[x] = NewStudy /\ Len(observed) \in Nat
  BY LenProperties DEF Restart, TypeOK
<1>2. HandledIn(x, l)' = HandledIn(x, l)
  BY <1>1 DEF HandledIn, Handled
<1>3. \A g, n : SeenAs(g, n)' = SeenAs(g, n)
  BY <1>1 DEF SeenAs
<1>4. \A g : Folds(g, HandledIn(x, l))' <=> Folds(g, HandledIn(x, l))
  BY <1>1, <1>2 DEF Folds
<1>5. CASE l \in 1..life
  <2>1. l # life'
    BY <1>1, <1>5
  <2> QED BY <1>1, <1>2, <1>3, <1>4, <1>5, <2>1 DEF EngineFolds
<1>6. CASE l = life + 1
  <2>1. HandledIn(x, l) = {}
    <3>1. \A i \in 1..Len(observed) : observed[i].life <= life /\ observed[i].life \in Nat
      <4>1. \A i \in 1..Len(observed) : observed[i] \in Observation
        BY ElementOfSeq DEF TypeOK
      <4> QED BY <4>1 DEF LivesKnown, Observation
    <3>2. \A i \in 1..Len(observed) : observed[i].life # l
      BY <1>1, <1>6, <3>1 DEF TypeOK
    <3> QED BY <3>2 DEF HandledIn, Handled
  <2> DEFINE g == [n \in 0..Len(observed) |-> NewStudy]
  <2>2. Folds(g, {})
    <3>1. \A n \in 0..Len(observed) : n # 0 => n - 1 \in 0..Len(observed)
      BY <1>1
    <3> QED BY <3>1 DEF Folds
  <2>3. g[Len(observed)] = NewStudy
    BY <1>1
  <2> HIDE DEF g
  <2> QED BY <1>1, <1>2, <1>4, <2>1, <2>2, <2>3
<1> QED BY <1>1, <1>5, <1>6

(* The folds do not see what is published behind them.                     *)
LEMMA FoldsQuiet ==
  ASSUME TypeOK, EngineFolds, Len(observed) <= Len(stream'),
         \A i \in 1..Len(observed) : stream'[i] = stream[i],
         UNCHANGED <<observed, life, study>>
  PROVE  EngineFolds'
<1> SUFFICES ASSUME NEW x \in Match, NEW l \in 1..life
             PROVE  \E g : /\ Folds(g, HandledIn(x, l))'
                           /\ \A n \in HandledIn(x, l)' : observed'[n].view = SeenAs(g, n)'
                           /\ l = life => study'[x] = g[Len(observed')]
  BY DEF EngineFolds
<1>1. PICK N : N = Len(observed) /\ N \in Nat
  BY LenProperties DEF TypeOK
<1>2. HandledIn(x, l)' = HandledIn(x, l) /\ HandledIn(x, l) \subseteq 1..N
  BY <1>1 DEF HandledIn, Handled
<1>3. PICK g : /\ Folds(g, HandledIn(x, l))
               /\ \A n \in HandledIn(x, l) : observed[n].view = SeenAs(g, n)
               /\ l = life => study[x] = g[Len(observed)]
  BY DEF EngineFolds
<1>4. \A n \in 1..N : SeenAs(g, n)' = SeenAs(g, n)
  BY <1>1 DEF SeenAs
<1>5. Folds(g, HandledIn(x, l))'
  <2>1. \A n \in 0..N : n # 0 => stream'[n] = stream[n]
    BY <1>1
  <2> QED BY <1>1, <1>2, <1>3, <2>1 DEF Folds
<1> QED BY <1>2, <1>3, <1>4, <1>5

LEMMA KickoffsNext ==
  ASSUME TypeOK, KickoffsGrow, NEW m \in Match,
         NEW f \in Frame, stream' = Append(stream, f),
         f.match = m, f.kickoff = kickoff[m], UNCHANGED kickoff
  PROVE  KickoffsGrow'
<1>1. PICK N : N = Len(stream)
  OBVIOUS
<1>2. /\ N \in Nat /\ Len(stream') = N + 1
      /\ \A i \in 1..N : stream'[i] = stream[i]
      /\ stream'[N + 1] = f
  BY <1>1, LenProperties, AppendProperties DEF TypeOK
<1>3. \A i \in 1..N : stream[i] \in Frame
  BY <1>1, ElementOfSeq DEF TypeOK
<1>4. kickoff[m] \in Nat
  BY DEF TypeOK
<1> SUFFICES ASSUME NEW i \in 1..(N + 1), NEW j \in 1..(N + 1)
             PROVE  /\ stream'[i].kickoff <= kickoff[stream'[i].match]
                    /\ stream'[i].match = stream'[j].match /\ i < j
                         => stream'[i].kickoff <= stream'[j].kickoff
  BY <1>2 DEF KickoffsGrow
<1>5. CASE i \in 1..N /\ j \in 1..N
  BY <1>1, <1>2, <1>5 DEF KickoffsGrow
<1>6. CASE i = N + 1
  BY <1>2, <1>4, <1>6
<1>7. CASE i \in 1..N /\ j = N + 1
  BY <1>1, <1>2, <1>7 DEF KickoffsGrow
<1> QED BY <1>2, <1>5, <1>6, <1>7

LEMMA ReplayStep ==
  ASSUME IInv, ReplayInv, [Next]_vars
  PROVE  ReplayInv'
<1> USE DEF ReplayInv
<1>1. TypeOK /\ LivesKnown
  BY DEF IInv
<1>2. ASSUME UNCHANGED <<stream, observed, life, study>>
      PROVE  EngineFolds'
  BY <1>1, <1>2, FoldsQuiet DEF TypeOK
<1>3. CASE Tick \/ UNCHANGED vars
  BY <1>2, <1>3 DEF Tick, vars, engineVars, KickoffsGrow
<1>4. CASE Restart
  BY <1>1, <1>4, FoldsRestart DEF Restart, KickoffsGrow
<1>5. ASSUME NEW m \in Match, KickOff(m)
      PROVE  ReplayInv'
  <2>1. EngineFolds'
    BY <1>2, <1>5 DEF KickOff, engineVars
  <2>2. \A x \in Match : kickoff[x] <= kickoff'[x] /\ kickoff[x] \in Nat /\ kickoff'[x] \in Nat
    BY <1>1, <1>5 DEF KickOff, TypeOK
  <2>3. \A i \in 1..Len(stream) : stream[i] \in Frame
    BY <1>1, ElementOfSeq DEF TypeOK
  <2>4. \A i \in 1..Len(stream) : stream[i].kickoff <= kickoff'[stream[i].match]
    BY <2>2, <2>3 DEF KickoffsGrow, Frame
  <2> QED BY <1>5, <2>1, <2>4 DEF KickOff, KickoffsGrow
<1>6. ASSUME NEW m \in Match, Publish(m)
      PROVE  ReplayInv'
  <2>1. PICK clock \in {"LIVE", "FULLTIME"}, stats \in Stats : PublishMatch(m, clock, stats)
    BY <1>6, StudyAssumption DEF Publish
  <2>2. PICK f : f = [match |-> m, kickoff |-> kickoff[m], clock |-> clock, ts |-> now,
                      stats |-> stats]
    OBVIOUS
  <2>3. f \in Frame /\ f.match = m /\ f.kickoff = kickoff[m]
    BY <1>1, <2>2 DEF TypeOK, Frame
  <2>4. stream' = Append(stream, f) /\ UNCHANGED <<kickoff, study, life, observed>>
    BY <2>1, <2>2 DEF PublishMatch, engineVars
  <2>5. /\ Len(stream') = Len(stream) + 1
        /\ \A i \in 1..Len(stream) : stream'[i] = stream[i]
        /\ Len(observed) \in Nat /\ Len(stream) \in Nat /\ Len(observed) <= Len(stream)
    BY <1>1, <2>3, <2>4, LenProperties, AppendProperties DEF TypeOK
  <2>6. Len(observed) <= Len(stream') /\ \A i \in 1..Len(observed) : stream'[i] = stream[i]
    BY <2>5
  <2>7. EngineFolds'
    BY <1>1, <2>4, <2>6, FoldsQuiet
  <2>8. KickoffsGrow'
    BY <1>1, <2>3, <2>4, KickoffsNext
  <2> QED BY <2>7, <2>8
<1>7. ASSUME NEW n, Observe(n) \/ Miss(n)
      PROVE  ReplayInv'
  <2>1. PICK f : f = stream[n]
    OBVIOUS
  <2>2. PICK m : m = f.match
    OBVIOUS
  <2>3. /\ n = Len(observed) + 1 /\ n <= Len(stream)
        /\ UNCHANGED <<now, stream, kickoff, life, subscribed>>
    BY <1>7 DEF Observe, Miss
  <2>4. Len(observed) \in Nat /\ Len(stream) \in Nat
    BY <1>1, LenProperties DEF TypeOK
  <2>5. Len(observed) < Len(stream) /\ n \in 1..Len(stream)
    BY <2>3, <2>4
  <2>6. f \in Frame /\ m \in Match /\ f.stats \in Stats
    <3>1. stream \in Seq(Frame)
      BY <1>1 DEF TypeOK
    <3>2. f \in Frame
      BY <2>1, <2>5, <3>1, ElementOfSeq
    <3> QED BY <2>2, <3>2 DEF Frame
  <2>7. PICK s : s = After(study[m], n)
    OBVIOUS
  <2>8. s = IF f.clock = "LIVE" THEN Extended(study[m], n, now, f.stats)
            ELSE Closed(study[m])
    BY <2>1, <2>7 DEF After
  <2>9. PICK view : view = Made(s, n)
    OBVIOUS
  <2>10. view = (IF f.clock = "LIVE" THEN Snapshot(s.window) ELSE Nothing) /\ view \in View
    <3>1. view = IF f.clock = "LIVE" THEN Snapshot(s.window) ELSE Nothing
      BY <2>1, <2>9 DEF Made
    <3>2. f.clock = "LIVE" => Snapshot(s.window) \in View
      BY <2>3, <2>6, <2>8, NewSnapshot
    <3> QED BY <3>1, <3>2, NothingIsView
  <2>11. PICK o : /\ Came(o)
                  /\ \/ o.life = 0 /\ UNCHANGED study
                     \/ /\ o.life = life /\ o.at = now /\ o.view = view
                        /\ study' = [study EXCEPT ![m] = s]
    <3>1. CASE Observe(n)
      <4>1. PICK o : o = [life |-> life, at |-> now, view |-> view]
        OBVIOUS
      <4>2. o \in Observation
        BY <1>1, <2>10, <4>1 DEF TypeOK, Observation
      <4>3. study' = [study EXCEPT ![m] = s] /\ observed' = Append(observed, o)
        BY <2>1, <2>2, <2>7, <2>9, <3>1, <4>1 DEF Observe
      <4> QED BY <2>3, <2>5, <4>1, <4>2, <4>3 DEF Came
    <3>2. CASE Miss(n)
      <4>1. Came(Missed)
        BY <2>3, <2>5, <3>2, NothingIsView DEF Came, Miss
      <4> QED BY <3>2, <4>1 DEF Miss, Missed
    <3> QED BY <1>7, <3>1, <3>2
  <2>12. EngineFolds'
    BY <1>1, <2>1, <2>2, <2>3, <2>6, <2>8, <2>10, <2>11, FoldedNext
  <2> QED BY <2>3, <2>12 DEF KickoffsGrow
<1> QED BY <1>3, <1>4, <1>5, <1>6, <1>7 DEF Next

LEMMA ReplayInvariance == Spec => []ReplayInv
<1>1. Init => ReplayInv
  <2> SUFFICES ASSUME Init PROVE ReplayInv
    OBVIOUS
  <2>1. Len(observed) = 0 /\ life = 1 /\ study = [m \in Match |-> NewStudy] /\ 1..0 = {}
    BY EmptySeq DEF Init
  <2>2. Folds([n \in 0..0 |-> NewStudy], {})
    BY <2>1 DEF Folds
  <2>3. \A m, l : HandledIn(m, l) = {}
    BY <2>1 DEF HandledIn, Handled
  <2>4. ASSUME NEW m \in Match, NEW l \in 1..life
        PROVE  \E g : /\ Folds(g, HandledIn(m, l))
                      /\ \A n \in HandledIn(m, l) : observed[n].view = SeenAs(g, n)
                      /\ l = life => study[m] = g[Len(observed)]
    <3>1. study[m] = [n \in 0..0 |-> NewStudy][0]
      BY <2>1
    <3> QED BY <2>1, <2>2, <2>3, <3>1
  <2>5. KickoffsGrow
    BY EmptySeq DEF Init, KickoffsGrow
  <2> QED BY <2>4, <2>5 DEF ReplayInv, EngineFolds
<1> QED BY <1>1, ReplayStep, Invariance, PTL DEF Spec

-----------------------------------------------------------------------------
(* Induction over the numbers up to n, with a set for the property.        *)
LEMMA Upward ==
  ASSUME NEW n \in Nat, NEW T, 0 \in T, \A i \in 0..n : i # 0 /\ i - 1 \in T => i \in T
  PROVE  0..n \subseteq T
<1> DEFINE S == {i \in 0..n : i \notin T}
<1>1. SUFFICES ASSUME S # {} PROVE FALSE
  OBVIOUS
<1>2. S \in SUBSET Nat
  OBVIOUS
<1>3. PICK m \in S : \A k \in S : ~(k < m)
  <2> HIDE DEF S
  <2>1. PICK m \in S : \A k \in S : <<k, m>> \notin OpToRel(<, Nat)
    BY <1>1, <1>2, WFMin, NatLessThanWellFounded, Zenon
  <2> QED BY <1>2, <2>1, Zenon DEF OpToRel
<1>4. m \in 0..n /\ m \notin T /\ m # 0 /\ m - 1 \in 0..n /\ m - 1 < m
  BY <1>3
<1>5. m - 1 \in T
  BY <1>3, <1>4
<1> QED BY <1>4, <1>5

(* a folds the frames of a cycle, as the calibration does.                 *)
Replays(a, played, k) ==
  a = [n \in 0..k |->
         IF n = 0 THEN NewStudy
         ELSE IF n \in played /\ stream[n].clock = "LIVE"
         THEN Extended(a[n - 1], n, stream[n].ts, stream[n].stats) ELSE a[n - 1]]

LEMMA ReplaysExist ==
  ASSUME NEW played, NEW k \in Nat
  PROVE  \E a : Replays(a, played, k)
<1> DEFINE T == {m \in Nat : \E a : Replays(a, played, m)}
<1>1. 0 \in T
  <2>1. Replays([n \in 0..0 |-> NewStudy], played, 0)
    BY DEF Replays
  <2> QED BY <2>1
<1>2. ASSUME NEW m \in 0..k, m # 0, m - 1 \in T
      PROVE  m \in T
  <2>1. PICK a : Replays(a, played, m - 1)
    BY <1>2
  <2> DEFINE h == [n \in 0..m |-> IF n < m THEN a[n]
                     ELSE IF m \in played /\ stream[m].clock = "LIVE"
                     THEN Extended(a[m - 1], m, stream[m].ts, stream[m].stats) ELSE a[m - 1]]
  <2>2. \A n \in 0..(m - 1) :
          a[n] = IF n = 0 THEN NewStudy
                 ELSE IF n \in played /\ stream[n].clock = "LIVE"
                 THEN Extended(a[n - 1], n, stream[n].ts, stream[n].stats) ELSE a[n - 1]
    BY <2>1 DEF Replays
  <2>3. \A n \in 0..m : /\ n < m => n \in 0..(m - 1) /\ h[n] = a[n]
                        /\ n # 0 => n - 1 \in 0..m /\ h[n - 1] = a[n - 1]
                        /\ n < m \/ n = m
    OBVIOUS
  <2>4. \A n \in 0..m :
          h[n] = IF n = 0 THEN NewStudy
                 ELSE IF n \in played /\ stream[n].clock = "LIVE"
                 THEN Extended(h[n - 1], n, stream[n].ts, stream[n].stats) ELSE h[n - 1]
    BY <1>2, <2>2, <2>3
  <2>5. Replays(h, played, m)
    BY <2>4 DEF Replays
  <2> QED BY <1>2, <2>5
<1> HIDE DEF T
<1>3. 0..k \subseteq T
  BY <1>1, <1>2, Upward
<1>4. k \in T
  BY <1>3
<1> QED BY <1>4 DEF T

LEMMA ReplayedIs ==
  ASSUME NEW played, Len(stream) \in Nat
  PROVE  \E a : /\ Replays(a, played, Len(stream))
                /\ Replayed(played) = [n \in played |-> SeenAs(a, n)]
<1> DEFINE a == CHOOSE a : Replays(a, played, Len(stream))
<1>1. Replays(a, played, Len(stream))
  BY ReplaysExist, Zenon
<1>2. Replayed(played) = [n \in played |-> SeenAs(a, n)]
  BY DEF Replayed, Replays, SeenAs
<1> QED BY <1>1, <1>2

-----------------------------------------------------------------------------
(* The two clocks.                                                         *)

(* Entry e of the replay, with the time at which the engine came to it.    *)
Late(e) == [frame |-> e.frame, ts |-> observed[e.frame].at, counts |-> e.counts,
            possession |-> e.possession]

(* Study t of the engine is study s of the replay, by the other clock.     *)
Delayed(s, t, played) ==
  /\ t.monotonic = s.monotonic
  /\ t.window = {Late(e) : e \in s.window}
  /\ \A e \in s.window : e.frame \in played /\ e.ts = stream[e.frame].ts

(* If no delay moves a frame over an edge, a frame keeps the studies so.   *)
LEMMA DelayedNext ==
  ASSUME NEW played, Undisturbed(played), NEW n \in played, NEW s, NEW t,
         Delayed(s, t, played),
         NEW stats, NEW x, x = Extended(s, n, stream[n].ts, stats),
         NEW y, y = Extended(t, n, observed[n].at, stats)
  PROVE  Delayed(x, y, played)
<1>1. PICK counts : counts = Guarded(s.monotonic, stats.counts)
  OBVIOUS
<1>2. PICK e0 : e0 = [frame |-> n, ts |-> stream[n].ts, counts |-> counts,
                      possession |-> stats.possession]
  OBVIOUS
<1>3. Late(e0) = [frame |-> n, ts |-> observed[n].at, counts |-> counts,
                  possession |-> stats.possession]
  BY <1>2 DEF Late
<1>4. x = [window |-> {e \in s.window \cup {e0} : e.ts + Window >= stream[n].ts},
           monotonic |-> counts]
  BY <1>1, <1>2 DEF Extended
<1>5. y = [window |-> {e \in t.window \cup {Late(e0)} : e.ts + Window >= observed[n].at},
           monotonic |-> counts]
  BY <1>1, <1>3 DEF Extended, Delayed
<1>6. \A e \in s.window \cup {e0} : e.frame \in played /\ e.ts = stream[e.frame].ts
  BY <1>2 DEF Delayed
<1>7. \A e : Late(e).ts = observed[e.frame].at
  BY DEF Late
<1>8. \A e \in s.window \cup {e0} :
        e.ts + Window >= stream[n].ts <=> Late(e).ts + Window >= observed[n].at
  BY <1>6, <1>7 DEF Undisturbed
<1>9. t.window \cup {Late(e0)} = {Late(e) : e \in s.window \cup {e0}}
  BY DEF Delayed
<1>10. y.window = {Late(e) : e \in x.window}
  BY <1>4, <1>5, <1>8, <1>9
<1> QED BY <1>4, <1>5, <1>6, <1>10 DEF Delayed

(* Windows of such studies yield the same snapshot.                        *)
LEMMA DelayedSnapshot ==
  ASSUME NEW played, Undisturbed(played), NEW s, NEW t, Delayed(s, t, played)
  PROVE  Snapshot(t.window) = Snapshot(s.window)
<1>1. PICK w, v : w = s.window /\ v = t.window
  OBVIOUS
<1>2. v = {Late(e) : e \in w} /\ \A e \in w : Bucket(Late(e)) = Bucket(e)
  BY <1>1 DEF Delayed, Undisturbed, Bucket, Late
<1>3. \A e : /\ Late(e).frame = e.frame /\ Late(e).counts = e.counts
             /\ Late(e).possession = e.possession
  BY DEF Late
<1>4. {e.frame : e \in v} = {e.frame : e \in w}
  BY <1>2, <1>3
<1>5. \A c \in Counter : {e.counts[c] : e \in v} = {e.counts[c] : e \in w}
  BY <1>2, <1>3
<1>6. Aggregated(v) = {Late(e) : e \in Aggregated(w)}
  <2>1. \A e \in w : (\A o \in v : Bucket(o) = Bucket(Late(e)) => o.frame <= Late(e).frame)
                     <=> (\A o \in w : Bucket(o) = Bucket(e) => o.frame <= e.frame)
    BY <1>2, <1>3
  <2> QED BY <1>2, <2>1 DEF Aggregated
<1>7. \A e \in Aggregated(w) : e \in w
  BY DEF Aggregated
<1>8. {<<Bucket(e), e.possession>> : e \in Aggregated(v)}
        = {<<Bucket(e), e.possession>> : e \in Aggregated(w)}
  <2>1. \A e \in Aggregated(w) : <<Bucket(Late(e)), Late(e).possession>>
                                  = <<Bucket(e), e.possession>>
    BY <1>2, <1>3, <1>7
  <2> QED BY <1>6, <2>1
<1> QED BY <1>1, <1>4, <1>5, <1>8 DEF Snapshot

(* The calibration fits its model on what the engine saw: the replay of    *)
(* the first cycle of a match in the life of an engine, if it is complete, *)
(* has the engine's counters whatever delay frames had and whatever else   *)
(* the stream holds, and the engine's snapshots if no delay moves a frame  *)
(* over the edge of a minute or of a window (calibrate.py:186-229,         *)
(* feature_study.py:157-205, main.py:157).                                 *)
THEOREM FirstCycleReplay == Spec => []FirstCycleReplays
<1>1. ASSUME IInv, ReplayInv
      PROVE  FirstCycleReplays
  <2> SUFFICES ASSUME NEW played \in Cycles, Whole(played), Earlier(played) = {}
               PROVE  /\ \A n \in played : Replayed(played)[n].totals = Seen(played)[n].totals
                      /\ Undisturbed(played) => Replayed(played) = Seen(played)
    BY DEF FirstCycleReplays
  <2>1. /\ Len(stream) \in Nat /\ DOMAIN stream = 1..Len(stream)
        /\ Len(observed) \in Nat /\ DOMAIN observed = 1..Len(observed)
        /\ Len(observed) <= Len(stream) /\ life \in Nat
    BY <1>1, LenProperties DEF IInv, TypeOK
  <2>2. PICK z \in 1..Len(stream) :
          played = {j \in 1..Len(stream) : stream[j].match = stream[z].match
                                         /\ stream[j].kickoff = stream[z].kickoff}
    BY <2>1 DEF Cycles
  <2>3. PICK l \in 1..life : \A i \in played : observed[i].life = l
    BY DEF Whole
  <2>4. \A i \in 1..Len(stream) : stream[i] \in Frame
    BY <1>1, ElementOfSeq DEF IInv, TypeOK
  <2>5. PICK m \in Match : m = stream[z].match
    BY <2>4 DEF Frame
  <2>6. PICK S : S = HandledIn(m, l)
    OBVIOUS
  <2>7. PICK g : Folds(g, S) /\ \A n \in S : observed[n].view = SeenAs(g, n)
    BY <1>1, <2>6 DEF ReplayInv, EngineFolds
  <2>8. PICK a : /\ Replays(a, played, Len(stream))
                 /\ Replayed(played) = [n \in played |-> SeenAs(a, n)]
    BY <2>1, ReplayedIs
  <2>9. \A c \in played : /\ c \in S /\ c \in 1..Len(observed)
                         /\ \A i \in S : i <= c => i \in played
    <3>1. \A c \in played : c \in 1..Len(observed) /\ stream[c].match = m
                           /\ stream[c].kickoff = stream[z].kickoff /\ observed[c].life = l
      BY <2>1, <2>2, <2>3, <2>5 DEF Whole
    <3>2. \A i \in S : i \in 1..Len(observed) /\ stream[i].match = m /\ observed[i].life = l
      BY <2>1, <2>6 DEF HandledIn, Handled
    <3>3. \A c \in played : c \in S
      BY <2>6, <3>1 DEF HandledIn, Handled
    <3>4. ASSUME NEW c \in played, NEW i \in S, i <= c
          PROVE  i \in played
      <4>1. i = c \/ i < c
        BY <2>1, <3>1, <3>2, <3>4
      <4>2. stream[i].kickoff <= stream[c].kickoff
        <5>1. i \in 1..Len(stream) /\ c \in 1..Len(stream)
          BY <2>1, <3>1, <3>2
        <5> QED BY <1>1, <2>4, <3>1, <3>2, <4>1, <5>1 DEF ReplayInv, KickoffsGrow, Frame
      <4>3. ~(stream[i].kickoff < stream[c].kickoff)
        BY <2>1, <3>1, <3>2, <3>4 DEF Earlier
      <4>4. stream[i].kickoff = stream[c].kickoff
        <5>1. stream[i].kickoff \in Nat /\ stream[c].kickoff \in Nat
          BY <2>1, <2>4, <3>1, <3>2 DEF Frame
        <5> QED BY <4>2, <4>3, <5>1
      <4>5. stream[c].kickoff = stream[z].kickoff /\ stream[i].match = m
            /\ i \in 1..Len(stream)
        BY <2>1, <3>1, <3>2
      <4> QED BY <2>2, <2>5, <4>4, <4>5
    <3> QED BY <3>1, <3>3, <3>4
  <2>10. PICK N : N = Len(observed)
    OBVIOUS
  <2>11. /\ N \in Nat /\ N <= Len(stream) /\ \A c \in played : c \in 1..N
         /\ \A n \in 1..N : n \in 1..Len(stream) /\ n - 1 \in 0..N
    BY <2>1, <2>9, <2>10
  <2>12. \A n \in 1..N : stream[n].ts \in Nat /\ stream[n].stats \in Stats
                         /\ observed[n].at \in Nat /\ stream[n].clock \in {"LIVE", "FULLTIME"}
    <3>1. \A n \in 1..N : observed[n] \in Observation
      BY <1>1, <2>10, ElementOfSeq DEF IInv, TypeOK
    <3> QED BY <2>4, <2>11, <3>1 DEF Frame, Observation
  <2>13. a[0] = NewStudy /\ g[0] = NewStudy
    BY <2>1, <2>7, <2>8 DEF Replays, Folds
  <2> DEFINE Within(n) == /\ \E c \in played : n <= c
                          /\ \A i \in played : i <= n => stream[i].clock = "LIVE"
  <2>14. ASSUME NEW n \in 1..N, Within(n)
         PROVE  /\ Within(n - 1)
                /\ n \in played =>
                     /\ stream[n].clock = "LIVE"
                     /\ a[n] = Extended(a[n - 1], n, stream[n].ts, stream[n].stats)
                     /\ g[n] = Extended(g[n - 1], n, observed[n].at, stream[n].stats)
                /\ n \notin played => a[n] = a[n - 1] /\ g[n] = g[n - 1]
    <3>1. Within(n - 1)
      BY <2>11, <2>14
    <3>2. a[n] = IF n \in played /\ stream[n].clock = "LIVE"
                 THEN Extended(a[n - 1], n, stream[n].ts, stream[n].stats) ELSE a[n - 1]
      BY <2>8, <2>11 DEF Replays
    <3>3. g[n] = IF n \notin S THEN g[n - 1]
                 ELSE IF stream[n].clock = "LIVE"
                 THEN Extended(g[n - 1], n, observed[n].at, stream[n].stats)
                 ELSE Closed(g[n - 1])
      BY <2>7, <2>10, <2>11 DEF Folds
    <3>4. n \in played <=> n \in S
      BY <2>9, <2>14
    <3>5. n \in played => stream[n].clock = "LIVE"
      BY <2>11, <2>14
    <3> QED BY <3>1, <3>2, <3>3, <3>4, <3>5
  <2>15. \A n \in played : stream[n].clock = "LIVE" => Within(n)
    <3> SUFFICES ASSUME NEW n \in played, stream[n].clock = "LIVE",
                        NEW i \in played, i <= n, stream[i].clock # "LIVE"
                 PROVE  FALSE
      BY <2>11
    <3>1. stream[i].clock = "FULLTIME"
      BY <2>11, <2>12
    <3>2. n <= i
      BY <3>1 DEF Whole
    <3>3. n = i
      BY <2>11, <3>2
    <3> QED BY <3>3
  <2> HIDE DEF Within
  <2>16. Seen(played) = [n \in played |-> SeenAs(g, n)]
    BY <2>7, <2>9 DEF Seen
  <2> DEFINE Alike(n) ==
        /\ a[n] \in Study /\ UnderGuard(a[n]) /\ g[n] \in Study /\ UnderGuard(g[n])
        /\ g[n].monotonic = a[n].monotonic
        /\ n \in played => Snapshot(g[n].window).totals = Snapshot(a[n].window).totals
  <2> DEFINE T == {n \in 0..N : Within(n) => Alike(n)}
  <2>17. 0 \in T
    <3>1. NewStudy \in Study /\ UnderGuard(NewStudy) /\ 0 \notin played
      BY <2>11 DEF NewStudy, Study, Counts, UnderGuard
    <3> QED BY <2>11, <2>13, <3>1
  <2>18. ASSUME NEW n \in 0..N, n # 0, n - 1 \in T
         PROVE  n \in T
    <3> SUFFICES ASSUME Within(n) PROVE Alike(n)
      OBVIOUS
    <3>1. n \in 1..N /\ n \in Nat
      BY <2>11, <2>18
    <3>2. Within(n - 1)
      BY <2>14, <3>1
    <3>3. Alike(n - 1)
      BY <2>18, <3>2
    <3>4. CASE n \notin played
      BY <2>14, <3>1, <3>3, <3>4
    <3>5. CASE n \in played
      <4>1. /\ a[n] = Extended(a[n - 1], n, stream[n].ts, stream[n].stats)
            /\ g[n] = Extended(g[n - 1], n, observed[n].at, stream[n].stats)
        BY <2>14, <3>1, <3>5
      <4>2. PICK p, q, stats, ts, at :
              /\ p = a[n - 1] /\ q = g[n - 1] /\ stats = stream[n].stats
              /\ ts = stream[n].ts /\ at = observed[n].at
        OBVIOUS
      <4>3. /\ p \in Study /\ UnderGuard(p) /\ q \in Study /\ UnderGuard(q)
            /\ q.monotonic = p.monotonic
            /\ ts \in Nat /\ at \in Nat /\ stats \in Stats
        BY <2>12, <3>1, <3>3, <4>2
      <4>4. Grown(p, n, stats, a[n]) /\ Grown(q, n, stats, g[n])
        BY <3>1, <4>1, <4>2, <4>3, ExtendedFacts
      <4> QED BY <4>3, <4>4 DEF Grown
    <3> QED BY <3>4, <3>5
  <2>19. 0..N \subseteq T
    <3> HIDE DEF T
    <3> QED BY <2>11, <2>17, <2>18, Upward
  <2>20. \A n \in played : SeenAs(a, n).totals = SeenAs(g, n).totals
    <3> SUFFICES ASSUME NEW n \in played, stream[n].clock = "LIVE"
                 PROVE  SeenAs(a, n).totals = SeenAs(g, n).totals
      BY DEF SeenAs
    <3>1. n \in T /\ Within(n)
      BY <2>11, <2>15, <2>19
    <3> QED BY <3>1 DEF SeenAs
  <2> DEFINE U == {n \in 0..N : Within(n) => Delayed(a[n], g[n], played)}
  <2>21. ASSUME Undisturbed(played)
         PROVE  \A n \in played : SeenAs(a, n) = SeenAs(g, n)
    <3>1. 0 \in U
      BY <2>11, <2>13 DEF Delayed, NewStudy
    <3>2. ASSUME NEW n \in 0..N, n # 0, n - 1 \in U
          PROVE  n \in U
      <4> SUFFICES ASSUME Within(n) PROVE Delayed(a[n], g[n], played)
        OBVIOUS
      <4>1. n \in 1..N
        BY <2>11, <3>2
      <4>2. Delayed(a[n - 1], g[n - 1], played)
        BY <2>14, <3>2, <4>1
      <4>3. CASE n \notin played
        BY <2>14, <4>1, <4>2, <4>3
      <4>4. CASE n \in played
        BY <2>14, <2>21, <4>1, <4>2, <4>4, DelayedNext
      <4> QED BY <4>3, <4>4
    <3>3. 0..N \subseteq U
      <4> HIDE DEF U
      <4> QED BY <2>11, <3>1, <3>2, Upward
    <3> SUFFICES ASSUME NEW n \in played, stream[n].clock = "LIVE"
                 PROVE  SeenAs(a, n) = SeenAs(g, n)
      BY DEF SeenAs
    <3>4. Delayed(a[n], g[n], played)
      BY <2>11, <2>15, <3>3
    <3>5. Snapshot(g[n].window) = Snapshot(a[n].window)
      BY <2>21, <3>4, DelayedSnapshot
    <3> QED BY <3>5 DEF SeenAs
  <2>22. \A n \in played : /\ Replayed(played)[n] = SeenAs(a, n)
                          /\ Seen(played)[n] = SeenAs(g, n)
    BY <2>8, <2>16
  <2> QED BY <2>8, <2>16, <2>20, <2>21, <2>22
<1> QED BY <1>1, Invariance, ReplayInvariance, PTL

-----------------------------------------------------------------------------
(* The trigger rule.                                                       *)

(* The order of the fractions a / p, b / q and c / r, crosswise.           *)
LEMMA EdgeTransitive ==
  ASSUME NEW a \in Int, NEW b \in Int, NEW c \in Int,
         NEW p \in Nat, NEW q \in Nat, NEW r \in Nat, p > 0, q > 0, r > 0,
         a * q <= b * p, b * r <= c * q
  PROVE  a * r <= c * p
<1>1. (a * q) * r <= (b * p) * r
  OBVIOUS
<1>2. (b * r) * p <= (c * q) * p
  OBVIOUS
<1>3. q * (a * r) <= q * (c * p)
  BY <1>1, <1>2
<1> QED BY <1>3

(* If the margin a / p is above the slack, a larger edge's is too.         *)
LEMMA MarginUpward ==
  ASSUME NEW a \in Int, NEW b \in Int, NEW slack \in Nat,
         NEW p \in Nat, NEW q \in Nat, p > 0, q > 0,
         a * q <= b * p, a > slack * p
  PROVE  b > slack * q
<1>1. a * q > (slack * p) * q
  OBVIOUS
<1>2. p * b > p * (slack * q)
  BY <1>1
<1> QED BY <1>2

(* What an edge says of probability x at price p against y at price q.     *)
LEMMA EdgeSpelledOut ==
  ASSUME NEW x \in Int, NEW y \in Int, NEW p \in Nat, NEW q \in Nat,
         (x * p - 10000) * q <= (y * q - 10000) * p
  PROVE  (x - y) * p * q <= 10000 * (q - p)
<1>1. (x * p - 10000) * q = x * p * q - 10000 * q
  OBVIOUS
<1>2. (y * q - 10000) * p = y * p * q - 10000 * p
  OBVIOUS
<1>3. (x - y) * p * q = x * p * q - y * p * q
  OBVIOUS
<1>4. x * p * q \in Int /\ y * p * q \in Int
  OBVIOUS
<1> QED BY <1>1, <1>2, <1>3, <1>4

RuleTyped ==
  /\ selectDraw \in BOOLEAN
  /\ odds \in [Rule!Side -> Nat]
  /\ score \in [Rule!Side \ {"draw"} -> Int]

(* Until there are odds there is no verdict, and a market is quoted once.  *)
RuleInv ==
  /\ RuleTyped
  /\ (\A s \in Rule!Side : odds[s] = 0) => verdict = Rule!NoVerdict
  /\ VerdictIsBest

LEMMA RuleConstants ==
  /\ Price \subseteq Nat /\ Computed \subseteq Int /\ MinOdds \in Nat /\ MinOdds > 0
  /\ MaxOdds \in Nat /\ DrawProbCap \in Nat /\ MaxTrueProb \in Nat /\ MarginSlack \in Nat
BY PathAssumption DEF PathAssumption, Rule!RuleAssumption

LEMMA ProbabilityType ==
  ASSUME RuleTyped, NEW s \in Rule!Side
  PROVE  Rule!TrueProbability(s) \in Int /\ Rule!Edge(s) \in Int
<1>1. /\ \A a, b \in Int : Rule!Least(a, b) \in Int
      /\ \A t \in {"home", "away"} : score[t] \in Int
      /\ odds[s] \in Nat
  BY DEF Rule!Least, RuleTyped, Rule!Side
<1> /\ score["home"] \in Int /\ score["away"] \in Int
    /\ MaxTrueProb \in Int /\ DrawProbCap \in Int
  BY <1>1, RuleConstants
<1>2. /\ Rule!Least(score["home"], MaxTrueProb) \in Int
      /\ Rule!Least(score["away"], MaxTrueProb) \in Int
  BY <1>1
<1>3. PICK rest \in Int : rest = 1000 - Rule!Least(score["home"], MaxTrueProb)
                                     - Rule!Least(score["away"], MaxTrueProb)
  BY <1>2
<1>4. Rule!Least(IF rest < 0 THEN 0 ELSE rest, DrawProbCap) \in Int
  <2>1. (IF rest < 0 THEN 0 ELSE rest) \in Int
    OBVIOUS
  <2> QED BY <1>1, <2>1
<1>5. Rule!TrueProbability(s) \in Int
  BY <1>2, <1>3, <1>4 DEF Rule!TrueProbability, Rule!Side
<1>6. PICK x \in Int, q \in Nat : x = Rule!TrueProbability(s) /\ q = odds[s]
  BY <1>1, <1>5
<1>7. x * q - 10000 \in Int
  OBVIOUS
<1> QED BY <1>5, <1>6, <1>7 DEF Rule!Edge

(* best is a leg with the largest edge of those in S, or "none" if no leg  *)
(* is eligible.                                                            *)
BestOf(best, S) ==
  /\ best \in S \cup {"none"}
  /\ best = "none" => \A s \in S : ~Rule!Eligible(s)
  /\ best # "none" =>
       /\ Rule!Eligible(best)
       /\ \A s \in S : Rule!Eligible(s) =>
            Rule!Edge(s) * odds[best] <= Rule!Edge(best) * odds[s]

(* A turn of the loop: the best of the legs so far and the next one.       *)
LEMMA BetterIsBest ==
  ASSUME RuleTyped, NEW S \in SUBSET Rule!Side, NEW t \in Rule!Side,
         NEW best, BestOf(best, S)
  PROVE  BestOf(Rule!Better(best, t), S \cup {t})
<1>1. ASSUME NEW s \in Rule!Side
      PROVE  /\ odds[s] \in Nat /\ Rule!Edge(s) \in Int /\ s # "none"
             /\ Rule!Eligible(s) => odds[s] > 0
  <2>1. odds[s] \in Nat /\ s # "none"
    BY DEF RuleTyped, Rule!Side
  <2>2. Rule!Edge(s) \in Int
    BY ProbabilityType
  <2>3. MinOdds \in Nat /\ MinOdds > 0
    BY RuleConstants
  <2>4. Rule!Eligible(s) => odds[s] > 0
    BY <2>1, <2>3 DEF Rule!Eligible
  <2> QED BY <2>1, <2>2, <2>4
<1>0. ASSUME NEW s \in Rule!Side, NEW r \in Rule!Side
      PROVE  Rule!Edge(s) * odds[r] \in Int
  <2>1. PICK e \in Int, q \in Int : e = Rule!Edge(s) /\ q = odds[r]
    BY <1>1
  <2> QED BY <2>1
<1>2. CASE ~Rule!Eligible(t)
  BY <1>2 DEF Rule!Better, BestOf
<1>3. CASE Rule!Eligible(t) /\ best = "none"
  <2>1. Rule!Better(best, t) = t /\ t # "none" /\ \A s \in S : ~Rule!Eligible(s)
    BY <1>1, <1>3 DEF Rule!Better, BestOf
  <2>2. Rule!Edge(t) * odds[t] <= Rule!Edge(t) * odds[t]
    BY <1>0
  <2> QED BY <1>3, <2>1, <2>2 DEF BestOf
<1>4. CASE Rule!Eligible(t) /\ best # "none" /\ ~Rule!LargerEdge(t, best)
  <2>1. Rule!Edge(t) * odds[best] <= Rule!Edge(best) * odds[t]
    <3>1. best \in Rule!Side
      BY <1>4 DEF BestOf
    <3>2. ~(Rule!Edge(t) * odds[best] > Rule!Edge(best) * odds[t])
      BY <1>4 DEF Rule!LargerEdge
    <3> QED BY <1>0, <3>1, <3>2
  <2> QED BY <1>4, <2>1 DEF Rule!Better, BestOf
<1>5. CASE Rule!Eligible(t) /\ best # "none" /\ Rule!LargerEdge(t, best)
  <2>1. best \in S /\ best \in Rule!Side /\ Rule!Eligible(best)
    BY <1>5 DEF BestOf
  <2>2. Rule!Edge(best) * odds[t] <= Rule!Edge(t) * odds[best]
    <3>1. Rule!Edge(t) * odds[best] > Rule!Edge(best) * odds[t]
      BY <1>5 DEF Rule!LargerEdge
    <3> QED BY <1>0, <2>1, <3>1
  <2>3. ASSUME NEW s \in S, Rule!Eligible(s)
        PROVE  Rule!Edge(s) * odds[t] <= Rule!Edge(t) * odds[s]
    <3>1. Rule!Edge(s) * odds[best] <= Rule!Edge(best) * odds[s]
      BY <1>5, <2>3 DEF BestOf
    <3>2. /\ Rule!Edge(s) \in Int /\ Rule!Edge(best) \in Int /\ Rule!Edge(t) \in Int
          /\ odds[s] \in Nat /\ odds[best] \in Nat /\ odds[t] \in Nat
          /\ odds[s] > 0 /\ odds[best] > 0 /\ odds[t] > 0
      BY <1>1, <1>5, <2>1, <2>3
    <3> QED BY <2>2, <3>1, <3>2, EdgeTransitive
  <2>4. Rule!Better(best, t) = t
    BY <1>5 DEF Rule!Better
  <2>5. Rule!Edge(t) * odds[t] <= Rule!Edge(t) * odds[t]
    BY <1>0
  <2> QED BY <1>1, <1>5, <2>3, <2>4, <2>5 DEF BestOf
<1> QED BY <1>2, <1>3, <1>4, <1>5

(* best_side: the leg with the largest edge of those that may be bet on.   *)
LEMMA BestSideIsBest ==
  ASSUME RuleTyped
  PROVE  BestOf(Rule!BestSide, {s \in Rule!Side : s = "draw" => selectDraw})
<1> DEFINE legs == Rule!Better(Rule!Better("none", "home"), "away")
<1>1. BestOf("none", {})
  BY DEF BestOf
<1>2. BestOf(Rule!Better("none", "home"), {} \cup {"home"})
  BY <1>1, BetterIsBest DEF Rule!Side
<1>3. BestOf(legs, ({} \cup {"home"}) \cup {"away"})
  BY <1>2, BetterIsBest DEF Rule!Side
<1>4. BestOf(Rule!Better(legs, "draw"), (({} \cup {"home"}) \cup {"away"}) \cup {"draw"})
  BY <1>3, BetterIsBest DEF Rule!Side
<1> HIDE DEF legs
<1>5. /\ selectDraw => (({} \cup {"home"}) \cup {"away"}) \cup {"draw"}
                         = {s \in Rule!Side : s = "draw" => selectDraw}
      /\ ~selectDraw => ({} \cup {"home"}) \cup {"away"}
                         = {s \in Rule!Side : s = "draw" => selectDraw}
  BY DEF Rule!Side
<1>6. Rule!BestSide = IF selectDraw THEN Rule!Better(legs, "draw") ELSE legs
  BY DEF Rule!BestSide, legs
<1>7. CASE selectDraw
  BY <1>4, <1>5, <1>6, <1>7
<1>8. CASE ~selectDraw
  BY <1>3, <1>5, <1>6, <1>8
<1> QED BY <1>7, <1>8

(* VerdictIsBest, of any verdict.                                          *)
Judged(v) ==
  /\ v.execute <=> Rule!Value # {}
  /\ v.execute =>
       /\ v.side \in Rule!Value
       /\ \A s \in Rule!Legs :
            (Rule!TrueProbability(s) - Rule!TrueProbability(v.side)) * odds[s] * odds[v.side]
              <= 10000 * (odds[v.side] - odds[s])

LEMMA ValueIsMargin ==
  ASSUME RuleTyped, NEW s \in Rule!Legs
  PROVE  s \in Rule!Value <=> Rule!Edge(s) > MarginSlack * odds[s]
<1>1. s \in Rule!Side
  BY DEF Rule!Legs
<1>2. PICK x \in Int, q \in Nat : x = Rule!TrueProbability(s) /\ q = odds[s]
  BY <1>1, ProbabilityType DEF RuleTyped
<1>3. x * q > 10000 + MarginSlack * q <=> x * q - 10000 > MarginSlack * q
  <2>1. x * q \in Int /\ MarginSlack * q \in Int
    BY RuleConstants
  <2> QED BY <2>1
<1> QED BY <1>2, <1>3 DEF Rule!Value, Rule!Edge

(* evaluate: to look at the best leg only misses no leg that is worth it.  *)
LEMMA BestIsJudged ==
  ASSUME RuleTyped
  PROVE  Judged([side |-> Rule!BestSide, execute |-> Rule!Triggers(Rule!BestSide)])
<1>1. PICK b : b = Rule!BestSide
  OBVIOUS
<1>2. BestOf(b, {s \in Rule!Side : s = "draw" => selectDraw})
  BY <1>1, BestSideIsBest
<1>3. ASSUME NEW s \in Rule!Side
      PROVE  /\ odds[s] \in Nat /\ Rule!Edge(s) \in Int /\ s # "none"
             /\ Rule!TrueProbability(s) \in Int
             /\ Rule!Eligible(s) => odds[s] > 0
  <2>1. odds[s] \in Nat /\ s # "none"
    BY DEF RuleTyped, Rule!Side
  <2>2. MinOdds \in Nat /\ MinOdds > 0
    BY RuleConstants
  <2> QED BY <2>1, <2>2, ProbabilityType DEF Rule!Eligible
<1>4. CASE b = "none"
  <2>1. Rule!Legs = {}
    BY <1>2, <1>4 DEF BestOf, Rule!Legs
  <2>2. Rule!Value = {} /\ Rule!Triggers(b) = FALSE
    BY <1>4, <2>1 DEF Rule!Triggers, Rule!Value
  <2> QED BY <1>1, <2>2 DEF Judged
<1>5. CASE b # "none"
  <2>1. b \in Rule!Legs /\ b \in Rule!Side
    BY <1>2, <1>5 DEF BestOf, Rule!Legs
  <2>2. ASSUME NEW s \in Rule!Legs
        PROVE  /\ Rule!Edge(s) * odds[b] <= Rule!Edge(b) * odds[s]
               /\ s \in Rule!Side /\ odds[s] > 0 /\ odds[b] > 0
    BY <1>2, <1>3, <1>5, <2>1 DEF BestOf, Rule!Legs
  <2>3. Rule!Triggers(b) <=> b \in Rule!Value
    BY <1>5, <2>1, ValueIsMargin DEF Rule!Triggers
  <2>4. ASSUME NEW s \in Rule!Value
        PROVE  b \in Rule!Value
    <3>1. s \in Rule!Legs /\ Rule!Edge(s) > MarginSlack * odds[s]
      BY ValueIsMargin DEF Rule!Value
    <3>2. /\ Rule!Edge(s) \in Int /\ Rule!Edge(b) \in Int
          /\ odds[s] \in Nat /\ odds[b] \in Nat /\ odds[s] > 0 /\ odds[b] > 0
          /\ Rule!Edge(s) * odds[b] <= Rule!Edge(b) * odds[s]
      BY <1>3, <2>1, <2>2, <3>1
    <3>3. MarginSlack \in Nat
      BY RuleConstants
    <3>4. Rule!Edge(b) > MarginSlack * odds[b]
      BY <3>1, <3>2, <3>3, MarginUpward
    <3> QED BY <2>1, <3>4, ValueIsMargin
  <2>5. ASSUME NEW s \in Rule!Legs
        PROVE  (Rule!TrueProbability(s) - Rule!TrueProbability(b)) * odds[s] * odds[b]
                 <= 10000 * (odds[b] - odds[s])
    <3>1. /\ Rule!TrueProbability(s) \in Int /\ Rule!TrueProbability(b) \in Int
          /\ odds[s] \in Nat /\ odds[b] \in Nat
      BY <1>3, <2>1, <2>2
    <3>2. (Rule!TrueProbability(s) * odds[s] - 10000) * odds[b]
            <= (Rule!TrueProbability(b) * odds[b] - 10000) * odds[s]
      BY <2>2 DEF Rule!Edge
    <3> QED BY <3>1, <3>2, EdgeSpelledOut
  <2>6. Rule!Value # {} <=> b \in Rule!Value
    BY <2>4
  <2> QED BY <1>1, <2>3, <2>5, <2>6 DEF Judged
<1> QED BY <1>4, <1>5

LEMMA RuleStep ==
  ASSUME RuleInv, Rule!Next
  PROVE  RuleInv'
<1>1. CASE Rule!Snapshot
  <2>1. verdict = Rule!NoVerdict /\ verdict' = verdict /\ ~verdict.execute
    BY <1>1 DEF RuleInv, Rule!Snapshot, Rule!NoVerdict
  <2>2. RuleTyped'
    BY <1>1, RuleConstants DEF RuleInv, RuleTyped, Rule!Snapshot
  <2> QED BY <2>1, <2>2 DEF RuleInv, VerdictIsBest, Rule!VerdictIsBest, Rule!NoVerdict
<1>2. CASE Rule!Evaluate
  <2>1. /\ UNCHANGED <<selectDraw, odds, score>> /\ \E s \in Rule!Side : odds[s] # 0
        /\ verdict' = [side |-> Rule!BestSide, execute |-> Rule!Triggers(Rule!BestSide)]
    BY <1>2 DEF Rule!Evaluate
  <2>2. Judged(verdict')
    BY <2>1, BestIsJudged DEF RuleInv
  <2>3. VerdictIsBest'
    BY <2>1, <2>2 DEF Judged, VerdictIsBest, Rule!VerdictIsBest, Rule!Value, Rule!Legs,
      Rule!Eligible, Rule!TrueProbability
  <2>4. RuleTyped'
    BY <2>1 DEF RuleInv, RuleTyped
  <2> QED BY <2>1, <2>3, <2>4 DEF RuleInv
<1> QED BY <1>1, <1>2 DEF Rule!Next

(* The side selected is the one with the strongest edge, and the engine    *)
(* bets if any leg is worth it, whatever the quotes, the limits and what   *)
(* the model says of a leg (filter_engine.py:8, :110-162).                 *)
THEOREM BestVerdict == PathSpec => []VerdictIsBest
<1>1. PathInit => RuleInv
  BY DEF PathInit, Rule!Init, RuleInv, RuleTyped, VerdictIsBest, Rule!VerdictIsBest,
    Rule!NoVerdict, Rule!Side
<1>2. RuleInv /\ [PathNext]_pathVars => RuleInv'
  <2> SUFFICES ASSUME RuleInv, [PathNext]_pathVars PROVE RuleInv'
    OBVIOUS
  <2>1. CASE Rule!Next
    BY <2>1, RuleStep
  <2>2. CASE UNCHANGED ruleVars
    BY <2>2 DEF RuleInv, RuleTyped, VerdictIsBest, Rule!VerdictIsBest, Rule!Value, Rule!Legs,
      Rule!Eligible, Rule!TrueProbability, ruleVars
  <2> QED BY <2>1, <2>2 DEF PathNext, pathVars
<1>3. RuleInv => VerdictIsBest
  BY DEF RuleInv
<1> QED BY <1>1, <1>2, <1>3, PTL DEF PathSpec

-----------------------------------------------------------------------------
(* Engine and executor are the modules of their own runs: what is proved   *)
(* of them holds in the path.  Nobody calls a maintenance handler here.    *)
OneEngine == INSTANCE AnalyticsEngineProofs WITH
  Match <- Traded, MaxFrames <- MaxReel, MaxFaults <- MaxLosses,
  up <- engineUp, cycle <- released, crashes <- engineCrashes, faults <- engineFaults

OneBroker == INSTANCE AdminAnalyticsProofs WITH
  Match <- Traded, OrderId <- Orders!Engine!Order, Side <- BetSides, HashExpires <- FALSE,
  MaxFrames <- MaxReel, MaxFaults <- MaxLosses, faults <- losses,
  Request <- {}, Handlers <- {}, KeepLedger <- {}, Legacy <- {}, MaxRequests <- 0,
  admin <- <<>>, requests <- 0, met <- {}, trusted <- TRUE, cleared <- FALSE

LEMMA EngineBridge ==
  /\ Orders!Engine!Init <=> OneEngine!Init
  /\ Orders!Engine!Next <=> OneEngine!Next
  /\ UNCHANGED Orders!Engine!vars <=> UNCHANGED OneEngine!vars
<1>1. Orders!Engine!Init <=> OneEngine!Init
  BY DEF Orders!Engine!Init, OneEngine!Init, Orders!Engine!NoTask, OneEngine!NoTask
<1>2. UNCHANGED Orders!Engine!vars <=> UNCHANGED OneEngine!vars
  BY DEF Orders!Engine!vars, OneEngine!vars, Orders!Engine!processVars, OneEngine!processVars,
    Orders!Engine!feedVars, OneEngine!feedVars
<1>3. Orders!Engine!Next <=> OneEngine!Next
  BY DEF Orders!Engine!Next, OneEngine!Next, Orders!Engine!Listen, OneEngine!Listen,
    Orders!Engine!WorkerStep, OneEngine!WorkerStep, Orders!Engine!Take, OneEngine!Take,
    Orders!Engine!Idle, OneEngine!Idle, Orders!Engine!Observe, OneEngine!Observe,
    Orders!Engine!Trigger, OneEngine!Trigger, Orders!Engine!Finish, OneEngine!Finish,
    Orders!Engine!Settle, OneEngine!Settle, Orders!Engine!Release, OneEngine!Release,
    Orders!Engine!Diagnose, OneEngine!Diagnose, Orders!Engine!Abandon, OneEngine!Abandon,
    Orders!Engine!PublishCall, OneEngine!PublishCall, Orders!Engine!Emit, OneEngine!Emit,
    Orders!Engine!Crash, OneEngine!Crash, Orders!Engine!Restart, OneEngine!Restart,
    Orders!Engine!NoTask, OneEngine!NoTask, Orders!Engine!feedVars, OneEngine!feedVars,
    Orders!Engine!Clock, OneEngine!Clock
<1> QED BY <1>1, <1>2, <1>3

LEMMA BrokerBridge ==
  /\ Orders!Paper!Init <=> OneBroker!Init
  /\ Orders!Paper!Next <=> OneBroker!Next
  /\ UNCHANGED Orders!Paper!vars <=> UNCHANGED OneBroker!vars
<1>1. Orders!Paper!Init <=> OneBroker!Init
  BY DEF Orders!Paper!Init, OneBroker!Init, Orders!Paper!ProcessInit,
    OneBroker!ProcessInit, Orders!Paper!NoHash, OneBroker!NoHash, Orders!Paper!NoJob,
    OneBroker!NoJob, Orders!Paper!NoSweep, OneBroker!NoSweep, Orders!Paper!NoTotals,
    OneBroker!NoTotals, Orders!Paper!Counter, OneBroker!Counter, Orders!Paper!Grader,
    OneBroker!Grader
<1>2. UNCHANGED Orders!Paper!vars <=> UNCHANGED OneBroker!vars
  BY DEF Orders!Paper!vars, OneBroker!vars, Orders!Paper!feedVars, OneBroker!feedVars,
    Orders!Paper!processVars, OneBroker!processVars, Orders!Paper!storeVars,
    OneBroker!storeVars
<1>3. Orders!Paper!Next <=> OneBroker!Next
  BY DEF Orders!Paper!Next, OneBroker!Next, Orders!Paper!Ingestor, OneBroker!Ingestor,
    Orders!Paper!PublishMatch, OneBroker!PublishMatch, Orders!Paper!KickoffAges,
    OneBroker!KickoffAges, Orders!Paper!FrameAges, OneBroker!FrameAges,
    Orders!Paper!HashTtl, OneBroker!HashTtl, Orders!Paper!ExecuteEnvelope,
    OneBroker!ExecuteEnvelope, Orders!Paper!PaperRunLoop, OneBroker!PaperRunLoop,
    Orders!Paper!FeedReceive, OneBroker!FeedReceive, Orders!Paper!Settle,
    OneBroker!Settle, Orders!Paper!PersistSession, OneBroker!PersistSession,
    Orders!Paper!RecordSettlements, OneBroker!RecordSettlements,
    Orders!Paper!PublishSnapshot, OneBroker!PublishSnapshot, Orders!Paper!ClearOrders,
    OneBroker!ClearOrders, Orders!Paper!StaleSweep, OneBroker!StaleSweep,
    Orders!Paper!SweepBegin, OneBroker!SweepBegin, Orders!Paper!SweepCheck,
    OneBroker!SweepCheck, Orders!Paper!SweepGrade, OneBroker!SweepGrade,
    Orders!Paper!StartJob, OneBroker!StartJob, Orders!Paper!Advance, OneBroker!Advance,
    Orders!Paper!Command, OneBroker!Command, Orders!Paper!Crash, OneBroker!Crash,
    Orders!Paper!Restart, OneBroker!Restart, Orders!Paper!Entries, OneBroker!Entries,
    Orders!Paper!ResultOf, OneBroker!ResultOf, Orders!Paper!Verdict, OneBroker!Verdict,
    Orders!Paper!outcomeFor, OneBroker!outcomeFor,
    Orders!Paper!IsFiniteSet, OneBroker!IsFiniteSet, Orders!Paper!settlementTotals,
    OneBroker!settlementTotals, Orders!Paper!Counts, OneBroker!Counts,
    Orders!Paper!Counter, OneBroker!Counter, Orders!Paper!Plus, OneBroker!Plus,
    Orders!Paper!Stale, OneBroker!Stale, Orders!Paper!Confirmed, OneBroker!Confirmed,
    Orders!Paper!OrdersOf, OneBroker!OrdersOf, Orders!Paper!Idle, OneBroker!Idle,
    Orders!Paper!NoSweep, OneBroker!NoSweep, Orders!Paper!NoJob, OneBroker!NoJob,
    Orders!Paper!NoTotals, OneBroker!NoTotals, Orders!Paper!NoHash, OneBroker!NoHash,
    Orders!Paper!Grader, OneBroker!Grader, Orders!Paper!Fill, OneBroker!Fill,
    Orders!Paper!Score, OneBroker!Score, Orders!Paper!Clock, OneBroker!Clock,
    Orders!Paper!feedVars, OneBroker!feedVars, Orders!Paper!processVars,
    OneBroker!processVars, Orders!Paper!storeVars, OneBroker!storeVars,
    Orders!Paper!Cardinality, OneBroker!Cardinality
<1> QED BY <1>1, <1>2, <1>3

LEMMA EngineInvBridge == Orders!Engine!IInv <=> OneEngine!IInv
BY DEF Orders!Engine!IInv, OneEngine!IInv, Orders!Engine!TypeOK, OneEngine!TypeOK,
    Orders!Engine!ClaimsHeld, OneEngine!ClaimsHeld, Orders!Engine!ClaimsDistinct,
    OneEngine!ClaimsDistinct, Orders!Engine!OneOrderPerCycle,
    OneEngine!OneOrderPerCycle, Orders!Engine!Frame, OneEngine!Frame,
    Orders!Engine!Clock, OneEngine!Clock, Orders!Engine!Key, OneEngine!Key,
    Orders!Engine!Order, OneEngine!Order, Orders!Engine!Task, OneEngine!Task,
    Orders!Engine!Publishing, OneEngine!Publishing, Orders!Engine!Current,
    OneEngine!Current, Orders!Engine!SamePosition, OneEngine!SamePosition,
    Orders!Engine!NoFuture, OneEngine!NoFuture

LEMMA BrokerInvBridge == Orders!Paper!IInv <=> OneBroker!IInv
BY DEF Orders!Paper!IInv, OneBroker!IInv, Orders!Paper!TypeOK, OneBroker!TypeOK,
    Orders!Paper!KnownOrders, OneBroker!KnownOrders, Orders!Paper!FramesSound,
    OneBroker!FramesSound, Orders!Paper!JobsSound, OneBroker!JobsSound,
    Orders!Paper!LedgerSound, OneBroker!LedgerSound, Orders!Paper!RecordedJobs,
    OneBroker!RecordedJobs, Orders!Paper!NoOrderLost, OneBroker!NoOrderLost,
    Orders!Paper!Frame, OneBroker!Frame, Orders!Paper!Clock, OneBroker!Clock,
    Orders!Paper!Fill, OneBroker!Fill, Orders!Paper!Hash, OneBroker!Hash,
    Orders!Paper!Score, OneBroker!Score, Orders!Paper!Job, OneBroker!Job,
    Orders!Paper!Step, OneBroker!Step, Orders!Paper!Grader, OneBroker!Grader,
    Orders!Paper!Entry, OneBroker!Entry, Orders!Paper!Result, OneBroker!Result,
    Orders!Paper!Totals, OneBroker!Totals, Orders!Paper!Counter, OneBroker!Counter,
    Orders!Paper!Final, OneBroker!Final, Orders!Paper!Confirmed, OneBroker!Confirmed,
    Orders!Paper!Idle, OneBroker!Idle, Orders!Paper!InLedger, OneBroker!InLedger,
    Orders!Paper!outcomeFor, OneBroker!outcomeFor,
    Orders!Paper!IsFiniteSet, OneBroker!IsFiniteSet

-----------------------------------------------------------------------------
(* Every step of the path is a step of the engine or leaves it alone.      *)
LEMMA EngineStep ==
  ASSUME [PathNext]_pathVars
  PROVE  Orders!Engine!Next \/ UNCHANGED Orders!Engine!vars
<1>1. CASE UNCHANGED orderVars
  BY <1>1 DEF orderVars, Orders!Engine!vars, Orders!Engine!processVars, Orders!Engine!feedVars
<1>2. CASE UNCHANGED Orders!engineVars
  BY <1>2 DEF Orders!engineVars, Orders!Engine!vars, Orders!Engine!processVars,
    Orders!Engine!feedVars
<1>3. ASSUME NEW m \in Traded, NEW c \in Orders!Paper!Clock, NEW s \in Scores,
             Orders!Publish(m, c, s)
      PROVE  Orders!Engine!Next
  BY <1>3 DEF Orders!Publish, Orders!Engine!Next, Orders!Paper!Clock, Orders!Engine!Clock
<1>4. ASSUME NEW w \in Worker, NEW ok \in BOOLEAN, NEW delivered \in BOOLEAN,
             Orders!Emit(w, ok, delivered)
      PROVE  Orders!Engine!Next
  BY <1>4 DEF Orders!Emit, Orders!Engine!Next, Orders!Engine!WorkerStep
<1>5. ASSUME Orders!EngineAlone
      PROVE  Orders!Engine!Next
  BY <1>5 DEF Orders!EngineAlone, Orders!Engine!Next, Orders!Engine!WorkerStep
<1>6. ASSUME Orders!EngineCrash
      PROVE  Orders!Engine!Next
  BY <1>6 DEF Orders!EngineCrash, Orders!Engine!Next
<1>7. ASSUME \/ \E s \in BetSides, ok \in BOOLEAN : Orders!CommandRunLoop(s, ok)
             \/ Orders!BrokerAlone \/ Orders!BrokerCrash
      PROVE  UNCHANGED Orders!engineVars
  BY <1>7 DEF Orders!CommandRunLoop, Orders!BrokerAlone, Orders!BrokerCrash
<1>8. Orders!Next \/ UNCHANGED orderVars
  BY DEF PathNext, pathVars
<1> QED BY <1>1, <1>2, <1>3, <1>4, <1>5, <1>6, <1>7, <1>8 DEF Orders!Next

(* The analytics engine of the path is the one of its own run: frames,     *)
(* executor and the other sides interfere with none of its steps (main.py  *)
(* :101-191).                                                              *)
THEOREM EngineInPath == PathSpec => Orders!Engine!Spec
<1>1. PathInit => Orders!Engine!Init
  BY DEF PathInit, Orders!Init
<1>2. [PathNext]_pathVars => [Orders!Engine!Next]_(Orders!Engine!vars)
  BY EngineStep
<1> QED BY <1>1, <1>2, PTL DEF PathSpec, Orders!Engine!Spec

LEMMA EngineSound == PathSpec => []Orders!Engine!IInv
<1>1. OneEngine!Spec => []OneEngine!IInv
  BY OneEngine!Invariance, PathAssumption
    DEF PathAssumption, Orders!PipelineAssumption, Orders!Engine!EngineAssumption
<1>2. Orders!Engine!Init => OneEngine!Init
  BY EngineBridge
<1>3. [Orders!Engine!Next]_(Orders!Engine!vars) => [OneEngine!Next]_(OneEngine!vars)
  BY EngineBridge
<1>4. OneEngine!IInv => Orders!Engine!IInv
  BY EngineInvBridge
<1> QED BY <1>1, <1>2, <1>3, <1>4, EngineInPath, PTL DEF OneEngine!Spec, Orders!Engine!Spec

(* What waits for the executor was published by the engine.                *)
Buffered == commands \in Seq(emitted)

LEMMA BufferedStep ==
  ASSUME Orders!Engine!TypeOK, Buffered, [PathNext]_pathVars
  PROVE  Buffered'
<1>1. CASE UNCHANGED <<commands, emitted>>
  BY <1>1 DEF Buffered
<1>2. ASSUME NEW w \in Worker, NEW ok \in BOOLEAN, NEW delivered \in BOOLEAN,
             Orders!Emit(w, ok, delivered)
      PROVE  Buffered'
  <2>1. emitted' = IF delivered THEN emitted \cup {worker[w].order} ELSE emitted
    BY <1>2 DEF Orders!Emit, Orders!Engine!Emit
  <2>2. commands' = IF delivered /\ up THEN Append(commands, worker[w].order) ELSE commands
    BY <1>2 DEF Orders!Emit
  <2>3. emitted \subseteq emitted' /\ (delivered => worker[w].order \in emitted')
    BY <2>1
  <2>4. commands \in Seq(emitted')
    BY <2>3, SeqMonotonic DEF Buffered
  <2> QED BY <2>2, <2>3, <2>4, AppendProperties DEF Buffered
<1>3. ASSUME NEW s \in BetSides, NEW ok \in BOOLEAN, Orders!CommandRunLoop(s, ok)
      PROVE  Buffered'
  BY <1>3, HeadTailProperties DEF Buffered, Orders!CommandRunLoop, Orders!engineVars
<1>4. CASE Orders!BrokerCrash
  <2>1. commands' = <<>> /\ emitted' = emitted
    BY <1>4 DEF Orders!BrokerCrash, Orders!engineVars
  <2> QED BY <2>1 DEF Buffered
<1>5. ASSUME NEW m \in Traded, NEW c, NEW s, Orders!Publish(m, c, s)
      PROVE  UNCHANGED <<commands, emitted>>
  BY <1>5 DEF Orders!Publish, Orders!Engine!Listen
<1>6. ASSUME Orders!EngineAlone \/ Orders!EngineCrash \/ Orders!BrokerAlone
      PROVE  UNCHANGED <<commands, emitted>>
  BY <1>6 DEF Orders!EngineAlone, Orders!EngineCrash, Orders!BrokerAlone, Orders!engineVars,
    Orders!Engine!Take, Orders!Engine!Diagnose, Orders!Engine!Restart, Orders!Engine!Crash
<1>7. Orders!Next \/ UNCHANGED orderVars
  BY DEF PathNext, pathVars
<1>8. CASE UNCHANGED orderVars
  BY <1>1, <1>8 DEF orderVars
<1> QED BY <1>1, <1>2, <1>3, <1>4, <1>5, <1>6, <1>7, <1>8 DEF Orders!Next

(* So is every step one of the executor, or leaves it alone.               *)
LEMMA BrokerStep ==
  ASSUME Orders!Engine!TypeOK, Buffered, [PathNext]_pathVars
  PROVE  Orders!Paper!Next \/ UNCHANGED Orders!Paper!vars
<1>1. CASE UNCHANGED orderVars
  BY <1>1 DEF orderVars, Orders!Paper!vars, Orders!Paper!feedVars, Orders!Paper!processVars,
    Orders!Paper!storeVars
<1>2. CASE UNCHANGED Orders!paperVars
  BY <1>2 DEF Orders!paperVars, Orders!Paper!vars, Orders!Paper!feedVars,
    Orders!Paper!processVars, Orders!Paper!storeVars
<1>3. ASSUME NEW m \in Traded, NEW c \in Orders!Paper!Clock, NEW s \in Scores,
             Orders!Publish(m, c, s)
      PROVE  Orders!Paper!Next
  BY <1>3 DEF Orders!Publish, Orders!Paper!Next, Orders!Paper!Ingestor
<1>4. ASSUME NEW s \in BetSides, NEW ok \in BOOLEAN, Orders!CommandRunLoop(s, ok)
      PROVE  Orders!Paper!Next
  <2> DEFINE o == Head(commands)
             f == [id |-> o, match |-> o.match, side |-> s]
  <2>1. commands # <<>> /\ Orders!Paper!ExecuteEnvelope(f, ok)
    BY <1>4 DEF Orders!CommandRunLoop
  <2>2. o \in emitted
    BY <2>1, HeadTailProperties DEF Buffered
  <2>3. o \in Orders!Engine!Order
    BY <2>2 DEF Orders!Engine!TypeOK
  <2>4. f \in Orders!Paper!Fill
    BY <2>3 DEF Orders!Paper!Fill, Orders!Engine!Order
  <2> HIDE DEF f
  <2> QED BY <2>1, <2>4 DEF Orders!Paper!Next
<1>5. ASSUME Orders!BrokerAlone
      PROVE  Orders!Paper!Next
  BY <1>5 DEF Orders!BrokerAlone, Orders!Paper!Next, Orders!Paper!Ingestor
<1>6. ASSUME Orders!BrokerCrash
      PROVE  Orders!Paper!Next
  BY <1>6 DEF Orders!BrokerCrash, Orders!Paper!Next
<1>7. ASSUME \/ \E w \in Worker, ok, delivered \in BOOLEAN : Orders!Emit(w, ok, delivered)
             \/ Orders!EngineAlone \/ Orders!EngineCrash
      PROVE  UNCHANGED Orders!paperVars
  BY <1>7 DEF Orders!Emit, Orders!EngineAlone, Orders!EngineCrash
<1>8. Orders!Next \/ UNCHANGED orderVars
  BY DEF PathNext, pathVars
<1> QED BY <1>1, <1>2, <1>3, <1>4, <1>5, <1>6, <1>7, <1>8 DEF Orders!Next

LEMMA BufferedHolds == PathSpec => []Buffered
<1>1. PathInit => Buffered
  BY DEF PathInit, Orders!Init, Buffered
<1>2. Orders!Engine!IInv => Orders!Engine!TypeOK
  BY DEF Orders!Engine!IInv
<1>3. Orders!Engine!TypeOK /\ Buffered /\ [PathNext]_pathVars => Buffered'
  BY BufferedStep
<1> QED BY <1>1, <1>2, <1>3, EngineSound, PTL DEF PathSpec

(* The executor of the path is the one of its own run: the engine's orders *)
(* are envelopes it takes, and nothing else of the path interferes with    *)
(* its steps (interfaces.go:121-191).                                      *)
THEOREM BrokerInPath == PathSpec => Orders!Paper!Spec
<1>1. PathInit => Orders!Paper!Init
  BY DEF PathInit, Orders!Init
<1>2. Orders!Engine!IInv => Orders!Engine!TypeOK
  BY DEF Orders!Engine!IInv
<1>3. Orders!Engine!TypeOK /\ Buffered /\ [PathNext]_pathVars
        => [Orders!Paper!Next]_(Orders!Paper!vars)
  BY BrokerStep
<1> QED BY <1>1, <1>2, <1>3, EngineSound, BufferedHolds, PTL DEF PathSpec, Orders!Paper!Spec

LEMMA BrokerSound == PathSpec => []Orders!Paper!IInv
<1>1. OneBroker!Spec => []OneBroker!IInv
  <2>1. OneBroker!ConstantsAssumption
    BY PathAssumption
      DEF PathAssumption, Orders!PipelineAssumption, Orders!Paper!ConstantsAssumption,
        OneBroker!ConstantsAssumption
  <2>2. OneBroker!IsFiniteSet({})
    BY FS_EmptySet DEF IsFiniteSet, OneBroker!IsFiniteSet
  <2>3. OneBroker!AdminAssumption
    BY <2>2 DEF OneBroker!AdminAssumption
  <2> QED BY <2>1, <2>3, OneBroker!Invariance, Zenon
        DEF OneBroker!ConstantsAssumption, OneBroker!AdminAssumption
<1>2. Orders!Paper!Init => OneBroker!Init
  BY BrokerBridge
<1>3. [Orders!Paper!Next]_(Orders!Paper!vars) => [OneBroker!Next]_(OneBroker!vars)
  BY BrokerBridge
<1>4. OneBroker!IInv => Orders!Paper!IInv
  BY BrokerInvBridge
<1> QED BY <1>1, <1>2, <1>3, <1>4, BrokerInPath, PTL DEF OneBroker!Spec, Orders!Paper!Spec

-----------------------------------------------------------------------------
(* What the frames say.  The engine's queue holds frames of the reel, in   *)
(* their order, and its orders answer LIVE frames; the executor has orders *)
(* of the engine only, each of them once.                                  *)
ReelFrame == [match : Traded, clock : Orders!Paper!Clock, score : Scores]

IsFrame(r, m, clock, n) == n \in DOMAIN r /\ r[n].match = m /\ r[n].clock = clock

Answers(r, o) == IsFrame(r, o.match, "LIVE", o.n)

ReelTyped == reel \in Seq(ReelFrame) /\ published = Len(reel)

QueueSound ==
  /\ \A i \in 1..Len(queue) : IsFrame(reel, queue[i].match, queue[i].clock, queue[i].n)
  /\ \A i, j \in 1..Len(queue) : i < j => queue[i].n < queue[j].n

OrdersSound ==
  /\ \A w \in Worker : Orders!Engine!Publishing(w) => Answers(reel, worker[w].order)
  /\ \A o \in emitted : Answers(reel, o)

PlacedSound ==
  /\ \A f \in placed : f.id \in emitted /\ f.match = f.id.match
  /\ \A f, g \in placed : f.id = g.id => f = g

WireInv == ReelTyped /\ QueueSound /\ OrdersSound /\ PlacedSound

(* The reel only grows.                                                    *)
ReelGrows ==
  /\ DOMAIN reel \subseteq DOMAIN reel'
  /\ \A n \in DOMAIN reel : reel'[n] = reel[n]

LEMMA FramesStay ==
  ASSUME ReelGrows
  PROVE  \A m, clock, n : IsFrame(reel, m, clock, n) => IsFrame(reel', m, clock, n)
BY DEF ReelGrows, IsFrame

(* What a step of the engine that hears no frame does with its orders.     *)
Quiet ==
  /\ \/ queue' = queue
     \/ queue # <<>> /\ queue' = Tail(queue)
     \/ queue' = <<>>
  /\ \A w \in Worker : Orders!Engine!Publishing(w)' =>
       \/ /\ Orders!Engine!Publishing(w)
          /\ worker'[w].order.match = worker[w].order.match
          /\ worker'[w].order.n = worker[w].order.n
       \/ /\ queue # <<>> /\ Head(queue).clock = "LIVE"
          /\ worker'[w].order.match = Head(queue).match
          /\ worker'[w].order.n = Head(queue).n
  /\ emitted \subseteq emitted'
  /\ \A o \in emitted' : \/ o \in emitted
                         \/ \E w \in Worker : Orders!Engine!Publishing(w) /\ o = worker[w].order
  /\ published' = published

LEMMA TriggerQuiet ==
  ASSUME Orders!Engine!TypeOK, NEW w \in Worker, NEW m, NEW n, NEW todo,
         Orders!Engine!Trigger(w, m, n, todo)
  PROVE  /\ \A v \in Worker : v # w => worker'[v] = worker[v]
         /\ worker'[w].step \in {"idle", "publish"}
         /\ worker'[w].step = "publish" =>
              worker'[w].order.match = m /\ worker'[w].order.n = n
<1>1. worker \in [Worker -> Orders!Engine!Task]
  BY DEF Orders!Engine!TypeOK
<1>2. CASE Orders!Engine!Finish(w)
  BY <1>1, <1>2 DEF Orders!Engine!Finish, Orders!Engine!NoTask
<1>3. ASSUME NEW t, NEW o, o.match = m, o.n = n,
             worker' = [worker EXCEPT ![w] = [step |-> "publish", todo |-> t, order |-> o]]
      PROVE  /\ \A v \in Worker : v # w => worker'[v] = worker[v]
             /\ worker'[w].step = "publish" /\ worker'[w].order = o
  BY <1>1, <1>3
<1>4. \/ Orders!Engine!Finish(w)
      \/ \E k, gated : worker' = [worker EXCEPT ![w] =
           [step |-> "publish", todo |-> todo \ (gated \cup {k}),
            order |-> [n |-> n, match |-> m, market |-> k, cycle |-> released[m],
                       life |-> engineCrashes]]]
  BY DEF Orders!Engine!Trigger
<1>5. ASSUME NEW k, NEW gated, worker' = [worker EXCEPT ![w] =
               [step |-> "publish", todo |-> todo \ (gated \cup {k}),
                order |-> [n |-> n, match |-> m, market |-> k, cycle |-> released[m],
                           life |-> engineCrashes]]]
      PROVE  /\ \A v \in Worker : v # w => worker'[v] = worker[v]
             /\ worker'[w].step = "publish"
             /\ worker'[w].order.match = m /\ worker'[w].order.n = n
  <2>1. PICK t, o : /\ t = todo \ (gated \cup {k})
                    /\ o = [n |-> n, match |-> m, market |-> k, cycle |-> released[m],
                            life |-> engineCrashes]
    OBVIOUS
  <2>2. worker' = [worker EXCEPT ![w] = [step |-> "publish", todo |-> t, order |-> o]]
    BY <1>5, <2>1
  <2>3. o.match = m /\ o.n = n
    BY <2>1
  <2> QED BY <1>3, <2>2, <2>3
<1> QED BY <1>2, <1>4, <1>5

LEMMA WorkerQuiet ==
  ASSUME Orders!Engine!TypeOK, NEW w \in Worker, Orders!Engine!WorkerStep(w)
  PROVE  Quiet
<1>1. worker \in [Worker -> Orders!Engine!Task]
  BY DEF Orders!Engine!TypeOK
<1>2. CASE Orders!Engine!Take(w)
  <2>1. /\ queue # <<>> /\ queue' = Tail(queue) /\ UNCHANGED <<emitted, published>>
    BY <1>2 DEF Orders!Engine!Take, Orders!Engine!feedVars
  <2>2. CASE UNCHANGED worker
    BY <2>1, <2>2 DEF Quiet, Orders!Engine!Publishing
  <2>3. ASSUME NEW markets \in SUBSET Market, Orders!Engine!Observe(w, Head(queue), markets)
        PROVE  Quiet
    <3>1. /\ Head(queue).clock = "LIVE"
          /\ Orders!Engine!Trigger(w, Head(queue).match, Head(queue).n, markets)
      BY <2>3 DEF Orders!Engine!Observe
    <3>2. /\ \A v \in Worker : v # w => worker'[v] = worker[v]
          /\ worker'[w].step = "publish" =>
               worker'[w].order.match = Head(queue).match /\ worker'[w].order.n = Head(queue).n
      BY <3>1, TriggerQuiet
    <3> QED BY <2>1, <3>1, <3>2 DEF Quiet, Orders!Engine!Publishing
  <2>4. ASSUME NEW markets \in SUBSET Market, Orders!Engine!Settle(w, Head(queue), markets)
        PROVE  Quiet
    <3>1. \A v \in Worker : worker'[v].step = "publish" => worker'[v] = worker[v]
      BY <1>1, <2>4 DEF Orders!Engine!Settle, Orders!Engine!Finish, Orders!Engine!NoTask
    <3> QED BY <2>1, <3>1 DEF Quiet, Orders!Engine!Publishing
  <2> QED BY <1>2, <2>2, <2>3, <2>4 DEF Orders!Engine!Take
<1>3. ASSUME NEW ok \in BOOLEAN, NEW delivered \in BOOLEAN,
             Orders!Engine!Diagnose(w, ok, delivered)
      PROVE  Quiet
  <2>1. /\ worker[w].step = "diagnose" /\ UNCHANGED <<queue, emitted, published>>
    BY <1>3 DEF Orders!Engine!Diagnose, Orders!Engine!feedVars
  <2>2. \A v \in Worker : worker'[v].step = "publish" => worker'[v] = worker[v]
    <3>1. CASE worker' = [worker EXCEPT ![w] = Orders!Engine!NoTask]
      BY <1>1, <3>1 DEF Orders!Engine!NoTask
    <3>2. ASSUME NEW k, worker' = [worker EXCEPT ![w].todo = @ \ {k}]
          PROVE  \A v \in Worker : worker'[v].step = "publish" => worker'[v] = worker[v]
      BY <1>1, <2>1, <3>2 DEF Orders!Engine!Task
    <3> QED BY <1>3, <3>1, <3>2 DEF Orders!Engine!Diagnose, Orders!Engine!Abandon,
          Orders!Engine!Finish
  <2> QED BY <2>1, <2>2 DEF Quiet, Orders!Engine!Publishing
<1>4. ASSUME NEW ok \in BOOLEAN, NEW delivered \in BOOLEAN, Orders!Engine!Emit(w, ok, delivered)
      PROVE  Quiet
  <2>1. /\ worker[w].step = "publish" /\ UNCHANGED <<queue, published>>
        /\ emitted' = IF delivered THEN emitted \cup {worker[w].order} ELSE emitted
    BY <1>4 DEF Orders!Engine!Emit, Orders!Engine!feedVars
  <2>2. CASE Orders!Engine!Abandon(w)
    <3>1. \A v \in Worker : worker'[v].step = "publish" => worker'[v] = worker[v]
      BY <1>1, <2>2 DEF Orders!Engine!Abandon, Orders!Engine!NoTask
    <3> QED BY <2>1, <3>1 DEF Quiet, Orders!Engine!Publishing
  <2>3. CASE Orders!Engine!Trigger(w, worker[w].order.match, worker[w].order.n, worker[w].todo)
    <3>1. /\ \A v \in Worker : v # w => worker'[v] = worker[v]
          /\ worker'[w].step = "publish" =>
               /\ worker'[w].order.match = worker[w].order.match
               /\ worker'[w].order.n = worker[w].order.n
      BY <2>3, TriggerQuiet
    <3> QED BY <2>1, <3>1 DEF Quiet, Orders!Engine!Publishing
  <2> QED BY <1>4, <2>2, <2>3 DEF Orders!Engine!Emit
<1> QED BY <1>2, <1>3, <1>4 DEF Orders!Engine!WorkerStep

(* The steps of the path but Publish.                                      *)
LEMMA QuietSteps ==
  ASSUME Orders!Engine!TypeOK, [PathNext]_pathVars
  PROVE  \/ \E m \in Traded, c \in Orders!Paper!Clock, s \in Scores : Orders!Publish(m, c, s)
         \/ reel' = reel /\ Quiet
<1>1. ASSUME UNCHANGED <<reel, queue, worker, emitted, published>>
      PROVE  reel' = reel /\ Quiet
  BY <1>1 DEF Quiet, Orders!Engine!Publishing
<1>2. ASSUME NEW w \in Worker, Orders!Engine!WorkerStep(w), reel' = reel
      PROVE  reel' = reel /\ Quiet
  BY <1>2, WorkerQuiet
<1>3. ASSUME Orders!EngineAlone \/ Orders!EngineCrash
      PROVE  reel' = reel /\ Quiet
  <2>1. reel' = reel
    BY <1>3 DEF Orders!EngineAlone, Orders!EngineCrash
  <2>2. CASE Orders!Engine!Restart
    BY <1>1, <2>1, <2>2 DEF Orders!Engine!Restart, Orders!Engine!feedVars
  <2>3. CASE Orders!Engine!Crash
    <3>1. /\ queue' = <<>> /\ worker' = [w \in Worker |-> Orders!Engine!NoTask]
          /\ UNCHANGED <<emitted, published>>
      BY <2>3 DEF Orders!Engine!Crash, Orders!Engine!feedVars
    <3> QED BY <2>1, <3>1 DEF Quiet, Orders!Engine!Publishing, Orders!Engine!NoTask
  <2> QED BY <1>2, <1>3, <2>1, <2>2, <2>3
        DEF Orders!EngineAlone, Orders!EngineCrash, Orders!Engine!WorkerStep
<1>4. ASSUME NEW w \in Worker, NEW ok \in BOOLEAN, NEW delivered \in BOOLEAN,
             Orders!Emit(w, ok, delivered)
      PROVE  reel' = reel /\ Quiet
  BY <1>2, <1>4 DEF Orders!Emit, Orders!Engine!WorkerStep
<1>5. ASSUME \/ \E s \in BetSides, ok \in BOOLEAN : Orders!CommandRunLoop(s, ok)
             \/ Orders!BrokerAlone \/ Orders!BrokerCrash
      PROVE  UNCHANGED <<reel, queue, worker, emitted, published>>
  BY <1>5 DEF Orders!CommandRunLoop, Orders!BrokerAlone, Orders!BrokerCrash, Orders!engineVars
<1>6. Orders!Next \/ UNCHANGED orderVars
  BY DEF PathNext, pathVars
<1>7. CASE UNCHANGED orderVars
  BY <1>1, <1>7 DEF orderVars
<1> QED BY <1>1, <1>3, <1>4, <1>5, <1>6, <1>7 DEF Orders!Next

(* What Publish does to the reel and the engine.                           *)
LEMMA PublishEffect ==
  ASSUME ReelTyped, Orders!Engine!TypeOK, NEW m \in Traded, NEW c \in Orders!Paper!Clock,
         NEW s \in Scores, Orders!Publish(m, c, s)
  PROVE  /\ ReelTyped' /\ ReelGrows /\ Len(reel') = Len(reel) + 1
         /\ DOMAIN reel = 1..Len(reel) /\ DOMAIN reel' = 1..(Len(reel) + 1)
         /\ reel'[Len(reel) + 1] = [match |-> m, clock |-> c, score |-> s]
         /\ \/ queue' = queue
            \/ queue' = Append(queue, [n |-> Len(reel) + 1, match |-> m, clock |-> c])
         /\ UNCHANGED <<worker, emitted, released, placed>>
<1> DEFINE e == [match |-> m, clock |-> c, score |-> s]
<1>1. /\ reel' = Append(reel, e) /\ published' = published + 1
      /\ \/ queue' = queue
         \/ queue' = Append(queue, [n |-> published + 1, match |-> m, clock |-> c])
      /\ UNCHANGED <<worker, emitted, released, placed>>
  BY DEF Orders!Publish, Orders!Engine!Listen, Orders!Paper!PublishMatch
<1>2. e \in ReelFrame
  BY DEF ReelFrame
<1> HIDE DEF e
<1>3. reel' \in Seq(ReelFrame) /\ Len(reel') = Len(reel) + 1 /\ reel'[Len(reel) + 1] = e
      /\ \A i \in 1..Len(reel) : reel'[i] = reel[i]
  BY <1>1, <1>2, AppendProperties DEF ReelTyped
<1>4. /\ Len(reel) \in Nat /\ DOMAIN reel = 1..Len(reel)
      /\ DOMAIN reel' = 1..(Len(reel) + 1)
  BY <1>3, LenProperties DEF ReelTyped
<1>5. ReelTyped' /\ ReelGrows
  BY <1>1, <1>3, <1>4 DEF ReelTyped, ReelGrows
<1> QED BY <1>1, <1>3, <1>4, <1>5 DEF ReelTyped, e

LEMMA QueueStep ==
  ASSUME ReelTyped, QueueSound, Orders!Engine!TypeOK, [PathNext]_pathVars
  PROVE  QueueSound'
<1>1. queue \in Seq(Orders!Engine!Frame)
  BY DEF Orders!Engine!TypeOK
<1>2. ASSUME NEW m \in Traded, NEW c \in Orders!Paper!Clock, NEW s \in Scores,
             Orders!Publish(m, c, s)
      PROVE  QueueSound'
  <2>1. /\ ReelGrows /\ DOMAIN reel = 1..Len(reel) /\ DOMAIN reel' = 1..(Len(reel) + 1)
        /\ reel'[Len(reel) + 1] = [match |-> m, clock |-> c, score |-> s]
        /\ \/ queue' = queue
           \/ queue' = Append(queue, [n |-> Len(reel) + 1, match |-> m, clock |-> c])
        /\ Len(reel) \in Nat
    BY <1>2, PublishEffect, LenProperties DEF ReelTyped
  <2>2. CASE queue' = queue
    <3>1. \A i \in 1..Len(queue) : IsFrame(reel', queue'[i].match, queue'[i].clock, queue'[i].n)
      BY <2>1, <2>2, FramesStay DEF QueueSound
    <3> QED BY <2>2, <3>1 DEF QueueSound
  <2>3. CASE queue' = Append(queue, [n |-> Len(reel) + 1, match |-> m, clock |-> c])
    <3>1. PICK f : f = [n |-> Len(reel) + 1, match |-> m, clock |-> c]
      OBVIOUS
    <3>2. /\ Len(queue') = Len(queue) + 1 /\ Len(queue) \in Nat
          /\ queue'[Len(queue) + 1] = f /\ \A i \in 1..Len(queue) : queue'[i] = queue[i]
      <4>1. f \in [n : Nat, match : Traded, clock : {c}]
        BY <2>1, <3>1
      <4>2. PICK T : T = Orders!Engine!Frame \cup {f}
        OBVIOUS
      <4>3. queue \in Seq(T) /\ f \in T
        BY <1>1, <4>2, SeqMonotonic
      <4> QED BY <2>3, <3>1, <4>3, AppendProperties, LenProperties
    <3>3. \A i \in 1..Len(queue) : queue[i].n \in 1..Len(reel)
      BY <2>1 DEF QueueSound, IsFrame
    <3>4. IsFrame(reel', f.match, f.clock, f.n)
      BY <2>1, <3>1 DEF IsFrame
    <3>5. \A i \in 1..Len(queue') : IsFrame(reel', queue'[i].match, queue'[i].clock, queue'[i].n)
      <4> SUFFICES ASSUME NEW i \in 1..Len(queue')
                   PROVE  IsFrame(reel', queue'[i].match, queue'[i].clock, queue'[i].n)
        OBVIOUS
      <4>1. CASE i \in 1..Len(queue)
        BY <2>1, <3>2, <4>1, FramesStay DEF QueueSound
      <4>2. CASE i = Len(queue) + 1
        BY <3>2, <3>4, <4>2
      <4> QED BY <3>2, <4>1, <4>2
    <3>6. \A i, j \in 1..Len(queue') : i < j => queue'[i].n < queue'[j].n
      <4> SUFFICES ASSUME NEW i \in 1..Len(queue'), NEW j \in 1..Len(queue'), i < j
                   PROVE  queue'[i].n < queue'[j].n
        OBVIOUS
      <4>1. i \in 1..Len(queue) /\ queue'[i] = queue[i]
        BY <3>2
      <4>2. CASE j \in 1..Len(queue)
        BY <3>2, <4>1, <4>2 DEF QueueSound
      <4>3. CASE j = Len(queue) + 1
        <5>1. queue'[j].n = Len(reel) + 1
          BY <3>1, <3>2, <4>3
        <5>2. queue[i].n \in 1..Len(reel)
          BY <3>3, <4>1
        <5> QED BY <2>1, <4>1, <5>1, <5>2
      <4> QED BY <3>2, <4>2, <4>3
    <3> QED BY <3>5, <3>6 DEF QueueSound
  <2> QED BY <2>1, <2>2, <2>3
<1>3. ASSUME reel' = reel, Quiet
      PROVE  QueueSound'
  <2>1. CASE queue' = queue \/ queue' = <<>>
    BY <1>3, <2>1 DEF QueueSound, IsFrame
  <2>2. CASE queue # <<>> /\ queue' = Tail(queue)
    <3>1. /\ Len(queue) \in Nat /\ Len(queue') = Len(queue) - 1
          /\ \A i \in 1..Len(queue') : queue'[i] = queue[i + 1]
      BY <1>1, <2>2, HeadTailProperties, LenProperties
    <3>2. /\ \A i \in 1..Len(queue') : i + 1 \in 1..Len(queue)
          /\ \A i, j \in 1..Len(queue') : i < j => i + 1 < j + 1
      BY <3>1
    <3>3. \A i \in 1..Len(queue') :
            IsFrame(reel, queue'[i].match, queue'[i].clock, queue'[i].n)
      BY <3>1, <3>2 DEF QueueSound
    <3>4. \A i, j \in 1..Len(queue') : i < j => queue'[i].n < queue'[j].n
      BY <3>1, <3>2 DEF QueueSound
    <3> QED BY <1>3, <3>3, <3>4 DEF QueueSound, IsFrame
  <2> QED BY <1>3, <2>1, <2>2 DEF Quiet
<1> QED BY <1>2, <1>3, QuietSteps

LEMMA OrdersStep ==
  ASSUME ReelTyped, QueueSound, OrdersSound, Orders!Engine!TypeOK, [PathNext]_pathVars
  PROVE  OrdersSound'
<1>1. ASSUME NEW m \in Traded, NEW c \in Orders!Paper!Clock, NEW s \in Scores,
             Orders!Publish(m, c, s)
      PROVE  OrdersSound'
  <2>1. ReelGrows /\ UNCHANGED <<worker, emitted>>
    BY <1>1, PublishEffect
  <2>2. \A o : Answers(reel, o) => Answers(reel', o)
    BY <2>1, FramesStay DEF Answers
  <2>3. \A w \in Worker : worker[w].step = "publish" => Answers(reel', worker[w].order)
    BY <2>2 DEF OrdersSound, Orders!Engine!Publishing
  <2>4. \A o \in emitted : Answers(reel', o)
    BY <2>2 DEF OrdersSound
  <2> QED BY <2>1, <2>3, <2>4 DEF OrdersSound, Orders!Engine!Publishing, Answers
<1>2. ASSUME reel' = reel, Quiet
      PROVE  OrdersSound'
  <2>1. queue # <<>> => IsFrame(reel, Head(queue).match, Head(queue).clock, Head(queue).n)
    <3>1. queue \in Seq(Orders!Engine!Frame)
      BY DEF Orders!Engine!TypeOK
    <3>2. queue # <<>> => Head(queue) = queue[1] /\ 1 \in 1..Len(queue)
      BY <3>1, EmptySeq, LenProperties
    <3> QED BY <3>2 DEF QueueSound
  <2>2. ASSUME NEW w \in Worker, Orders!Engine!Publishing(w)'
        PROVE  Answers(reel, worker'[w].order)
    BY <1>2, <2>1, <2>2 DEF Quiet, OrdersSound, Answers
  <2>3. \A o \in emitted' : Answers(reel, o)
    BY <1>2 DEF Quiet, OrdersSound
  <2> QED BY <1>2, <2>2, <2>3 DEF OrdersSound, Answers, IsFrame
<1> QED BY <1>1, <1>2, QuietSteps

LEMMA PlacedStep ==
  ASSUME ReelTyped, PlacedSound, Buffered, Orders!Engine!TypeOK, [PathNext]_pathVars
  PROVE  PlacedSound'
<1>1. emitted \subseteq emitted'
  BY QuietSteps, PublishEffect DEF Quiet
<1>2. ASSUME placed' = placed
      PROVE  PlacedSound'
  BY <1>1, <1>2 DEF PlacedSound
<1>3. ASSUME NEW s \in BetSides, NEW ok \in BOOLEAN, Orders!CommandRunLoop(s, ok)
      PROVE  PlacedSound'
  <2>1. PICK f : f = [id |-> Head(commands), match |-> Head(commands).match, side |-> s]
    OBVIOUS
  <2>2. /\ commands # <<>> /\ \A g \in placed : g.id # f.id
        /\ placed' = placed \/ placed' = placed \cup {f}
    BY <1>3, <2>1 DEF Orders!CommandRunLoop, Orders!Paper!ExecuteEnvelope
  <2>3. f.id \in emitted /\ f.match = f.id.match
    BY <2>1, <2>2, HeadTailProperties DEF Buffered
  <2> QED BY <1>1, <2>2, <2>3 DEF PlacedSound
<1>4. CASE UNCHANGED orderVars
  BY <1>2, <1>4 DEF orderVars
<1>5. ASSUME NEW m \in Traded, NEW c \in Orders!Paper!Clock, NEW s \in Scores,
             Orders!Publish(m, c, s)
      PROVE  placed' = placed
  BY <1>5, PublishEffect
<1>6. ASSUME \/ \E w \in Worker, ok, delivered \in BOOLEAN : Orders!Emit(w, ok, delivered)
             \/ Orders!EngineAlone \/ Orders!EngineCrash
      PROVE  placed' = placed
  BY <1>6 DEF Orders!Emit, Orders!EngineAlone, Orders!EngineCrash, Orders!paperVars
<1>7. CASE Orders!BrokerAlone \/ Orders!BrokerCrash
  BY <1>2, <1>7 DEF Orders!BrokerAlone, Orders!BrokerCrash, Orders!Paper!PaperRunLoop,
    Orders!Paper!FeedReceive, Orders!Paper!Settle, Orders!Paper!PersistSession,
    Orders!Paper!RecordSettlements, Orders!Paper!PublishSnapshot, Orders!Paper!ClearOrders,
    Orders!Paper!StaleSweep, Orders!Paper!SweepBegin, Orders!Paper!SweepCheck,
    Orders!Paper!SweepGrade, Orders!Paper!KickoffAges, Orders!Paper!FrameAges,
    Orders!Paper!Restart, Orders!Paper!Crash
<1>8. Orders!Next \/ UNCHANGED orderVars
  BY DEF PathNext, pathVars
<1> QED BY <1>2, <1>3, <1>4, <1>5, <1>6, <1>7, <1>8 DEF Orders!Next

LEMMA WireHolds == PathSpec => []WireInv
<1>1. PathInit => WireInv
  BY DEF PathInit, Orders!Init, Orders!Engine!Init, Orders!Paper!Init, Orders!Paper!ProcessInit,
    WireInv, ReelTyped, QueueSound, OrdersSound, PlacedSound, Orders!Engine!Publishing,
    Orders!Engine!NoTask
<1>2. Orders!Engine!IInv /\ Buffered /\ WireInv /\ [PathNext]_pathVars => WireInv'
  <2> SUFFICES ASSUME Orders!Engine!IInv, Buffered, WireInv, [PathNext]_pathVars PROVE WireInv'
    OBVIOUS
  <2>1. Orders!Engine!TypeOK
    BY DEF Orders!Engine!IInv
  <2>2. ReelTyped'
    BY <2>1, QuietSteps, PublishEffect DEF Quiet, ReelTyped, WireInv
  <2> QED BY <2>1, <2>2, QueueStep, OrdersStep, PlacedStep DEF WireInv
<1> QED BY <1>1, <1>2, EngineSound, BufferedHolds, PTL DEF PathSpec

-----------------------------------------------------------------------------
(* A match is released once for every FULLTIME frame at most: a frame that *)
(* the engine has not dealt with yet waits in the queue, or with a worker  *)
(* that publishes audits.                                                  *)
Waiting(m) == {n \in Orders!FullTimes(m) : \E i \in 1..Len(queue) : queue[i].n = n}

Diagnosing(m) == {w \in Worker : worker[w].step = "diagnose" /\ worker[w].match = m}

Balanced(finals_, waiting, diagnosing, count) ==
  /\ IsFiniteSet(finals_) /\ IsFiniteSet(waiting) /\ IsFiniteSet(diagnosing)
  /\ count + Cardinality(waiting) + Cardinality(diagnosing) <= Cardinality(finals_)

ReleaseInv ==
  \A m \in Traded : Balanced(Orders!FullTimes(m), Waiting(m), Diagnosing(m), released[m])

(* What a step makes of the frames that wait, of the workers that publish  *)
(* audits and of the releases of a match: a frame or a worker is given up  *)
(* for a release, a frame for a worker, or something is lost.              *)
Shifted(W, D, c, W1, D1, c1) ==
  \/ W1 \subseteq W /\ D1 \subseteq D /\ c1 = c
  \/ \E w \in D : W1 \subseteq W /\ D1 \subseteq D \ {w} /\ c1 = c + 1
  \/ \E n \in W : W1 \subseteq W \ {n} /\ D1 \subseteq D /\ c1 = c + 1
  \/ \E n \in W : \E w : W1 \subseteq W \ {n} /\ D1 \subseteq D \cup {w} /\ c1 = c

LEMMA BalanceKept ==
  ASSUME NEW F, NEW W, NEW D, NEW c \in Nat, NEW W1, NEW D1, NEW c1,
         Balanced(F, W, D, c), Shifted(W, D, c, W1, D1, c1)
  PROVE  Balanced(F, W1, D1, c1)
<1> USE DEF Balanced
<1>1. Cardinality(F) \in Nat /\ Cardinality(W) \in Nat /\ Cardinality(D) \in Nat
  BY FS_CardinalityType
<1>2. ASSUME NEW S, NEW T, IsFiniteSet(S), T \subseteq S
      PROVE  /\ IsFiniteSet(T) /\ Cardinality(T) \in Nat /\ Cardinality(T) <= Cardinality(S)
             /\ Cardinality(S) \in Nat
  BY <1>2, FS_Subset, FS_CardinalityType
<1>3. CASE W1 \subseteq W /\ D1 \subseteq D /\ c1 = c
  BY <1>1, <1>2, <1>3
<1>4. ASSUME NEW w \in D, W1 \subseteq W, D1 \subseteq D \ {w}, c1 = c + 1
      PROVE  Balanced(F, W1, D1, c1)
  <2>1. IsFiniteSet(D \ {w}) /\ Cardinality(D \ {w}) = Cardinality(D) - 1
    BY FS_RemoveElement
  <2>2. /\ IsFiniteSet(W1) /\ Cardinality(W1) \in Nat /\ Cardinality(W1) <= Cardinality(W)
        /\ IsFiniteSet(D1) /\ Cardinality(D1) \in Nat
        /\ Cardinality(D1) <= Cardinality(D \ {w})
    BY <1>2, <1>4, <2>1
  <2> QED BY <1>1, <1>4, <2>1, <2>2
<1>5. ASSUME NEW n \in W, W1 \subseteq W \ {n}, D1 \subseteq D, c1 = c + 1
      PROVE  Balanced(F, W1, D1, c1)
  <2>1. IsFiniteSet(W \ {n}) /\ Cardinality(W \ {n}) = Cardinality(W) - 1
    BY FS_RemoveElement
  <2>2. /\ IsFiniteSet(D1) /\ Cardinality(D1) \in Nat /\ Cardinality(D1) <= Cardinality(D)
        /\ IsFiniteSet(W1) /\ Cardinality(W1) \in Nat
        /\ Cardinality(W1) <= Cardinality(W \ {n})
    BY <1>2, <1>5, <2>1
  <2> QED BY <1>1, <1>5, <2>1, <2>2
<1>6. ASSUME NEW n \in W, NEW w, W1 \subseteq W \ {n}, D1 \subseteq D \cup {w}, c1 = c
      PROVE  Balanced(F, W1, D1, c1)
  <2>1. IsFiniteSet(W \ {n}) /\ Cardinality(W \ {n}) = Cardinality(W) - 1
    BY FS_RemoveElement
  <2>2. IsFiniteSet(D \cup {w}) /\ Cardinality(D \cup {w}) <= Cardinality(D) + 1
    <3>1. /\ IsFiniteSet(D \cup {w})
          /\ Cardinality(D \cup {w}) = IF w \in D THEN Cardinality(D) ELSE Cardinality(D) + 1
      BY FS_AddElement
    <3>2. CASE w \in D
      BY <1>1, <3>1, <3>2
    <3>3. CASE w \notin D
      BY <1>1, <3>1, <3>3
    <3> QED BY <3>2, <3>3
  <2>3. /\ IsFiniteSet(D1) /\ Cardinality(D1) \in Nat
        /\ Cardinality(D1) <= Cardinality(D \cup {w}) /\ Cardinality(D \cup {w}) \in Nat
        /\ IsFiniteSet(W1) /\ Cardinality(W1) \in Nat
        /\ Cardinality(W1) <= Cardinality(W \ {n})
    BY <1>2, <1>6, <2>1, <2>2
  <2> QED BY <1>1, <1>6, <2>1, <2>2, <2>3
<1> QED BY <1>3, <1>4, <1>5, <1>6 DEF Shifted

(* A new FULLTIME frame may wait.                                          *)
LEMMA BalanceGrows ==
  ASSUME NEW F, NEW W, NEW D, NEW c \in Nat, NEW l, l \notin F,
         NEW W1, W1 \subseteq W \cup {l}, Balanced(F, W, D, c)
  PROVE  Balanced(F \cup {l}, W1, D, c)
<1> USE DEF Balanced
<1>1. Cardinality(F) \in Nat /\ Cardinality(W) \in Nat /\ Cardinality(D) \in Nat
  BY FS_CardinalityType
<1>2. IsFiniteSet(F \cup {l}) /\ Cardinality(F \cup {l}) = Cardinality(F) + 1
  BY FS_AddElement
<1>3. IsFiniteSet(W \cup {l}) /\ Cardinality(W \cup {l}) <= Cardinality(W) + 1
  <2>1. /\ IsFiniteSet(W \cup {l})
        /\ Cardinality(W \cup {l}) = IF l \in W THEN Cardinality(W) ELSE Cardinality(W) + 1
    BY FS_AddElement
  <2>2. CASE l \in W
    BY <1>1, <2>1, <2>2
  <2>3. CASE l \notin W
    BY <1>1, <2>1, <2>3
  <2> QED BY <2>2, <2>3
<1>4. IsFiniteSet(W1) /\ Cardinality(W1) <= Cardinality(W \cup {l})
  BY <1>3, FS_Subset
<1>5. Cardinality(W1) \in Nat /\ Cardinality(W \cup {l}) \in Nat
  BY <1>3, <1>4, FS_CardinalityType
<1> QED BY <1>1, <1>2, <1>3, <1>4, <1>5

(* A step of the engine that hears no frame shifts the balance.            *)
LEMMA QueueShrinks ==
  ASSUME Orders!Engine!TypeOK, reel' = reel,
         queue' = queue \/ (queue # <<>> /\ queue' = Tail(queue)) \/ queue' = <<>>,
         NEW m \in Traded
  PROVE  Waiting(m)' \subseteq Waiting(m)
<1>1. queue \in Seq(Orders!Engine!Frame) /\ Orders!FullTimes(m)' = Orders!FullTimes(m)
  BY DEF Orders!Engine!TypeOK, Orders!FullTimes
<1>2. \A i \in 1..Len(queue') : \E j \in 1..Len(queue) : queue'[i] = queue[j]
  <2>1. CASE queue' = queue
    BY <2>1
  <2>2. CASE queue # <<>> /\ queue' = Tail(queue)
    <3>1. /\ Len(queue) \in Nat /\ Len(queue') = Len(queue) - 1
          /\ \A i \in 1..Len(queue') : queue'[i] = queue[i + 1]
      BY <1>1, <2>2, HeadTailProperties, LenProperties
    <3>2. \A i \in 1..Len(queue') : i + 1 \in 1..Len(queue)
      BY <3>1
    <3> QED BY <3>1, <3>2
  <2>3. CASE queue' = <<>>
    BY <2>3
  <2> QED BY <2>1, <2>2, <2>3
<1> QED BY <1>1, <1>2 DEF Waiting

(* A worker takes a FULLTIME frame: it no longer waits.                    *)
LEMMA HeadLeaves ==
  ASSUME Orders!Engine!TypeOK, QueueSound, reel' = reel, queue # <<>>, queue' = Tail(queue),
         Head(queue).clock = "FULLTIME", NEW m, m = Head(queue).match
  PROVE  Head(queue).n \in Waiting(m) /\ Waiting(m)' \subseteq Waiting(m) \ {Head(queue).n}
<1>1. queue \in Seq(Orders!Engine!Frame) /\ Orders!FullTimes(m)' = Orders!FullTimes(m)
  BY DEF Orders!Engine!TypeOK, Orders!FullTimes
<1>2. /\ Len(queue) \in Nat /\ Len(queue') = Len(queue) - 1
      /\ \A i \in 1..Len(queue') : queue'[i] = queue[i + 1]
      /\ Head(queue) = queue[1] /\ 1 \in 1..Len(queue)
  BY <1>1, HeadTailProperties, EmptySeq, LenProperties
<1>3. \A i \in 1..Len(queue') : i + 1 \in 1..Len(queue) /\ 1 < i + 1
  BY <1>2
<1>4. Head(queue).n \in Waiting(m)
  BY <1>2 DEF Waiting, Orders!FullTimes, QueueSound, IsFrame
<1>5. \A i \in 1..Len(queue') : queue[1].n < queue[i + 1].n /\ queue[1].n \in Nat
  <2>1. queue[1] \in Orders!Engine!Frame
    BY <1>1, <1>2, ElementOfSeq
  <2>2. queue[1].n \in Nat
    BY <2>1 DEF Orders!Engine!Frame
  <2> QED BY <1>2, <1>3, <2>2 DEF QueueSound
<1>6. \A i \in 1..Len(queue') : queue'[i].n # Head(queue).n
  BY <1>2, <1>5
<1>7. Waiting(m)' \subseteq Waiting(m)
  BY <1>1, <1>2, <1>3 DEF Waiting
<1> QED BY <1>4, <1>6, <1>7 DEF Waiting

LEMMA ReleaseCounts ==
  ASSUME Orders!Engine!TypeOK, NEW q \in Traded, Orders!Engine!Release(q), NEW m \in Traded
  PROVE  released'[m] = IF m = q THEN released[m] + 1 ELSE released[m]
BY DEF Orders!Engine!TypeOK, Orders!Engine!Release

ShiftedStep(m) ==
  Shifted(Waiting(m), Diagnosing(m), released[m], Waiting(m)', Diagnosing(m)', released'[m])

LEMMA TakeShifts ==
  ASSUME Orders!Engine!TypeOK, QueueSound, reel' = reel, NEW w \in Worker,
         Orders!Engine!Take(w), NEW m \in Traded
  PROVE  ShiftedStep(m)
<1> USE DEF ShiftedStep, Shifted
<1>1. /\ queue # <<>> /\ queue' = Tail(queue) /\ worker[w].step = "idle"
      /\ worker \in [Worker -> Orders!Engine!Task]
      /\ queue \in Seq(Orders!Engine!Frame)
  BY DEF Orders!Engine!Take, Orders!Engine!Idle, Orders!Engine!TypeOK
<1>2. Waiting(m)' \subseteq Waiting(m)
  BY <1>1, QueueShrinks
<1>3. Head(queue).match \in Traded
  <2>1. Head(queue) \in Orders!Engine!Frame
    BY <1>1, HeadTailProperties
  <2> QED BY <2>1 DEF Orders!Engine!Frame
<1>4. CASE UNCHANGED <<worker, released>>
  BY <1>2, <1>4 DEF Diagnosing
<1>5. ASSUME NEW markets \in SUBSET Market, Orders!Engine!Observe(w, Head(queue), markets)
      PROVE  ShiftedStep(m)
  <2>1. /\ \A v \in Worker : v # w => worker'[v] = worker[v]
        /\ worker'[w].step \in {"idle", "publish"} /\ released' = released
    BY <1>5, TriggerQuiet DEF Orders!Engine!Observe
  <2>2. Diagnosing(m)' \subseteq Diagnosing(m)
    BY <2>1 DEF Diagnosing
  <2> QED BY <1>2, <2>1, <2>2
<1>6. ASSUME NEW markets \in SUBSET Market, Orders!Engine!Settle(w, Head(queue), markets)
      PROVE  ShiftedStep(m)
  <2>1. Head(queue).clock = "FULLTIME"
    BY <1>6 DEF Orders!Engine!Settle
  <2>2. m = Head(queue).match =>
          Head(queue).n \in Waiting(m) /\ Waiting(m)' \subseteq Waiting(m) \ {Head(queue).n}
    BY <1>1, <2>1, HeadLeaves
  <2>3. CASE Orders!Engine!Release(Head(queue).match) /\ Orders!Engine!Finish(w)
    <3>1. Diagnosing(m)' \subseteq Diagnosing(m)
      BY <1>1, <2>3 DEF Diagnosing, Orders!Engine!Finish, Orders!Engine!NoTask
    <3>2. released'[m] = IF m = Head(queue).match THEN released[m] + 1 ELSE released[m]
      BY <1>3, <2>3, ReleaseCounts
    <3>3. CASE m = Head(queue).match
      BY <2>2, <3>1, <3>2, <3>3
    <3>4. CASE m # Head(queue).match
      BY <1>2, <3>1, <3>2, <3>4
    <3> QED BY <3>3, <3>4
  <2>4. CASE /\ worker' = [worker EXCEPT ![w] =
                  [step |-> "diagnose", match |-> Head(queue).match, todo |-> markets]]
             /\ released' = released
    <3>1. /\ Diagnosing(m)' \subseteq Diagnosing(m) \cup {w}
          /\ m # Head(queue).match => Diagnosing(m)' \subseteq Diagnosing(m)
      BY <1>1, <2>4 DEF Diagnosing
    <3>2. CASE m = Head(queue).match
      BY <2>2, <2>4, <3>1, <3>2
    <3>3. CASE m # Head(queue).match
      BY <1>2, <2>4, <3>1, <3>3
    <3> QED BY <3>2, <3>3
  <2> QED BY <1>6, <2>3, <2>4 DEF Orders!Engine!Settle
<1> QED BY <1>4, <1>5, <1>6 DEF Orders!Engine!Take

LEMMA DiagnoseShifts ==
  ASSUME Orders!Engine!TypeOK, reel' = reel, NEW w \in Worker, NEW ok \in BOOLEAN,
         NEW delivered \in BOOLEAN, Orders!Engine!Diagnose(w, ok, delivered), NEW m \in Traded
  PROVE  ShiftedStep(m)
<1> USE DEF ShiftedStep, Shifted
<1>1. /\ queue' = queue /\ worker[w].step = "diagnose"
      /\ worker \in [Worker -> Orders!Engine!Task]
  BY DEF Orders!Engine!Diagnose, Orders!Engine!TypeOK
<1>2. Waiting(m)' \subseteq Waiting(m)
  BY <1>1, QueueShrinks
<1>3. worker[w].match \in Traded
  BY <1>1 DEF Orders!Engine!Task
<1>4. CASE Orders!Engine!Abandon(w) /\ released' = released
  <2>1. Diagnosing(m)' \subseteq Diagnosing(m)
    BY <1>1, <1>4 DEF Diagnosing, Orders!Engine!Abandon, Orders!Engine!NoTask
  <2> QED BY <1>2, <1>4, <2>1
<1>5. CASE Orders!Engine!Release(worker[w].match) /\ Orders!Engine!Finish(w)
  <2>1. /\ Diagnosing(m)' \subseteq Diagnosing(m) \ {w}
        /\ m = worker[w].match => w \in Diagnosing(m)
    BY <1>1, <1>5 DEF Diagnosing, Orders!Engine!Finish, Orders!Engine!NoTask
  <2>2. released'[m] = IF m = worker[w].match THEN released[m] + 1 ELSE released[m]
    BY <1>3, <1>5, ReleaseCounts
  <2>3. CASE m = worker[w].match
    BY <1>2, <2>1, <2>2, <2>3
  <2>4. CASE m # worker[w].match
    BY <1>2, <2>1, <2>2, <2>4
  <2> QED BY <2>3, <2>4
<1>6. ASSUME NEW k, worker' = [worker EXCEPT ![w].todo = @ \ {k}], released' = released
      PROVE  ShiftedStep(m)
  <2>1. Diagnosing(m)' \subseteq Diagnosing(m)
    BY <1>1, <1>6 DEF Diagnosing, Orders!Engine!Task
  <2> QED BY <1>2, <1>6, <2>1
<1> QED BY <1>4, <1>5, <1>6 DEF Orders!Engine!Diagnose

LEMMA EmitShifts ==
  ASSUME Orders!Engine!TypeOK, reel' = reel, NEW w \in Worker, NEW ok \in BOOLEAN,
         NEW delivered \in BOOLEAN, Orders!Engine!Emit(w, ok, delivered), NEW m \in Traded
  PROVE  ShiftedStep(m)
<1>1. /\ queue' = queue /\ released' = released /\ worker \in [Worker -> Orders!Engine!Task]
  BY DEF Orders!Engine!Emit, Orders!Engine!TypeOK
<1>2. Waiting(m)' \subseteq Waiting(m)
  BY <1>1, QueueShrinks
<1>3. /\ \A v \in Worker : v # w => worker'[v] = worker[v]
      /\ worker'[w].step \in {"idle", "publish"}
  <2>1. CASE Orders!Engine!Abandon(w)
    BY <1>1, <2>1 DEF Orders!Engine!Abandon, Orders!Engine!NoTask
  <2>2. CASE Orders!Engine!Trigger(w, worker[w].order.match, worker[w].order.n, worker[w].todo)
    BY <2>2, TriggerQuiet
  <2> QED BY <2>1, <2>2 DEF Orders!Engine!Emit
<1>4. Diagnosing(m)' \subseteq Diagnosing(m)
  BY <1>3 DEF Diagnosing
<1> QED BY <1>1, <1>2, <1>4 DEF ShiftedStep, Shifted

(* Every step but Publish.                                                 *)
LEMMA StepShifts ==
  ASSUME Orders!Engine!TypeOK, ReelTyped, QueueSound, [PathNext]_pathVars, NEW m \in Traded
  PROVE  \/ \E t \in Traded, c \in Orders!Paper!Clock, s \in Scores : Orders!Publish(t, c, s)
         \/ reel' = reel /\ ShiftedStep(m)
<1>1. ASSUME UNCHANGED <<reel, queue, worker, released>>
      PROVE  reel' = reel /\ ShiftedStep(m)
  BY <1>1 DEF ShiftedStep, Shifted, Waiting, Diagnosing, Orders!FullTimes
<1>2. ASSUME Orders!EngineAlone
      PROVE  reel' = reel /\ ShiftedStep(m)
  <2>1. reel' = reel
    BY <1>2 DEF Orders!EngineAlone
  <2>2. CASE Orders!Engine!Restart
    BY <1>1, <2>1, <2>2 DEF Orders!Engine!Restart
  <2> QED BY <1>2, <2>1, <2>2, TakeShifts, DiagnoseShifts DEF Orders!EngineAlone
<1>3. ASSUME Orders!EngineCrash
      PROVE  reel' = reel /\ ShiftedStep(m)
  <2>1. /\ reel' = reel /\ queue' = <<>> /\ released' = released
        /\ worker' = [w \in Worker |-> Orders!Engine!NoTask]
    BY <1>3 DEF Orders!EngineCrash, Orders!Engine!Crash
  <2>2. Waiting(m)' \subseteq Waiting(m)
    BY <2>1, QueueShrinks
  <2>3. Diagnosing(m)' \subseteq Diagnosing(m)
    BY <2>1 DEF Diagnosing, Orders!Engine!NoTask
  <2> QED BY <2>1, <2>2, <2>3 DEF ShiftedStep, Shifted
<1>4. ASSUME NEW w \in Worker, NEW ok \in BOOLEAN, NEW delivered \in BOOLEAN,
             Orders!Emit(w, ok, delivered)
      PROVE  reel' = reel /\ ShiftedStep(m)
  BY <1>4, EmitShifts DEF Orders!Emit
<1>5. ASSUME \/ \E s \in BetSides, ok \in BOOLEAN : Orders!CommandRunLoop(s, ok)
             \/ Orders!BrokerAlone \/ Orders!BrokerCrash
      PROVE  UNCHANGED <<reel, queue, worker, released>>
  BY <1>5 DEF Orders!CommandRunLoop, Orders!BrokerAlone, Orders!BrokerCrash, Orders!engineVars
<1>6. Orders!Next \/ UNCHANGED orderVars
  BY DEF PathNext, pathVars
<1>7. CASE UNCHANGED orderVars
  BY <1>1, <1>7 DEF orderVars
<1> QED BY <1>1, <1>2, <1>3, <1>4, <1>5, <1>6, <1>7 DEF Orders!Next

(* Publish adds at most one frame, to the reel and to those that wait.     *)
LEMMA PublishBalances ==
  ASSUME Orders!Engine!TypeOK, ReelTyped, QueueSound, NEW t \in Traded,
         NEW c \in Orders!Paper!Clock, NEW s \in Scores, Orders!Publish(t, c, s),
         NEW m \in Traded,
         Balanced(Orders!FullTimes(m), Waiting(m), Diagnosing(m), released[m])
  PROVE  Balanced(Orders!FullTimes(m), Waiting(m), Diagnosing(m), released[m])'
<1> DEFINE L == Len(reel) + 1
<1>1. /\ ReelGrows /\ L \in Nat /\ DOMAIN reel = 1..Len(reel) /\ DOMAIN reel' = 1..L
      /\ reel'[L] = [match |-> t, clock |-> c, score |-> s]
      /\ \/ queue' = queue
         \/ queue' = Append(queue, [n |-> L, match |-> t, clock |-> c])
      /\ UNCHANGED <<worker, released>> /\ Len(reel) \in Nat
  BY PublishEffect, LenProperties DEF ReelTyped
<1>2. \A i \in 1..Len(queue') : queue'[i].n = L \/ \E j \in 1..Len(queue) : queue'[i] = queue[j]
  <2>1. CASE queue' = Append(queue, [n |-> L, match |-> t, clock |-> c])
    <3>1. PICK f : f = [n |-> L, match |-> t, clock |-> c]
      OBVIOUS
    <3>2. PICK T : T = Orders!Engine!Frame \cup {f}
      OBVIOUS
    <3>3. queue \in Seq(T) /\ f \in T
      BY <3>2, SeqMonotonic DEF Orders!Engine!TypeOK
    <3>4. /\ Len(queue') = Len(queue) + 1 /\ Len(queue) \in Nat
          /\ queue'[Len(queue) + 1] = f /\ \A i \in 1..Len(queue) : queue'[i] = queue[i]
      BY <2>1, <3>1, <3>3, AppendProperties, LenProperties
    <3>5. \A i \in 1..Len(queue') : i \in 1..Len(queue) \/ i = Len(queue) + 1
      BY <3>4
    <3> QED BY <3>1, <3>4, <3>5
  <2> QED BY <1>1, <2>1
<1>3. PICK F1, W1 : F1 = Orders!FullTimes(m)' /\ W1 = Waiting(m)'
  OBVIOUS
<1>4. Diagnosing(m)' = Diagnosing(m) /\ released'[m] = released[m]
  BY <1>1 DEF Diagnosing
<1>5. Orders!FullTimes(m) \subseteq 1..Len(reel)
  BY <1>1 DEF Orders!FullTimes
<1>8. released[m] \in Nat
  BY DEF Orders!Engine!TypeOK
<1>6. CASE m = t /\ c = "FULLTIME"
  <2>1. F1 = Orders!FullTimes(m) \cup {L}
    BY <1>1, <1>3, <1>6 DEF Orders!FullTimes, ReelGrows
  <2>2. W1 \subseteq Waiting(m) \cup {L}
    BY <1>2, <1>3, <2>1 DEF Waiting
  <2>3. L \notin Orders!FullTimes(m)
    BY <1>1, <1>5
  <2>4. Balanced(F1, W1, Diagnosing(m), released[m])
    BY <1>8, <2>1, <2>2, <2>3, BalanceGrows
  <2> QED BY <1>3, <1>4, <2>4 DEF Balanced
<1>7. CASE ~(m = t /\ c = "FULLTIME")
  <2>1. F1 = Orders!FullTimes(m)
    BY <1>1, <1>3, <1>7 DEF Orders!FullTimes, ReelGrows
  <2>2. L \notin F1
    BY <1>1, <1>5, <2>1
  <2>3. W1 \subseteq Waiting(m)
    BY <1>2, <1>3, <2>1, <2>2 DEF Waiting
  <2>4. Balanced(F1, W1, Diagnosing(m), released[m])
    BY <1>8, <2>1, <2>3, BalanceKept DEF Shifted
  <2> QED BY <1>3, <1>4, <2>4 DEF Balanced
<1> QED BY <1>6, <1>7

LEMMA ReleaseHolds == PathSpec => []ReleaseInv
<1>1. PathInit => ReleaseInv
  <2> SUFFICES ASSUME PathInit, NEW m \in Traded
               PROVE  Balanced(Orders!FullTimes(m), Waiting(m), Diagnosing(m), released[m])
    BY DEF ReleaseInv
  <2>1. /\ reel = <<>> /\ released[m] = 0
        /\ \A w \in Worker : worker[w].step = "idle"
    BY DEF PathInit, Orders!Init, Orders!Engine!Init, Orders!Engine!NoTask
  <2>2. Orders!FullTimes(m) = {} /\ Waiting(m) = {} /\ Diagnosing(m) = {}
    BY <2>1 DEF Orders!FullTimes, Waiting, Diagnosing
  <2> QED BY <2>1, <2>2, FS_EmptySet DEF Balanced
<1>2. Orders!Engine!IInv /\ WireInv /\ ReleaseInv /\ [PathNext]_pathVars => ReleaseInv'
  <2> SUFFICES ASSUME Orders!Engine!IInv, WireInv, ReleaseInv, [PathNext]_pathVars,
                      NEW m \in Traded
               PROVE  Balanced(Orders!FullTimes(m), Waiting(m), Diagnosing(m), released[m])'
    BY DEF ReleaseInv
  <2>1. /\ Orders!Engine!TypeOK /\ ReelTyped /\ QueueSound /\ released[m] \in Nat
        /\ Balanced(Orders!FullTimes(m), Waiting(m), Diagnosing(m), released[m])
    BY DEF Orders!Engine!IInv, Orders!Engine!TypeOK, WireInv, ReleaseInv
  <2>2. ASSUME NEW t \in Traded, NEW c \in Orders!Paper!Clock, NEW s \in Scores,
               Orders!Publish(t, c, s)
        PROVE  Balanced(Orders!FullTimes(m), Waiting(m), Diagnosing(m), released[m])'
    BY <2>1, <2>2, PublishBalances
  <2>3. ASSUME reel' = reel, ShiftedStep(m)
        PROVE  Balanced(Orders!FullTimes(m), Waiting(m), Diagnosing(m), released[m])'
    <3>1. PICK F, W, D, c : /\ F = Orders!FullTimes(m) /\ F = Orders!FullTimes(m)'
                            /\ W = Waiting(m)' /\ D = Diagnosing(m)' /\ c = released'[m]
      BY <2>3 DEF Orders!FullTimes
    <3>2. Balanced(F, W, D, c)
      BY <2>1, <2>3, <3>1, BalanceKept DEF ShiftedStep
    <3> QED BY <3>1, <3>2 DEF Balanced
  <2> QED BY <2>1, <2>2, <2>3, StepShifts
<1> QED BY <1>1, <1>2, EngineSound, WireHolds, PTL DEF PathSpec

(* The bets of a market in one life of the engine have distinct cycles,    *)
(* none of them later than the number of releases.                         *)
LEMMA BetsPerCycle ==
  ASSUME Orders!Engine!IInv, Orders!Paper!IInv, PlacedSound,
         NEW m \in Traded, NEW k \in Market, NEW era
  PROVE  /\ IsFiniteSet(Orders!Bets(m, k, era))
         /\ Cardinality(Orders!Bets(m, k, era)) <= released[m] + 1
<1> DEFINE B == Orders!Bets(m, k, era)
           f == [b \in B |-> b.id.cycle]
<1>1. released[m] \in Nat
  BY DEF Orders!Engine!IInv, Orders!Engine!TypeOK
<1>2. \A b \in B : /\ b \in placed /\ b.id \in emitted /\ b.id \in Orders!Engine!Order
                   /\ b.id.match = m /\ b.id.market = k /\ b.id.life = era
  BY DEF Orders!Bets, PlacedSound, Orders!Engine!IInv, Orders!Engine!TypeOK
<1>3. \A b \in B : b.id.cycle \in 0..released[m]
  <2> SUFFICES ASSUME NEW b \in B PROVE b.id.cycle \in 0..released[m]
    OBVIOUS
  <2>1. b.id.cycle \in Nat
    BY <1>2 DEF Orders!Engine!Order
  <2>2. b.id.cycle <= released[m]
    BY <1>2 DEF Orders!Engine!IInv, Orders!Engine!ClaimsHeld, Orders!Engine!NoFuture
  <2> QED BY <1>1, <2>1, <2>2
<1>4. \A a, b \in B : a.id.cycle = b.id.cycle => a = b
  BY <1>2 DEF PlacedSound, Orders!Engine!IInv, Orders!Engine!OneOrderPerCycle
<1>5. f \in Injection(B, 0..released[m])
  BY <1>3, <1>4 DEF Injection, IsInjective
<1>6. IsFiniteSet(0..released[m]) /\ Cardinality(0..released[m]) = released[m] + 1
  BY <1>1, FS_Interval
<1> HIDE DEF B, f
<1>7. IsFiniteSet(B) /\ Cardinality(B) <= released[m] + 1
  BY <1>5, <1>6, FS_Injection
<1> QED BY <1>7 DEF B

(* The gate holds end to end, however frames, orders and crashes fall      *)
(* (position_gate.py:12-27, main.py:138-176).                              *)
THEOREM BetsPerFullTime == PathSpec => []OneBetPerFullTime
<1>1. Orders!Engine!IInv /\ Orders!Paper!IInv /\ WireInv /\ ReleaseInv => OneBetPerFullTime
  <2> SUFFICES ASSUME Orders!Engine!IInv, Orders!Paper!IInv, WireInv, ReleaseInv,
                      NEW m \in Traded, NEW k \in Market, NEW era
               PROVE  Cardinality(Orders!Bets(m, k, era))
                        <= 1 + Cardinality(Orders!FullTimes(m))
    BY DEF OneBetPerFullTime, Orders!OneBetPerFullTime, Orders!Cardinality, Cardinality
  <2>1. /\ IsFiniteSet(Orders!Bets(m, k, era))
        /\ Cardinality(Orders!Bets(m, k, era)) <= released[m] + 1
    BY BetsPerCycle DEF WireInv
  <2>2. /\ IsFiniteSet(Orders!FullTimes(m)) /\ IsFiniteSet(Waiting(m))
        /\ IsFiniteSet(Diagnosing(m)) /\ released[m] \in Nat
        /\ released[m] + Cardinality(Waiting(m)) + Cardinality(Diagnosing(m))
             <= Cardinality(Orders!FullTimes(m))
    BY DEF ReleaseInv, Balanced, Orders!Engine!IInv, Orders!Engine!TypeOK
  <2>3. /\ Cardinality(Orders!Bets(m, k, era)) \in Nat
        /\ Cardinality(Orders!FullTimes(m)) \in Nat
        /\ Cardinality(Waiting(m)) \in Nat /\ Cardinality(Diagnosing(m)) \in Nat
    BY <2>1, <2>2, FS_CardinalityType
  <2> QED BY <2>1, <2>2, <2>3
<1> QED BY <1>1, EngineSound, BrokerSound, WireHolds, ReleaseHolds, PTL

-----------------------------------------------------------------------------
(* What the sweep grades on.  A FULLTIME hash holds the score of a         *)
(* FULLTIME frame after every LIVE frame of its match, so after the one    *)
(* that a bet answers; what the sweep has read stays true of the reel.     *)
FinalAfter(r, m, n, s) ==
  \E i \in DOMAIN r : r[i].match = m /\ r[i].clock = "FULLTIME" /\ n < i /\ r[i].score = s

HashSound ==
  \A m \in Traded : matchHash[m].clock = "FULLTIME" =>
    \A n : IsFrame(reel, m, "LIVE", n) => FinalAfter(reel, m, n, matchHash[m].score)

SweepSound ==
  job["stale_sweep"].step # "idle" /\ job["stale_sweep"].verified =>
    \A f \in job["stale_sweep"].batch :
      FinalAfter(reel, f.id.match, f.id.n, job["stale_sweep"].score)

SweptSound ==
  \A e \in ledger : e.source = "stale_sweep" /\ e.result # "unresolved" =>
    FinalAfter(reel, e.fill.id.match, e.fill.id.n, e.score)

SweepInv == HashSound /\ SweepSound /\ SweptSound

LEMMA FinalsStay ==
  ASSUME ReelGrows
  PROVE  \A m, n, s : FinalAfter(reel, m, n, s) => FinalAfter(reel', m, n, s)
BY DEF ReelGrows, FinalAfter

(* What the steps of the executor do with its hashes, the job of its sweep *)
(* and its ledger.                                                         *)
HashKept ==
  \A m \in Traded : /\ matchHash'[m].clock = matchHash[m].clock
                    /\ matchHash'[m].score = matchHash[m].score

SweepJobKept ==
  \/ job'["stale_sweep"].step = "idle"
  \/ /\ job["stale_sweep"].step # "idle"
     /\ job'["stale_sweep"].verified = job["stale_sweep"].verified
     /\ job'["stale_sweep"].score = job["stale_sweep"].score
     /\ job'["stale_sweep"].batch = job["stale_sweep"].batch

SweepJobRead ==
  \E f \in sweep.stale :
    /\ job'["stale_sweep"].verified => matchHash[f.match].clock = "FULLTIME"
    /\ job'["stale_sweep"].score = matchHash[f.match].score
    /\ job'["stale_sweep"].batch = {f}

Recording(e) ==
  /\ job["stale_sweep"].step # "idle" /\ e.fill \in job["stale_sweep"].batch
  /\ e.score = job["stale_sweep"].score
  /\ e.result # "unresolved" => job["stale_sweep"].verified

SweptKept == \A e \in ledger' : e \in ledger \/ e.source # "stale_sweep" \/ Recording(e)

SweepEffect == HashKept /\ (SweepJobKept \/ SweepJobRead) /\ SweptKept

LEMMA GraderEffect ==
  ASSUME Orders!Paper!TypeOK, NEW g \in Orders!Paper!Grader, NEW ok \in BOOLEAN,
         Orders!Paper!Settle(g, ok)
  PROVE  SweepEffect
<1>1. job \in [Orders!Paper!Grader -> Orders!Paper!Job] /\ g \in {"feed_ft", "stale_sweep"}
      /\ "stale_sweep" \in Orders!Paper!Grader
  BY DEF Orders!Paper!TypeOK, Orders!Paper!Grader
<1>2. matchHash' = matchHash
  BY DEF Orders!Paper!Settle, Orders!Paper!PersistSession, Orders!Paper!RecordSettlements,
    Orders!Paper!PublishSnapshot, Orders!Paper!ClearOrders, Orders!Paper!feedVars
<1>3. ASSUME NEW from, NEW to, from # "idle", Orders!Paper!Advance(g, from, to)
      PROVE  SweepJobKept
  BY <1>1, <1>3 DEF Orders!Paper!Advance, SweepJobKept, Orders!Paper!Job
<1>4. ASSUME job' = [job EXCEPT ![g] = Orders!Paper!NoJob]
      PROVE  SweepJobKept
  BY <1>1, <1>4 DEF SweepJobKept, Orders!Paper!NoJob
<1>5. SweepJobKept
  BY <1>3, <1>4 DEF Orders!Paper!Settle, Orders!Paper!PersistSession,
    Orders!Paper!RecordSettlements, Orders!Paper!PublishSnapshot, Orders!Paper!ClearOrders
<1>6. ledger' = ledger => SweptKept
  BY DEF SweptKept
<1>7. ASSUME Orders!Paper!RecordSettlements(g, ok)
      PROVE  SweptKept
  <2>1. job[g].step = "record"
    BY <1>7 DEF Orders!Paper!RecordSettlements, Orders!Paper!Advance
  <2>2. \A e \in ledger' : e \in ledger \/ e \in Orders!Paper!Entries(g)
    BY <1>7 DEF Orders!Paper!RecordSettlements
  <2>3. \A e \in Orders!Paper!Entries(g) :
          /\ e.source = g /\ e.fill \in job[g].batch /\ e.score = job[g].score
          /\ e.result # "unresolved" => job[g].verified
    BY DEF Orders!Paper!Entries, Orders!Paper!ResultOf, Orders!Paper!Verdict
  <2> QED BY <2>1, <2>2, <2>3 DEF SweptKept, Recording
<1>8. SweptKept
  BY <1>6, <1>7 DEF Orders!Paper!Settle, Orders!Paper!PersistSession,
    Orders!Paper!PublishSnapshot, Orders!Paper!ClearOrders
<1> QED BY <1>2, <1>5, <1>8 DEF SweepEffect, HashKept

LEMMA BrokerEffect ==
  ASSUME Orders!Paper!TypeOK, [PathNext]_pathVars
  PROVE  \/ \E m \in Traded, c \in Orders!Paper!Clock, s \in Scores : Orders!Publish(m, c, s)
         \/ reel' = reel /\ SweepEffect
<1>1. ASSUME matchHash' = matchHash, job' = job, ledger' = ledger
      PROVE  SweepEffect
  BY <1>1 DEF SweepEffect, HashKept, SweepJobKept, SweptKept
<1>2. job \in [Orders!Paper!Grader -> Orders!Paper!Job]
      /\ Orders!Paper!Grader = {"feed_ft", "stale_sweep"}
  BY DEF Orders!Paper!TypeOK, Orders!Paper!Grader
<1>3. ASSUME NEW ok \in BOOLEAN, Orders!Paper!PaperRunLoop(ok)
      PROVE  SweepEffect
  <2>1. CASE Orders!Paper!FeedReceive(ok)
    <3>1. /\ matchHash' = matchHash /\ ledger' = ledger
          /\ job' = job \/ \E x : job' = [job EXCEPT !["feed_ft"] = x]
      BY <2>1 DEF Orders!Paper!FeedReceive, Orders!Paper!StartJob, Orders!Paper!feedVars,
        Orders!Paper!storeVars
    <3>2. job'["stale_sweep"] = job["stale_sweep"]
      BY <1>2, <3>1
    <3> QED BY <3>1, <3>2 DEF SweepEffect, HashKept, SweepJobKept, SweptKept
  <2> QED BY <1>2, <1>3, <2>1, GraderEffect DEF Orders!Paper!PaperRunLoop
<1>4. ASSUME NEW ok \in BOOLEAN, Orders!Paper!StaleSweep(ok)
      PROVE  SweepEffect
  <2>1. CASE Orders!Paper!SweepBegin \/ \E f \in sweep.unchecked : Orders!Paper!SweepCheck(f, ok)
    BY <1>1, <2>1 DEF Orders!Paper!SweepBegin, Orders!Paper!SweepCheck, Orders!Paper!feedVars,
      Orders!Paper!storeVars
  <2>2. ASSUME NEW f \in sweep.stale, Orders!Paper!SweepGrade(f, ok)
        PROVE  SweepEffect
    <3>1. /\ matchHash' = matchHash /\ ledger' = ledger
          /\ \/ job' = job
             \/ Orders!Paper!StartJob("stale_sweep", f.match, matchHash[f.match].score,
                                      matchHash[f.match].clock = "FULLTIME", {f})
      BY <2>2 DEF Orders!Paper!SweepGrade, Orders!Paper!Confirmed, Orders!Paper!feedVars,
        Orders!Paper!storeVars
    <3>2. CASE job' = job
      BY <1>1, <3>1, <3>2
    <3>3. CASE Orders!Paper!StartJob("stale_sweep", f.match, matchHash[f.match].score,
                                     matchHash[f.match].clock = "FULLTIME", {f})
      <4>1. SweepJobRead
        BY <1>2, <3>3 DEF Orders!Paper!StartJob, SweepJobRead
      <4> QED BY <3>1, <4>1 DEF SweepEffect, HashKept, SweptKept
    <3> QED BY <3>1, <3>2, <3>3
  <2> QED BY <1>2, <1>4, <2>1, <2>2, GraderEffect DEF Orders!Paper!StaleSweep
<1>5. ASSUME NEW m \in Traded, Orders!Paper!FrameAges(m)
      PROVE  SweepEffect
  <2>1. HashKept
    BY <1>5 DEF Orders!Paper!FrameAges, HashKept, Orders!Paper!TypeOK, Orders!Paper!Hash
  <2>2. job' = job /\ ledger' = ledger
    BY <1>5 DEF Orders!Paper!FrameAges, Orders!Paper!processVars, Orders!Paper!storeVars
  <2> QED BY <2>1, <2>2 DEF SweepEffect, SweepJobKept, SweptKept
<1>6. ASSUME Orders!BrokerAlone
      PROVE  SweepEffect
  <2>1. CASE Orders!Paper!Restart \/ \E m \in Traded : Orders!Paper!KickoffAges(m)
    BY <1>1, <2>1 DEF Orders!Paper!Restart, Orders!Paper!KickoffAges, Orders!Paper!feedVars,
      Orders!Paper!processVars, Orders!Paper!storeVars
  <2> QED BY <1>3, <1>4, <1>5, <1>6, <2>1 DEF Orders!BrokerAlone
<1>7. ASSUME Orders!BrokerCrash
      PROVE  SweepEffect
  <2>1. /\ matchHash' = matchHash /\ ledger' = ledger
        /\ job' = [g \in Orders!Paper!Grader |-> Orders!Paper!NoJob]
    BY <1>7 DEF Orders!BrokerCrash, Orders!Paper!Crash, Orders!Paper!feedVars,
      Orders!Paper!storeVars
  <2>2. SweepJobKept
    BY <1>2, <2>1 DEF SweepJobKept, Orders!Paper!NoJob
  <2> QED BY <2>1, <2>2 DEF SweepEffect, HashKept, SweptKept
<1>8. ASSUME \/ \E w \in Worker, ok, delivered \in BOOLEAN : Orders!Emit(w, ok, delivered)
             \/ Orders!EngineAlone \/ Orders!EngineCrash
      PROVE  UNCHANGED <<reel, matchHash, job, ledger>>
  BY <1>8 DEF Orders!Emit, Orders!EngineAlone, Orders!EngineCrash, Orders!paperVars
<1>9. ASSUME NEW s \in BetSides, NEW ok \in BOOLEAN, Orders!CommandRunLoop(s, ok)
      PROVE  UNCHANGED <<reel, matchHash, job, ledger>>
  BY <1>9 DEF Orders!CommandRunLoop, Orders!Paper!ExecuteEnvelope, Orders!Paper!feedVars,
    Orders!Paper!processVars
<1>10. Orders!BrokerAlone \/ Orders!BrokerCrash => reel' = reel
  BY DEF Orders!BrokerAlone, Orders!BrokerCrash
<1>11. CASE UNCHANGED orderVars
  BY <1>1, <1>11 DEF orderVars
<1>12. Orders!Next \/ UNCHANGED orderVars
  BY DEF PathNext, pathVars
<1> QED BY <1>1, <1>6, <1>7, <1>8, <1>9, <1>10, <1>11, <1>12 DEF Orders!Next

LEMMA PublishSweep ==
  ASSUME ReelTyped, Orders!Engine!TypeOK, Orders!Paper!TypeOK, SweepInv, NEW m \in Traded,
         NEW c \in Orders!Paper!Clock, NEW s \in Scores, Orders!Publish(m, c, s)
  PROVE  SweepInv'
<1> DEFINE L == Len(reel) + 1
<1>1. /\ ReelGrows /\ L \in Nat /\ Len(reel) \in Nat
      /\ DOMAIN reel = 1..Len(reel) /\ DOMAIN reel' = 1..L
      /\ reel'[L] = [match |-> m, clock |-> c, score |-> s]
  BY PublishEffect, LenProperties DEF ReelTyped
<1>2. /\ job' = job /\ ledger' = ledger
      /\ matchHash' = [matchHash EXCEPT ![m] =
                         [clock |-> c, score |-> s, receivedOld |-> FALSE]]
      /\ DOMAIN matchHash = Traded
  BY DEF Orders!Publish, Orders!Paper!PublishMatch, Orders!Paper!storeVars, Orders!Paper!TypeOK
<1>3. SweepSound' /\ SweptSound'
  BY <1>1, <1>2, FinalsStay DEF SweepInv, SweepSound, SweptSound
<1>4. ASSUME NEW q \in Traded, matchHash'[q].clock = "FULLTIME", NEW n, IsFrame(reel', q, "LIVE", n)
      PROVE  FinalAfter(reel', q, n, matchHash'[q].score)
  <2>1. CASE q = m
    <3>1. c = "FULLTIME" /\ matchHash'[q].score = s
      BY <1>2, <1>4, <2>1
    <3>2. n \in 1..L /\ n # L
      BY <1>1, <1>4, <3>1 DEF IsFrame
    <3>3. n < L /\ L \in DOMAIN reel'
      BY <1>1, <3>2
    <3> QED BY <1>1, <2>1, <3>1, <3>3 DEF FinalAfter
  <2>2. CASE q # m
    <3>1. matchHash'[q] = matchHash[q]
      BY <1>2, <2>2
    <3>2. n \in 1..L /\ n # L
      BY <1>1, <1>4, <2>2 DEF IsFrame
    <3>3. n \in DOMAIN reel
      BY <1>1, <3>2
    <3>4. IsFrame(reel, q, "LIVE", n)
      BY <1>1, <1>4, <3>3 DEF IsFrame, ReelGrows
    <3> QED BY <1>1, <1>4, <3>1, <3>4, FinalsStay DEF SweepInv, HashSound
  <2> QED BY <2>1, <2>2
<1>5. HashSound'
  BY <1>4 DEF HashSound, IsFrame, FinalAfter
<1> QED BY <1>3, <1>5 DEF SweepInv

LEMMA SweepStep ==
  ASSUME Orders!Paper!IInv, WireInv, SweepInv, reel' = reel, SweepEffect
  PROVE  SweepInv'
<1>1. HashSound'
  BY DEF SweepInv, HashSound, SweepEffect, HashKept, IsFrame, FinalAfter
<1>2. SweptSound'
  <2>1. \A e : Recording(e) /\ e.result # "unresolved" =>
          FinalAfter(reel, e.fill.id.match, e.fill.id.n, e.score)
    BY DEF Recording, SweepInv, SweepSound
  <2>2. \A e \in ledger' : e.source = "stale_sweep" /\ e.result # "unresolved" =>
          FinalAfter(reel, e.fill.id.match, e.fill.id.n, e.score)
    BY <2>1 DEF SweepEffect, SweptKept, SweepInv, SweptSound
  <2> QED BY <2>2 DEF SweptSound, FinalAfter
<1>3. SweepSound'
  <2>1. CASE SweepJobKept
    BY <2>1 DEF SweepJobKept, SweepInv, SweepSound, FinalAfter
  <2>2. CASE SweepJobRead
    <3>1. PICK f \in sweep.stale :
            /\ job'["stale_sweep"].verified => matchHash[f.match].clock = "FULLTIME"
            /\ job'["stale_sweep"].score = matchHash[f.match].score
            /\ job'["stale_sweep"].batch = {f}
      BY <2>2 DEF SweepJobRead
    <3>2. f \in placed /\ f.match # NoMatch /\ f \in Orders!Paper!Fill
      BY DEF Orders!Paper!IInv, Orders!Paper!KnownOrders, Orders!Paper!TypeOK
    <3>3. f.match \in Traded /\ f.match = f.id.match
      BY <3>2 DEF Orders!Paper!Fill, WireInv, PlacedSound
    <3>4. IsFrame(reel, f.id.match, "LIVE", f.id.n)
      BY <3>2 DEF WireInv, PlacedSound, OrdersSound, Answers
    <3>5. matchHash[f.match].clock = "FULLTIME" =>
            FinalAfter(reel, f.id.match, f.id.n, matchHash[f.match].score)
      BY <3>3, <3>4 DEF SweepInv, HashSound
    <3> QED BY <3>1, <3>5 DEF SweepSound, FinalAfter
  <2> QED BY <2>1, <2>2 DEF SweepEffect
<1> QED BY <1>1, <1>2, <1>3 DEF SweepInv

LEMMA SweepHolds == PathSpec => []SweepInv
<1>1. PathInit => SweepInv
  BY DEF PathInit, Orders!Init, Orders!Paper!Init, Orders!Paper!ProcessInit, SweepInv, HashSound,
    SweepSound, SweptSound, Orders!Paper!NoHash, Orders!Paper!NoJob, Orders!Paper!Grader, IsFrame
<1>2. Orders!Engine!IInv /\ Orders!Paper!IInv /\ WireInv /\ SweepInv /\ [PathNext]_pathVars
        => SweepInv'
  <2> SUFFICES ASSUME Orders!Engine!IInv, Orders!Paper!IInv, WireInv, SweepInv,
                      [PathNext]_pathVars
               PROVE  SweepInv'
    OBVIOUS
  <2>1. Orders!Engine!TypeOK /\ Orders!Paper!TypeOK /\ ReelTyped
    BY DEF Orders!Engine!IInv, Orders!Paper!IInv, WireInv
  <2> QED BY <2>1, BrokerEffect, PublishSweep, SweepStep
<1> QED BY <1>1, <1>2, EngineSound, BrokerSound, WireHolds, PTL DEF PathSpec

(* The sweep never grades a bet on the score of a cycle that was over      *)
(* before the bet (interfaces.go:199-203, :294-298, redis.go:92-107).      *)
THEOREM SweepOnOwnCycle == PathSpec => []SweepGradesOwnCycle
<1>1. SweepInv => SweepGradesOwnCycle
  BY DEF SweepInv, SweptSound, FinalAfter, SweepGradesOwnCycle, Orders!SweepGradesOwnCycle,
    Orders!GradedOnOwnFinal, Orders!FinalsAfter, Orders!FullTimes
<1> QED BY <1>1, SweepHolds, PTL
=============================================================================
