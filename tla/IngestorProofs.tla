--------------------------- MODULE IngestorProofs ---------------------------
(***************************************************************************)
(* Proofs that, whatever source the ingestor runs, FULLTIME frames are due *)
(* and the frames are those of a match feed, for every number of matches,  *)
(* goals, faults, restarts and ping loops, and for every set of reels.     *)
(*                                                                         *)
(* The bookmakers' pollers are right because what they know of a match     *)
(* only falls behind it: a frame repeats a row no newer than those that    *)
(* are still to come.  The one of API-Football is right because a match    *)
(* that is over does not change, and the client because the vendor sends   *)
(* nothing after its FULLTIME frame.                                       *)
(***************************************************************************)
EXTENDS Ingestor, TLAPS, SequenceTheorems

(* The types of what every source keeps for itself.                        *)
HelabetTyped ==
  /\ active \in [Match -> Helabet!Tracked \cup {Absent}]
  /\ dropped \in [Match -> Helabet!Tracked \cup {Absent}]
  /\ settled \subseteq Match
  /\ seen \subseteq Match

BetpawaTyped ==
  /\ tracked \in [Match -> [row : {r \in Row : r.priced} \cup {Absent}, ftEmitted : BOOLEAN]]
  /\ nowSeen \subseteq Match
  /\ \A m \in Match : tracked[m].ftEmitted => Betpawa!isFullTimePeriod(tracked[m].row)

ApiTyped ==
  /\ fixture \in [Match -> Api!Row]
  /\ listing \subseteq Match /\ priced \subseteq Match /\ today \in BOOLEAN
  /\ stage \in {"idle", "read", "emit", "settle"}
  /\ pending \subseteq Api!Endpoint /\ todo \subseteq Match
  /\ live \in [Match -> Api!Row \cup {Api!Absent}]
  /\ day \in [Match -> Api!Row \cup {Api!Absent}]
  /\ odds \subseteq Match
  /\ playing \in [Match -> {"no", "unpriced", "priced"}]
  /\ lost \in Nat
  /\ \A m \in Match : playing[m] # "no" => fixture[m].status # "armed"

StreamTyped ==
  /\ conn \in {"waiting", "dialling", "reading"}
  /\ delay \in 1..MaxDelay
  /\ loop \in [Pingers -> {"none", "running", "cancelled"}]
  /\ \A p, q \in Pingers : loop[p] = "running" => (loop[q] = "running" => p = q)
  /\ (\E p \in Pingers : loop[p] = "running") <=> conn = "reading"
  /\ socket \in (IF conn = "reading" THEN {"open", "closed"} ELSE {"none"})
  /\ pipe \in Seq(Stream!FeedFrame)
  /\ reel \in Seq(0..MaxGoals)

Typed == BoardTypeOK /\ HelabetTyped /\ BetpawaTyped /\ ApiTyped /\ StreamTyped

LEMMA TypedIsTypeOK == ASSUME mode \in Feed!Source, Typed PROVE TypeOK
<1>1. Helabet!TypeOK
  BY DEF Typed, BoardTypeOK, HelabetTyped, Helabet!TypeOK, Helabet!BoardTypeOK, Helabet!Absent, Absent,
         Helabet!Row, Row, Helabet!Game, Game, Helabet!Phase, Phase, Helabet!FeedFrame, FeedFrame
<1>2. Betpawa!TypeOK
  <2>1. Betpawa!BoardTypeOK
    BY DEF Typed, BoardTypeOK, Betpawa!BoardTypeOK, Betpawa!Absent, Absent, Betpawa!Row, Row,
           Betpawa!Game, Game, Betpawa!Phase, Phase, Betpawa!FeedFrame, FeedFrame
  <2>2. tracked \in [Match -> [row : {r \in Betpawa!Row : r.priced} \cup {Betpawa!Absent},
                               ftEmitted : BOOLEAN]]
    BY DEF Typed, BetpawaTyped, Betpawa!Absent, Absent, Betpawa!Row, Row
  <2> QED BY <2>1, <2>2, Zenon DEF Typed, BetpawaTyped, Betpawa!TypeOK
<1>3. Api!TypeOK
  BY DEF Typed, BoardTypeOK, ApiTyped, Api!TypeOK, Api!FeedFrame, FeedFrame
<1>4. Stream!TypeOK
  BY DEF Typed, BoardTypeOK, StreamTyped, Stream!TypeOK, Stream!FeedFrame, FeedFrame, Stream!NoFrame
<1> QED BY <1>1, <1>2, <1>3, <1>4 DEF TypeOK

-----------------------------------------------------------------------------
(* A row is of a moment of its match that is past.                         *)
Sound(m, row) ==
  row # Absent =>
    /\ row.goals <= game[m].goals
    /\ row.clock # "early" => game[m].phase # "early"
    /\ row.clock = "finished" => game[m].phase = "over"

NotAfter(row, next) ==
  row # Absent /\ next # Absent =>
    row.goals <= next.goals /\ (row.clock = "finished" => next.clock = "finished")

Told(m, row) == row # Absent => last[m].goals <= row.goals

(* The board falls behind the match, a listing behind the board, and what  *)
(* was told behind all of them.  FULLTIME frames are about late matches.   *)
BoardSound ==
  \A m \in Match :
    /\ Sound(m, board[m]) /\ Sound(m, fetched[m]) /\ NotAfter(fetched[m], board[m])
    /\ Told(m, board[m]) /\ Told(m, fetched[m]) /\ last[m].goals <= game[m].goals
    /\ finals[m] # <<>> => game[m].phase # "early" \/ game[m].old

(* What a poller remembers of a match falls behind the board and the       *)
(* listing, but not behind what it told.                                   *)
Remembered(m, row) ==
  Sound(m, row) /\ NotAfter(row, fetched[m]) /\ NotAfter(row, board[m]) /\ Told(m, row)

(* Vanished matches are settled when the listing is handled, and a match   *)
(* that was closed is settled and not remembered.                          *)
HelabetSound ==
  \A m \in Match :
    /\ Remembered(m, active[m]) /\ Remembered(m, dropped[m])
    /\ dropped[m] # Absent => ticking /\ active[m] = Absent /\ \A k \in Match : fetched[k] = Absent
    /\ active[m] # Absent \/ dropped[m] # Absent => m \notin settled
    /\ finals[m] # <<>> => m \in settled

BetpawaSound == \A m \in Match : Remembered(m, tracked[m].row)

(* The final score of the day is the score of a match that is over.        *)
ApiSound ==
  /\ Api!TrueFinals
  /\ \A m \in Match :
       Api!finalScore(day[m]) => Api!Over(m) /\ day[m].goals = fixture[m].goals
  /\ \A m \in Match : live[m] # Api!Absent /\ live[m].status # "armed" => fixture[m].status # "armed"
  /\ stage = "emit" => \A m \in todo : Api!inPlay(live[m])

(* Without extra time, what was told falls behind the rows, and a match    *)
(* that was closed is neither listed nor tracked.                          *)
ApiFed ==
  /\ \A m \in Match :
       /\ last[m].goals <= fixture[m].goals
       /\ live[m] # Api!Absent => last[m].goals <= live[m].goals /\ live[m].goals <= fixture[m].goals
       /\ Api!Over(m) => m \notin listing
       /\ finals[m] # <<>> => Api!Over(m) /\ live[m] = Api!Absent /\ playing[m] = "no"
  /\ stage = "settle" => \A m \in todo : playing[m] # "no"

(* The frames under way, then the rest of the reel, tell of a match that   *)
(* goes on from what was told, and end with it.                            *)
StreamSound ==
  /\ socket # "open" => reel = <<>>
  /\ conn # "reading" => pipe = <<>>
  /\ \A i, j \in 1..Len(reel) : i < j => reel[i] <= reel[j]
  /\ \A i \in 1..Len(reel) : last[Stream!Vendors].goals <= reel[i]
  /\ \A i, j \in 1..Len(pipe) : i < j => pipe[i].goals <= pipe[j].goals
  /\ \A i \in 1..Len(pipe) :
       /\ last[Stream!Vendors].goals <= pipe[i].goals
       /\ \A j \in 1..Len(reel) : pipe[i].goals <= reel[j]
       /\ pipe[i].clock = "FULLTIME" => i = Len(pipe) /\ reel = <<>>
  /\ \A m \in Match \ {Stream!Vendors} : finals[m] = <<>>
  /\ Stream!FinalsAreLast

IInv ==
  /\ mode \in Feed!Source /\ Typed
  /\ mode \in {"helabet", "betpawa"} => BoardSound
  /\ mode = "helabet" => HelabetSound
  /\ mode = "betpawa" => BetpawaSound
  /\ mode = "apifootball" => ApiSound /\ (~ExtraTime => ApiFed)
  /\ mode = "mock" => StreamSound

FeedStep == [Feed!FeedNext]_(Feed!feedVars)

LEMMA InitInv == Init => IInv
<1> SUFFICES ASSUME Init PROVE IInv
  OBVIOUS
<1>1. Typed
  <2>1. BoardTypeOK
    <3>1. /\ board \in [Match -> Row \cup {Absent}] /\ fetched \in [Match -> Row \cup {Absent}]
          /\ listed \subseteq Match /\ ticking \in BOOLEAN
          /\ faults \in Nat /\ crashes \in Nat
      BY DEF Init, Helabet!Init, Helabet!BoardInit, Helabet!Absent, Absent
    <3>2. game \in [Match -> Game]
      BY BoardAssumption DEF Init, Helabet!Init, Helabet!BoardInit, Game, Phase
    <3>3. last \in [Match -> FeedFrame]
      BY BoardAssumption DEF Init, Helabet!Init, Helabet!BoardInit, FeedFrame
    <3>4. finals \in [Match -> Seq(0..MaxGoals)]
      BY DEF Init, Helabet!Init, Helabet!BoardInit
    <3> QED BY <3>1, <3>2, <3>3, <3>4 DEF BoardTypeOK
  <2>2. HelabetTyped
    BY DEF Init, Helabet!Init, Helabet!NoRows, HelabetTyped, Helabet!Absent, Absent
  <2>3. BetpawaTyped
    BY DEF Init, Betpawa!Init, BetpawaTyped, Betpawa!Untracked, Betpawa!Absent, Absent
  <2>4. ApiTyped
    <3>1. fixture \in [Match -> Api!Row]
      BY IngestorAssumption DEF Init, Api!Init, Api!ApiAssumption, Api!Row, Api!Status
    <3> QED BY <3>1 DEF Init, Api!Init, ApiTyped, Api!NoRows
  <2>5. StreamTyped
    BY IngestorAssumption DEF Init, Stream!Init, StreamTyped, Stream!StreamAssumption
  <2> QED BY <2>1, <2>2, <2>3, <2>4, <2>5 DEF Typed
<1>2. BoardSound
  <2> SUFFICES ASSUME NEW m \in Match
               PROVE  /\ last[m].goals <= game[m].goals /\ finals[m] = <<>>
                      /\ board[m] = Absent /\ fetched[m] = Absent
    BY DEF BoardSound, Sound, NotAfter, Told
  <2>1. last[m] = [clock |-> "none", goals |-> 0] /\ game[m].goals = 0
    BY DEF Init, Helabet!Init, Helabet!BoardInit
  <2> QED BY <2>1 DEF Init, Helabet!Init, Helabet!BoardInit, Helabet!Absent, Absent
<1>3. HelabetSound
  BY DEF Init, Helabet!Init, Helabet!BoardInit, Helabet!NoRows, Helabet!Absent, HelabetSound, Remembered,
         Sound, NotAfter, Told, Absent
<1>4. BetpawaSound
  BY DEF Init, Betpawa!Init, Betpawa!Untracked, Betpawa!Absent, BetpawaSound, Remembered,
         Sound, NotAfter, Told, Absent
<1>5. ApiSound /\ ApiFed
  BY DEF Init, Api!Init, Api!NoRows, Api!Absent, ApiSound, ApiFed, Api!TrueFinals, Api!finalScore, Api!Over,
         Api!inPlay
<1>6. StreamSound
  BY DEF Init, Stream!Init, StreamSound, Stream!FinalsAreLast
<1> QED BY <1>1, <1>2, <1>3, <1>4, <1>5, <1>6 DEF IInv, Init, Feed!Source

-----------------------------------------------------------------------------
(* What a call of PublishMatch makes of the history.                       *)
LEMMA RecentFinals ==
  ASSUME NEW s \in Seq(0..MaxGoals), s # <<>>
  PROVE  /\ Recent(s) \in Seq(0..MaxGoals) /\ Recent(s) # <<>>
         /\ Len(s) = 1 => Recent(s) = s
<1>1. Len(s) \in Nat \ {0}
  BY EmptySeq, LenProperties
<1>2. CASE Len(s) <= MaxFinals
  BY <1>2 DEF Recent
<1>3. CASE ~(Len(s) <= MaxFinals)
  <2> DEFINE from == Len(s) - MaxFinals + 1
  <2>1. from \in 1..Len(s)
    BY <1>1, <1>3, BoardAssumption
  <2>2. Recent(s) = SubSeq(s, from, Len(s))
    BY <1>3 DEF Recent
  <2>3. ASSUME NEW i \in from..Len(s) PROVE s[i] \in 0..MaxGoals
    <3>1. i \in 1..Len(s)
      BY <2>1, <1>1
    <3> QED BY <3>1, ElementOfSeq
  <2>4. /\ SubSeq(s, from, Len(s)) \in Seq(0..MaxGoals)
        /\ Len(SubSeq(s, from, Len(s))) = Len(s) - from + 1
    <3>1. from \in Int /\ Len(s) \in Int /\ from <= Len(s)
      BY <2>1, <1>1
    <3> HIDE DEF from
    <3> QED BY <2>3, <3>1, SubSeqProperties
  <2>5. Len(SubSeq(s, from, Len(s))) # 0 /\ Len(s) # 1
    BY <1>1, <1>3, <2>1, <2>4, BoardAssumption
  <2>6. SubSeq(s, from, Len(s)) # <<>>
    BY <2>5, Zenon, EmptySeq
  <2> QED BY <2>2, <2>4, <2>5, <2>6, Zenon
<1> QED BY <1>2, <1>3

(* All calls are lost, or the frames of one score arrive.                  *)
Publication(m, clock, goals, calls) ==
  \/ last' = last /\ finals' = finals
  \/ /\ last' = [last EXCEPT ![m] = [clock |-> clock, goals |-> goals]]
     /\ clock = "LIVE" => finals' = finals
     /\ clock = "FULLTIME" =>
          /\ finals'[m] # <<>> /\ \A k \in Match \ {m} : finals'[k] = finals[k]
          /\ calls = 1 /\ finals[m] = <<>> => finals' = [finals EXCEPT ![m] = <<goals>>]

LEMMA Published ==
  ASSUME BoardTypeOK, NEW m \in Match, NEW clock \in {"LIVE", "FULLTIME"},
         NEW goals \in 0..MaxGoals, NEW calls \in {1, 2}, Publish(m, clock, goals, calls)
  PROVE  /\ last' \in [Match -> FeedFrame] /\ finals' \in [Match -> Seq(0..MaxGoals)]
         /\ faults' \in Nat /\ Publication(m, clock, goals, calls)
<1>1. PICK delivered \in 0..calls :
        /\ faults' = faults + (calls - delivered)
        /\ last' = IF delivered = 0 THEN last
                   ELSE [last EXCEPT ![m] = [clock |-> clock, goals |-> goals]]
        /\ finals' = IF delivered = 0 \/ clock # "FULLTIME" THEN finals
                     ELSE [finals EXCEPT ![m] = Recent(@ \o [i \in 1..delivered |-> goals])]
  BY DEF Publish
<1>2. faults' \in Nat /\ last' \in [Match -> FeedFrame]
  BY <1>1 DEF BoardTypeOK, FeedFrame
<1>3. CASE delivered = 0 \/ clock # "FULLTIME"
  BY <1>1, <1>2, <1>3 DEF BoardTypeOK, Publication
<1>4. CASE delivered # 0 /\ clock = "FULLTIME"
  <2> DEFINE told == [i \in 1..delivered |-> goals]
             s == finals[m] \o told
  <2>1. finals[m] \in Seq(0..MaxGoals) /\ told \in Seq(0..MaxGoals) /\ Len(told) = delivered
    BY <1>1 DEF BoardTypeOK
  <2>2. s \in Seq(0..MaxGoals) /\ Len(s) = Len(finals[m]) + delivered
    BY <2>1, ConcatProperties
  <2>3. s # <<>>
    BY <2>1, <2>2, <1>4, <1>1, EmptySeq, LenProperties
  <2>4. Recent(s) \in Seq(0..MaxGoals) /\ Recent(s) # <<>> /\ (Len(s) = 1 => Recent(s) = s)
    BY <2>2, <2>3, RecentFinals
  <2>5. finals' = [finals EXCEPT ![m] = Recent(s)]
    BY <1>1, <1>4
  <2>6. ASSUME calls = 1, finals[m] = <<>> PROVE Recent(s) = <<goals>>
    <3>1. delivered = 1 /\ told = <<goals>>
      BY <1>1, <1>4, <2>6
    <3>2. s = told
      BY <2>1, <2>6, ConcatEmptySeq
    <3> QED BY <3>1, <3>2, <2>1, <2>4
  <2>7. finals' \in [Match -> Seq(0..MaxGoals)] /\ finals'[m] # <<>>
    BY <2>4, <2>5, Zenon DEF BoardTypeOK
  <2>8. \A k \in Match \ {m} : finals'[k] = finals[k]
    BY <2>5 DEF BoardTypeOK
  <2> QED BY <1>1, <1>2, <1>4, <2>5, <2>6, <2>7, <2>8, Zenon DEF Publication
<1> QED BY <1>3, <1>4

LEMMA PublicationIsFeed ==
  ASSUME BoardTypeOK, NEW m \in Match, NEW clock \in {"LIVE", "FULLTIME"},
         NEW goals \in 0..MaxGoals, NEW calls, Publication(m, clock, goals, calls),
         mode' = mode, last[m].goals <= goals,
         mode = "betpawa" \/ (finals[m] = <<>> /\ calls = 1)
  PROVE  FeedStep
<1>1. Feed!Open(m, goals)
  BY DEF Feed!Open, BoardTypeOK, FeedFrame
<1>2. CASE last' = last /\ finals' = finals
  BY <1>2 DEF FeedStep, Feed!feedVars
<1>3. CASE ~(last' = last /\ finals' = finals) /\ clock = "LIVE"
  <2>1. Feed!Tell(m, goals)
    BY <1>1, <1>3 DEF Feed!Tell, Publication
  <2> QED BY <2>1 DEF FeedStep, Feed!FeedNext
<1>4. CASE ~(last' = last /\ finals' = finals) /\ clock = "FULLTIME"
  <2>1. Feed!Close(m, goals)
    BY <1>1, <1>4 DEF Feed!Close, Publication
  <2> QED BY <2>1 DEF FeedStep, Feed!FeedNext
<1> QED BY <1>2, <1>3, <1>4

LEMMA NothingIsFeed == ASSUME mode' = mode, last' = last, finals' = finals PROVE FeedStep
BY DEF FeedStep, Feed!feedVars

-----------------------------------------------------------------------------
(* The match and the board go on; nothing that was known of them gets wrong. *)
LEMMA WorldSound ==
  ASSUME BoardTypeOK, BoardSound, World, UNCHANGED <<tickVars, wireVars, crashes>>
  PROVE  /\ BoardTypeOK' /\ BoardSound'
         /\ \A m \in Match, row \in Row \cup {Absent} : Remembered(m, row) => Remembered(m, row)'
<1>1. PICK m \in Match : \/ Score(m) \/ Progress(m) \/ Age(m) \/ Delist(m)
                         \/ \E odd \in BOOLEAN : Refresh(m, odd)
  BY DEF World
<1>2. game \in [Match -> Game] /\ board \in [Match -> Row \cup {Absent}]
  BY DEF BoardTypeOK
<1>3. /\ game' \in [Match -> Game]
      /\ \A k \in Match : /\ game[k].goals <= game'[k].goals
                          /\ game[k].phase # "early" => game'[k].phase # "early"
                          /\ game[k].phase = "over" => game'[k].phase = "over"
                          /\ game[k].old => game'[k].old
  <2>1. CASE Score(m)
    BY <1>2, <2>1, BoardAssumption DEF Score, Game, Phase
  <2>2. CASE Progress(m)
    <3>1. PICK p \in Phase \ {"early"} : game' = [game EXCEPT ![m].phase = p]
      <4>1. CASE game[m].phase = "early"
        BY <2>2, <4>1 DEF Progress, Phase
      <4>2. CASE game[m].phase # "early"
        BY <2>2, <4>2 DEF Progress, Phase
      <4> QED BY <4>1, <4>2
    <3> QED BY <1>2, <2>2, <3>1 DEF Game, Progress
  <2>3. CASE Age(m)
    <3>1. game' = [game EXCEPT ![m].old = TRUE]
      BY <2>3 DEF Age
    <3>2. game' \in [Match -> Game]
      BY <1>2, <3>1 DEF Game
    <3>3. \A k \in Match : game'[k].goals = game[k].goals /\ game'[k].phase = game[k].phase
      BY <1>2, <3>1 DEF Game
    <3>4. \A k \in Match : game[k].goals <= game[k].goals
      BY <1>2, BoardAssumption DEF Game
    <3>5. ASSUME NEW k \in Match, game[k].old PROVE game'[k].old
      BY <1>2, <3>1, <3>5, Zenon DEF Game
    <3> QED BY <3>2, <3>3, <3>4, <3>5, Zenon
  <2>4. CASE game' = game
    BY <1>2, <2>4 DEF Game
  <2> QED BY <1>1, <2>1, <2>2, <2>3, <2>4 DEF Delist, Refresh
<1>4. /\ board' \in [Match -> Row \cup {Absent}]
      /\ \A k \in Match : \/ board'[k] = board[k]
                          \/ board'[k] = Absent
                          \/ /\ game' = game /\ board'[k].goals = game[k].goals
                             /\ board'[k].clock # "early" => game[k].phase # "early"
                             /\ board'[k].clock = "finished" <=> game[k].phase = "over"
  <2>1. CASE board' = board
    BY <1>2, <2>1
  <2>2. CASE Delist(m)
    BY <1>2, <2>2 DEF Delist
  <2>3. ASSUME NEW odd \in BOOLEAN, Refresh(m, odd)
        PROVE  <1>4
    <3>1. PICK row \in Row : /\ board' = [board EXCEPT ![m] = row] /\ game' = game
                             /\ row.goals = game[m].goals
                             /\ row.clock # "early" => game[m].phase # "early"
                             /\ row.clock = "finished" <=> game[m].phase = "over"
      <4> DEFINE row == [clock |-> IF game[m].phase = "over" THEN "finished" ELSE game[m].phase,
                         goals |-> game[m].goals, priced |-> odd]
      <4>1. row \in Row
        BY <1>2 DEF Row, Game, Phase
      <4>2. game[m].phase \in {"early", "late", "over"}
        BY <1>2 DEF Game, Phase
      <4>3. row.clock # "early" => game[m].phase # "early"
        BY <4>2
      <4>4. row.clock = "finished" <=> game[m].phase = "over"
        BY <4>2
      <4>5. board' = [board EXCEPT ![m] = row] /\ game' = game /\ row.goals = game[m].goals
        BY <2>3 DEF Refresh
      <4> QED BY <4>1, <4>3, <4>4, <4>5, Zenon
    <3> QED BY <1>2, <3>1
  <2> QED BY <1>1, <2>1, <2>2, <2>3 DEF Score, Progress, Age
<1>5. UNCHANGED <<fetched, listed, ticking, last, finals, faults, crashes>>
  BY DEF tickVars, wireVars
<1>6. BoardTypeOK'
  BY <1>3, <1>4, <1>5 DEF BoardTypeOK
<1>7. ASSUME NEW k \in Match, NEW row \in Row \cup {Absent}, Remembered(k, row)
      PROVE  Remembered(k, row)'
  <2>1. Sound(k, row)'
    BY <1>2, <1>3, <1>7 DEF Remembered, Sound, Game, Row
  <2>2. NotAfter(row, fetched[k])' /\ Told(k, row)'
    BY <1>5, <1>7 DEF Remembered, NotAfter, Told
  <2>3. NotAfter(row, board[k])'
    BY <1>4, <1>7 DEF Remembered, NotAfter, Sound
  <2> QED BY <2>1, <2>2, <2>3 DEF Remembered
<1>8. BoardSound'
  <2> SUFFICES ASSUME NEW k \in Match
               PROVE  (/\ Sound(k, board[k]) /\ Sound(k, fetched[k]) /\ NotAfter(fetched[k], board[k])
                       /\ Told(k, board[k]) /\ Told(k, fetched[k]) /\ last[k].goals <= game[k].goals
                       /\ finals[k] # <<>> => game[k].phase # "early" \/ game[k].old)'
    BY DEF BoardSound
  <2>1. BoardSound /\ fetched[k] \in Row \cup {Absent} /\ last[k].goals \in 0..MaxGoals
    BY DEF BoardTypeOK, FeedFrame
  <2>2. last[k].goals <= game[k].goals /\ last[k].goals <= game'[k].goals
    BY <1>2, <1>3, <2>1, BoardAssumption DEF BoardSound, Game
  <2>3. Sound(k, fetched[k])'
    BY <1>2, <1>3, <1>5, <2>1 DEF BoardSound, Sound, Game, Row
  <2>4. Sound(k, board[k])'
    BY <1>2, <1>3, <1>4, <2>1 DEF BoardSound, Sound, Game, Row
  <2>5. Told(k, fetched[k])' /\ Told(k, board[k])'
    BY <1>4, <1>5, <2>1, <2>2 DEF BoardSound, Told
  <2>6. NotAfter(fetched[k], board[k])'
    BY <1>4, <1>5, <2>1 DEF BoardSound, NotAfter, Sound
  <2>7. (finals[k] # <<>> => game[k].phase # "early" \/ game[k].old)'
    BY <1>3, <1>5, <2>1 DEF BoardSound
  <2> QED BY <1>5, <2>2, <2>3, <2>4, <2>5, <2>6, <2>7
<1> QED BY <1>6, <1>7, <1>8

(* A listing is as new as the board.                                       *)
LEMMA FetchSound ==
  ASSUME BoardTypeOK, BoardSound, Fetch, UNCHANGED <<worldVars, wireVars, crashes>>
  PROVE  /\ BoardTypeOK' /\ BoardSound'
         /\ \A m \in Match, row \in Row \cup {Absent} : Remembered(m, row) => Remembered(m, row)'
<1>1. fetched' = board /\ UNCHANGED <<game, board, last, finals, faults, crashes>>
  BY DEF Fetch, worldVars, wireVars
<1>2. BoardTypeOK'
  BY <1>1 DEF BoardTypeOK, Fetch
<1>3. BoardSound'
  <2> SUFFICES ASSUME NEW m \in Match
               PROVE  (NotAfter(fetched[m], board[m]) /\ Sound(m, fetched[m]) /\ Told(m, fetched[m]))'
    BY <1>1 DEF BoardSound, Sound, Told
  <2>1. board[m] # Absent => board[m].goals \in 0..MaxGoals
    BY DEF BoardTypeOK, Row
  <2> QED BY <1>1, <2>1, BoardAssumption DEF BoardSound, NotAfter, Sound, Told
<1>4. \A m \in Match, row \in Row \cup {Absent} : Remembered(m, row) => Remembered(m, row)'
  BY <1>1 DEF Remembered, Sound, NotAfter, Told
<1> QED BY <1>2, <1>3, <1>4

(* A frame of a row that was remembered leaves everything else in front.   *)
LEMMA PublicationSound ==
  ASSUME BoardTypeOK, BoardSound, NEW m \in Match, NEW clock \in {"LIVE", "FULLTIME"}, NEW calls,
         NEW row \in Row, Remembered(m, row), Publication(m, clock, row.goals, calls),
         last' \in [Match -> FeedFrame], finals' \in [Match -> Seq(0..MaxGoals)], faults' \in Nat,
         clock = "FULLTIME" => game[m].phase # "early" \/ game[m].old,
         fetched' = fetched \/ Handled(m), UNCHANGED <<worldVars, listed, crashes>>,
         ticking' \in BOOLEAN
  PROVE  /\ BoardTypeOK' /\ BoardSound'
         /\ \A k \in Match, r \in Row \cup {Absent} :
              Remembered(k, r) /\ (k # m \/ r = Absent \/ row.goals <= r.goals) => Remembered(k, r)'
<1>1. UNCHANGED <<game, board, listed, crashes>>
  BY DEF worldVars
<1>2. /\ fetched' \in [Match -> Row \cup {Absent}]
      /\ \A k \in Match : fetched'[k] = fetched[k] \/ fetched'[k] = Absent
  BY DEF BoardTypeOK, Handled
<1>3. BoardTypeOK'
  BY <1>1, <1>2 DEF BoardTypeOK
<1>4. /\ \A k \in Match : last'[k] = last[k] \/ (k = m /\ last'[m].goals = row.goals)
      /\ \A k \in Match : \/ finals'[k] = finals[k]
                          \/ k = m /\ (game[m].phase # "early" \/ game[m].old)
  BY DEF Publication, BoardTypeOK
<1>5. row # Absent
  BY DEF Row, Absent
<1>6. BoardSound'
  <2> SUFFICES ASSUME NEW k \in Match
               PROVE  (/\ Sound(k, board[k]) /\ Sound(k, fetched[k]) /\ NotAfter(fetched[k], board[k])
                       /\ Told(k, board[k]) /\ Told(k, fetched[k]) /\ last[k].goals <= game[k].goals
                       /\ finals[k] # <<>> => game[k].phase # "early" \/ game[k].old)'
    BY DEF BoardSound
  <2>1. (Sound(k, board[k]) /\ Sound(k, fetched[k]) /\ NotAfter(fetched[k], board[k]))'
    BY <1>1, <1>2 DEF BoardSound, Sound, NotAfter
  <2>2. (finals[k] # <<>> => game[k].phase # "early" \/ game[k].old)'
    BY <1>1, <1>4 DEF BoardSound
  <2>3. (Told(k, board[k]) /\ Told(k, fetched[k]) /\ last[k].goals <= game[k].goals)'
    BY <1>1, <1>2, <1>4, <1>5 DEF BoardSound, Told, Remembered, Sound, NotAfter
  <2> QED BY <2>1, <2>2, <2>3
<1>7. \A k \in Match, r \in Row \cup {Absent} :
        Remembered(k, r) /\ (k # m \/ r = Absent \/ row.goals <= r.goals) => Remembered(k, r)'
  BY <1>1, <1>2, <1>4 DEF Remembered, Sound, NotAfter, Told
<1> QED BY <1>3, <1>6, <1>7

LEMMA QuietSound ==
  ASSUME BoardTypeOK, BoardSound, UNCHANGED <<worldVars, fetched, last, finals>>,
         listed' \subseteq Match, ticking' \in BOOLEAN, faults' \in Nat, crashes' \in Nat
  PROVE  /\ BoardTypeOK' /\ BoardSound'
         /\ \A m \in Match, row \in Row \cup {Absent} : Remembered(m, row) => Remembered(m, row)'
<1>1. UNCHANGED <<game, board, fetched, last, finals>>
  BY DEF worldVars
<1> QED BY <1>1 DEF BoardTypeOK, BoardSound, Remembered, Sound, NotAfter, Told

(* A restart forgets the listing and the FULLTIME frames.                  *)
LEMMA RebootSound ==
  ASSUME BoardTypeOK, BoardSound, Reboot, UNCHANGED worldVars
  PROVE  /\ BoardTypeOK' /\ BoardSound' /\ \A m \in Match : Remembered(m, Absent)'
         /\ mode' = mode => FeedStep
<1>1. /\ UNCHANGED <<game, board, last, faults>>
      /\ fetched' = [m \in Match |-> Absent] /\ finals' = [m \in Match |-> <<>>]
      /\ listed' = {} /\ ticking' = FALSE /\ crashes' = crashes + 1
  BY Zenon DEF Reboot, worldVars
<1>2. BoardTypeOK'
  <2>1. finals' \in [Match -> Seq(0..MaxGoals)] /\ fetched' \in [Match -> Row \cup {Absent}]
    BY <1>1
  <2>2. crashes' \in Nat
    BY <1>1 DEF BoardTypeOK
  <2>3. ticking' \in BOOLEAN /\ listed' \subseteq Match
    BY <1>1, Zenon
  <2> QED BY <1>1, <2>1, <2>2, <2>3 DEF BoardTypeOK
<1>3. BoardSound'
  BY <1>1 DEF BoardSound, Sound, NotAfter, Told
<1>4. \A m \in Match : Remembered(m, Absent)'
  BY DEF Remembered, Sound, NotAfter, Told
<1>5. ASSUME mode' = mode PROVE FeedStep
  BY <1>1, <1>5 DEF FeedStep, Feed!FeedNext, Feed!Forget
<1> QED BY <1>2, <1>3, <1>4, <1>5

-----------------------------------------------------------------------------
HelabetInv == BoardTypeOK /\ HelabetTyped /\ BoardSound /\ HelabetSound

LEMMA HelabetWorld ==
  ASSUME HelabetInv, mode' = mode, Helabet!Outside(Helabet!World)
  PROVE  HelabetInv' /\ FeedStep
<1>1. World /\ UNCHANGED <<tickVars, wireVars, crashes>> /\ UNCHANGED <<active, settled, seen, dropped>>
  BY DEF Helabet!Outside, Helabet!World, World, Helabet!Score, Score, Helabet!Progress, Progress,
         Helabet!Age, Age, Helabet!Delist, Delist, Helabet!Refresh, Refresh, Helabet!Absent, Absent,
         Helabet!tickVars, tickVars, Helabet!wireVars, wireVars, Helabet!pollerVars
<1>2. /\ BoardTypeOK' /\ BoardSound'
      /\ \A m \in Match, row \in Row \cup {Absent} : Remembered(m, row) => Remembered(m, row)'
  BY <1>1, WorldSound DEF HelabetInv
<1>3. HelabetTyped'
  BY <1>1 DEF HelabetInv, HelabetTyped
<1>4. HelabetSound'
  <2>1. \A m \in Match : active[m] \in Row \cup {Absent} /\ dropped[m] \in Row \cup {Absent}
    BY DEF HelabetInv, HelabetTyped, Helabet!Tracked, Helabet!Row, Row, Helabet!Absent, Absent
  <2>2. \A m \in Match : (Remembered(m, active[m]) /\ Remembered(m, dropped[m]))'
    BY <1>1, <1>2, <2>1 DEF HelabetInv, HelabetSound
  <2> QED BY <1>1, <2>2, Zenon DEF HelabetInv, HelabetSound, tickVars, wireVars
<1>5. FeedStep
  BY <1>1, NothingIsFeed DEF wireVars
<1> QED BY <1>2, <1>3, <1>4, <1>5 DEF HelabetInv

(* What the poller keeps are rows.                                         *)
LEMMA HelabetRows ==
  /\ Helabet!Row = Row /\ Helabet!Absent = Absent
  /\ \A r \in Helabet!Tracked : r \in Row /\ r.clock # "finished"
  /\ \A r \in Row : r.priced /\ r.clock # "finished" => r \in Helabet!Tracked
  /\ Absent \notin Row
BY DEF Helabet!Row, Row, Helabet!Absent, Absent, Helabet!Tracked

LEMMA HelabetTick ==
  ASSUME HelabetInv, mode' = mode, Helabet!Tick \/ Helabet!TickFails \/ Helabet!DropVanished
  PROVE  HelabetInv' /\ FeedStep
<1>1. \A m \in Match : active[m] \in Row \cup {Absent} /\ dropped[m] \in Row \cup {Absent}
  BY HelabetRows DEF HelabetInv, HelabetTyped
<1>2. CASE Helabet!Tick
  <2>1. /\ Fetch /\ UNCHANGED <<worldVars, wireVars, crashes>>
        /\ UNCHANGED <<active, settled, dropped>> /\ seen' = {}
    BY <1>2 DEF Helabet!Tick, Helabet!Fetch, Fetch, Helabet!Absent, Absent,
                Helabet!worldVars, worldVars, Helabet!wireVars, wireVars
  <2>2. /\ BoardTypeOK' /\ BoardSound'
        /\ \A m \in Match, row \in Row \cup {Absent} : Remembered(m, row) => Remembered(m, row)'
    BY <2>1, FetchSound DEF HelabetInv
  <2>3. \A m \in Match : (Remembered(m, active[m]) /\ Remembered(m, dropped[m]))'
    BY <1>1, <2>1, <2>2 DEF HelabetInv, HelabetSound
  <2>4. HelabetTyped'
    BY <2>1 DEF HelabetInv, HelabetTyped
  <2>5. HelabetSound'
    BY <2>1, <2>3, Zenon DEF HelabetInv, HelabetSound, Fetch, wireVars
  <2> QED BY <2>1, <2>2, <2>4, <2>5, NothingIsFeed DEF HelabetInv, wireVars
<1>3. CASE Helabet!TickFails
  <2>1. /\ UNCHANGED <<worldVars, tickVars, last, finals, crashes, active, settled, seen, dropped>>
        /\ faults' = faults + 1
    BY <1>3 DEF Helabet!TickFails, Helabet!FetchFails, Helabet!pollerVars,
                Helabet!worldVars, worldVars, Helabet!tickVars, tickVars
  <2>2. /\ BoardTypeOK' /\ BoardSound'
        /\ \A m \in Match, row \in Row \cup {Absent} : Remembered(m, row) => Remembered(m, row)'
    <3>1. /\ UNCHANGED <<fetched, listed, ticking>> /\ faults' \in Nat /\ crashes' \in Nat
          /\ listed' \subseteq Match /\ ticking' \in BOOLEAN
      BY <2>1 DEF tickVars, HelabetInv, BoardTypeOK
    <3> QED BY <2>1, <3>1, QuietSound DEF HelabetInv
  <2>3. \A m \in Match : (Remembered(m, active[m]) /\ Remembered(m, dropped[m]))'
    BY <1>1, <2>1, <2>2 DEF HelabetInv, HelabetSound
  <2>4. HelabetTyped'
    BY <2>1 DEF HelabetInv, HelabetTyped
  <2>5. HelabetSound'
    BY <2>1, <2>3, Zenon DEF HelabetInv, HelabetSound, tickVars
  <2> QED BY <2>1, <2>2, <2>4, <2>5, NothingIsFeed DEF HelabetInv
<1>4. CASE Helabet!DropVanished
  <2>1. /\ UNCHANGED <<worldVars, fetched, listed, wireVars, crashes, settled, seen>>
        /\ ticking' \in BOOLEAN /\ (\A m \in Match : dropped[m] = Absent)
        /\ \A m \in Match : fetched[m] = Absent
    BY <1>4 DEF Helabet!DropVanished, Helabet!AllHandled, Helabet!NoRows, Helabet!Absent, Absent,
                Helabet!worldVars, worldVars, Helabet!wireVars, wireVars
  <2>2. /\ BoardTypeOK' /\ BoardSound'
        /\ \A m \in Match, row \in Row \cup {Absent} : Remembered(m, row) => Remembered(m, row)'
    BY <2>1, QuietSound DEF HelabetInv, BoardTypeOK, wireVars
  <2>3. /\ dropped' = [m \in Match |-> IF Helabet!Vanished(m) THEN active[m] ELSE Absent]
        /\ active' = [m \in Match |-> IF Helabet!Vanished(m) THEN Absent ELSE active[m]]
        /\ ticking' = (dropped' # Helabet!NoRows)
    BY <1>4 DEF Helabet!DropVanished, Helabet!Absent, Absent
  <2>4. HelabetTyped'
    BY <2>1, <2>3, HelabetRows DEF HelabetInv, HelabetTyped
  <2>5. \A m \in Match : (Remembered(m, active[m]) /\ Remembered(m, dropped[m]))'
    <3>1. \A m \in Match : Remembered(m, Absent)
      BY DEF Remembered, Sound, NotAfter, Told
    <3> QED BY <1>1, <2>2, <2>3, <3>1 DEF HelabetInv, HelabetSound
  <2>6. ASSUME NEW m \in Match, dropped'[m] # Absent
        PROVE  ticking' /\ active'[m] = Absent /\ \A k \in Match : fetched'[k] = Absent
    <3>1. dropped' # Helabet!NoRows
      BY <2>6, HelabetRows DEF Helabet!NoRows
    <3> QED BY <2>1, <2>3, <2>6, <3>1
  <2>7. \A m \in Match : /\ active'[m] # Absent \/ dropped'[m] # Absent => m \notin settled'
                         /\ finals'[m] # <<>> => m \in settled'
    BY <2>1, <2>3 DEF HelabetInv, HelabetSound, wireVars
  <2>8. HelabetSound'
    BY <2>5, <2>6, <2>7, Zenon DEF HelabetSound
  <2> QED BY <2>1, <2>2, <2>4, <2>8, NothingIsFeed DEF HelabetInv, wireVars
<1> QED BY <1>2, <1>3, <1>4

(* The frame of a row or of a vanished match, and what it leaves tracked.  *)
LEMMA HelabetRow ==
  ASSUME HelabetInv, mode' = mode, NEW m \in Match, Helabet!HandleRow(m)
  PROVE  HelabetInv' /\ FeedStep
<1> DEFINE row == fetched[m]
<1>1. /\ ticking /\ row # Absent /\ Handled(m) /\ seen' = seen \cup {m}
      /\ UNCHANGED <<worldVars, listed, ticking, crashes, dropped>>
      /\ Helabet!Skip(m) \/ Helabet!PublishLive(m) \/ Helabet!PublishFinished(m)
  BY DEF Helabet!HandleRow, Helabet!See, Helabet!Handled, Handled, Helabet!Absent, Absent,
         Helabet!worldVars, worldVars
<1>2. row \in Row /\ row.goals \in 0..MaxGoals /\ ticking' \in BOOLEAN
  BY <1>1 DEF HelabetInv, BoardTypeOK, Row
<1>3. Remembered(m, row)
  BY <1>2, BoardAssumption DEF HelabetInv, BoardSound, Remembered, NotAfter
<1>4. \A k \in Match : active[k] \in Row \cup {Absent} /\ dropped[k] = Absent
  BY <1>1, HelabetRows DEF HelabetInv, HelabetTyped, HelabetSound
<1>5. CASE Helabet!Skip(m)
  <2>1. UNCHANGED <<last, finals, faults, active, settled>>
    BY <1>5 DEF Helabet!Skip, Helabet!wireVars
  <2>2. Publication(m, "LIVE", row.goals, 1)
    BY <2>1 DEF Publication
  <2>3. /\ BoardTypeOK' /\ BoardSound'
        /\ \A k \in Match, r \in Row \cup {Absent} :
             Remembered(k, r) /\ (k # m \/ r = Absent \/ row.goals <= r.goals) => Remembered(k, r)'
    BY <1>1, <1>2, <1>3, <2>1, <2>2, PublicationSound DEF HelabetInv, BoardTypeOK
  <2>4. HelabetTyped'
    BY <1>1, <2>1 DEF HelabetInv, HelabetTyped
  <2>5. \A k \in Match : Remembered(k, active[k])'
    BY <1>1, <2>1 DEF HelabetInv, HelabetSound, Remembered, Sound, NotAfter, Told, Handled, worldVars, BoardTypeOK
  <2>6. HelabetSound'
    <3>1. \A k \in Match : dropped'[k] = Absent /\ Remembered(k, dropped[k])'
      BY <1>1, <1>4 DEF Remembered, Sound, NotAfter, Told
    <3> QED BY <1>1, <2>1, <2>5, <3>1, Zenon DEF HelabetInv, HelabetSound
  <2> QED BY <2>1, <2>3, <2>4, <2>6, NothingIsFeed DEF HelabetInv
<1>6. ASSUME NEW clock \in {"LIVE", "FULLTIME"}, Helabet!Publish(m, clock, row.goals, 1),
             m \notin settled, row.priced,
             \/ /\ clock = "LIVE" /\ row.clock # "finished" /\ UNCHANGED settled
                /\ active' = [active EXCEPT ![m] = row]
             \/ /\ clock = "FULLTIME" /\ row.clock = "finished" /\ settled' = settled \cup {m}
                /\ active' = [active EXCEPT ![m] = Absent]
      PROVE  HelabetInv' /\ FeedStep
  <2>1. Publish(m, clock, row.goals, 1)
    BY <1>6 DEF Helabet!Publish, Publish, Helabet!Recent, Recent
  <2>2. /\ last' \in [Match -> FeedFrame] /\ finals' \in [Match -> Seq(0..MaxGoals)]
        /\ faults' \in Nat /\ Publication(m, clock, row.goals, 1)
    BY <1>2, <2>1, Published DEF HelabetInv
  <2>3. clock = "FULLTIME" => game[m].phase # "early"
    BY <1>1, <1>3, <1>6 DEF Remembered, Sound
  <2>4. /\ BoardTypeOK' /\ BoardSound'
        /\ \A k \in Match, r \in Row \cup {Absent} :
             Remembered(k, r) /\ (k # m \/ r = Absent \/ row.goals <= r.goals) => Remembered(k, r)'
    BY <1>1, <1>2, <1>3, <2>2, <2>3, PublicationSound DEF HelabetInv
  <2>5. FeedStep
    <3>1. finals[m] = <<>> /\ last[m].goals <= row.goals
      BY <1>1, <1>3, <1>6 DEF HelabetInv, HelabetSound, Remembered, Told
    <3> QED BY <1>2, <2>2, <3>1, PublicationIsFeed DEF HelabetInv
  <2>6. HelabetTyped'
    <3>1. row.clock # "finished" => row \in Helabet!Tracked
      BY <1>2, <1>6, HelabetRows
    <3>2. active' \in [Match -> Helabet!Tracked \cup {Absent}]
      BY <1>6, <3>1 DEF HelabetInv, HelabetTyped
    <3> QED BY <1>1, <1>6, <3>2 DEF HelabetInv, HelabetTyped
  <2>7. ASSUME NEW k \in Match
        PROVE  (Remembered(k, active[k]) /\ Remembered(k, dropped[k]))' /\ dropped'[k] = Absent
    <3>1. dropped'[k] = Absent /\ Remembered(k, Absent)'
      BY <1>1, <1>4 DEF Remembered, Sound, NotAfter, Told
    <3>2. row.goals <= row.goals
      BY <1>2, BoardAssumption
    <3>3. active'[k] = active[k] \/ active'[k] = Absent \/ (k = m /\ active'[k] = row)
      BY <1>6 DEF HelabetInv, HelabetTyped
    <3>4. CASE k # m /\ active'[k] = active[k]
      <4>1. Remembered(k, active[k]) /\ active[k] \in Row \cup {Absent}
        BY <1>4 DEF HelabetInv, HelabetSound
      <4>2. \A r \in Row \cup {Absent} : Remembered(k, r) => Remembered(k, r)'
        BY <2>4, <3>4
      <4> QED BY <3>1, <3>4, <4>1, <4>2
    <3>5. CASE k = m /\ active'[k] = row
      BY <1>2, <1>3, <2>4, <3>1, <3>2, <3>5
    <3>6. CASE active'[k] = Absent
      BY <3>1, <3>6
    <3>7. k = m => active'[k] = row \/ active'[k] = Absent
      BY <1>6 DEF HelabetInv, HelabetTyped
    <3> QED BY <3>1, <3>3, <3>4, <3>5, <3>6, <3>7
  <2>8. ASSUME NEW k \in Match
        PROVE  /\ active'[k] # Absent \/ dropped'[k] # Absent => k \notin settled'
               /\ finals'[k] # <<>> => k \in settled'
    <3>1. k # m => active'[k] = active[k] /\ finals'[k] = finals[k]
      BY <1>6, <2>2 DEF HelabetInv, HelabetTyped, Publication, BoardTypeOK
    <3>2. clock = "LIVE" => finals' = finals
      BY <2>2 DEF Publication
    <3>3. clock = "FULLTIME" => active'[m] = Absent
      BY <1>6 DEF HelabetInv, HelabetTyped
    <3> QED BY <1>6, <2>7, <3>1, <3>2, <3>3 DEF HelabetInv, HelabetSound
  <2>9. HelabetSound'
    BY <2>7, <2>8, Zenon DEF HelabetSound
  <2> QED BY <2>4, <2>5, <2>6, <2>9 DEF HelabetInv
<1>7. CASE Helabet!PublishLive(m)
  BY <1>6, <1>7 DEF Helabet!PublishLive, Helabet!Ignored, Helabet!IsFullTime
<1>8. CASE Helabet!PublishFinished(m)
  BY <1>6, <1>8, HelabetRows DEF Helabet!PublishFinished, Helabet!Ignored, Helabet!IsFullTime, Helabet!markSettled
<1> QED BY <1>1, <1>5, <1>7, <1>8

LEMMA HelabetDropped ==
  ASSUME HelabetInv, mode' = mode, NEW m \in Match, Helabet!SettleDropped(m)
  PROVE  HelabetInv' /\ FeedStep
<1> DEFINE row == dropped[m]
<1>1. /\ row # Absent /\ settled' = settled \cup {m}
      /\ dropped' = [dropped EXCEPT ![m] = Absent] /\ ticking' = (dropped' # Helabet!NoRows)
      /\ UNCHANGED <<worldVars, fetched, listed, crashes, active, seen>>
  BY DEF Helabet!SettleDropped, Helabet!markSettled, Helabet!Absent, Absent, Helabet!worldVars, worldVars
<1>2. /\ row \in Row /\ row.goals \in 0..MaxGoals /\ row.clock # "finished"
      /\ ticking' \in BOOLEAN
      /\ \A k \in Match : active[k] \in Row \cup {Absent} /\ dropped[k] \in Row \cup {Absent}
  <2>1. row \in Row /\ row.clock # "finished"
    BY <1>1, HelabetRows DEF HelabetInv, HelabetTyped
  <2>2. row.goals \in 0..MaxGoals
    BY <2>1 DEF Row
  <2> QED BY <1>1, <2>1, <2>2, HelabetRows DEF HelabetInv, HelabetTyped
<1>3. /\ Remembered(m, row) /\ active[m] = Absent /\ m \notin settled /\ finals[m] = <<>>
      /\ \A k \in Match : fetched[k] = Absent
  BY <1>1 DEF HelabetInv, HelabetSound
<1>4. PICK clock \in {"LIVE", "FULLTIME"} :
        /\ clock = "FULLTIME" => game[m].phase # "early" \/ game[m].old
        /\ Publication(m, clock, row.goals, 1) /\ faults' \in Nat
        /\ last' \in [Match -> FeedFrame] /\ finals' \in [Match -> Seq(0..MaxGoals)]
  <2>1. CASE Helabet!Finished(m, row) /\ Helabet!Publish(m, "FULLTIME", row.goals, 1)
    <3>1. Publish(m, "FULLTIME", row.goals, 1)
      BY <2>1 DEF Helabet!Publish, Publish, Helabet!Recent, Recent
    <3>2. /\ last' \in [Match -> FeedFrame] /\ finals' \in [Match -> Seq(0..MaxGoals)]
          /\ faults' \in Nat /\ Publication(m, "FULLTIME", row.goals, 1)
      BY <1>2, <3>1, Published DEF HelabetInv
    <3>3. game[m].phase # "early" \/ game[m].old
      <4>1. CASE game[m].old
        BY <4>1
      <4>2. CASE row.clock \in {"late", "finished"}
        BY <1>1, <1>3, <4>2 DEF Remembered, Sound
      <4> QED BY <2>1, <4>1, <4>2 DEF Helabet!Finished, Helabet!IsFullTime, Helabet!clockLateForDrop
    <3> QED BY <3>2, <3>3
  <2>2. CASE UNCHANGED <<last, finals, faults>>
    BY <2>2 DEF Publication, HelabetInv, BoardTypeOK
  <2> QED BY <2>1, <2>2 DEF Helabet!SettleDropped, Helabet!wireVars
<1>5. /\ BoardTypeOK' /\ BoardSound'
      /\ \A k \in Match, r \in Row \cup {Absent} :
           Remembered(k, r) /\ (k # m \/ r = Absent \/ row.goals <= r.goals) => Remembered(k, r)'
  BY <1>1, <1>2, <1>3, <1>4, PublicationSound DEF HelabetInv
<1>6. FeedStep
  BY <1>1, <1>2, <1>3, <1>4, PublicationIsFeed DEF HelabetInv, Remembered, Told
<1>7. HelabetTyped'
  BY <1>1, HelabetRows DEF HelabetInv, HelabetTyped
<1>8. \A k \in Match : (Remembered(k, active[k]) /\ Remembered(k, dropped[k]))'
  <2>1. Remembered(m, Absent)'
    BY DEF Remembered, Sound, NotAfter, Told
  <2>2. dropped'[m] = Absent /\ \A k \in Match : k # m => dropped'[k] = dropped[k]
    BY <1>1 DEF HelabetInv, HelabetTyped
  <2>3. active' = active
    BY <1>1
  <2> QED BY <1>2, <1>3, <1>5, <2>1, <2>2, <2>3 DEF HelabetInv, HelabetSound
<1>9. ASSUME NEW k \in Match, dropped'[k] # Absent
      PROVE  ticking' /\ active'[k] = Absent /\ \A j \in Match : fetched'[j] = Absent
  <2>1. dropped' # Helabet!NoRows
    BY <1>9, HelabetRows DEF Helabet!NoRows
  <2>2. dropped[k] # Absent
    BY <1>1, <1>9 DEF HelabetInv, HelabetTyped
  <2> QED BY <1>1, <1>3, <2>1, <2>2 DEF HelabetInv, HelabetSound
<1>10. \A k \in Match : /\ active'[k] # Absent \/ dropped'[k] # Absent => k \notin settled'
                        /\ finals'[k] # <<>> => k \in settled'
  <2>1. \A k \in Match : k # m => finals'[k] = finals[k]
    BY <1>4 DEF Publication, HelabetInv, BoardTypeOK
  <2>2. dropped'[m] = Absent /\ \A k \in Match : k # m => dropped'[k] = dropped[k]
    BY <1>1 DEF HelabetInv, HelabetTyped
  <2> QED BY <1>1, <1>3, <2>1, <2>2 DEF HelabetInv, HelabetSound
<1>11. HelabetSound'
  BY <1>8, <1>9, <1>10, Zenon DEF HelabetSound
<1> QED BY <1>5, <1>6, <1>7, <1>11 DEF HelabetInv

LEMMA HelabetRestart ==
  ASSUME HelabetInv, mode' = mode, Helabet!Restart
  PROVE  HelabetInv' /\ FeedStep
<1>1. /\ Reboot /\ UNCHANGED worldVars
      /\ active' = [m \in Match |-> Absent] /\ dropped' = [m \in Match |-> Absent]
      /\ settled' = {} /\ seen' = {}
  BY DEF Helabet!Restart, Helabet!Reboot, Reboot, Helabet!NoRows, Helabet!Absent, Absent,
         Helabet!worldVars, worldVars
<1>2. BoardTypeOK' /\ BoardSound' /\ (\A m \in Match : Remembered(m, Absent)') /\ FeedStep
  BY <1>1, RebootSound DEF HelabetInv
<1>3. HelabetTyped'
  BY <1>1, HelabetRows DEF HelabetTyped
<1>4. \A m \in Match : finals'[m] = <<>>
  BY <1>1 DEF Reboot
<1>5. HelabetSound'
  BY <1>1, <1>2, <1>4 DEF HelabetSound
<1> QED BY <1>2, <1>3, <1>5 DEF HelabetInv

(* What the other sources keep, a step of this one leaves alone.           *)
LEMMA HelabetStep ==
  ASSUME IInv, InHelabet(Helabet!Next)
  PROVE  IInv' /\ FeedStep
<1>1. /\ mode = "helabet" /\ mode' = mode /\ Helabet!Next
      /\ UNCHANGED <<betpawaVars, apiVars, streamVars>>
  BY DEF InHelabet
<1>2. HelabetInv
  BY <1>1 DEF IInv, Typed, HelabetInv
<1>3. HelabetInv' /\ FeedStep
  BY <1>1, <1>2, HelabetWorld, HelabetTick, HelabetRow, HelabetDropped, HelabetRestart
     DEF Helabet!Next, Helabet!TickStep
<1>4. BetpawaTyped' /\ ApiTyped' /\ StreamTyped'
  <2>1. BetpawaTyped'
    BY <1>1 DEF IInv, Typed, BetpawaTyped, betpawaVars, Betpawa!isFullTimePeriod
  <2>2. ApiTyped'
    BY <1>1, Zenon DEF IInv, Typed, ApiTyped, apiVars
  <2>3. StreamTyped'
    BY <1>1, Zenon DEF IInv, Typed, StreamTyped, streamVars
  <2> QED BY <2>1, <2>2, <2>3
<1> QED BY <1>1, <1>3, <1>4 DEF IInv, Typed, HelabetInv

-----------------------------------------------------------------------------
BetpawaInv == BoardTypeOK /\ BetpawaTyped /\ BoardSound /\ BetpawaSound

LEMMA BetpawaRows ==
  /\ Betpawa!Row = Row /\ Betpawa!Absent = Absent /\ Absent \notin Row
  /\ BetpawaTyped => \A m \in Match : tracked[m].row \in Row \cup {Absent}
BY DEF Betpawa!Row, Row, Betpawa!Absent, Absent, BetpawaTyped

(* Nothing is tracked that was not, and nothing is told.                   *)
LEMMA BetpawaQuiet ==
  ASSUME BetpawaInv, mode' = mode, UNCHANGED <<tracked, last, finals>>, nowSeen' \subseteq Match,
         BoardTypeOK', BoardSound',
         \A m \in Match, row \in Row \cup {Absent} : Remembered(m, row) => Remembered(m, row)'
  PROVE  BetpawaInv' /\ FeedStep
<1>1. BetpawaTyped'
  BY DEF BetpawaInv, BetpawaTyped, Betpawa!isFullTimePeriod
<1>2. BetpawaSound'
  BY BetpawaRows DEF BetpawaInv, BetpawaSound
<1> QED BY <1>1, <1>2, NothingIsFeed DEF BetpawaInv

LEMMA BetpawaWorld ==
  ASSUME BetpawaInv, mode' = mode, Betpawa!Outside(Betpawa!World)
  PROVE  BetpawaInv' /\ FeedStep
<1>1. World /\ UNCHANGED <<tickVars, wireVars, crashes>> /\ UNCHANGED <<tracked, nowSeen>>
  BY DEF Betpawa!Outside, Betpawa!World, World, Betpawa!Score, Score, Betpawa!Progress, Progress,
         Betpawa!Age, Age, Betpawa!Delist, Delist, Betpawa!Refresh, Refresh, Betpawa!Absent, Absent,
         Betpawa!tickVars, tickVars, Betpawa!wireVars, wireVars, Betpawa!pollerVars
<1>2. /\ BoardTypeOK' /\ BoardSound'
      /\ \A m \in Match, row \in Row \cup {Absent} : Remembered(m, row) => Remembered(m, row)'
  BY <1>1, WorldSound DEF BetpawaInv
<1>3. UNCHANGED <<tracked, last, finals>> /\ nowSeen' \subseteq Match
  BY <1>1 DEF wireVars, BetpawaInv, BetpawaTyped
<1> QED BY <1>2, <1>3, BetpawaQuiet

LEMMA BetpawaTick ==
  ASSUME BetpawaInv, mode' = mode, Betpawa!Tick \/ Betpawa!TickFails \/ Betpawa!EndTick
  PROVE  BetpawaInv' /\ FeedStep
<1>1. UNCHANGED <<tracked, last, finals>> /\ nowSeen' \subseteq Match
  BY DEF BetpawaInv, BetpawaTyped, Betpawa!Tick, Betpawa!TickFails, Betpawa!EndTick, Betpawa!wireVars,
         Betpawa!pollerVars
<1>2. CASE Betpawa!Tick
  <2>1. Fetch /\ UNCHANGED <<worldVars, wireVars, crashes>>
    BY <1>2 DEF Betpawa!Tick, Betpawa!Fetch, Fetch, Betpawa!Absent, Absent,
                Betpawa!worldVars, worldVars, Betpawa!wireVars, wireVars
  <2>2. /\ BoardTypeOK' /\ BoardSound'
        /\ \A m \in Match, row \in Row \cup {Absent} : Remembered(m, row) => Remembered(m, row)'
    BY <2>1, FetchSound DEF BetpawaInv
  <2> QED BY <1>1, <2>2, BetpawaQuiet
<1>3. CASE Betpawa!TickFails \/ Betpawa!EndTick
  <2>1. /\ UNCHANGED <<worldVars, fetched, last, finals>>
        /\ listed' \subseteq Match /\ ticking' \in BOOLEAN /\ faults' \in Nat /\ crashes' \in Nat
    <3>1. CASE Betpawa!TickFails
      <4>1. /\ UNCHANGED <<worldVars, fetched, listed, ticking, last, finals, crashes>>
            /\ faults' = faults + 1
        BY <3>1 DEF Betpawa!TickFails, Betpawa!FetchFails, Betpawa!worldVars, worldVars, Betpawa!tickVars
      <4> QED BY <4>1 DEF BetpawaInv, BoardTypeOK
    <3>2. CASE Betpawa!EndTick
      <4>1. /\ UNCHANGED <<worldVars, fetched, listed, last, finals, faults, crashes>>
            /\ ticking' = FALSE
        BY <3>2 DEF Betpawa!EndTick, Betpawa!worldVars, worldVars, Betpawa!wireVars
      <4> QED BY <4>1 DEF BetpawaInv, BoardTypeOK
    <3> QED BY <1>3, <3>1, <3>2
  <2>2. /\ BoardTypeOK' /\ BoardSound'
        /\ \A m \in Match, row \in Row \cup {Absent} : Remembered(m, row) => Remembered(m, row)'
    BY <2>1, QuietSound DEF BetpawaInv
  <2> QED BY <1>1, <2>2, BetpawaQuiet
<1> QED BY <1>2, <1>3

(* A tracked row gives way to a newer one: full time stays full time.      *)
LEMMA BetpawaRow ==
  ASSUME BetpawaInv, mode' = mode, mode = "betpawa", NEW m \in Match, Betpawa!HandleRow(m)
  PROVE  BetpawaInv' /\ FeedStep
<1> DEFINE row == fetched[m]
<1>1. /\ ticking /\ row # Absent /\ Handled(m)
      /\ UNCHANGED <<worldVars, listed, ticking, crashes>>
      /\ Betpawa!Refuse(m) \/ Betpawa!PublishRow(m)
  BY DEF Betpawa!HandleRow, Betpawa!Handled, Handled, Betpawa!Absent, Absent, Betpawa!worldVars, worldVars
<1>2. row \in Row /\ row.goals \in 0..MaxGoals /\ ticking' \in BOOLEAN
  BY <1>1 DEF BetpawaInv, BoardTypeOK, Row
<1>3. Remembered(m, row)
  BY <1>2, BoardAssumption DEF BetpawaInv, BoardSound, Remembered, NotAfter
<1>4. CASE Betpawa!Refuse(m)
  <2>1. UNCHANGED <<last, finals, faults, tracked, nowSeen>>
    BY <1>4 DEF Betpawa!Refuse, Betpawa!wireVars, Betpawa!pollerVars
  <2>2. Publication(m, "LIVE", row.goals, 1)
    BY <2>1 DEF Publication
  <2>3. BoardTypeOK' /\ BoardSound'
    BY <1>1, <1>2, <1>3, <2>1, <2>2, PublicationSound DEF BetpawaInv, BoardTypeOK
  <2>4. \A k \in Match, r \in Row \cup {Absent} : Remembered(k, r) => Remembered(k, r)'
    BY <1>1, <2>1 DEF BetpawaInv, BoardTypeOK, Handled, worldVars, Remembered, Sound, NotAfter, Told
  <2> QED BY <2>1, <2>3, <2>4, BetpawaQuiet DEF BetpawaInv, BetpawaTyped
<1>5. CASE Betpawa!PublishRow(m)
  <2> DEFINE clock == Betpawa!parseClock(row)
             calls == Betpawa!Calls(m, row)
             full  == Betpawa!isFullTimePeriod(row)
  <2>1. /\ row.priced /\ nowSeen' = nowSeen \cup {m}
        /\ tracked' = [tracked EXCEPT ![m] = [row |-> row, ftEmitted |-> @.ftEmitted \/ full]]
        /\ Betpawa!Publish(m, clock, row.goals, calls)
    BY <1>5 DEF Betpawa!PublishRow, Betpawa!Track
  <2>2. /\ clock \in {"LIVE", "FULLTIME"} /\ calls \in {1, 2}
        /\ clock = "FULLTIME" => row.clock = "finished"
    BY DEF Betpawa!parseClock, Betpawa!Calls, Betpawa!isFullTimePeriod
  <2>3. Publish(m, clock, row.goals, calls)
    BY <2>1 DEF Betpawa!Publish, Publish, Betpawa!Recent, Recent
  <2> HIDE DEF clock, calls
  <2>4. /\ last' \in [Match -> FeedFrame] /\ finals' \in [Match -> Seq(0..MaxGoals)]
        /\ faults' \in Nat /\ Publication(m, clock, row.goals, calls)
    BY <1>2, <2>2, <2>3, Published DEF BetpawaInv
  <2>5. clock = "FULLTIME" => game[m].phase # "early"
    BY <1>1, <1>3, <2>2 DEF Remembered, Sound
  <2>6. /\ BoardTypeOK' /\ BoardSound'
        /\ \A k \in Match, r \in Row \cup {Absent} :
             Remembered(k, r) /\ (k # m \/ r = Absent \/ row.goals <= r.goals) => Remembered(k, r)'
    BY <1>1, <1>2, <1>3, <2>2, <2>4, <2>5, PublicationSound DEF BetpawaInv
  <2>7. FeedStep
    <3>1. last[m].goals <= row.goals
      BY <1>1, <1>3 DEF Remembered, Told
    <3> QED BY <1>2, <2>2, <2>4, <3>1, PublicationIsFeed DEF BetpawaInv
  <2>8. /\ tracked'[m].row = row /\ \A k \in Match : k # m => tracked'[k] = tracked[k]
        /\ tracked'[m].ftEmitted <=> tracked[m].ftEmitted \/ full
    BY <2>1, Zenon DEF BetpawaInv, BetpawaTyped
  <2>9. tracked[m].ftEmitted => full
    <3>1. ASSUME tracked[m].ftEmitted PROVE full
      <4>1. tracked[m].row.clock = "finished"
        BY <3>1, Zenon DEF BetpawaInv, BetpawaTyped, Betpawa!isFullTimePeriod
      <4>2. NotAfter(tracked[m].row, fetched[m])
        BY DEF BetpawaInv, BetpawaSound, Remembered
      <4>3. tracked[m].row # Absent
        BY <4>1 DEF Absent
      <4> QED BY <1>1, <4>1, <4>2, <4>3 DEF NotAfter, Betpawa!isFullTimePeriod
    <3> QED BY <3>1
  <2>10. BetpawaTyped'
    <3>1. [row |-> row, ftEmitted |-> tracked[m].ftEmitted \/ full]
            \in [row : {r \in Row : r.priced} \cup {Absent}, ftEmitted : BOOLEAN]
      BY <1>2, <2>1, Zenon
    <3>2. tracked' \in [Match -> [row : {r \in Row : r.priced} \cup {Absent}, ftEmitted : BOOLEAN]]
      BY <2>1, <3>1, Zenon DEF BetpawaInv, BetpawaTyped
    <3>3. ASSUME NEW k \in Match, tracked'[k].ftEmitted
          PROVE  Betpawa!isFullTimePeriod(tracked'[k].row)
      BY <2>8, <2>9, <3>3, Zenon DEF BetpawaInv, BetpawaTyped, Betpawa!isFullTimePeriod
    <3>4. nowSeen' \subseteq Match
      BY <2>1, Zenon DEF BetpawaInv, BetpawaTyped
    <3> QED BY <3>2, <3>3, <3>4, Zenon DEF BetpawaTyped, Betpawa!isFullTimePeriod
  <2>11. BetpawaSound'
    <3> SUFFICES ASSUME NEW k \in Match PROVE Remembered(k, tracked[k].row)'
      BY DEF BetpawaSound
    <3>1. CASE k = m
      <4>1. row.goals <= row.goals
        BY <1>2, BoardAssumption
      <4> QED BY <1>2, <1>3, <2>6, <2>8, <3>1, <4>1
    <3>2. CASE k # m
      <4>1. Remembered(k, tracked[k].row) /\ tracked[k].row \in Row \cup {Absent}
        BY BetpawaRows DEF BetpawaInv, BetpawaSound
      <4>2. \A r \in Row \cup {Absent} : Remembered(k, r) => Remembered(k, r)'
        BY <2>6, <3>2
      <4> QED BY <2>8, <3>2, <4>1, <4>2
    <3> QED BY <3>1, <3>2
  <2> QED BY <2>6, <2>7, <2>10, <2>11 DEF BetpawaInv
<1> QED BY <1>1, <1>4, <1>5

LEMMA BetpawaDrop ==
  ASSUME BetpawaInv, mode' = mode, mode = "betpawa", NEW m \in Match, Betpawa!Drop(m)
  PROVE  BetpawaInv' /\ FeedStep
<1> DEFINE row == tracked[m].row
<1>1. /\ row # Absent /\ tracked' = [tracked EXCEPT ![m] = Betpawa!Untracked]
      /\ UNCHANGED <<worldVars, fetched, listed, ticking, crashes, nowSeen>>
  BY DEF Betpawa!Drop, Betpawa!Unseen, Betpawa!Tracking, Betpawa!Absent, Absent,
         Betpawa!worldVars, worldVars, Betpawa!tickVars
<1>2. row \in Row /\ row.goals \in 0..MaxGoals
  BY <1>1, BetpawaRows DEF BetpawaInv, Row
<1>3. Remembered(m, row)
  BY DEF BetpawaInv, BetpawaSound
<1>4. PICK clock \in {"LIVE", "FULLTIME"} :
        /\ clock = "FULLTIME" => game[m].phase # "early" \/ game[m].old
        /\ Publication(m, clock, row.goals, 1) /\ faults' \in Nat
        /\ last' \in [Match -> FeedFrame] /\ finals' \in [Match -> Seq(0..MaxGoals)]
  <2>1. CASE Betpawa!Announce(m) /\ Betpawa!Publish(m, "FULLTIME", row.goals, 1)
    <3>1. Publish(m, "FULLTIME", row.goals, 1)
      BY <2>1 DEF Betpawa!Publish, Publish, Betpawa!Recent, Recent
    <3>2. /\ last' \in [Match -> FeedFrame] /\ finals' \in [Match -> Seq(0..MaxGoals)]
          /\ faults' \in Nat /\ Publication(m, "FULLTIME", row.goals, 1)
      BY <1>2, <3>1, Published DEF BetpawaInv
    <3>3. game[m].phase # "early" \/ game[m].old
      <4>1. CASE game[m].old
        BY <4>1
      <4>2. CASE row.clock \in {"late", "finished"}
        BY <1>1, <1>3, <4>2 DEF Remembered, Sound
      <4> QED BY <2>1, <4>1, <4>2 DEF Betpawa!Announce, Betpawa!clockIsLate
    <3> QED BY <3>2, <3>3
  <2>2. CASE UNCHANGED <<last, finals, faults>>
    BY <2>2 DEF Publication, BetpawaInv, BoardTypeOK
  <2> QED BY <2>1, <2>2 DEF Betpawa!Drop, Betpawa!wireVars
<1>5. /\ BoardTypeOK' /\ BoardSound'
      /\ \A k \in Match, r \in Row \cup {Absent} :
           Remembered(k, r) /\ (k # m \/ r = Absent \/ row.goals <= r.goals) => Remembered(k, r)'
  <2>1. ticking' \in BOOLEAN
    BY <1>1 DEF BetpawaInv, BoardTypeOK
  <2> QED BY <1>1, <1>2, <1>3, <1>4, <2>1, PublicationSound DEF BetpawaInv
<1>6. FeedStep
  <2>1. last[m].goals <= row.goals
    BY <1>1, <1>3 DEF Remembered, Told
  <2> QED BY <1>2, <1>4, <2>1, PublicationIsFeed DEF BetpawaInv
<1>7. tracked'[m] = Betpawa!Untracked /\ \A k \in Match : k # m => tracked'[k] = tracked[k]
  BY <1>1, Zenon DEF BetpawaInv, BetpawaTyped
<1>8. BetpawaTyped'
  <2>1. Betpawa!Untracked \in [row : {r \in Row : r.priced} \cup {Absent}, ftEmitted : BOOLEAN]
    BY BetpawaRows DEF Betpawa!Untracked
  <2>2. tracked' \in [Match -> [row : {r \in Row : r.priced} \cup {Absent}, ftEmitted : BOOLEAN]]
    BY <1>1, <2>1, Zenon DEF BetpawaInv, BetpawaTyped
  <2>3. ASSUME NEW k \in Match, tracked'[k].ftEmitted
        PROVE  Betpawa!isFullTimePeriod(tracked'[k].row)
    <3>1. k # m
      BY <1>7, <2>3 DEF Betpawa!Untracked
    <3> QED BY <1>7, <2>3, <3>1, Zenon DEF BetpawaInv, BetpawaTyped
  <2> QED BY <1>1, <2>2, <2>3, Zenon DEF BetpawaInv, BetpawaTyped, Betpawa!isFullTimePeriod
<1>9. BetpawaSound'
  <2> SUFFICES ASSUME NEW k \in Match PROVE Remembered(k, tracked[k].row)'
    BY DEF BetpawaSound
  <2>1. CASE k = m
    <3>1. Remembered(m, Absent)'
      BY DEF Remembered, Sound, NotAfter, Told
    <3> QED BY <1>7, <2>1, <3>1, BetpawaRows DEF Betpawa!Untracked
  <2>2. CASE k # m
    <3>1. Remembered(k, tracked[k].row) /\ tracked[k].row \in Row \cup {Absent}
      BY BetpawaRows DEF BetpawaInv, BetpawaSound
    <3>2. \A r \in Row \cup {Absent} : Remembered(k, r) => Remembered(k, r)'
      BY <1>5, <2>2
    <3> QED BY <1>7, <2>2, <3>1, <3>2
  <2> QED BY <2>1, <2>2
<1> QED BY <1>5, <1>6, <1>8, <1>9 DEF BetpawaInv

LEMMA BetpawaRestart ==
  ASSUME BetpawaInv, mode' = mode, Betpawa!Restart
  PROVE  BetpawaInv' /\ FeedStep
<1>1. /\ Reboot /\ UNCHANGED worldVars
      /\ tracked' = [m \in Match |-> Betpawa!Untracked] /\ nowSeen' = {}
  BY DEF Betpawa!Restart, Betpawa!Reboot, Reboot, Betpawa!Absent, Absent, Betpawa!worldVars, worldVars
<1>2. BoardTypeOK' /\ BoardSound' /\ (\A m \in Match : Remembered(m, Absent)') /\ FeedStep
  BY <1>1, RebootSound DEF BetpawaInv
<1>3. BetpawaTyped' /\ BetpawaSound'
  BY <1>1, <1>2, BetpawaRows DEF BetpawaTyped, BetpawaSound, Betpawa!Untracked
<1> QED BY <1>2, <1>3 DEF BetpawaInv

LEMMA BetpawaStep ==
  ASSUME IInv, InBetpawa(Betpawa!Next)
  PROVE  IInv' /\ FeedStep
<1>1. /\ mode = "betpawa" /\ mode' = mode /\ Betpawa!Next
      /\ UNCHANGED <<helabetVars, apiVars, streamVars>>
  BY DEF InBetpawa
<1>2. BetpawaInv
  BY <1>1 DEF IInv, Typed, BetpawaInv
<1>3. BetpawaInv' /\ FeedStep
  BY <1>1, <1>2, BetpawaWorld, BetpawaTick, BetpawaRow, BetpawaDrop, BetpawaRestart
     DEF Betpawa!Next, Betpawa!TickStep
<1>4. HelabetTyped' /\ ApiTyped' /\ StreamTyped'
  <2>1. HelabetTyped'
    BY <1>1, Zenon DEF IInv, Typed, HelabetTyped, helabetVars
  <2>2. ApiTyped'
    BY <1>1, Zenon DEF IInv, Typed, ApiTyped, apiVars
  <2>3. StreamTyped'
    BY <1>1, Zenon DEF IInv, Typed, StreamTyped, streamVars
  <2> QED BY <2>1, <2>2, <2>3
<1> QED BY <1>1, <1>3, <1>4 DEF IInv, Typed, BetpawaInv

-----------------------------------------------------------------------------
ApiInv == BoardTypeOK /\ ApiTyped /\ ApiSound /\ (~ExtraTime => ApiFed)

LEMMA ApiRows ==
  /\ Api!Absent \notin Api!Row /\ ~Api!inPlay(Api!Absent) /\ ~Api!finalScore(Api!Absent)
  /\ \A row \in Api!Row : row.goals \in 0..MaxGoals
  /\ \A m \in Match : Api!Over(m) <=> Api!finalScore(fixture[m])
BY DEF Api!Absent, Api!Row, Api!inPlay, Api!finalScore, Api!Over

(* A match that is over stays as it is.                                    *)
LEMMA ApiWorld ==
  ASSUME ApiInv, mode' = mode, UNCHANGED boardVars, Api!Outside(Api!World)
  PROVE  ApiInv' /\ FeedStep
<1>1. UNCHANGED <<pending, live, odds, day, last, finals, lost, stage, todo, playing, faults, crashes>>
  BY DEF Api!Outside, Api!ingestorVars, Api!readVars, Api!wireVars
<1>2. BoardTypeOK'
  BY <1>1 DEF ApiInv, BoardTypeOK, boardVars, worldVars, tickVars
<1>3. /\ fixture' \in [Match -> Api!Row] /\ listing' \subseteq Match /\ priced' \subseteq Match
      /\ today' \in BOOLEAN
      /\ \A k \in Match :
           /\ fixture[k].goals <= fixture'[k].goals
           /\ fixture[k].status # "armed" => fixture'[k].status # "armed"
           /\ fixture[k].status \in {"AET", "FT"} => fixture'[k] = fixture[k]
      /\ ~ExtraTime /\ (\A k \in Match : fixture[k].status \in {"AET", "FT"} => k \notin listing)
           => \A k \in Match : fixture'[k].status \in {"AET", "FT"} => k \notin listing'
  <2>1. /\ fixture \in [Match -> Api!Row] /\ listing \subseteq Match /\ priced \subseteq Match
        /\ today \in BOOLEAN
    BY DEF ApiInv, ApiTyped
  <2>2. \A k \in Match : fixture[k].goals <= fixture[k].goals
    BY <2>1, IngestorAssumption DEF Api!Row, Api!ApiAssumption
  <2>3. CASE fixture' = fixture /\ listing' \subseteq listing /\ priced' \subseteq Match /\ today' \in BOOLEAN
    BY <2>1, <2>2, <2>3
  <2>4. ASSUME NEW m \in Match, Api!Goal(m) PROVE <1>3
    BY <2>1, <2>2, <2>4, IngestorAssumption DEF Api!Goal, Api!Row, Api!Status, Api!ApiAssumption
  <2>5. ASSUME NEW m \in Match, NEW status \in {"1H", "HT"}, fixture[m].status \in {"armed", "1H", "HT"},
               fixture' = [fixture EXCEPT ![m].status = status], UNCHANGED <<listing, priced, today>>
        PROVE  <1>3
    BY <2>1, <2>2, <2>5 DEF Api!Row, Api!Status
  <2>6. ASSUME NEW m \in Match, NEW status \in {"AET", "FT"}, fixture[m].status = "1H",
               fixture' = [fixture EXCEPT ![m].status = status], UNCHANGED <<priced, today>>,
               listing' \subseteq listing, ~ExtraTime => m \notin listing'
        PROVE  <1>3
    BY <2>1, <2>2, <2>6 DEF Api!Row, Api!Status
  <2>7. ASSUME NEW m \in Match, Api!List(m) PROVE <1>3
    BY <2>1, <2>2, <2>7 DEF Api!List, Api!Over
  <2>8. ASSUME NEW m \in Match, Api!KickOff(m) \/ Api!HalfTime(m) PROVE <1>3
    BY <2>5, <2>8 DEF Api!KickOff, Api!HalfTime
  <2>9. ASSUME NEW m \in Match, Api!End(m) PROVE <1>3
    BY <2>6, <2>9 DEF Api!End
  <2>10. ASSUME NEW m \in Match, Api!Delist(m) \/ Api!Quote(m) PROVE <1>3
    BY <2>1, <2>3, <2>10 DEF Api!Delist, Api!Quote
  <2>11. \/ Api!DayEnds
         \/ \E m \in Match : \/ Api!Goal(m) \/ Api!KickOff(m) \/ Api!HalfTime(m) \/ Api!End(m)
                             \/ Api!List(m) \/ Api!Delist(m) \/ Api!Quote(m)
    BY DEF Api!Outside, Api!World
  <2>12. CASE Api!DayEnds
    BY <2>1, <2>3, <2>12 DEF Api!DayEnds
  <2> QED BY <2>4, <2>7, <2>8, <2>9, <2>10, <2>11, <2>12
<1>4. ApiTyped'
  BY <1>1, <1>3 DEF ApiInv, ApiTyped
<1>5. ApiSound'
  <2>1. Api!TrueFinals'
    BY <1>1, <1>3 DEF ApiInv, ApiSound, Api!TrueFinals, Api!Over
  <2>2. \A m \in Match : (Api!finalScore(day[m]) => Api!Over(m) /\ day[m].goals = fixture[m].goals)'
    BY <1>1, <1>3 DEF ApiInv, ApiSound, Api!Over, Api!finalScore
  <2>3. (/\ \A m \in Match : live[m] # Api!Absent /\ live[m].status # "armed" => fixture[m].status # "armed"
         /\ stage = "emit" => \A m \in todo : Api!inPlay(live[m]))'
    BY <1>1, <1>3 DEF ApiInv, ApiSound, Api!inPlay
  <2> QED BY <2>1, <2>2, <2>3 DEF ApiSound
<1>6. ASSUME ~ExtraTime PROVE ApiFed'
  <2>1. ApiFed
    BY <1>6 DEF ApiInv
  <2>2. \A m \in Match : (Api!Over(m) => m \notin listing)'
    BY <1>3, <1>6, <2>1 DEF ApiFed, Api!Over
  <2>3. ASSUME NEW m \in Match
        PROVE  (/\ last[m].goals <= fixture[m].goals
                /\ live[m] # Api!Absent => last[m].goals <= live[m].goals /\ live[m].goals <= fixture[m].goals)'
    <3>1. /\ last[m].goals \in Int /\ fixture[m].goals \in Int /\ fixture'[m].goals \in Int
          /\ live[m] # Api!Absent => live[m].goals \in Int
      BY <1>3, ApiRows, IngestorAssumption DEF ApiInv, ApiTyped, BoardTypeOK, FeedFrame, Api!ApiAssumption
    <3> QED BY <1>1, <1>3, <2>1, <3>1 DEF ApiFed
  <2>4. \A m \in Match : (finals[m] # <<>> => Api!Over(m) /\ live[m] = Api!Absent /\ playing[m] = "no")'
    BY <1>1, <1>3, <2>1 DEF ApiFed, Api!Over
  <2>5. (stage = "settle" => \A m \in todo : playing[m] # "no")'
    BY <1>1, <2>1 DEF ApiFed
  <2> QED BY <2>2, <2>3, <2>4, <2>5 DEF ApiFed
<1> QED BY <1>1, <1>2, <1>4, <1>5, <1>6, NothingIsFeed DEF ApiInv

(* The reads of a cycle and its bookkeeping: nothing is told.              *)
LEMMA ApiReads ==
  ASSUME ApiInv, mode' = mode, UNCHANGED boardVars,
         \/ Api!StartCycle \/ Api!Read \/ Api!ReadFails \/ Api!BeginEmit
         \/ Api!BeginSettle \/ Api!Register \/ Api!Restart
  PROVE  ApiInv' /\ FeedStep
<1>1. /\ UNCHANGED <<fixture, listing, priced, today, last, lost>>
      /\ \/ finals' = finals /\ crashes' = crashes
         \/ finals' = [m \in Match |-> <<>>] /\ crashes' = crashes + 1
      /\ faults' = faults \/ faults' = faults + 1
  BY DEF Api!StartCycle, Api!Read, Api!ReadFails, Api!BeginEmit, Api!BeginSettle, Api!Register,
         Api!Restart, Api!worldVars, Api!wireVars
<1>2. FeedStep
  BY <1>1, NothingIsFeed DEF FeedStep, Feed!FeedNext, Feed!Forget
<1>3. BoardTypeOK'
  <2>1. finals' \in [Match -> Seq(0..MaxGoals)]
    <3>1. [m \in Match |-> <<>>] \in [Match -> Seq(0..MaxGoals)]
      BY EmptySeq
    <3> QED BY <1>1, <3>1, Zenon DEF ApiInv, BoardTypeOK
  <2>2. faults' \in Nat /\ crashes' \in Nat
    BY <1>1 DEF ApiInv, BoardTypeOK
  <2> QED BY <1>1, <2>1, <2>2 DEF ApiInv, BoardTypeOK, boardVars, worldVars, tickVars
<1>4. Api!TrueFinals'
  BY <1>1 DEF ApiInv, ApiSound, Api!TrueFinals, Api!Over
<1>5. \A m \in Match : finals'[m] # <<>> => finals'[m] = finals[m]
  BY <1>1
<1>6. CASE Api!StartCycle \/ Api!ReadFails
  <2>1. /\ UNCHANGED <<live, odds, day, todo, playing>> /\ pending' \subseteq Api!Endpoint
        /\ stage' = "read"
    BY <1>6 DEF Api!StartCycle, Api!ReadFails, ApiInv, ApiTyped, Api!readVars
  <2>2. ApiTyped'
    BY <1>1, <2>1 DEF ApiInv, ApiTyped
  <2>3. ApiSound'
    BY <1>1, <1>4, <2>1 DEF ApiInv, ApiSound, Api!finalScore, Api!Over
  <2>4. ~ExtraTime => ApiFed'
    BY <1>1, <1>5, <2>1 DEF ApiInv, ApiFed, Api!Over
  <2> QED BY <1>2, <1>3, <2>2, <2>3, <2>4 DEF ApiInv
<1>7. CASE Api!Read
  <2>1. /\ UNCHANGED <<todo, playing>> /\ pending' \subseteq Api!Endpoint /\ stage' = "read"
        /\ live' = live \/ live' = [m \in Match |-> IF m \in listing THEN fixture[m] ELSE Api!Absent]
        /\ day' = day \/ day' = fixture \/ day' = [m \in Match |-> Api!Absent]
        /\ odds' = odds \/ odds' = priced
    BY <1>7 DEF Api!Read, ApiInv, ApiTyped, Api!NoRows
  <2>2. ApiTyped'
    BY <1>1, <2>1 DEF ApiInv, ApiTyped
  <2>3. \A m \in Match : (Api!finalScore(day[m]) => Api!Over(m) /\ day[m].goals = fixture[m].goals)'
    BY <1>1, <2>1, ApiRows DEF ApiInv, ApiSound, Api!finalScore, Api!Over
  <2>4. ApiSound'
    BY <1>1, <1>4, <2>1, <2>3 DEF ApiInv, ApiSound
  <2>5. ASSUME ~ExtraTime PROVE ApiFed'
    <3>1. ApiFed /\ \A m \in Match : last[m].goals \in Int /\ fixture[m].goals \in Int
      BY <2>5, ApiRows, IngestorAssumption
         DEF ApiInv, ApiTyped, BoardTypeOK, FeedFrame, Api!ApiAssumption
    <3>2. \A m \in Match :
            live'[m] # Api!Absent => last[m].goals <= live'[m].goals /\ live'[m].goals <= fixture[m].goals
      BY <2>1, <3>1 DEF ApiFed
    <3>3. \A m \in Match : finals[m] # <<>> => live'[m] = Api!Absent
      BY <2>1, <3>1 DEF ApiFed
    <3> QED BY <1>1, <1>5, <2>1, <3>1, <3>2, <3>3 DEF ApiFed, Api!Over
  <2> QED BY <1>2, <1>3, <2>2, <2>4, <2>5 DEF ApiInv
<1>8. CASE Api!BeginEmit \/ Api!BeginSettle
  <2>1. /\ UNCHANGED <<pending, live, odds, day, playing>>
        /\ \/ stage' = "emit" /\ todo' = {m \in Match : Api!inPlay(live[m])}
           \/ stage' = "settle" /\ todo' = {m \in Match : playing[m] # "no"}
    BY <1>8 DEF Api!BeginEmit, Api!BeginSettle, Api!readVars
  <2>2. ApiTyped'
    BY <1>1, <2>1 DEF ApiInv, ApiTyped
  <2>3. ApiSound'
    BY <1>1, <1>4, <2>1 DEF ApiInv, ApiSound, Api!finalScore, Api!Over, Api!inPlay
  <2>4. ~ExtraTime => ApiFed'
    BY <1>1, <1>5, <2>1 DEF ApiInv, ApiFed, Api!Over
  <2> QED BY <1>2, <1>3, <2>2, <2>3, <2>4 DEF ApiInv
<1>9. CASE Api!Register \/ Api!Restart
  <2>1. /\ stage' = "idle" /\ pending' \subseteq Api!Endpoint /\ todo' \subseteq Match
        /\ live' = [m \in Match |-> Api!Absent] /\ day' = [m \in Match |-> Api!Absent] /\ odds' = {}
        /\ \/ playing' = [m \in Match |-> Api!Registered(m)] /\ UNCHANGED finals
           \/ playing' = [m \in Match |-> "no"]
    BY <1>9 DEF Api!Register, Api!Restart, Api!NoRows, ApiInv, ApiTyped, Api!wireVars
  <2>2. ASSUME NEW m \in Match
        PROVE  /\ Api!Registered(m) \in {"no", "unpriced", "priced"}
               /\ Api!Registered(m) # "no" => playing[m] # "no" \/ Api!inPlay(live[m])
    BY DEF Api!Registered, ApiInv, ApiTyped
  <2>3. ASSUME NEW m \in Match, Api!inPlay(live[m])
        PROVE  live[m] # Api!Absent /\ fixture[m].status # "armed"
    <3>1. live[m] # Api!Absent
      BY <2>3, ApiRows
    <3>2. live[m].status # "armed"
      BY <2>3 DEF Api!inPlay
    <3> QED BY <3>1, <3>2 DEF ApiInv, ApiSound
  <2>4. ApiTyped'
    <3>1. playing' \in [Match -> {"no", "unpriced", "priced"}]
      BY <2>1, <2>2
    <3>2. \A m \in Match : playing'[m] # "no" => fixture[m].status # "armed"
      BY <2>1, <2>2, <2>3 DEF ApiInv, ApiTyped
    <3> QED BY <1>1, <2>1, <3>1, <3>2 DEF ApiInv, ApiTyped
  <2>5. ApiSound'
    BY <1>1, <1>4, <2>1, ApiRows DEF ApiSound
  <2>6. ASSUME ~ExtraTime PROVE ApiFed'
    <3>1. ApiFed
      BY <2>6 DEF ApiInv
    <3>2. \A m \in Match : finals'[m] # <<>> => playing'[m] = "no"
      BY <1>5, <2>1, <2>2, <2>3, <3>1 DEF ApiFed
    <3> QED BY <1>1, <1>5, <2>1, <3>1, <3>2 DEF ApiFed, Api!Over
  <2> QED BY <1>2, <1>3, <2>4, <2>5, <2>6 DEF ApiInv
<1> QED BY <1>6, <1>7, <1>8, <1>9

LEMMA ApiPublished ==
  ASSUME BoardTypeOK, NEW m \in Match, NEW clock \in {"LIVE", "FULLTIME"}, NEW goals \in 0..MaxGoals,
         lost \in Nat, Api!Publish(m, clock, goals) \/ UNCHANGED <<last, finals, lost>>
  PROVE  /\ last' \in [Match -> FeedFrame] /\ finals' \in [Match -> Seq(0..MaxGoals)] /\ lost' \in Nat
         /\ \/ last' = last /\ finals' = finals
            \/ /\ last' = [last EXCEPT ![m] = [clock |-> clock, goals |-> goals]]
               /\ finals' = IF clock = "FULLTIME" THEN [finals EXCEPT ![m] = Append(@, goals)] ELSE finals
<1>1. CASE UNCHANGED <<last, finals>> /\ lost' \in Nat
  BY <1>1 DEF BoardTypeOK
<1>2. CASE /\ last' = [last EXCEPT ![m] = [clock |-> clock, goals |-> goals]] /\ lost' = lost
           /\ finals' = IF clock = "FULLTIME" THEN [finals EXCEPT ![m] = Append(@, goals)] ELSE finals
  <2>1. last' \in [Match -> FeedFrame]
    BY <1>2 DEF BoardTypeOK, FeedFrame
  <2>2. finals' \in [Match -> Seq(0..MaxGoals)]
    BY <1>2 DEF BoardTypeOK
  <2> QED BY <1>2, <2>1, <2>2
<1> QED BY <1>1, <1>2 DEF Api!Publish

(* A match that is live was not closed, or it is in extra time.            *)
LEMMA ApiEmit ==
  ASSUME ApiInv, mode' = mode, UNCHANGED boardVars, NEW m \in Match, Api!Emit(m)
  PROVE  ApiInv' /\ (~ExtraTime => FeedStep)
<1>1. /\ stage = "emit" /\ m \in todo /\ todo' = todo \ {m}
      /\ UNCHANGED <<fixture, listing, priced, today, pending, live, odds, day, stage, faults, crashes>>
      /\ Api!Publish(m, "LIVE", live[m].goals) \/ UNCHANGED <<last, finals, lost>>
      /\ playing' = [playing EXCEPT ![m] = "priced"]
         \/ playing' = [playing EXCEPT ![m] = IF @ = "no" THEN "unpriced" ELSE @]
  BY DEF Api!Emit, Api!worldVars, Api!readVars, Api!wireVars
<1>2. /\ Api!inPlay(live[m]) /\ live[m] # Api!Absent /\ live[m].goals \in 0..MaxGoals
      /\ fixture[m].status # "armed"
  <2>1. Api!inPlay(live[m])
    BY <1>1 DEF ApiInv, ApiSound
  <2>2. live[m] # Api!Absent /\ live[m].status # "armed"
    BY <2>1, ApiRows DEF Api!inPlay
  <2>3. live[m].goals \in 0..MaxGoals
    BY <2>2, ApiRows DEF ApiInv, ApiTyped
  <2> QED BY <2>1, <2>2, <2>3 DEF ApiInv, ApiSound
<1>3. /\ last' \in [Match -> FeedFrame] /\ finals' \in [Match -> Seq(0..MaxGoals)] /\ lost' \in Nat
      /\ finals' = finals
      /\ last' = last \/ last' = [last EXCEPT ![m] = [clock |-> "LIVE", goals |-> live[m].goals]]
  BY <1>1, <1>2, ApiPublished DEF ApiInv, ApiTyped
<1>4. BoardTypeOK'
  BY <1>1, <1>3 DEF ApiInv, BoardTypeOK, boardVars, worldVars, tickVars
<1>5. ApiTyped'
  <2>1. playing' \in [Match -> {"no", "unpriced", "priced"}]
    BY <1>1 DEF ApiInv, ApiTyped
  <2>2. \A k \in Match : playing'[k] # "no" => fixture[k].status # "armed"
    BY <1>1, <1>2 DEF ApiInv, ApiTyped
  <2> QED BY <1>1, <1>3, <2>1, <2>2 DEF ApiInv, ApiTyped
<1>6. ApiSound'
  BY <1>1, <1>3 DEF ApiInv, ApiSound, Api!TrueFinals, Api!finalScore, Api!Over, Api!inPlay
<1>7. ASSUME ~ExtraTime PROVE ApiFed' /\ FeedStep
  <2>1. ApiFed /\ finals[m] = <<>> /\ last[m].goals <= live[m].goals
    BY <1>2, <1>7 DEF ApiInv, ApiFed
  <2>2. FeedStep
    <3>1. CASE last' = last
      BY <1>3, <3>1, NothingIsFeed
    <3>2. CASE last' = [last EXCEPT ![m] = [clock |-> "LIVE", goals |-> live[m].goals]]
      <4>1. last[m].goals \in Int /\ live[m].goals \in Int
        BY <1>2, IngestorAssumption DEF ApiInv, BoardTypeOK, FeedFrame, Api!ApiAssumption
      <4>2. Feed!Tell(m, live[m].goals)
        BY <1>3, <2>1, <3>2, <4>1 DEF Feed!Tell, Feed!Open
      <4> QED BY <1>2, <4>2 DEF FeedStep, Feed!FeedNext
    <3> QED BY <1>3, <3>1, <3>2
  <2>3. \A k \in Match : last'[k] = last[k] \/ (k = m /\ last'[k].goals = live[k].goals)
    BY <1>3 DEF ApiInv, BoardTypeOK
  <2>4. live[m].goals <= live[m].goals
    BY <1>2, IngestorAssumption DEF Api!ApiAssumption
  <2>5. \A k \in Match :
          /\ last'[k].goals <= fixture[k].goals
          /\ live[k] # Api!Absent => last'[k].goals <= live[k].goals /\ live[k].goals <= fixture[k].goals
    BY <1>2, <2>1, <2>3, <2>4 DEF ApiFed
  <2>6. \A k \in Match : finals[k] # <<>> => playing'[k] = playing[k]
    BY <1>1, <2>1 DEF ApiInv, ApiTyped
  <2>7. ApiFed'
    BY <1>1, <1>3, <2>1, <2>5, <2>6 DEF ApiFed, Api!Over
  <2> QED BY <2>2, <2>7
<1> QED BY <1>4, <1>5, <1>6, <1>7 DEF ApiInv

(* A tracked match was not closed, and its final score is what it is.      *)
LEMMA ApiSettle ==
  ASSUME ApiInv, mode' = mode, UNCHANGED boardVars, NEW m \in Match, Api!Settle(m)
  PROVE  ApiInv' /\ (~ExtraTime => FeedStep)
<1>1. /\ stage = "settle" /\ m \in todo /\ todo' = todo \ {m}
      /\ UNCHANGED <<fixture, listing, priced, today, pending, live, odds, day, stage, faults, crashes>>
  BY DEF Api!Settle, Api!worldVars, Api!readVars
<1>2. CASE UNCHANGED <<playing, last, finals, lost>>
  <2>1. BoardTypeOK'
    BY <1>1, <1>2 DEF ApiInv, BoardTypeOK, boardVars, worldVars, tickVars
  <2>2. ApiTyped'
    BY <1>1, <1>2 DEF ApiInv, ApiTyped
  <2>3. ApiSound'
    BY <1>1, <1>2 DEF ApiInv, ApiSound, Api!TrueFinals, Api!finalScore, Api!Over
  <2>4. ~ExtraTime => ApiFed'
    BY <1>1, <1>2 DEF ApiInv, ApiFed, Api!Over
  <2> QED BY <1>2, <2>1, <2>2, <2>3, <2>4, NothingIsFeed DEF ApiInv
<1>3. CASE /\ Api!Settleable(m) /\ playing' = [playing EXCEPT ![m] = "no"]
           /\ Api!Publish(m, "FULLTIME", day[m].goals) \/ UNCHANGED <<last, finals, lost>>
  <2>1. /\ live[m] = Api!Absent /\ Api!Over(m) /\ day[m].goals = fixture[m].goals
        /\ day[m].goals \in 0..MaxGoals
    <3>1. live[m] = Api!Absent /\ Api!finalScore(day[m])
      BY <1>3 DEF Api!Settleable
    <3>2. day[m] \in Api!Row
      BY <3>1, ApiRows DEF ApiInv, ApiTyped
    <3> QED BY <3>1, <3>2, ApiRows DEF ApiInv, ApiSound
  <2>2. /\ last' \in [Match -> FeedFrame] /\ finals' \in [Match -> Seq(0..MaxGoals)] /\ lost' \in Nat
        /\ \/ last' = last /\ finals' = finals
           \/ /\ last' = [last EXCEPT ![m] = [clock |-> "FULLTIME", goals |-> day[m].goals]]
              /\ finals' = [finals EXCEPT ![m] = Append(@, day[m].goals)]
    BY <1>3, <2>1, ApiPublished DEF ApiInv, ApiTyped
  <2>3. BoardTypeOK'
    BY <1>1, <2>2 DEF ApiInv, BoardTypeOK, boardVars, worldVars, tickVars
  <2>4. ApiTyped'
    BY <1>1, <1>3, <2>2 DEF ApiInv, ApiTyped
  <2>5. Api!TrueFinals'
    <3> SUFFICES ASSUME NEW k \in Match, NEW i \in DOMAIN finals'[k]
                 PROVE  Api!Over(k) /\ finals'[k][i] = fixture[k].goals
      BY <1>1 DEF Api!TrueFinals, Api!Over
    <3>1. CASE finals'[k] = finals[k]
      BY <3>1 DEF ApiInv, ApiSound, Api!TrueFinals
    <3>2. CASE k = m /\ finals'[m] = Append(finals[m], day[m].goals)
      <4>1. finals[m] \in Seq(0..MaxGoals)
        BY DEF ApiInv, BoardTypeOK
      <4>2. i \in 1..Len(finals[m]) \/ (i = Len(finals[m]) + 1 /\ finals'[m][i] = day[m].goals)
        BY <2>1, <3>2, <4>1, AppendProperties, LenProperties
      <4>3. CASE i \in 1..Len(finals[m])
        <5>1. finals'[m][i] = finals[m][i] /\ i \in DOMAIN finals[m]
          BY <2>1, <3>2, <4>1, <4>3, AppendProperties, LenProperties
        <5> QED BY <3>2, <5>1 DEF ApiInv, ApiSound, Api!TrueFinals
      <4> QED BY <2>1, <3>2, <4>2, <4>3
    <3> QED BY <2>2, <3>1, <3>2 DEF ApiInv, BoardTypeOK
  <2>6. ApiSound'
    BY <1>1, <2>5 DEF ApiInv, ApiSound, Api!finalScore, Api!Over
  <2>7. ASSUME ~ExtraTime PROVE ApiFed' /\ FeedStep
    <3>1. ApiFed /\ playing[m] # "no"
      BY <1>1, <2>7 DEF ApiInv, ApiFed
    <3>2. finals[m] = <<>> /\ last[m].goals <= day[m].goals
      BY <2>1, <3>1 DEF ApiFed
    <3>3. last[m].goals \in Int /\ day[m].goals \in Int /\ day[m].goals <= day[m].goals
      BY <2>1, IngestorAssumption DEF ApiInv, BoardTypeOK, FeedFrame, Api!ApiAssumption
    <3>4. FeedStep
      <4>1. CASE last' = last /\ finals' = finals
        BY <4>1, NothingIsFeed
      <4>2. CASE /\ last' = [last EXCEPT ![m] = [clock |-> "FULLTIME", goals |-> day[m].goals]]
                 /\ finals' = [finals EXCEPT ![m] = Append(@, day[m].goals)]
        <5>1. Append(finals[m], day[m].goals) = <<day[m].goals>>
          BY <3>2
        <5>2. finals' = [finals EXCEPT ![m] = <<day[m].goals>>]
          BY <4>2, <5>1
        <5>3. Feed!Close(m, day[m].goals)
          BY <3>2, <3>3, <4>2, <5>2 DEF Feed!Close, Feed!Open
        <5> QED BY <2>1, <5>3 DEF FeedStep, Feed!FeedNext
      <4> QED BY <2>2, <4>1, <4>2
    <3>5. \A k \in Match : /\ last'[k] = last[k] \/ (k = m /\ last'[k].goals = day[m].goals)
                           /\ finals'[k] = finals[k] \/ k = m
      BY <2>2 DEF ApiInv, BoardTypeOK
    <3>6. playing'[m] = "no" /\ \A k \in Match : k # m => playing'[k] = playing[k]
      BY <1>3 DEF ApiInv, ApiTyped
    <3>7. \A k \in Match :
            /\ last'[k].goals <= fixture[k].goals
            /\ live[k] # Api!Absent => last'[k].goals <= live[k].goals /\ live[k].goals <= fixture[k].goals
      BY <2>1, <3>1, <3>3, <3>5 DEF ApiFed
    <3>8. \A k \in Match : finals'[k] # <<>> => Api!Over(k) /\ live[k] = Api!Absent /\ playing'[k] = "no"
      BY <2>1, <3>1, <3>5, <3>6 DEF ApiFed
    <3>9. \A k \in todo' : playing'[k] # "no"
      BY <1>1, <3>1, <3>6 DEF ApiFed, ApiInv, ApiTyped
    <3>10. ApiFed'
      BY <1>1, <3>1, <3>7, <3>8, <3>9 DEF ApiFed, Api!Over
    <3> QED BY <3>4, <3>10
  <2> QED BY <2>3, <2>4, <2>6, <2>7 DEF ApiInv
<1> QED BY <1>2, <1>3 DEF Api!Settle, Api!StopPlaying, Api!wireVars

LEMMA ApiStep ==
  ASSUME IInv, InApi(Api!Next)
  PROVE  IInv' /\ (~ExtraTime => FeedStep)
<1>1. /\ mode = "apifootball" /\ mode' = mode /\ Api!Next
      /\ UNCHANGED boardVars /\ UNCHANGED <<helabetVars, betpawaVars, streamVars>>
  BY DEF InApi
<1>2. ApiInv
  BY <1>1 DEF IInv, Typed, ApiInv
<1>3. ApiInv' /\ (~ExtraTime => FeedStep)
  BY <1>1, <1>2, ApiWorld, ApiReads, ApiEmit, ApiSettle DEF Api!Next, Api!Cycle
<1>4. HelabetTyped' /\ BetpawaTyped' /\ StreamTyped'
  <2>1. HelabetTyped'
    BY <1>1, Zenon DEF IInv, Typed, HelabetTyped, helabetVars
  <2>2. BetpawaTyped'
    BY <1>1 DEF IInv, Typed, BetpawaTyped, betpawaVars, Betpawa!isFullTimePeriod
  <2>3. StreamTyped'
    BY <1>1, Zenon DEF IInv, Typed, StreamTyped, streamVars
  <2> QED BY <2>1, <2>2, <2>3
<1> QED BY <1>1, <1>3, <1>4 DEF IInv, Typed, ApiInv

-----------------------------------------------------------------------------
StreamInv == BoardTypeOK /\ StreamTyped /\ StreamSound

LEMMA VendorsMatch == Stream!Vendors \in Match
BY IngestorAssumption DEF Stream!Vendors, Stream!StreamAssumption

(* The vendor's next frame comes after those under way, and its FULLTIME   *)
(* frame comes last.                                                       *)
LEMMA StreamSends ==
  ASSUME StreamInv, mode' = mode, UNCHANGED boardVars, Stream!SendFrame
  PROVE  StreamInv' /\ FeedStep
<1>1. /\ socket = "open" /\ reel # <<>> /\ reel' = Tail(reel) /\ pipe' = Append(pipe, Stream!frame)
      /\ UNCHANGED <<conn, delay, loop, socket, last, finals, faults, crashes>>
  BY DEF Stream!SendFrame, Stream!clientVars, Stream!wireVars
<1>2. reel \in Seq(0..MaxGoals) /\ pipe \in Seq(Stream!FeedFrame) /\ conn = "reading"
  BY <1>1 DEF StreamInv, StreamTyped
<1>3. Len(reel) \in Nat \ {0} /\ Len(pipe) \in Nat /\ Head(reel) = reel[1] /\ reel[1] \in 0..MaxGoals
  <2>1. Len(reel) \in Nat \ {0} /\ Len(pipe) \in Nat
    BY <1>1, <1>2, EmptySeq, LenProperties
  <2>2. reel[1] \in 0..MaxGoals
    <3>1. 1 \in 1..Len(reel)
      BY <2>1
    <3> QED BY <1>2, <3>1, ElementOfSeq
  <2> QED BY <1>1, <1>2, <2>1, <2>2
<1>4. /\ reel' \in Seq(0..MaxGoals) /\ Len(reel') = Len(reel) - 1
      /\ \A i \in 1..Len(reel') : reel'[i] = reel[i + 1]
  BY <1>1, <1>2, HeadTailProperties
<1>5. /\ Stream!frame \in Stream!FeedFrame /\ Stream!frame.goals = reel[1]
      /\ Stream!frame.clock = "FULLTIME" => Len(reel) = 1
  BY <1>3 DEF Stream!frame, Stream!FeedFrame
<1>6. /\ pipe' \in Seq(Stream!FeedFrame) /\ Len(pipe') = Len(pipe) + 1
      /\ \A i \in 1..Len(pipe) : pipe'[i] = pipe[i]
      /\ pipe'[Len(pipe) + 1] = Stream!frame
  BY <1>1, <1>2, <1>5, AppendProperties
<1>7. BoardTypeOK' /\ StreamTyped'
  BY <1>1, <1>4, <1>6 DEF StreamInv, StreamTyped, BoardTypeOK, boardVars, worldVars, tickVars
<1>8. \A m \in Match : finals[m] = <<>>
  BY <1>1 DEF StreamInv, StreamSound, Stream!FinalsAreLast
<1>9. \A i \in 1..Len(reel') : i + 1 \in 1..Len(reel) /\ reel'[i] = reel[i + 1]
  BY <1>3, <1>4
<1>10. /\ \A i, j \in 1..Len(reel') : i < j => reel'[i] <= reel'[j]
       /\ \A i \in 1..Len(reel') : last'[Stream!Vendors].goals <= reel'[i]
  <2>1. /\ \A i, j \in 1..Len(reel) : i < j => reel[i] <= reel[j]
        /\ \A i \in 1..Len(reel) : last[Stream!Vendors].goals <= reel[i]
    BY <1>1 DEF StreamInv, StreamSound
  <2>2. ASSUME NEW i \in 1..Len(reel'), NEW j \in 1..Len(reel'), i < j
        PROVE  reel'[i] <= reel'[j]
    <3>1. i + 1 < j + 1
      BY <1>4, <2>2
    <3>2. reel[i + 1] <= reel[j + 1]
      BY <1>9, <2>1, <3>1
    <3> QED BY <1>9, <3>2
  <2>3. ASSUME NEW i \in 1..Len(reel')
        PROVE  last'[Stream!Vendors].goals <= reel'[i]
    BY <1>1, <1>9, <2>1, <2>3
  <2> QED BY <2>2, <2>3
<1>11. ASSUME NEW i \in 1..Len(pipe'), NEW j \in 1..Len(pipe'), i < j
       PROVE  pipe'[i].goals <= pipe'[j].goals
  <2>1. i \in 1..Len(pipe)
    BY <1>3, <1>6, <1>11
  <2>2. CASE j \in 1..Len(pipe)
    <3>1. pipe[i].goals <= pipe[j].goals
      BY <1>11, <2>1, <2>2 DEF StreamInv, StreamSound
    <3> QED BY <1>6, <2>1, <2>2, <3>1
  <2>3. CASE j = Len(pipe) + 1
    <3>1. pipe[i].goals <= reel[1]
      BY <1>3, <2>1 DEF StreamInv, StreamSound
    <3> QED BY <1>5, <1>6, <2>1, <2>3, <3>1
  <2> QED BY <1>3, <1>6, <2>2, <2>3
<1>12. ASSUME NEW i \in 1..Len(pipe')
       PROVE  /\ last'[Stream!Vendors].goals <= pipe'[i].goals
              /\ \A j \in 1..Len(reel') : pipe'[i].goals <= reel'[j]
              /\ pipe'[i].clock = "FULLTIME" => i = Len(pipe') /\ reel' = <<>>
  <2>1. CASE i \in 1..Len(pipe)
    BY <1>1, <1>3, <1>4, <1>6, <2>1 DEF StreamInv, StreamSound
  <2>2. CASE i = Len(pipe) + 1
    <3>1. last'[Stream!Vendors].goals <= pipe'[i].goals
      BY <1>1, <1>3, <1>5, <1>6, <2>2 DEF StreamInv, StreamSound
    <3>2. ASSUME NEW j \in 1..Len(reel') PROVE pipe'[i].goals <= reel'[j]
      <4>1. reel[1] <= reel[j + 1]
        <5>1. 1 \in 1..Len(reel) /\ j + 1 \in 1..Len(reel) /\ 1 < j + 1
          BY <1>3, <1>9, <3>2
        <5> QED BY <5>1 DEF StreamInv, StreamSound
      <4>2. pipe'[i].goals = reel[1] /\ reel'[j] = reel[j + 1]
        BY <1>5, <1>6, <1>9, <2>2, <3>2
      <4> QED BY <4>1, <4>2
    <3>3. ASSUME pipe'[i].clock = "FULLTIME" PROVE reel' = <<>>
      <4>1. Stream!frame.clock = "FULLTIME"
        BY <1>6, <2>2, <3>3
      <4>2. Len(reel) = 1
        BY <1>5, <4>1
      <4>3. Len(reel') = 0
        BY <1>4, <4>2
      <4> QED BY <1>4, <4>3, EmptySeq
    <3> QED BY <1>6, <2>2, <3>1, <3>2, <3>3
  <2> QED BY <1>3, <1>6, <2>1, <2>2
<1>13. StreamSound'
  BY <1>1, <1>2, <1>8, <1>9, <1>10, <1>11, <1>12 DEF StreamSound, Stream!FinalsAreLast
<1> QED BY <1>1, <1>7, <1>13, NothingIsFeed DEF StreamInv

(* A connection ends with frames of the reel's beginning under way.        *)
LEMMA StreamCut ==
  ASSUME StreamInv, mode' = mode, UNCHANGED boardVars, Stream!EndOfReel \/ Stream!Disconnect
  PROVE  StreamInv' /\ FeedStep
<1>1. /\ socket = "open" /\ socket' = "closed" /\ reel' = <<>>
      /\ UNCHANGED <<conn, delay, loop, last, finals, crashes>>
      /\ faults' = faults \/ faults' = faults + 1
  BY DEF Stream!EndOfReel, Stream!Disconnect, Stream!Fault, Stream!clientVars, Stream!wireVars
<1>2. pipe \in Seq(Stream!FeedFrame) /\ Len(pipe) \in Nat /\ conn = "reading"
  BY <1>1, LenProperties DEF StreamInv, StreamTyped
<1>3. PICK k \in 0..Len(pipe) : /\ pipe' \in Seq(Stream!FeedFrame) /\ Len(pipe') = k
                                /\ \A i \in 1..k : pipe'[i] = pipe[i]
  <2>1. CASE pipe' = pipe
    BY <1>2, <2>1
  <2>2. ASSUME NEW k \in 0..Len(pipe), pipe' = SubSeq(pipe, 1, k)
        PROVE  /\ pipe' \in Seq(Stream!FeedFrame) /\ Len(pipe') = k
               /\ \A i \in 1..k : pipe'[i] = pipe[i]
    <3>1. \A i \in 1..k : pipe[i] \in Stream!FeedFrame
      BY <1>2, ElementOfSeq
    <3>2. k \in Int /\ 1 \in Int
      BY <1>2
    <3>3. /\ SubSeq(pipe, 1, k) \in Seq(Stream!FeedFrame)
          /\ Len(SubSeq(pipe, 1, k)) = IF 1 <= k THEN k - 1 + 1 ELSE 0
          /\ \A i \in 1..(k - 1 + 1) : SubSeq(pipe, 1, k)[i] = pipe[1 + i - 1]
      BY <3>1, <3>2, SubSeqProperties
    <3>4. Len(pipe') = k
      <4>1. k - 1 + 1 = k
        BY <1>2
      <4>2. CASE 1 <= k
        BY <2>2, <3>3, <4>1, <4>2
      <4>3. CASE ~(1 <= k)
        <5>1. k = 0
          BY <1>2, <4>3
        <5> QED BY <2>2, <3>3, <5>1
      <4> QED BY <4>2, <4>3
    <3>5. ASSUME NEW i \in 1..k PROVE pipe'[i] = pipe[i]
      <4>1. i \in 1..(k - 1 + 1) /\ 1 + i - 1 = i
        BY <1>2
      <4> QED BY <2>2, <3>3, <4>1
    <3> QED BY <2>2, <3>3, <3>4, <3>5
  <2> QED BY <2>1, <2>2 DEF Stream!EndOfReel, Stream!Disconnect
<1>4. BoardTypeOK' /\ StreamTyped'
  <2>1. faults' \in Nat
    BY <1>1 DEF StreamInv, BoardTypeOK
  <2>2. BoardTypeOK'
    BY <1>1, <2>1 DEF StreamInv, BoardTypeOK, boardVars, worldVars, tickVars
  <2>3. reel' \in Seq(0..MaxGoals)
    BY <1>1, EmptySeq
  <2> QED BY <1>1, <1>2, <1>3, <2>2, <2>3 DEF StreamInv, StreamTyped
<1>5. ASSUME NEW m \in Match, finals[m] # <<>> PROVE pipe' = <<>>
  <2>1. pipe = <<>>
    BY <1>5 DEF StreamInv, StreamSound, Stream!FinalsAreLast
  <2>2. Len(pipe') = 0
    BY <1>3, <2>1
  <2> QED BY <1>3, <2>2, EmptySeq
<1>6. \A i, j \in 1..Len(pipe') : i < j => pipe'[i].goals <= pipe'[j].goals
  BY <1>2, <1>3 DEF StreamInv, StreamSound
<1>7. ASSUME NEW i \in 1..Len(pipe')
      PROVE  /\ last'[Stream!Vendors].goals <= pipe'[i].goals
             /\ pipe'[i].clock = "FULLTIME" => i = Len(pipe')
  <2>1. i \in 1..Len(pipe) /\ pipe'[i] = pipe[i] /\ (i = Len(pipe) => i = Len(pipe'))
    BY <1>2, <1>3
  <2> QED BY <1>1, <2>1 DEF StreamInv, StreamSound
<1>8. StreamSound'
  BY <1>1, <1>2, <1>5, <1>6, <1>7 DEF StreamInv, StreamSound, Stream!FinalsAreLast
<1> QED BY <1>1, <1>4, <1>8, NothingIsFeed DEF StreamInv

(* The vendor kicks its match off again for the new connection.            *)
LEMMA StreamDials ==
  ASSUME StreamInv, mode' = mode, mode = "mock", UNCHANGED boardVars, Stream!Dial
  PROVE  StreamInv' /\ FeedStep
<1>1. /\ conn = "dialling" /\ conn' = "reading" /\ socket' = "open" /\ reel' \in SCORELINES
      /\ last' = [last EXCEPT ![Stream!Vendors] = Stream!NoFrame]
      /\ finals' = [finals EXCEPT ![Stream!Vendors] = <<>>]
      /\ UNCHANGED <<delay, pipe, faults, crashes>>
      /\ \E p \in Pingers : loop[p] = "none" /\ loop' = [loop EXCEPT ![p] = "running"]
  BY DEF Stream!Dial, Stream!Accept, Stream!KickedOff
<1>2. /\ reel' \in Seq(0..MaxGoals) /\ \A i, j \in 1..Len(reel') : i < j => reel'[i] <= reel'[j]
      /\ \A i \in 1..Len(reel') : 0 <= reel'[i]
  <2>1. reel' \in Seq(0..MaxGoals) /\ \A i, j \in DOMAIN reel' : i < j => reel'[i] <= reel'[j]
    BY <1>1, IngestorAssumption DEF Stream!StreamAssumption
  <2>2. DOMAIN reel' = 1..Len(reel')
    BY <2>1, LenProperties
  <2>3. \A i \in 1..Len(reel') : reel'[i] \in 0..MaxGoals
    BY <2>1, ElementOfSeq
  <2>4. \A i \in 1..Len(reel') : 0 <= reel'[i]
    BY <2>3
  <2>5. \A i, j \in 1..Len(reel') : i < j => reel'[i] <= reel'[j]
    BY <2>1, <2>2
  <2> QED BY <2>1, <2>4, <2>5
<1>3. /\ last'[Stream!Vendors].goals = 0 /\ last' \in [Match -> FeedFrame]
      /\ finals' \in [Match -> Seq(0..MaxGoals)]
  <2>1. Stream!NoFrame \in FeedFrame /\ Stream!NoFrame.goals = 0
    BY IngestorAssumption DEF Stream!NoFrame, FeedFrame, Api!ApiAssumption
  <2>2. <<>> \in Seq(0..MaxGoals)
    BY EmptySeq
  <2> QED BY <1>1, <2>1, <2>2, VendorsMatch DEF StreamInv, BoardTypeOK
<1>4. pipe = <<>> /\ Len(pipe) = 0 /\ \A m \in Match : finals'[m] = <<>>
  <2>1. pipe = <<>>
    BY <1>1 DEF StreamInv, StreamSound
  <2>2. \A m \in Match : finals'[m] = <<>>
    BY <1>1 DEF StreamInv, StreamSound, BoardTypeOK
  <2> QED BY <2>1, <2>2
<1>5. BoardTypeOK'
  BY <1>1, <1>3 DEF StreamInv, BoardTypeOK, boardVars, worldVars, tickVars
<1>6. /\ loop' \in [Pingers -> {"none", "running", "cancelled"}]
      /\ \A p, q \in Pingers : loop'[p] = "running" => (loop'[q] = "running" => p = q)
      /\ \E p \in Pingers : loop'[p] = "running"
  <2>1. \A p \in Pingers : loop[p] # "running"
    BY <1>1 DEF StreamInv, StreamTyped
  <2> QED BY <1>1, <2>1 DEF StreamInv, StreamTyped
<1>7. StreamTyped'
  BY <1>1, <1>2, <1>6 DEF StreamInv, StreamTyped
<1>8. StreamSound'
  BY <1>1, <1>2, <1>3, <1>4 DEF StreamSound, Stream!FinalsAreLast
<1>9. Feed!KickOff(Stream!Vendors)
  BY <1>1 DEF Feed!KickOff, Feed!NoFrame, Stream!NoFrame
<1> QED BY <1>5, <1>7, <1>8, <1>9, VendorsMatch DEF StreamInv, FeedStep, Feed!FeedNext

(* A frame is read in the order it was sent; nothing follows FULLTIME.     *)
LEMMA StreamReads ==
  ASSUME StreamInv, mode' = mode, UNCHANGED boardVars, Stream!ReadMessage
  PROVE  StreamInv' /\ FeedStep
<1> DEFINE f == Head(pipe)
           m == Stream!Vendors
<1>1. /\ conn = "reading" /\ pipe # <<>> /\ pipe' = Tail(pipe)
      /\ UNCHANGED <<conn, delay, loop, reel, socket, crashes>>
      /\ \/ /\ last' = [last EXCEPT ![m] = f] /\ faults' = faults
            /\ finals' = IF f.clock = "FULLTIME" THEN [finals EXCEPT ![m] = Append(@, f.goals)] ELSE finals
         \/ UNCHANGED <<last, finals>> /\ faults' = faults + 1
  BY DEF Stream!ReadMessage, Stream!PublishMatch, Stream!Fault, Stream!clientVars
<1>2. /\ pipe \in Seq(Stream!FeedFrame) /\ Len(pipe) \in Nat \ {0} /\ f = pipe[1] /\ 1 \in 1..Len(pipe)
      /\ f \in Stream!FeedFrame
  <2>1. pipe \in Seq(Stream!FeedFrame)
    BY DEF StreamInv, StreamTyped
  <2>2. Len(pipe) \in Nat \ {0} /\ f \in Stream!FeedFrame
    BY <1>1, <2>1, EmptySeq, HeadTailProperties
  <2> QED BY <2>1, <2>2
<1>3. /\ pipe' \in Seq(Stream!FeedFrame) /\ Len(pipe') = Len(pipe) - 1
      /\ \A i \in 1..Len(pipe') : pipe'[i] = pipe[i + 1]
  BY <1>1, <1>2, HeadTailProperties
<1>4. /\ f.clock \in {"LIVE", "FULLTIME"} /\ f.goals \in 0..MaxGoals /\ last[m].goals \in 0..MaxGoals
      /\ f = [clock |-> f.clock, goals |-> f.goals]
  BY <1>2, VendorsMatch DEF Stream!FeedFrame, StreamInv, BoardTypeOK, FeedFrame
<1>5. /\ last[m].goals <= f.goals /\ (\A k \in Match : finals[k] = <<>>)
      /\ \A i \in 1..Len(reel) : f.goals <= reel[i]
      /\ f.clock = "FULLTIME" => Len(pipe) = 1 /\ reel = <<>>
  BY <1>1, <1>2 DEF StreamInv, StreamSound, Stream!FinalsAreLast
<1>6. ASSUME NEW i \in 1..Len(pipe')
      PROVE  i + 1 \in 1..Len(pipe) /\ f.goals <= pipe'[i].goals
  <2>1. i + 1 \in 1..Len(pipe) /\ 1 < i + 1
    BY <1>2, <1>3
  <2>2. pipe[1].goals <= pipe[i + 1].goals
    BY <1>2, <2>1 DEF StreamInv, StreamSound
  <2> QED BY <1>2, <1>3, <2>1, <2>2
<1>7. /\ \A i, j \in 1..Len(pipe') : i < j => pipe'[i].goals <= pipe'[j].goals
      /\ \A i \in 1..Len(pipe') :
           /\ last[m].goals <= pipe'[i].goals
           /\ \A j \in 1..Len(reel) : pipe'[i].goals <= reel[j]
           /\ pipe'[i].clock = "FULLTIME" => i = Len(pipe') /\ reel = <<>>
  <2>1. ASSUME NEW i \in 1..Len(pipe'), NEW j \in 1..Len(pipe'), i < j
        PROVE  pipe'[i].goals <= pipe'[j].goals
    <3>1. i + 1 \in 1..Len(pipe) /\ j + 1 \in 1..Len(pipe) /\ i + 1 < j + 1
      BY <1>6, <1>2, <1>3, <2>1
    <3>2. pipe[i + 1].goals <= pipe[j + 1].goals
      BY <3>1 DEF StreamInv, StreamSound
    <3> QED BY <1>3, <3>2
  <2>2. ASSUME NEW i \in 1..Len(pipe')
        PROVE  /\ last[m].goals <= pipe'[i].goals
               /\ \A j \in 1..Len(reel) : pipe'[i].goals <= reel[j]
               /\ pipe'[i].clock = "FULLTIME" => i = Len(pipe') /\ reel = <<>>
    <3>1. i + 1 \in 1..Len(pipe) /\ pipe'[i] = pipe[i + 1] /\ (i + 1 = Len(pipe) => i = Len(pipe'))
      BY <1>2, <1>3, <1>6
    <3> QED BY <3>1 DEF StreamInv, StreamSound
  <2> QED BY <2>1, <2>2
<1>8. StreamTyped'
  BY <1>1, <1>3 DEF StreamInv, StreamTyped
<1>9. CASE UNCHANGED <<last, finals>> /\ faults' = faults + 1
  <2>1. BoardTypeOK'
    BY <1>1, <1>9 DEF StreamInv, BoardTypeOK, boardVars, worldVars, tickVars
  <2>2. StreamSound'
    BY <1>1, <1>5, <1>7, <1>9 DEF StreamInv, StreamSound, Stream!FinalsAreLast
  <2> QED BY <1>8, <1>9, <2>1, <2>2, NothingIsFeed DEF StreamInv
<1>10. CASE /\ last' = [last EXCEPT ![m] = f] /\ faults' = faults
            /\ finals' = IF f.clock = "FULLTIME" THEN [finals EXCEPT ![m] = Append(@, f.goals)] ELSE finals
  <2>1. last'[m] = f /\ \A k \in Match : k # m => finals'[k] = <<>>
    BY <1>5, <1>10, VendorsMatch DEF StreamInv, BoardTypeOK
  <2>2. f.clock = "FULLTIME" => finals' = [finals EXCEPT ![m] = <<f.goals>>]
    <3>1. Append(finals[m], f.goals) = <<f.goals>>
      <4>1. finals[m] = <<>>
        BY <1>5, VendorsMatch
      <4>2. \A goals : Append(<<>>, goals) = <<goals>>
        OBVIOUS
      <4> QED BY <4>1, <4>2, Zenon
    <3> QED BY <1>10, <3>1
  <2>3. BoardTypeOK'
    <3>1. last' \in [Match -> FeedFrame]
      BY <1>4, <1>10 DEF StreamInv, BoardTypeOK, FeedFrame
    <3>2. finals' \in [Match -> Seq(0..MaxGoals)]
      <4>1. <<f.goals>> \in Seq(0..MaxGoals)
        BY <1>4
      <4> QED BY <1>4, <1>10, <2>2, <4>1 DEF StreamInv, BoardTypeOK
    <3> QED BY <1>1, <1>10, <3>1, <3>2 DEF StreamInv, BoardTypeOK, boardVars, worldVars, tickVars
  <2>4. ASSUME NEW k \in Match, finals'[k] # <<>> PROVE reel = <<>> /\ pipe' = <<>>
    <3>1. f.clock = "FULLTIME"
      BY <1>5, <1>10, <2>4
    <3>2. Len(pipe') = 0
      BY <1>3, <1>5, <3>1
    <3> QED BY <1>3, <1>5, <3>1, <3>2, EmptySeq
  <2>5. StreamSound'
    BY <1>1, <1>5, <1>6, <1>7, <2>1, <2>4 DEF StreamInv, StreamSound, Stream!FinalsAreLast
  <2>6. Feed!Open(m, f.goals)
    BY <1>4, <1>5, VendorsMatch DEF Feed!Open
  <2>7. CASE f.clock = "LIVE"
    <3>1. Feed!Tell(m, f.goals)
      BY <1>4, <1>10, <2>6, <2>7 DEF Feed!Tell
    <3> QED BY <1>4, <1>8, <2>3, <2>5, <3>1, VendorsMatch DEF StreamInv, FeedStep, Feed!FeedNext
  <2>8. CASE f.clock = "FULLTIME"
    <3>1. Feed!Close(m, f.goals)
      BY <1>4, <1>10, <2>2, <2>6, <2>8 DEF Feed!Close
    <3> QED BY <1>4, <1>8, <2>3, <2>5, <3>1, VendorsMatch DEF StreamInv, FeedStep, Feed!FeedNext
  <2> QED BY <1>4, <2>7, <2>8
<1> QED BY <1>1, <1>9, <1>10

LEMMA StreamWaits ==
  ASSUME StreamInv, mode' = mode, UNCHANGED boardVars,
         \/ Stream!DialFails \/ Stream!ReadFails \/ Stream!Retry \/ Stream!Restart
         \/ \E p \in Pingers : Stream!pingLoopReturns(p)
  PROVE  StreamInv' /\ FeedStep
<1>1. /\ UNCHANGED <<last, finals, faults>> /\ (crashes' = crashes \/ crashes' = crashes + 1)
      /\ \/ UNCHANGED <<reel, socket, pipe>> /\ (conn' = "reading" <=> conn = "reading")
         \/ /\ pipe' = <<>> /\ reel' = <<>> /\ socket' = "none" /\ conn' # "reading"
  <2>1. CASE Stream!DialFails \/ Stream!Retry
    BY <2>1 DEF Stream!DialFails, Stream!Retry, Stream!vendorVars, Stream!wireVars
  <2>2. CASE Stream!ReadFails
    BY <2>2 DEF Stream!ReadFails, Stream!wireVars, StreamInv, StreamSound
  <2>3. CASE Stream!Restart
    BY <2>3 DEF Stream!Restart, Stream!wireVars
  <2>4. ASSUME NEW p \in Pingers, Stream!pingLoopReturns(p) PROVE <1>1
    BY <2>4 DEF Stream!pingLoopReturns, Stream!vendorVars, Stream!wireVars
  <2> QED BY <2>1, <2>2, <2>3, <2>4
<1>2. BoardTypeOK'
  <2>1. crashes' \in Nat
    BY <1>1 DEF StreamInv, BoardTypeOK
  <2> QED BY <1>1, <2>1 DEF StreamInv, BoardTypeOK, boardVars, worldVars, tickVars
<1>3. StreamSound'
  BY <1>1 DEF StreamInv, StreamSound, Stream!FinalsAreLast
<1>4. delay' \in 1..MaxDelay /\ conn' \in {"waiting", "dialling", "reading"}
  BY IngestorAssumption DEF StreamInv, StreamTyped, Stream!StreamAssumption, Stream!DialFails,
     Stream!ReadFails, Stream!Retry, Stream!Restart, Stream!pingLoopReturns
<1>5. /\ loop' \in [Pingers -> {"none", "running", "cancelled"}]
      /\ \A p \in Pingers : loop'[p] = "running" => loop[p] = "running"
      /\ \A p \in Pingers : conn' = "reading" /\ loop[p] = "running" => loop'[p] = "running"
      /\ conn' = "reading" => conn = "reading"
      /\ conn' # "reading" => \A p \in Pingers : loop'[p] # "running"
  <2>1. CASE Stream!DialFails \/ Stream!Retry
    BY <2>1 DEF StreamInv, StreamTyped, Stream!DialFails, Stream!Retry
  <2>2. CASE Stream!ReadFails
    BY <2>2 DEF StreamInv, StreamTyped, Stream!ReadFails, Stream!Cancel
  <2>3. CASE Stream!Restart
    BY <2>3 DEF Stream!Restart
  <2>4. ASSUME NEW p \in Pingers, Stream!pingLoopReturns(p) PROVE <1>5
    BY <2>4 DEF StreamInv, StreamTyped, Stream!pingLoopReturns
  <2> QED BY <2>1, <2>2, <2>3, <2>4
<1>6. StreamTyped'
  <2>1. socket' \in (IF conn' = "reading" THEN {"open", "closed"} ELSE {"none"})
    BY <1>1 DEF StreamInv, StreamTyped
  <2>2. pipe' \in Seq(Stream!FeedFrame) /\ reel' \in Seq(0..MaxGoals)
    BY <1>1, EmptySeq DEF StreamInv, StreamTyped
  <2>3. /\ \A p, q \in Pingers : loop'[p] = "running" => (loop'[q] = "running" => p = q)
        /\ (\E p \in Pingers : loop'[p] = "running") <=> conn' = "reading"
    BY <1>5 DEF StreamInv, StreamTyped
  <2> QED BY <1>4, <1>5, <2>1, <2>2, <2>3 DEF StreamTyped
<1> QED BY <1>1, <1>2, <1>3, <1>6, NothingIsFeed DEF StreamInv

LEMMA StreamStep ==
  ASSUME IInv, InStream(Stream!Next)
  PROVE  IInv' /\ FeedStep
<1>1. /\ mode = "mock" /\ mode' = mode /\ Stream!Next
      /\ UNCHANGED boardVars /\ UNCHANGED <<helabetVars, betpawaVars, apiVars>>
  BY DEF InStream
<1>2. StreamInv
  BY <1>1 DEF IInv, Typed, StreamInv
<1>3. StreamInv' /\ FeedStep
  BY <1>1, <1>2, StreamSends, StreamCut, StreamDials, StreamReads, StreamWaits
     DEF Stream!Next, Stream!Vendor, Stream!Run
<1>4. HelabetTyped' /\ BetpawaTyped' /\ ApiTyped'
  <2>1. HelabetTyped'
    BY <1>1, Zenon DEF IInv, Typed, HelabetTyped, helabetVars
  <2>2. BetpawaTyped'
    BY <1>1 DEF IInv, Typed, BetpawaTyped, betpawaVars, Betpawa!isFullTimePeriod
  <2>3. ApiTyped'
    BY <1>1, Zenon DEF IInv, Typed, ApiTyped, apiVars
  <2> QED BY <2>1, <2>2, <2>3
<1> QED BY <1>1, <1>3, <1>4 DEF IInv, Typed, StreamInv

-----------------------------------------------------------------------------
LEMMA StutterInv == ASSUME IInv, UNCHANGED vars PROVE IInv' /\ FeedStep
<1>1. /\ UNCHANGED <<mode, game, board, fetched, listed, ticking, last, finals, faults, crashes>>
      /\ UNCHANGED helabetVars /\ UNCHANGED betpawaVars /\ UNCHANGED apiVars /\ UNCHANGED streamVars
  BY DEF vars, boardVars, worldVars, tickVars, wireVars
<1>2. Typed'
  <2>1. BoardTypeOK'
    BY <1>1, Zenon DEF IInv, Typed, BoardTypeOK
  <2>2. HelabetTyped'
    BY <1>1, Zenon DEF IInv, Typed, HelabetTyped, helabetVars
  <2>3. BetpawaTyped'
    BY <1>1 DEF IInv, Typed, BetpawaTyped, betpawaVars, Betpawa!isFullTimePeriod
  <2>4. ApiTyped'
    BY <1>1, Zenon DEF IInv, Typed, ApiTyped, apiVars
  <2>5. StreamTyped'
    BY <1>1, Zenon DEF IInv, Typed, StreamTyped, streamVars
  <2> QED BY <2>1, <2>2, <2>3, <2>4, <2>5 DEF Typed
<1>3. mode \in {"helabet", "betpawa"} => BoardSound'
  BY <1>1 DEF IInv, BoardSound, Sound, NotAfter, Told
<1>4. mode = "helabet" => HelabetSound'
  BY <1>1 DEF IInv, HelabetSound, Remembered, Sound, NotAfter, Told, helabetVars
<1>5. mode = "betpawa" => BetpawaSound'
  BY <1>1 DEF IInv, BetpawaSound, Remembered, Sound, NotAfter, Told, betpawaVars
<1>6. mode = "apifootball" => ApiSound' /\ (~ExtraTime => ApiFed')
  BY <1>1 DEF IInv, ApiSound, ApiFed, Api!TrueFinals, Api!finalScore, Api!Over, Api!inPlay, apiVars
<1>7. mode = "mock" => StreamSound'
  BY <1>1 DEF IInv, StreamSound, Stream!FinalsAreLast, streamVars
<1> QED BY <1>1, <1>2, <1>3, <1>4, <1>5, <1>6, <1>7, NothingIsFeed DEF IInv

LEMMA NextInv == ASSUME IInv, [Next]_vars PROVE IInv' /\ (~ExtraTime => FeedStep)
BY StutterInv, HelabetStep, BetpawaStep, ApiStep, StreamStep DEF Next

(* What the invariant says of every source.                                *)
LEMMA InvDue == ASSUME IInv PROVE FinalsAreDue
<1>1. CASE mode = "helabet"
  BY <1>1 DEF IInv, BoardSound, FinalsAreDue, Helabet!EarlyMatchesStayOpen
<1>2. CASE mode = "betpawa"
  BY <1>2 DEF IInv, BoardSound, FinalsAreDue, Betpawa!EarlyMatchesStayOpen
<1>3. CASE mode = "apifootball"
  BY <1>3 DEF IInv, ApiSound, FinalsAreDue
<1>4. CASE mode = "mock"
  BY <1>4 DEF IInv, StreamSound, FinalsAreDue
<1> QED BY <1>1, <1>2, <1>3, <1>4 DEF IInv, Feed!Source

THEOREM Invariance == Spec => []IInv
<1>1. IInv /\ [Next]_vars => IInv'
  BY NextInv
<1> QED BY InitInv, <1>1, PTL DEF Spec

(* Whatever the source, all state stays in its types: of the client, that  *)
(* a connection that is read has one ping loop, and of betPawa's poller,   *)
(* that full time was announced only if the row says so                    *)
(* (stream/client.go:84-108, betpawa/poller.go:113-143).                   *)
THEOREM TypeCorrect == Spec => []TypeOK
<1>1. IInv => TypeOK
  BY TypedIsTypeOK DEF IInv
<1> QED BY Invariance, <1>1, PTL

(* No source sends a FULLTIME frame too early, for any number of matches,  *)
(* goals, failures and restarts (helabet/poller.go:170-200,                *)
(* betpawa/poller.go:113-143, apifootball/poller.go:161-253).              *)
THEOREM FinalsDue == Spec => []FinalsAreDue
<1>1. IInv => FinalsAreDue
  BY InvDue
<1> QED BY Invariance, <1>1, PTL

(* Every source is a match feed, if the API lists no match after extra     *)
(* time: scores never fall, and a closed match is closed for good.         *)
THEOREM FeedRefinement == ASSUME ~ExtraTime PROVE Spec => ImplementsMatchFeed
<1>1. Init => Feed!FeedInit
  BY DEF Init, Helabet!Init, Helabet!BoardInit, Feed!FeedInit, Feed!NoFrame
<1>2. IInv /\ [Next]_vars => [Feed!FeedNext]_(Feed!feedVars)
  BY NextInv DEF FeedStep
<1> QED BY Invariance, <1>1, <1>2, PTL DEF Spec, ImplementsMatchFeed, Feed!FeedSpec

-----------------------------------------------------------------------------
(* The listing of a tick.  What the poller has not seen of it is still to  *)
(* be handled, so what it finds vanished was not in it.                    *)
GoneInv ==
  mode = "helabet" =>
    /\ \A m \in Match : dropped[m] # Absent => m \notin listed
    /\ ticking => \A m \in listed : m \in seen \/ fetched[m] # Absent

GoneStep ==
  mode = "helabet" => \A m \in Match : Len(finals'[m]) > Len(finals[m]) =>
    m \notin listed \/ fetched[m].clock = "finished"

(* A publish for one match leaves the FULLTIME frames of the others alone. *)
LEMMA OthersFinals ==
  ASSUME NEW m \in Match, NEW clock, NEW goals, BoardTypeOK, Helabet!Publish(m, clock, goals, 1)
  PROVE  /\ \A k \in Match \ {m} : finals'[k] = finals[k]
         /\ clock = "LIVE" => finals' = finals
BY DEF Helabet!Publish, BoardTypeOK

LEMMA HelabetGone ==
  ASSUME IInv, GoneInv, mode = "helabet", mode' = mode, Helabet!Next
  PROVE  GoneInv' /\ GoneStep
<1>1. /\ \A m \in Match : dropped[m] # Absent => m \notin listed
      /\ ticking => \A m \in listed : m \in seen \/ fetched[m] # Absent
      /\ \A m \in Match : dropped[m] # Absent => ticking
      /\ BoardTypeOK /\ Helabet!Absent = Absent
      /\ \A m \in Match : Len(finals[m]) \in Nat
      /\ active \in [Match -> Row \cup {Absent}] /\ dropped \in [Match -> Row \cup {Absent}]
  BY HelabetRows, LenProperties
     DEF GoneInv, IInv, Typed, HelabetSound, HelabetTyped, BoardTypeOK
<1>2. finals' = finals => GoneStep
  BY <1>1 DEF GoneStep
<1>3. CASE Helabet!Outside(Helabet!World) \/ Helabet!TickFails
  <2>1. UNCHANGED <<fetched, listed, ticking, finals, dropped, seen>>
    BY <1>3 DEF Helabet!Outside, Helabet!tickVars, Helabet!wireVars, Helabet!pollerVars,
                Helabet!TickFails
  <2> QED BY <1>1, <1>2, <2>1 DEF GoneInv
<1>4. CASE Helabet!Tick
  <2>1. /\ ~ticking /\ fetched' = board /\ listed' = {m \in Match : board[m] # Absent}
        /\ UNCHANGED <<dropped, finals>>
    BY <1>1, <1>4 DEF Helabet!Tick, Helabet!Fetch, Helabet!wireVars
  <2>2. \A m \in Match : dropped'[m] = Absent
    BY <1>1, <2>1
  <2> QED BY <1>2, <2>1, <2>2 DEF GoneInv
<1>5. CASE Helabet!DropVanished
  <2>1. /\ ticking /\ \A m \in Match : fetched[m] = Absent
        /\ UNCHANGED <<fetched, listed, finals, seen>>
        /\ dropped' = [m \in Match |-> IF m \notin seen THEN active[m] ELSE Absent]
    BY <1>1, <1>5 DEF Helabet!DropVanished, Helabet!AllHandled, Helabet!Vanished, Helabet!wireVars
  <2>2. \A m \in listed : m \in seen /\ m \in Match
    BY <1>1, <2>1 DEF BoardTypeOK
  <2> QED BY <1>2, <2>1, <2>2 DEF GoneInv
<1>6. ASSUME NEW m \in Match, Helabet!HandleRow(m)
      PROVE  GoneInv' /\ GoneStep
  <2>1. /\ UNCHANGED <<listed, ticking, dropped>> /\ seen' = seen \cup {m}
        /\ fetched' = [fetched EXCEPT ![m] = Absent]
    BY <1>1, <1>6 DEF Helabet!HandleRow, Helabet!See, Helabet!Handled
  <2>2. GoneInv'
    BY <1>1, <2>1 DEF GoneInv, BoardTypeOK
  <2>3. finals' = finals \/ (fetched[m].clock = "finished" /\ \A k \in Match \ {m} : finals'[k] = finals[k])
    <3>1. CASE Helabet!Skip(m)
      BY <3>1 DEF Helabet!Skip, Helabet!wireVars
    <3>2. CASE Helabet!PublishLive(m)
      BY <1>1, <3>2, OthersFinals DEF Helabet!PublishLive
    <3>3. CASE Helabet!PublishFinished(m)
      BY <1>1, <3>3, OthersFinals DEF Helabet!PublishFinished, Helabet!IsFullTime
    <3> QED BY <1>6, <3>1, <3>2, <3>3 DEF Helabet!HandleRow
  <2> QED BY <1>1, <1>2, <2>2, <2>3 DEF GoneStep
<1>7. ASSUME NEW m \in Match, Helabet!SettleDropped(m)
      PROVE  GoneInv' /\ GoneStep
  <2>1. /\ dropped[m] # Absent /\ UNCHANGED <<fetched, listed, seen>>
        /\ dropped' = [dropped EXCEPT ![m] = Absent]
    BY <1>1, <1>7 DEF Helabet!SettleDropped
  <2>2. m \notin listed /\ ticking
    BY <1>1, <2>1
  <2>3. GoneInv'
    BY <1>1, <2>1, <2>2 DEF GoneInv
  <2>4. \A k \in Match \ {m} : finals'[k] = finals[k]
    BY <1>1, <1>7, OthersFinals DEF Helabet!SettleDropped, Helabet!wireVars
  <2> QED BY <1>1, <2>2, <2>3, <2>4 DEF GoneStep
<1>8. CASE Helabet!Restart
  <2>1. /\ ~ticking' /\ \A m \in Match : dropped'[m] = Absent /\ finals'[m] = <<>>
    BY <1>1, <1>8 DEF Helabet!Restart, Helabet!Reboot, Helabet!NoRows
  <2>2. GoneStep
    BY <1>1, <2>1, EmptySeq DEF GoneStep
  <2> QED BY <2>1, <2>2 DEF GoneInv
<1> QED BY <1>3, <1>4, <1>5, <1>6, <1>7, <1>8 DEF Helabet!Next, Helabet!TickStep

(* A FULLTIME frame of Helabet is about a row that says finished or about  *)
(* a match the last listing did not have, whatever failed before           *)
(* (helabet/poller.go:128-141, 173-175).                                   *)
THEOREM FinalsOfGone == Spec => FinalsOfGoneMatches
<1>1. Init => GoneInv
  BY DEF Init, Helabet!Init, Helabet!BoardInit, Helabet!NoRows, Helabet!Absent, Absent, GoneInv
<1>2. IInv /\ GoneInv /\ [Next]_vars => GoneInv' /\ [GoneStep]_vars
  <2> SUFFICES ASSUME IInv, GoneInv, [Next]_vars PROVE GoneInv' /\ [GoneStep]_vars
    OBVIOUS
  <2>1. CASE UNCHANGED vars
    BY <2>1 DEF vars, boardVars, tickVars, helabetVars, GoneInv
  <2>2. CASE InHelabet(Helabet!Next)
    BY <2>2, HelabetGone DEF InHelabet
  <2>3. CASE mode # "helabet" /\ mode' = mode
    BY <2>3 DEF GoneInv, GoneStep
  <2> QED BY <2>1, <2>2, <2>3 DEF Next, InHelabet, InBetpawa, InApi, InStream
<1> QED BY Invariance, <1>1, <1>2, PTL DEF Spec, FinalsOfGoneMatches, GoneStep
=============================================================================
