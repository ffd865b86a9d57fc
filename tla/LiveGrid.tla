------------------------------ MODULE LiveGrid ------------------------------
(***************************************************************************)
(* The public page (app/page.jsx, hooks/useWebSockets.js and               *)
(* components/LiveBetsGrid.jsx) on a feed of match frames.                 *)
(*                                                                         *)
(* The page keeps the newest frame of the matches it heard of last, the    *)
(* newest match first, and React draws them as cards some time after the   *)
(* state has changed.  A card has a chip for every price; the chips are    *)
(* alike, so the model follows one of each card, the home price of the     *)
(* first market, which keeps its own memory from its first drawing on.     *)
(*                                                                         *)
(* The relay and the socket are those of WebRelay: in order, at most once, *)
(* and nothing of what was published while the page was offline.  A frame  *)
(* has a number; clock and score of its match are those of the number,     *)
(* and the feed (module MatchFeed) says how they go on.                    *)
(* Left out: names, kickoff times and the statistics of a match.           *)
(***************************************************************************)
EXTENDS Integers, Sequences, FiniteSets

CONSTANTS
  Match,       \* match identifiers
  Books,       \* the markets of a frame: a sequence of prices by side
  Cap,         \* cards that the page keeps, 40 in the code
  MinTrigger,  \* MIN_TRIGGER_ODDS
  MaxFrames,   \* bound: frames published
  MaxFaults    \* bound: lost connections and reloads

Sides == {"home", "draw", "away"}

LiveGridAssumption ==
  /\ MaxFrames \in Nat /\ MaxFaults \in Nat
  /\ Cap \in Nat \ {0} /\ MinTrigger \in Nat
  /\ Books \subseteq Seq([Sides -> Nat])

VARIABLES
  sent,          \* number of frames published
  wire,          \* frames between the relay and the page
  connected,     \* the socket of the page is open
  matches,       \* frames that the page keeps, newest match first
  lastEvent,     \* the last frame of any match, if there was one
  screen,        \* the cards as React drew them last
  chip,          \* memory of the chip of every card on the screen
  told,          \* history: the newest frame of every match told to the page
  faults         \* counter behind MaxFaults

pageVars == <<matches, lastEvent, screen, chip, told>>
vars == <<sent, wire, connected, pageVars, faults>>

Frame == [match : Match, n : 1..MaxFrames, markets : Books]
None  == [n |-> 0]
NoChip == [flash |-> "unmounted"]
Chip  == [first : Nat, flash : {"none", "up", "down"}, timer : BOOLEAN]

IndexIn(m, cards) == {i \in DOMAIN cards : cards[i].match = m}
CardIn(m, cards)  == cards[CHOOSE i \in IndexIn(m, cards) : TRUE]

Fault == faults < MaxFaults /\ faults' = faults + 1
-----------------------------------------------------------------------------
(* What the page shows.                                                    *)

Cheapest(prices) ==
  {s \in Sides : prices[s] > 0 /\ \A r \in Sides : prices[r] > 0 => prices[s] <= prices[r]}

(* Mutant: a price of zero counts as a price.                              *)
AnyCheapest(f) ==
  IF f.markets = <<>> THEN ""
  ELSE CHOOSE s \in Sides : \A r \in Sides : Head(f.markets)[s] <= Head(f.markets)[r]

(* The side with the lowest price of the first market, the first of them   *)
(* in the order home, draw, away.                                          *)
favouriteOf(f) ==
  LET best == IF f.markets = <<>> THEN {} ELSE Cheapest(Head(f.markets))
  IN IF "home" \in best THEN "home" ELSE IF "draw" \in best THEN "draw"
     ELSE IF "away" \in best THEN "away" ELSE ""

hasValue(f) ==
  \E i \in DOMAIN f.markets : \E s \in Sides : f.markets[i][s] >= MinTrigger

MatchCard(f) ==
  [match |-> f.match, clockAndScore |-> f.n, value |-> hasValue(f),
   chips |-> {[market |-> i, side |-> s, price |-> f.markets[i][s],
               leader |-> s = favouriteOf(f)] : i \in DOMAIN f.markets, s \in Sides}]

LiveBetsGrid == [i \in DOMAIN screen |-> MatchCard(screen[i])]

marketCount ==
  LET upTo[i \in 0..Len(screen)] ==
        IF i = 0 THEN 0 ELSE upTo[i - 1] + Len(screen[i].markets)
  IN upTo[Len(screen)]

Page == [online |-> connected, matches |-> Len(screen), markets |-> marketCount,
         lastFrame |-> lastEvent.n, cards |-> LiveBetsGrid]
-----------------------------------------------------------------------------
(* The feed, the relay and the connection.                                 *)

Publish(m, markets) ==
  /\ sent < MaxFrames /\ sent' = sent + 1
  /\ wire' = IF connected THEN Append(wire, [match |-> m, n |-> sent + 1, markets |-> markets])
             ELSE wire
  /\ UNCHANGED <<connected, pageVars, faults>>

Connect ==
  /\ ~connected /\ connected' = TRUE
  /\ UNCHANGED <<sent, wire, pageVars, faults>>

Disconnect ==
  /\ connected /\ Fault
  /\ connected' = FALSE /\ wire' = <<>>
  /\ UNCHANGED <<sent, pageVars>>

(* The page is loaded again, or left and opened again.                     *)
Reload ==
  /\ Fault
  /\ connected' = FALSE /\ wire' = <<>>
  /\ matches' = <<>> /\ lastEvent' = None /\ screen' = <<>>
  /\ chip' = [m \in Match |-> NoChip] /\ told' = [m \in Match |-> None]
  /\ UNCHANGED sent
-----------------------------------------------------------------------------
(* The page.                                                               *)

Shortened(s) == SubSeq(s, 1, IF Len(s) < Cap THEN Len(s) ELSE Cap)

(* The cards of the other matches, in their order.                         *)
Without(m, cards) ==
  LET rest[i \in 0..Len(cards)] ==
        IF i = 0 THEN <<>>
        ELSE IF cards[i].match = m THEN rest[i - 1] ELSE Append(rest[i - 1], cards[i])
  IN rest[Len(cards)]

(* Mutant: the frame is put before the cards on the screen, not before the *)
(* state of the hook.                                                      *)
MovedOnScreen(f) == Shortened(<<f>> \o Without(f.match, screen))

(* Mutant: the old frame of the match stays.                               *)
MovedTwice(f) == Shortened(<<f>> \o matches)

(* The frame replaces the one of its match and moves to the front.         *)
Moved(f) == Shortened(<<f>> \o Without(f.match, matches))

OnMessage ==
  /\ wire # <<>> /\ wire' = Tail(wire)
  /\ matches' = Moved(Head(wire)) /\ lastEvent' = Head(wire)
  /\ told' = [told EXCEPT ![Head(wire).match] = Head(wire)]
  /\ UNCHANGED <<sent, connected, screen, chip, faults>>

(* Mutant: a chip that flashes already does not start its timer again.     *)
EffectOnce(c, price) ==
  IF price = c.first THEN [c EXCEPT !.timer = FALSE]
  ELSE [c EXCEPT !.flash = IF price > c.first THEN "up" ELSE "down",
                 !.timer = c.flash = "none"]

(* The effect of a chip on a new price.  Its cleanup has stopped the timer *)
(* of the last one.  The price it compares with is written only when the   *)
(* two are the same, so it is the price that was drawn first.              *)
PriceChip(c, price) ==
  IF price = c.first THEN [c EXCEPT !.timer = FALSE]
  ELSE [c EXCEPT !.flash = IF price > c.first THEN "up" ELSE "down", !.timer = TRUE]

Mounted(price) == [first |-> price, flash |-> "none", timer |-> FALSE]

Priced(m, cards) == IndexIn(m, cards) # {} /\ CardIn(m, cards).markets # <<>>
Price(m, cards)  == Head(CardIn(m, cards).markets)["home"]

(* React draws the cards and runs the effects of the chips whose price has *)
(* changed.                                                                *)
Render ==
  /\ screen # matches /\ screen' = matches
  /\ chip' = [m \in Match |->
       IF ~Priced(m, matches) THEN NoChip
       ELSE IF ~Priced(m, screen) THEN Mounted(Price(m, matches))
       ELSE IF Price(m, matches) = Price(m, screen) THEN chip[m]
       ELSE PriceChip(chip[m], Price(m, matches))]
  /\ UNCHANGED <<sent, wire, connected, matches, lastEvent, told, faults>>

FlashTimeout(m) ==
  /\ chip[m] # NoChip /\ chip[m].timer
  /\ chip' = [chip EXCEPT ![m].flash = "none", ![m].timer = FALSE]
  /\ UNCHANGED <<sent, wire, connected, matches, lastEvent, screen, told, faults>>
-----------------------------------------------------------------------------
Init ==
  /\ sent = 0
  /\ wire = <<>> /\ connected = FALSE
  /\ matches = <<>> /\ lastEvent = None /\ screen = <<>>
  /\ chip = [m \in Match |-> NoChip] /\ told = [m \in Match |-> None]
  /\ faults = 0

Next ==
  \/ \E m \in Match, markets \in Books : Publish(m, markets)
  \/ Connect \/ Disconnect \/ Reload \/ OnMessage \/ Render
  \/ \E m \in Match : FlashTimeout(m)

Spec == Init /\ [][Next]_vars
-----------------------------------------------------------------------------
TypeOK ==
  /\ sent \in 0..MaxFrames
  /\ wire \in Seq(Frame)
  /\ connected \in BOOLEAN
  /\ matches \in Seq(Frame) /\ screen \in Seq(Frame)
  /\ \A cards \in {matches, screen} :
       /\ Len(cards) <= Cap
       /\ \A i, j \in DOMAIN cards : cards[i].match = cards[j].match => i = j
  /\ lastEvent \in Frame \cup {None}
  /\ chip \in [Match -> Chip \cup {NoChip}]
  /\ told \in [Match -> Frame \cup {None}]
  /\ faults \in 0..MaxFaults

(* The page keeps the newest frame of each of the matches it heard of      *)
(* last, as many as it may, in that order and no match twice, and its      *)
(* footer tells the newest of them (useWebSockets.js:61-70).               *)
GridIsLatest ==
  LET later(m) == Cardinality({r \in Match : told[r].n > told[m].n})
      kept == {m \in Match : told[m] # None /\ later(m) < Cap}
  IN /\ Len(matches) = Cardinality(kept)
     /\ \A m \in kept : matches[later(m) + 1] = told[m]
     /\ matches # <<>> => lastEvent = Head(matches)

(* The badge, the leaders and the counters of the page agree with the      *)
(* prices next to them: a card has value exactly if one of its chips shows *)
(* a price that may trigger, no side leads the first market with a price   *)
(* that another one undercuts or that is no price, and one side leads when *)
(* there is a price at all (LiveBetsGrid.jsx:18-40, 192-236, page.jsx:9-12).*)
CardsAgree ==
  /\ 3 * Page.markets =
       Cardinality(UNION {{<<i, c>> : c \in Page.cards[i].chips} : i \in DOMAIN Page.cards})
  /\ \A i \in DOMAIN Page.cards :
       LET card == Page.cards[i]
           first == {c \in card.chips : c.market = 1}
           priced == {c \in first : c.price > 0}
       IN /\ card.value <=> \E c \in card.chips : c.price >= MinTrigger
          /\ Cardinality({c \in first : c.leader}) = (IF priced = {} THEN 0 ELSE 1)
          /\ \A c \in first, d \in priced : c.leader => c \in priced /\ c.price <= d.price

(* A flash of a price has a timer that ends it, unless the price went back *)
(* to where it was when the card came up: then the cleanup has stopped the *)
(* timer and the effect starts no other (LiveBetsGrid.jsx:50-62).          *)
FlashesEnd ==
  \A m \in Match :
    chip[m] # NoChip /\ chip[m].flash # "none" /\ ~chip[m].timer =>
      Price(m, screen) = chip[m].first
=============================================================================
