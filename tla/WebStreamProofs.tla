--------------------------- MODULE WebStreamProofs ---------------------------
(***************************************************************************)
(* Proofs that a page of the web interface says it is online exactly when  *)
(* its socket is open, and shows the events of a channel in their order,   *)
(* for every number of tabs, sockets, channels, logins, reloads and lost   *)
(* connections; that the public page keeps the newest frame of each match  *)
(* and its cards agree with the prices; and that its flashes end.          *)
(*                                                                         *)
(* A page uses one socket at a time, because whatever makes it connect     *)
(* comes after the end of the socket before.  The order holds because      *)
(* everything the relay has forwarded is older than what waits for it, so  *)
(* a new socket starts behind all that any page has seen.  A chip is lit   *)
(* without a timer only when the price is back where the chip began.  The  *)
(* card of a match is the last frame of it that came, because the grid     *)
(* hears the frames in the order in which the relay sent them.             *)
(***************************************************************************)
EXTENDS WebStream, SequenceTheorems, FunctionTheorems, FiniteSetTheorems,
        WellFoundedInduction, TLAPS

-----------------------------------------------------------------------------
(* Types.                                                                  *)
Item == Frames \cup {Opened, Closed}

SocketType(n) ==
  [tab : Tabs \cup {NoTab}, disposed : BOOLEAN, token : 0..n,
   state : {"free", "connecting", "open", "closing"},
   peer : BOOLEAN, admin : BOOLEAN, pipe : Seq(Item)]

PageType(n) ==
  [token : 0..n, leaving : BOOLEAN, connected : BOOLEAN, timer : BOOLEAN,
   shown : [ToSet(Channels) -> Seq(1..MaxEvents)]]

SocketRight(r, n) == r \in SocketType(n) /\ (r.tab = NoTab <=> r = Free)

PageRight(t, x, n) ==
  /\ x \in PageType(n)
  /\ \A ch \in ToSet(Channels) : Len(x.shown[ch]) <= Keep
  /\ x.leaving => x.token # 0
  /\ t \in PublicTabs => x.token = 0

SocketsTyped ==
  /\ issued \in Nat
  /\ sock = [s \in Sockets |-> sock[s]]
  /\ \A s \in Sockets : SocketRight(sock[s], issued)

PagesTyped == tab = [t \in Tabs |-> tab[t]] /\ \A t \in Tabs : PageRight(t, tab[t], issued)

SessionTyped == session \in 0..issued /\ issued \in 0..MaxLogins /\ expired \subseteq 1..issued

RelayTyped ==
  /\ relay \in {"down", "up", "quitting"}
  /\ subscribed \in Seq(STRING) /\ Len(subscribed) <= Len(Channels)
  /\ \A i \in 1..Len(subscribed) : subscribed[i] = Channels[i]
  /\ inbox \in Seq(Message)
  /\ published \in 0..MaxEvents

Typed == SocketsTyped /\ PagesTyped /\ SessionTyped /\ RelayTyped /\ faults \in 0..MaxFaults

(* What Append, Tail and SubSeq make of a pipe.                            *)
LEMMA Appended ==
  ASSUME NEW S, NEW p \in Seq(S), NEW e \in S
  PROVE  /\ Append(p, e) \in Seq(S)
         /\ \A i \in DOMAIN Append(p, e) :
              \/ i \in DOMAIN p /\ Append(p, e)[i] = p[i]
              \/ i = Len(p) + 1 /\ Append(p, e)[i] = e
<1>1. /\ Append(p, e) \in Seq(S) /\ Len(Append(p, e)) = Len(p) + 1 /\ Len(p) \in Nat
      /\ \A i \in 1..Len(p) : Append(p, e)[i] = p[i]
      /\ Append(p, e)[Len(p) + 1] = e
  BY AppendProperties, LenProperties
<1>2. DOMAIN Append(p, e) = 1..(Len(p) + 1) /\ DOMAIN p = 1..Len(p)
  BY <1>1, LenProperties
<1> QED BY <1>1, <1>2

LEMMA Tailed ==
  ASSUME NEW S, NEW p \in Seq(S), p # <<>>
  PROVE  /\ Tail(p) \in Seq(S) /\ Head(p) \in S /\ Head(p) = p[1] /\ 1 \in DOMAIN p
         /\ \A i \in DOMAIN Tail(p) : i \in Nat /\ 1 < i + 1 /\ i + 1 \in DOMAIN p /\ Tail(p)[i] = p[i + 1]
<1>1. /\ Tail(p) \in Seq(S) /\ Head(p) \in S /\ Len(Tail(p)) = Len(p) - 1
      /\ \A i \in 1..Len(Tail(p)) : Tail(p)[i] = p[i + 1]
  BY HeadTailProperties
<1>2. Len(p) \in Nat \ {0} /\ DOMAIN p = 1..Len(p) /\ DOMAIN Tail(p) = 1..Len(Tail(p))
  BY <1>1, EmptySeq, LenProperties
<1> QED BY <1>1, <1>2

LEMMA Cut ==
  ASSUME NEW S, NEW p \in Seq(S), NEW k \in 0..Len(p)
  PROVE  /\ SubSeq(p, 1, k) \in Seq(S) /\ Len(SubSeq(p, 1, k)) = k
         /\ \A i \in DOMAIN SubSeq(p, 1, k) : i \in DOMAIN p /\ SubSeq(p, 1, k)[i] = p[i]
<1>1. Len(p) \in Nat /\ DOMAIN p = 1..Len(p) /\ \A i \in 1..Len(p) : p[i] \in S
  BY LenProperties, ElementOfSeq
<1>2. \A i \in 1..k : p[i] \in S
  BY <1>1
<1>3. k \in Int /\ 1 \in Int
  BY <1>1
<1>4. /\ SubSeq(p, 1, k) \in Seq(S) /\ Len(SubSeq(p, 1, k)) = k
      /\ \A i \in 1..k : SubSeq(p, 1, k)[i] = p[i]
  <2>1. /\ SubSeq(p, 1, k) \in Seq(S)
        /\ Len(SubSeq(p, 1, k)) = IF 1 <= k THEN k - 1 + 1 ELSE 0
        /\ \A i \in 1..(k - 1 + 1) : SubSeq(p, 1, k)[i] = p[1 + i - 1]
    BY <1>2, <1>3, SubSeqProperties
  <2>2. k \in Nat
    BY <1>1
  <2>3. Len(SubSeq(p, 1, k)) = k
    BY <2>1, <2>2
  <2>4. \A i \in 1..k : i \in 1..(k - 1 + 1) /\ 1 + i - 1 = i
    BY <2>2
  <2> QED BY <2>1, <2>3, <2>4
<1>5. DOMAIN SubSeq(p, 1, k) = 1..k
  BY <1>4, LenProperties
<1> QED BY <1>1, <1>4, <1>5

(* A list of a page after a message.                                       *)
LEMMA KeptList ==
  ASSUME NEW n \in 1..MaxEvents, NEW list \in Seq(1..MaxEvents), MaxEvents \in Nat,
         Keep \in Nat \ {0}
  PROVE  /\ Kept(<<n>> \o list) \in Seq(1..MaxEvents) /\ Len(Kept(<<n>> \o list)) <= Keep
         /\ \A i \in DOMAIN Kept(<<n>> \o list) :
              \/ i = 1 /\ Kept(<<n>> \o list)[i] = n
              \/ i - 1 \in DOMAIN list /\ Kept(<<n>> \o list)[i] = list[i - 1]
<1>1. PICK S : S = 1..MaxEvents
  OBVIOUS
<1>2. <<n>> \in Seq(S) /\ Len(<<n>>) = 1 /\ <<n>>[1] = n /\ list \in Seq(S)
  BY <1>1
<1>3. PICK q : q = <<n>> \o list
  OBVIOUS
<1>4. /\ q \in Seq(S) /\ Len(q) = 1 + Len(list)
      /\ \A i \in 1..(1 + Len(list)) : q[i] = IF i <= 1 THEN n ELSE list[i - 1]
  <2>1. /\ q \in Seq(S) /\ Len(q) = Len(<<n>>) + Len(list)
        /\ \A i \in 1..(Len(<<n>>) + Len(list)) :
             q[i] = IF i <= Len(<<n>>) THEN <<n>>[i] ELSE list[i - Len(<<n>>)]
    BY <1>2, <1>3, ConcatProperties
  <2>2. Len(list) \in Nat
    BY <1>2, LenProperties
  <2>3. \A i \in 1..(1 + Len(list)) : i <= 1 => i = 1
    BY <2>2
  <2> QED BY <1>2, <2>1, <2>3
<1>5. PICK k : k = IF Len(q) < Keep THEN Len(q) ELSE Keep
  OBVIOUS
<1>6. Len(list) \in Nat /\ DOMAIN list = 1..Len(list) /\ k \in 0..Len(q) /\ k <= Keep
  BY <1>2, <1>4, <1>5, LenProperties
<1>7. Kept(q) = SubSeq(q, 1, k)
  BY <1>5 DEF Kept
<1>8. /\ SubSeq(q, 1, k) \in Seq(S) /\ Len(SubSeq(q, 1, k)) = k
      /\ \A i \in DOMAIN SubSeq(q, 1, k) : i \in DOMAIN q /\ SubSeq(q, 1, k)[i] = q[i]
  BY <1>4, <1>6, Cut
<1>9. \A i \in DOMAIN q : (i = 1 /\ q[i] = n) \/ (i - 1 \in 1..Len(list) /\ q[i] = list[i - 1])
  <2>1. DOMAIN q = 1..(1 + Len(list))
    BY <1>4, LenProperties
  <2> SUFFICES ASSUME NEW i \in 1..(1 + Len(list))
               PROVE  (i = 1 /\ q[i] = n) \/ (i - 1 \in 1..Len(list) /\ q[i] = list[i - 1])
    BY <2>1
  <2>2. CASE i <= 1
    BY <1>4, <1>6, <2>2
  <2>3. CASE ~(i <= 1)
    BY <1>4, <1>6, <2>3
  <2> QED BY <2>2, <2>3
<1> QED BY <1>1, <1>3, <1>6, <1>7, <1>8, <1>9

-----------------------------------------------------------------------------
(* The types are kept.  A step changes some sockets, some pages and the    *)
(* rest on its own.                                                        *)
LEMMA RelayConstants ==
  /\ MaxEvents \in Nat /\ MaxLogins \in Nat /\ MaxFaults \in Nat /\ Keep \in Nat \ {0}
  /\ NoTab \notin Tabs /\ AdminTabs \cap PublicTabs = {}
  /\ Channels \in Seq(STRING) /\ Channels # <<>>
BY WebRelayAssumption DEF WebRelayAssumption, Tabs

Sound(socks, n) ==
  socks = [s \in Sockets |-> socks[s]] /\ \A s \in Sockets : SocketRight(socks[s], n)

LEMMA TypesGrow ==
  ASSUME NEW n \in Nat, NEW k \in Nat, n <= k
  PROVE  /\ \A r : SocketRight(r, n) => SocketRight(r, k)
         /\ \A t, x : PageRight(t, x, n) => PageRight(t, x, k)
<1>1. 0..n \subseteq 0..k
  OBVIOUS
<1>2. \A r : r \in SocketType(n) => r \in SocketType(k)
  BY <1>1 DEF SocketType
<1>3. \A x : x \in PageType(n) => x \in PageType(k)
  BY <1>1 DEF PageType
<1> QED BY <1>2, <1>3 DEF SocketRight, PageRight

LEMMA SocketChanged ==
  ASSUME NEW socks, NEW n, Sound(socks, n), NEW s \in Sockets, NEW r, SocketRight(r, n)
  PROVE  Sound([socks EXCEPT ![s] = r], n)
BY DEF Sound

LEMMA PageChanged ==
  ASSUME PagesTyped, NEW t \in Tabs, NEW x, PageRight(t, x, issued), issued' = issued,
         tab' = [tab EXCEPT ![t] = x]
  PROVE  PagesTyped'
BY DEF PagesTyped

Dialled(t, token) == [Free EXCEPT !.tab = t, !.token = token, !.state = "connecting"]

LEMMA DialledRight ==
  ASSUME NEW t \in Tabs, NEW n \in Nat, NEW token \in 0..n
  PROVE  SocketRight(Dialled(t, token), n)
<1>1. <<>> \in Seq(Item)
  BY EmptySeq
<1> QED BY <1>1, RelayConstants DEF SocketRight, SocketType, Dialled, Free

LEMMA FreeRight ==
  ASSUME NEW n \in Nat
  PROVE  SocketRight(Free, n)
<1>1. <<>> \in Seq(Item)
  BY EmptySeq
<1> QED BY <1>1 DEF SocketRight, SocketType, Free

LEMMA DialEffect ==
  ASSUME NEW socks, NEW t, NEW token, Dial(socks, t, token)
  PROVE  \E c \in Sockets : socks[c] = Free /\ sock' = [socks EXCEPT ![c] = Dialled(t, token)]
<1>1. PICK c : c = CHOOSE s \in {s \in Sockets : socks[s] = Free} : TRUE
  OBVIOUS
<1>2. c \in Sockets /\ socks[c] = Free
  BY <1>1 DEF Dial
<1> QED BY <1>1, <1>2 DEF Dial, Dialled

(* The changes of a socket that leave it to its page.                      *)
Piped(r, p)       == [r EXCEPT !.pipe = p]
Hung(r, p)        == [r EXCEPT !.peer = FALSE, !.pipe = p]
Accepted(r, a, p) == [r EXCEPT !.peer = TRUE, !.admin = a, !.pipe = p]
Opening(r, p)     == [r EXCEPT !.state = "open", !.pipe = p]
Dropped(r, p)     == [r EXCEPT !.disposed = TRUE, !.state = "closing", !.peer = FALSE, !.pipe = p]

Forms(r, a, p) == {Piped(r, p), Hung(r, p), Accepted(r, a, p), Opening(r, p), Dropped(r, p)}

LEMMA SocketForms ==
  ASSUME NEW n, NEW r, SocketRight(r, n), r # Free, NEW p \in Seq(Item), NEW a \in BOOLEAN
  PROVE  \A f \in Forms(r, a, p) : SocketRight(f, n)
<1>1. SocketRight(Piped(r, p), n)
  BY DEF SocketRight, SocketType, Free, Piped
<1>2. SocketRight(Hung(r, p), n)
  BY DEF SocketRight, SocketType, Free, Hung
<1>3. SocketRight(Accepted(r, a, p), n)
  BY DEF SocketRight, SocketType, Free, Accepted
<1>4. SocketRight(Opening(r, p), n)
  BY DEF SocketRight, SocketType, Free, Opening
<1>5. SocketRight(Dropped(r, p), n)
  BY DEF SocketRight, SocketType, Free, Dropped
<1> QED BY <1>1, <1>2, <1>3, <1>4, <1>5 DEF Forms

LEMMA ItemsOfPipe == /\ Opened \in Item /\ Closed \in Item
                     /\ \A m \in Message : Frame(m) \in Item
BY DEF Item, Frames, Frame, Message

LEMMA EventParts ==
  \A e \in Item : \/ e.at = "open" /\ e = Opened
                  \/ e.at = "close" /\ e = Closed
                  \/ e.at = "frame" /\ e \in Frames
BY DEF Item, Frames, Opened, Closed

LEMMA PipesOfSockets ==
  ASSUME SocketsTyped, NEW s \in Sockets
  PROVE  /\ SocketRight(sock[s], issued) /\ sock[s].pipe \in Seq(Item)
         /\ sock[s].peer => sock[s] # Free
         /\ sock[s].state = "connecting" => sock[s] # Free
         /\ sock[s].pipe # <<>> => sock[s] # Free
         /\ sock[s].tab \in Tabs => sock[s] # Free
         /\ sock[s] # Free => sock[s].tab \in Tabs
BY RelayConstants DEF SocketsTyped, SocketRight, SocketType, Free

(* A connection that ends, with what the page has still to read.           *)
LEMMA HangsUp ==
  ASSUME SocketsTyped, NEW s \in Sockets, Refuse(s) \/ Disconnect(s)
  PROVE  \E p \in Seq(Item) :
           /\ sock' = [sock EXCEPT ![s] = Hung(sock[s], p)]
           /\ \A i \in DOMAIN p : p[i] = Closed \/ (i \in DOMAIN sock[s].pipe /\ p[i] = sock[s].pipe[i])
<1>1. sock[s].pipe \in Seq(Item)
  BY PipesOfSockets
<1>2. CASE Refuse(s)
  <2>1. sock' = [sock EXCEPT ![s] = Hung(sock[s], Append(sock[s].pipe, Closed))]
    BY <1>2 DEF Refuse, HungUp, Hung
  <2>2. PICK p : p = Append(sock[s].pipe, Closed)
    OBVIOUS
  <2>3. p \in Seq(Item) /\ \A i \in DOMAIN p : p[i] = Closed \/ (i \in DOMAIN sock[s].pipe /\ p[i] = sock[s].pipe[i])
    BY <1>1, <2>2, Appended, ItemsOfPipe
  <2> QED BY <2>1, <2>2, <2>3
<1>3. CASE Disconnect(s)
  <2>1. PICK k \in 0..Len(sock[s].pipe) :
          sock' = [sock EXCEPT ![s] = [HungUp(s) EXCEPT !.pipe =
                     Append(SubSeq(sock[s].pipe, 1, k), Closed)]]
    BY <1>3 DEF Disconnect
  <2>2. PICK q : q = SubSeq(sock[s].pipe, 1, k)
    OBVIOUS
  <2>3. q \in Seq(Item) /\ \A i \in DOMAIN q : i \in DOMAIN sock[s].pipe /\ q[i] = sock[s].pipe[i]
    BY <1>1, <2>2, Cut
  <2>4. PICK p : p = Append(q, Closed)
    OBVIOUS
  <2>5. [HungUp(s) EXCEPT !.pipe = p] = Hung(sock[s], p)
    BY DEF HungUp, Hung, SocketsTyped, SocketRight, SocketType
  <2>6. p \in Seq(Item) /\ \A i \in DOMAIN p : p[i] = Closed \/ (i \in DOMAIN q /\ p[i] = q[i])
    BY <2>3, <2>4, Appended, ItemsOfPipe
  <2>7. \A i \in DOMAIN p : p[i] = Closed \/ (i \in DOMAIN sock[s].pipe /\ p[i] = sock[s].pipe[i])
    BY <2>3, <2>6
  <2> QED BY <2>1, <2>2, <2>4, <2>5, <2>6, <2>7
<1> QED BY <1>2, <1>3

LEMMA SocketSteps ==
  ASSUME SocketsTyped, issued' = issued,
         NEW s \in Sockets, sock[s] # Free, NEW p \in Seq(Item), NEW a \in BOOLEAN,
         NEW f \in Forms(sock[s], a, p), sock' = [sock EXCEPT ![s] = f]
  PROVE  SocketsTyped'
<1>1. SocketRight(f, issued)
  BY SocketForms, PipesOfSockets
<1> QED BY <1>1 DEF SocketsTyped

(* A step that changes several sockets so.                                 *)
LEMMA ManySockets ==
  ASSUME SocketsTyped, issued' = issued, sock' = [s \in Sockets |-> sock'[s]],
         \A s \in Sockets : \/ sock'[s] = sock[s] \/ sock'[s] = Free
                           \/ /\ sock[s] # Free
                              /\ \E a \in BOOLEAN, p \in Seq(Item) : sock'[s] \in Forms(sock[s], a, p)
  PROVE  SocketsTyped'
<1>1. ASSUME NEW s \in Sockets
      PROVE  SocketRight(sock'[s], issued)
  <2>1. SocketRight(sock[s], issued)
    BY DEF SocketsTyped
  <2>2. SocketRight(Free, issued)
    BY FreeRight DEF SocketsTyped
  <2>3. ASSUME sock[s] # Free, NEW a \in BOOLEAN, NEW p \in Seq(Item),
               sock'[s] \in Forms(sock[s], a, p)
        PROVE  SocketRight(sock'[s], issued)
    BY <2>1, <2>3, SocketForms
  <2> QED BY <2>1, <2>2, <2>3
<1> QED BY <1>1 DEF SocketsTyped

LEMMA FanOutTyped ==
  ASSUME SocketsTyped, issued' = issued, NEW m \in Message, sock' = FanOut(m)
  PROVE  SocketsTyped'
<1>1. ASSUME NEW s \in Sockets, sock'[s] # sock[s]
      PROVE  sock[s] # Free /\ \E p \in Seq(Item) : sock'[s] \in Forms(sock[s], TRUE, p)
  <2>1. sock[s].peer /\ sock'[s] = Piped(sock[s], Append(sock[s].pipe, Frame(m)))
    BY <1>1 DEF FanOut, Piped
  <2>2. Append(sock[s].pipe, Frame(m)) \in Seq(Item)
    BY PipesOfSockets, ItemsOfPipe, Appended
  <2> QED BY <2>1, <2>2, PipesOfSockets DEF Forms
<1>2. sock' = [s \in Sockets |-> sock'[s]]
  BY DEF FanOut
<1> QED BY <1>1, <1>2, ManySockets

LEMMA ExitTyped ==
  ASSUME SocketsTyped, issued' = issued, Exit
  PROVE  SocketsTyped'
<1>1. ASSUME NEW s \in Sockets, sock'[s] # sock[s]
      PROVE  sock[s] # Free /\ \E p \in Seq(Item) : sock'[s] \in Forms(sock[s], TRUE, p)
  <2>1. sock[s].peer /\ sock'[s] = Hung(sock[s], Append(sock[s].pipe, Closed))
    BY <1>1 DEF Exit, HungUp, Hung
  <2>2. Append(sock[s].pipe, Closed) \in Seq(Item)
    BY PipesOfSockets, ItemsOfPipe, Appended
  <2> QED BY <2>1, <2>2, PipesOfSockets DEF Forms
<1>2. sock' = [s \in Sockets |-> sock'[s]]
  BY DEF Exit
<1> QED BY <1>1, <1>2, ManySockets

LEMMA DisposedTyped ==
  ASSUME SocketsTyped, issued' = issued, NEW t \in Tabs, sock' = Disposed(t)
  PROVE  SocketsTyped'
<1>1. ASSUME NEW s \in Sockets, sock'[s] # sock[s]
      PROVE  sock[s] # Free /\ \E p \in Seq(Item) : sock'[s] \in Forms(sock[s], TRUE, p)
  <2>1. sock[s].tab = t /\ sock'[s] = Dropped(sock[s], <<Closed>>)
    BY <1>1 DEF Disposed, Dropped
  <2>2. <<Closed>> \in Seq(Item)
    BY ItemsOfPipe
  <2> QED BY <2>1, <2>2, PipesOfSockets DEF Forms
<1>2. sock' = [s \in Sockets |-> sock'[s]]
  BY DEF Disposed
<1> QED BY <1>1, <1>2, ManySockets

(* A new socket, of a page whose other sockets may be gone.                *)
LEMMA DialTyped ==
  ASSUME NEW socks, Sound(socks, issued'), issued' \in Nat, NEW t \in Tabs,
         NEW token \in 0..issued', Dial(socks, t, token)
  PROVE  SocketsTyped'
<1>1. PICK c \in Sockets : sock' = [socks EXCEPT ![c] = Dialled(t, token)]
  BY DialEffect
<1>2. PICK n : n = issued'
  OBVIOUS
<1>3. Sound([socks EXCEPT ![c] = Dialled(t, token)], n)
  BY <1>2, DialledRight, SocketChanged
<1> QED BY <1>1, <1>2, <1>3 DEF Sound, SocketsTyped

LEMMA SessionTokenType ==
  ASSUME SessionTyped
  PROVE  SessionToken \in 0..issued /\ issued \in Nat
BY RelayConstants DEF SessionTyped, SessionToken

LEMMA SameTypes ==
  ASSUME Typed
  PROVE  /\ UNCHANGED <<sock, issued>> => SocketsTyped'
         /\ UNCHANGED <<tab, issued>> => PagesTyped'
         /\ UNCHANGED sessionVars => SessionTyped'
         /\ UNCHANGED <<relay, subscribed, inbox, published>> => RelayTyped'
BY DEF Typed, SocketsTyped, PagesTyped, SessionTyped, RelayTyped, sessionVars

(* The steps of the relay itself.                                          *)
LEMMA RelayTypes ==
  ASSUME Typed,
         Start \/ Subscribe \/ RelayMessage \/ SubscriberReconnects \/ Crash \/ Sigterm \/ Quit
           \/ \E ch \in ToSet(Channels) : Publish(ch)
  PROVE  SocketsTyped' /\ PagesTyped' /\ SessionTyped' /\ RelayTyped'
<1> USE DEF sessionVars
<1>1. SocketsTyped /\ RelayTyped
  BY DEF Typed
<1>2. PagesTyped' /\ SessionTyped' /\ issued' = issued
  BY SameTypes DEF Start, Subscribe, RelayMessage, SubscriberReconnects, Crash, Sigterm, Quit, Publish
<1>3. inbox \in Seq(Message) /\ inbox # <<>> => Head(inbox) \in Message /\ Tail(inbox) \in Seq(Message)
  BY HeadTailProperties
<1>4. SocketsTyped'
  <2>1. CASE RelayMessage
    BY <1>1, <1>2, <1>3, <2>1, FanOutTyped DEF RelayMessage, RelayTyped
  <2>2. CASE Crash \/ Quit
    BY <1>1, <1>2, <2>2, ExitTyped DEF Crash, Quit
  <2> QED BY <1>2, <2>1, <2>2, SameTypes DEF Start, Subscribe, SubscriberReconnects, Sigterm, Publish
<1>5. RelayTyped'
  <2>1. CASE Start \/ Sigterm
    BY <1>1, <2>1 DEF Start, Sigterm, RelayTyped
  <2>2. CASE Subscribe
    <3>1. /\ Len(subscribed) \in Nat /\ Len(Channels) \in Nat /\ Len(subscribed) < Len(Channels)
          /\ subscribed \in Seq(STRING) /\ Channels \in Seq(STRING)
      BY <1>1, <2>2, RelayConstants, LenProperties DEF Subscribe, RelayTyped
    <3>2. PICK ch : ch = Channels[Len(subscribed) + 1]
      OBVIOUS
    <3>3. ch \in STRING
      BY <3>1, <3>2, ElementOfSeq
    <3>4. /\ subscribed' \in Seq(STRING) /\ Len(subscribed') = Len(subscribed) + 1
          /\ \A i \in 1..Len(subscribed) : subscribed'[i] = subscribed[i]
          /\ subscribed'[Len(subscribed) + 1] = ch
      BY <2>2, <3>1, <3>2, <3>3, AppendProperties DEF Subscribe
    <3>5. \A i \in 1..Len(subscribed') : i \in 1..Len(subscribed) \/ i = Len(subscribed) + 1
      BY <3>1, <3>4
    <3>6. \A i \in 1..Len(subscribed') : subscribed'[i] = Channels[i]
      BY <1>1, <3>2, <3>4, <3>5 DEF RelayTyped
    <3>7. Len(subscribed') <= Len(Channels)
      BY <3>1, <3>4
    <3>8. UNCHANGED <<relay, inbox, published>>
      BY <2>2 DEF Subscribe
    <3> QED BY <1>1, <3>4, <3>6, <3>7, <3>8 DEF RelayTyped
  <2>3. CASE RelayMessage \/ SubscriberReconnects
    <3>1. inbox' \in Seq(Message)
      BY <1>1, <1>3, <2>3, EmptySeq DEF RelayMessage, SubscriberReconnects, RelayTyped
    <3> QED BY <1>1, <2>3, <3>1 DEF RelayMessage, SubscriberReconnects, RelayTyped
  <2>4. CASE Crash \/ Quit
    <3>1. relay' = "down" /\ subscribed' = <<>> /\ inbox' = <<>> /\ published' = published
      BY <2>4 DEF Crash, Quit, Exit
    <3>2. <<>> \in Seq(STRING) /\ <<>> \in Seq(Message) /\ Len(<<>>) = 0 /\ Len(Channels) \in Nat
      BY EmptySeq, RelayConstants, LenProperties
    <3> QED BY <1>1, <3>1, <3>2 DEF RelayTyped
  <2>5. ASSUME NEW ch \in ToSet(Channels), Publish(ch)
        PROVE  RelayTyped'
    <3>1. /\ published' = published + 1 /\ published' \in 1..MaxEvents
          /\ inbox' = Append(inbox, [id |-> published + 1, channel |-> ch])
          /\ UNCHANGED <<relay, subscribed>>
      BY <1>1, <2>5, RelayConstants DEF Publish, RelayTyped
    <3>2. [id |-> published + 1, channel |-> ch] \in Message
      BY <3>1 DEF Message
    <3>3. inbox' \in Seq(Message)
      BY <1>1, <3>1, <3>2, AppendProperties DEF RelayTyped
    <3> QED BY <1>1, <3>1, <3>3 DEF RelayTyped
  <2> QED BY <2>1, <2>2, <2>3, <2>4, <2>5
<1> QED BY <1>2, <1>4, <1>5

(* The steps of a socket.                                                  *)
LEMMA SocketTypes ==
  ASSUME Typed, NEW s \in Sockets, Upgrade(s) \/ Refuse(s) \/ Disconnect(s) \/ SocketEvent(s)
  PROVE  SocketsTyped' /\ PagesTyped' /\ SessionTyped' /\ RelayTyped'
<1> USE DEF sessionVars
<1>1. /\ SocketsTyped /\ PagesTyped /\ SessionTyped' /\ RelayTyped' /\ issued' = issued
      /\ sock[s].pipe \in Seq(Item)
  BY SameTypes, PipesOfSockets DEF Typed, Upgrade, Refuse, Disconnect, SocketEvent
<1>2. ASSUME NEW p \in Seq(Item), NEW a \in BOOLEAN, sock[s] # Free,
             NEW f \in Forms(sock[s], a, p), sock' = [sock EXCEPT ![s] = f]
      PROVE  SocketsTyped'
  BY <1>1, <1>2, SocketSteps
<1>3. CASE Upgrade(s)
  <2>1. sock' = [sock EXCEPT ![s] = Accepted(sock[s], Valid(sock[s].token), <<Opened>>)]
    BY <1>3 DEF Upgrade, Accepted
  <2>2. <<Opened>> \in Seq(Item) /\ Valid(sock[s].token) \in BOOLEAN
    BY ItemsOfPipe DEF Valid
  <2>3. sock[s] # Free /\ tab' = tab
    BY <1>1, <1>3, PipesOfSockets DEF Upgrade
  <2> QED BY <1>1, <1>2, <2>1, <2>2, <2>3, SameTypes DEF Forms
<1>4. CASE Refuse(s) \/ Disconnect(s)
  <2>1. PICK p \in Seq(Item) : sock' = [sock EXCEPT ![s] = Hung(sock[s], p)]
    BY <1>1, <1>4, HangsUp
  <2>2. sock[s] # Free /\ tab' = tab
    BY <1>1, <1>4, PipesOfSockets DEF Refuse, Disconnect
  <2> QED BY <1>1, <1>2, <2>1, <2>2, SameTypes DEF Forms
<1>5. CASE SocketEvent(s)
  <2>1. /\ sock[s].pipe # <<>> /\ Tail(sock[s].pipe) \in Seq(Item)
        /\ Head(sock[s].pipe) \in Item /\ sock[s] # Free /\ sock[s].tab \in Tabs
    BY <1>1, <1>5, PipesOfSockets, Tailed DEF SocketEvent
  <2>2. PICK t : t = sock[s].tab
    OBVIOUS
  <2>3. PageRight(t, tab[t], issued) /\ t \in Tabs
    BY <1>1, <2>1, <2>2 DEF PagesTyped
  <2>4. CASE OnOpen(s)
    <3>1. sock' = [sock EXCEPT ![s] = Opening(sock[s], Tail(sock[s].pipe))]
      BY <1>1, <2>4 DEF OnOpen, Opening, SocketsTyped
    <3>2. SocketsTyped'
      BY <1>2, <2>1, <3>1 DEF Forms
    <3>3. tab' = tab \/ tab' = [tab EXCEPT ![t] = [tab[t] EXCEPT !.connected = TRUE]]
      BY <2>2, <2>4 DEF OnOpen
    <3>4. PageRight(t, [tab[t] EXCEPT !.connected = TRUE], issued)
      BY <2>3 DEF PageRight, PageType
    <3>5. PagesTyped'
      BY <1>1, <2>3, <3>3, <3>4, SameTypes, PageChanged
    <3> QED BY <1>1, <3>2, <3>5
  <2>5. CASE Head(sock[s].pipe).at = "frame" /\ OnMessage(s)
    <3>1. sock' = [sock EXCEPT ![s] = Piped(sock[s], Tail(sock[s].pipe))]
      BY <2>5 DEF OnMessage, Piped
    <3>2. SocketsTyped'
      BY <1>2, <2>1, <3>1 DEF Forms
    <3>3. PICK f : f = Head(sock[s].pipe)
      OBVIOUS
    <3>4. f.id \in 1..MaxEvents /\ f.channel \in ToSet(Channels)
      BY <2>1, <2>5, <3>3, EventParts DEF Frames
    <3>5. PICK list : list = tab[t].shown[f.channel]
      OBVIOUS
    <3>6. list \in Seq(1..MaxEvents)
      BY <2>3, <3>4, <3>5 DEF PageRight, PageType
    <3>7. PICK q : q = Kept(<<f.id>> \o list)
      OBVIOUS
    <3>8. q \in Seq(1..MaxEvents) /\ Len(q) <= Keep
      BY <3>4, <3>6, <3>7, KeptList, RelayConstants
    <3>9. tab' = tab \/ tab' = [tab EXCEPT ![t] = [tab[t] EXCEPT !.shown[f.channel] = q]]
      BY <2>2, <2>5, <3>3, <3>5, <3>7 DEF OnMessage
    <3>10. PageRight(t, [tab[t] EXCEPT !.shown[f.channel] = q], issued)
      BY <2>3, <3>4, <3>8 DEF PageRight, PageType
    <3>11. PagesTyped'
      BY <1>1, <2>3, <3>9, <3>10, SameTypes, PageChanged
    <3> QED BY <1>1, <3>2, <3>11
  <2>6. CASE OnClose(s)
    <3>1. SocketsTyped'
      <4>1. SocketRight(Free, issued)
        BY <1>1, FreeRight DEF SocketsTyped
      <4> QED BY <1>1, <2>6, <4>1 DEF OnClose, SocketsTyped
    <3>2. \/ tab' = tab
          \/ tab' = [tab EXCEPT ![t] = [tab[t] EXCEPT !.connected = FALSE, !.timer = TRUE]]
      BY <2>2, <2>6 DEF OnClose
    <3>3. PageRight(t, [tab[t] EXCEPT !.connected = FALSE, !.timer = TRUE], issued)
      BY <2>3 DEF PageRight, PageType
    <3>4. PagesTyped'
      BY <1>1, <2>3, <3>2, <3>3, SameTypes, PageChanged
    <3> QED BY <1>1, <3>1, <3>4
  <2> QED BY <1>5, <2>4, <2>5, <2>6 DEF SocketEvent
<1> QED BY <1>3, <1>4, <1>5

(* The steps of a page, and of the clock of its session.                   *)
LEMMA PageTypes ==
  ASSUME Typed, NEW t \in Tabs,
         Retry(t) \/ Expire \/ (t \in AdminTabs /\ (Login(t) \/ Logout(t) \/ LoggedOut(t) \/ Reload(t)))
  PROVE  SocketsTyped' /\ PagesTyped' /\ SessionTyped' /\ RelayTyped'
<1> USE DEF sessionVars
<1>1. /\ SocketsTyped /\ PagesTyped /\ SessionTyped /\ RelayTyped'
      /\ PageRight(t, tab[t], issued) /\ issued \in Nat /\ SessionToken \in 0..issued
  BY SameTypes, SessionTokenType
    DEF Typed, Retry, Expire, Login, Logout, LoggedOut, Reload, PagesTyped
<1>2. t \in AdminTabs => t \notin PublicTabs
  BY RelayConstants
<1>3. CASE Retry(t)
  <2>1. /\ issued' = issued /\ session' \in {session, SessionToken} /\ expired' = expired
        /\ \E token \in 0..issued : Dial(sock, t, token)
        /\ tab' = [tab EXCEPT ![t] = [tab[t] EXCEPT !.timer = FALSE]]
    BY <1>1, <1>3 DEF Retry
  <2>2. SessionTyped'
    BY <1>1, <2>1 DEF SessionTyped
  <2>3. SocketsTyped'
    BY <1>1, <2>1, DialTyped DEF Sound, SocketsTyped
  <2>4. PageRight(t, [tab[t] EXCEPT !.timer = FALSE], issued)
    BY <1>1 DEF PageRight, PageType
  <2>5. PagesTyped'
    BY <1>1, <2>1, <2>4, PageChanged
  <2> QED BY <1>1, <2>2, <2>3, <2>5
<1>4. CASE Expire
  <2>1. UNCHANGED <<session, issued, tab, sock>> /\ expired' \subseteq 1..issued
    BY <1>1, <1>4 DEF Expire, SessionTyped
  <2> QED BY <1>1, <2>1, SameTypes DEF SessionTyped
<1>5. CASE t \in AdminTabs /\ Login(t)
  <2>1. /\ issued' = issued + 1 /\ session' = issued + 1 /\ expired' = expired
        /\ issued < MaxLogins /\ Dial(sock, t, issued + 1)
        /\ tab' = [tab EXCEPT ![t].token = issued + 1]
    BY <1>5 DEF Login
  <2>2. SessionTyped'
    BY <1>1, <2>1, RelayConstants DEF SessionTyped
  <2>3. issued + 1 \in Nat /\ issued <= issued + 1
    BY <1>1
  <2>4. Sound(sock, issued')
    BY <1>1, <2>1, <2>3, TypesGrow DEF SocketsTyped, Sound
  <2>5. SocketsTyped'
    BY <2>1, <2>3, <2>4, DialTyped
  <2>6. \A x \in Tabs : PageRight(x, tab[x], issued + 1)
    BY <1>1, <2>3, TypesGrow DEF PagesTyped
  <2>7. PageRight(t, [tab[t] EXCEPT !.token = issued + 1], issued + 1)
    BY <1>2, <1>5, <2>3, <2>6 DEF PageRight, PageType
  <2>8. tab' = [tab EXCEPT ![t] = [tab[t] EXCEPT !.token = issued + 1]]
    BY <2>1
  <2>9. PagesTyped'
    BY <1>1, <2>1, <2>6, <2>7, <2>8 DEF PagesTyped
  <2> QED BY <1>1, <2>2, <2>5, <2>9
<1>6. CASE t \in AdminTabs /\ Logout(t)
  <2>1. /\ UNCHANGED <<issued, expired, sock>> /\ session' = 0 /\ tab[t].token # 0
        /\ tab' = [tab EXCEPT ![t] = [tab[t] EXCEPT !.leaving = TRUE]]
    BY <1>6 DEF Logout
  <2>2. PageRight(t, [tab[t] EXCEPT !.leaving = TRUE], issued)
    BY <1>1, <2>1 DEF PageRight, PageType
  <2>3. PagesTyped'
    BY <1>1, <2>1, <2>2, PageChanged
  <2>4. SessionTyped'
    BY <1>1, <2>1 DEF SessionTyped
  <2> QED BY <1>1, <2>1, <2>3, <2>4, SameTypes
<1>7. CASE t \in AdminTabs /\ LoggedOut(t)
  <2>1. /\ UNCHANGED sessionVars /\ sock' = Disposed(t)
        /\ tab' = [tab EXCEPT ![t] = [tab[t] EXCEPT !.token = 0, !.leaving = FALSE,
                                                   !.connected = FALSE, !.timer = FALSE]]
    BY <1>7 DEF LoggedOut
  <2>2. PageRight(t, [tab[t] EXCEPT !.token = 0, !.leaving = FALSE, !.connected = FALSE,
                                    !.timer = FALSE], issued)
    <3>1. PICK x : x = [tab[t] EXCEPT !.token = 0, !.leaving = FALSE, !.connected = FALSE,
                                      !.timer = FALSE]
      OBVIOUS
    <3>2. 0 \in 0..issued /\ tab[t] \in PageType(issued)
      BY <1>1 DEF PageRight
    <3>3. /\ x.token = 0 /\ ~x.leaving /\ x.shown = tab[t].shown
          /\ x \in PageType(issued)
      BY <3>1, <3>2 DEF PageType
    <3> QED BY <1>1, <3>1, <3>3 DEF PageRight
  <2>3. PagesTyped'
    BY <1>1, <2>1, <2>2, PageChanged
  <2> QED BY <1>1, <2>1, <2>3, DisposedTyped, SameTypes
<1>8. CASE t \in AdminTabs /\ Reload(t)
  <2> DEFINE gone == [s \in Sockets |-> IF sock[s].tab = t THEN Free ELSE sock[s]]
  <2>1. /\ UNCHANGED <<issued, expired>> /\ session' = SessionToken
        /\ tab' = [tab EXCEPT ![t] = [NewPage EXCEPT !.token = SessionToken]]
        /\ sock' = gone \/ Dial(gone, t, SessionToken)
    BY <1>8 DEF Reload
  <2>2. PageRight(t, [NewPage EXCEPT !.token = SessionToken], issued)
    <3>1. <<>> \in Seq(1..MaxEvents) /\ Len(<<>>) = 0
      BY EmptySeq
    <3>2. PICK none : none = [ch \in ToSet(Channels) |-> <<>>]
      OBVIOUS
    <3>3. /\ none \in [ToSet(Channels) -> Seq(1..MaxEvents)]
          /\ \A ch \in ToSet(Channels) : Len(none[ch]) <= Keep
      BY <3>1, <3>2, RelayConstants
    <3>4. PICK x : x = [NewPage EXCEPT !.token = SessionToken]
      OBVIOUS
    <3>5. x = [token |-> SessionToken, leaving |-> FALSE, connected |-> FALSE, timer |-> FALSE,
               shown |-> none]
      BY <3>2, <3>4 DEF NewPage
    <3>6. x \in PageType(issued) /\ ~x.leaving /\ x.shown = none
      BY <1>1, <3>3, <3>5 DEF PageType
    <3> QED BY <1>2, <1>8, <3>3, <3>4, <3>6 DEF PageRight
  <2>3. PagesTyped'
    BY <1>1, <2>1, <2>2, PageChanged
  <2>4. Sound(gone, issued)
    BY <1>1, FreeRight DEF SocketsTyped, Sound
  <2> HIDE DEF gone
  <2>5. SocketsTyped'
    BY <1>1, <2>1, <2>4, DialTyped DEF Sound, SocketsTyped
  <2>6. SessionTyped'
    BY <1>1, <2>1 DEF SessionTyped
  <2> QED BY <1>1, <2>3, <2>5, <2>6
<1> QED BY <1>3, <1>4, <1>5, <1>6, <1>7, <1>8

(* The steps of the sockets; one of the grid changes none of this.         *)
RelayStep ==
  \/ Start \/ Subscribe \/ RelayMessage \/ SubscriberReconnects \/ Crash \/ Sigterm \/ Quit
  \/ \E ch \in ToSet(Channels) : Publish(ch)

SocketStep(s) == Upgrade(s) \/ Refuse(s) \/ Disconnect(s) \/ SocketEvent(s)

PageStep(t) ==
  Retry(t) \/ Expire \/ (t \in AdminTabs /\ (Login(t) \/ Logout(t) \/ LoggedOut(t) \/ Reload(t)))

LEMMA StreamCases ==
  ASSUME [StreamNext]_streamVars
  PROVE  \/ RelayStep \/ Expire
         \/ \E s \in Sockets : SocketStep(s)
         \/ \E t \in Tabs : PageStep(t)
         \/ UNCHANGED socketVars
<1>1. Next \/ UNCHANGED socketVars
  BY DEF StreamNext, streamVars
<1>2. AdminTabs \subseteq Tabs
  BY DEF Tabs
<1> QED BY <1>1, <1>2 DEF Next, RelayStep, SocketStep, PageStep

LEMMA FaultsBounded ==
  ASSUME faults \in 0..MaxFaults, [StreamNext]_streamVars
  PROVE  faults' \in 0..MaxFaults
<1>1. faults' = faults \/ (faults < MaxFaults /\ faults' = faults + 1)
  <2>1. CASE Next
    BY <2>1 DEF Next, Fault, Start, Subscribe, RelayMessage, SubscriberReconnects, Crash, Sigterm,
      Quit, Expire, Publish, Upgrade, Refuse, Disconnect, SocketEvent, Retry, Login, Logout,
      LoggedOut, Reload
  <2>2. CASE Grid!Next
    BY <2>2 DEF Grid!Next, Grid!Fault, Grid!Publish, Grid!Connect, Grid!Disconnect, Grid!Reload,
      Grid!OnMessage, Grid!Render, Grid!FlashTimeout
  <2> QED BY <2>1, <2>2 DEF StreamNext, streamVars
<1> QED BY <1>1, RelayConstants

LEMMA TypedStep ==
  ASSUME Typed, [StreamNext]_streamVars
  PROVE  Typed'
<1>1. faults' \in 0..MaxFaults
  BY FaultsBounded DEF Typed
<1>2. CASE Expire
  <2>1. UNCHANGED <<session, issued, tab, sock, relay, subscribed, inbox, published>>
        /\ expired' \subseteq 1..issued
    BY <1>2 DEF Expire, Typed, SessionTyped
  <2>2. SocketsTyped' /\ PagesTyped' /\ RelayTyped'
    BY <2>1, SameTypes
  <2>3. SessionTyped'
    BY <2>1 DEF Typed, SessionTyped
  <2> QED BY <1>1, <2>2, <2>3 DEF Typed
<1>3. CASE UNCHANGED socketVars
  BY <1>1, <1>3, SameTypes DEF Typed, socketVars, sessionVars
<1> QED BY <1>1, <1>2, <1>3, StreamCases, RelayTypes, SocketTypes, PageTypes
      DEF Typed, RelayStep, SocketStep, PageStep

LEMMA TypedInit == StreamInit => Typed
<1> SUFFICES ASSUME Init PROVE Typed
  BY DEF StreamInit
<1>1. SocketsTyped
  BY FreeRight DEF Init, SocketsTyped
<1>2. PagesTyped
  <2>1. <<>> \in Seq(1..MaxEvents) /\ Len(<<>>) = 0
    BY EmptySeq
  <2>2. PICK none : none = [ch \in ToSet(Channels) |-> <<>>]
    OBVIOUS
  <2>3. /\ none \in [ToSet(Channels) -> Seq(1..MaxEvents)]
        /\ \A ch \in ToSet(Channels) : Len(none[ch]) <= Keep
    BY <2>1, <2>2, RelayConstants
  <2>4. ASSUME NEW t \in Tabs
        PROVE  PageRight(t, tab[t], issued)
    <3>1. tab[t] = [token |-> 0, leaving |-> FALSE, connected |-> FALSE,
                    timer |-> t \in PublicTabs, shown |-> none]
      BY <2>2 DEF Init, NewPage
    <3>2. issued = 0 /\ (t \in PublicTabs) \in BOOLEAN
      BY DEF Init
    <3> QED BY <2>3, <3>1, <3>2 DEF PageRight, PageType
  <2> QED BY <2>4 DEF Init, PagesTyped
<1>3. SessionTyped /\ RelayTyped /\ faults \in 0..MaxFaults
  <2>1. <<>> \in Seq(STRING) /\ <<>> \in Seq(Message) /\ Len(<<>>) = 0 /\ Len(Channels) \in Nat
    BY EmptySeq, RelayConstants, LenProperties
  <2> QED BY <2>1, RelayConstants DEF Init, SessionTyped, RelayTyped
<1> QED BY <1>1, <1>2, <1>3 DEF Typed

LEMMA TypedHolds == FairStreamSpec => []Typed
BY TypedInit, TypedStep, PTL DEF FairStreamSpec

(* What the types say in the words of the relay.                           *)
LEMMA TypedIsTypeOK == Typed => TypeOK
<1> SUFFICES ASSUME Typed PROVE TypeOK
  OBVIOUS
<1>1. IsPrefix(subscribed, Channels)
  <2>1. /\ subscribed \in Seq(STRING) /\ Channels \in Seq(STRING)
        /\ Len(subscribed) \in Nat /\ Len(Channels) \in Nat /\ Len(subscribed) <= Len(Channels)
        /\ \A i \in 1..Len(subscribed) : subscribed[i] = Channels[i]
    BY RelayConstants, LenProperties DEF Typed, RelayTyped
  <2>2. PICK n : n = Len(subscribed)
    OBVIOUS
  <2>3. n \in 0..Len(subscribed) /\ n \in 0..Len(Channels)
    BY <2>1, <2>2
  <2>4. SubSeq(subscribed, 1, n) \in Seq(STRING) /\ Len(SubSeq(subscribed, 1, n)) = n
    BY <2>1, <2>3, Cut
  <2>5. SubSeq(Channels, 1, n) \in Seq(STRING) /\ Len(SubSeq(Channels, 1, n)) = n
    BY <2>1, <2>3, Cut
  <2>6. ASSUME NEW i \in 1..n
        PROVE  SubSeq(subscribed, 1, n)[i] = SubSeq(Channels, 1, n)[i]
    <3>1. DOMAIN SubSeq(subscribed, 1, n) = 1..n /\ DOMAIN SubSeq(Channels, 1, n) = 1..n
      BY <2>4, <2>5, LenProperties
    <3>2. SubSeq(subscribed, 1, n)[i] = subscribed[i]
      BY <2>1, <2>3, <3>1, Cut
    <3>3. SubSeq(Channels, 1, n)[i] = Channels[i]
      BY <2>1, <2>3, <3>1, Cut
    <3> QED BY <2>1, <2>2, <3>2, <3>3
  <2>7. SubSeq(subscribed, 1, n) = SubSeq(Channels, 1, n)
    BY <2>4, <2>5, <2>6, SeqEqual
  <2> QED BY <2>1, <2>2, <2>7 DEF IsPrefix
<1>2. \A t \in Tabs : PageRight(t, tab[t], issued)
  BY DEF Typed, PagesTyped
<1>3. \A s \in Sockets : SocketRight(sock[s], issued)
  BY DEF Typed, SocketsTyped
<1>4. \A t \in Tabs :
        /\ tab[t] \in [token : 0..issued, leaving : BOOLEAN, connected : BOOLEAN,
                       timer : BOOLEAN, shown : [ToSet(Channels) -> Seq(1..MaxEvents)]]
        /\ \A ch \in ToSet(Channels) : Len(tab[t].shown[ch]) <= Keep
        /\ tab[t].leaving => tab[t].token # 0
        /\ t \in PublicTabs => tab[t].token = 0
  BY <1>2 DEF PageRight, PageType
<1>5. \A s \in Sockets :
        /\ sock[s] \in [tab : Tabs \cup {NoTab}, disposed : BOOLEAN, token : 0..issued,
                        state : {"free", "connecting", "open", "closing"},
                        peer : BOOLEAN, admin : BOOLEAN, pipe : Seq(Frames \cup {Opened, Closed})]
        /\ sock[s].tab = NoTab <=> sock[s] = Free
  BY <1>3 DEF SocketRight, SocketType, Item
<1> QED BY <1>1, <1>4, <1>5 DEF Typed, TypeOK, SessionTyped, RelayTyped

-----------------------------------------------------------------------------
(* One socket for a page.  A page that waits for its timer, or asks for    *)
(* the secret, has none; a page that has one believes what the socket said *)
(* last.                                                                   *)
Attached(t) ==
  /\ \A s, r \in Live(t) : s = r
  /\ tab[t].timer => Live(t) = {}
  /\ (t \in AdminTabs /\ tab[t].token = 0) => (Live(t) = {} /\ ~tab[t].timer)
  /\ tab[t].connected <=> (\E s \in Live(t) : sock[s].state = "open")

ConnInv == \A t \in Tabs : Attached(t)

PlugsKept ==
  \A s \in Sockets : /\ sock'[s].tab = sock[s].tab /\ sock'[s].disposed = sock[s].disposed
                     /\ sock'[s].state = sock[s].state

PageKept(t) ==
  /\ tab'[t].token = tab[t].token /\ tab'[t].timer = tab[t].timer
  /\ tab'[t].connected = tab[t].connected

LEMMA NothingMoves ==
  ASSUME ConnInv, PlugsKept, \A t \in Tabs : PageKept(t)
  PROVE  ConnInv'
<1>1. \A t \in Tabs : Live(t)' = Live(t)
  BY DEF PlugsKept, Live
<1>2. \A t \in Tabs : \A s \in Live(t) : sock'[s].state = sock[s].state
  BY DEF PlugsKept, Live
<1> QED BY <1>1, <1>2 DEF ConnInv, Attached, PageKept

LEMMA RelayPlugs ==
  ASSUME Typed, RelayStep
  PROVE  PlugsKept /\ tab' = tab
<1>1. tab' = tab
  BY DEF RelayStep, Start, Subscribe, RelayMessage, SubscriberReconnects, Crash, Sigterm, Quit, Publish
<1>2. CASE sock' = sock
  BY <1>1, <1>2 DEF PlugsKept
<1>3. ASSUME NEW m, sock' = FanOut(m)
      PROVE  PlugsKept
  <2>1. ASSUME NEW s \in Sockets
        PROVE  /\ sock'[s].tab = sock[s].tab /\ sock'[s].disposed = sock[s].disposed
               /\ sock'[s].state = sock[s].state
    <3>1. sock'[s] = sock[s] \/ sock'[s] = Piped(sock[s], Append(sock[s].pipe, Frame(m)))
      BY <1>3 DEF FanOut, Piped
    <3>2. sock[s] \in SocketType(issued)
      BY DEF Typed, SocketsTyped, SocketRight
    <3> QED BY <3>1, <3>2 DEF Piped, SocketType
  <2> QED BY <2>1 DEF PlugsKept
<1>4. CASE Exit
  <2>1. ASSUME NEW s \in Sockets
        PROVE  /\ sock'[s].tab = sock[s].tab /\ sock'[s].disposed = sock[s].disposed
               /\ sock'[s].state = sock[s].state
    <3>1. sock'[s] = sock[s] \/ sock'[s] = Hung(sock[s], Append(sock[s].pipe, Closed))
      BY <1>4 DEF Exit, HungUp, Hung
    <3>2. sock[s] \in SocketType(issued)
      BY DEF Typed, SocketsTyped, SocketRight
    <3> QED BY <3>1, <3>2 DEF Hung, SocketType
  <2> QED BY <1>1, <2>1 DEF PlugsKept
<1> QED BY <1>1, <1>2, <1>3, <1>4 DEF RelayStep, Start, Subscribe, RelayMessage,
      SubscriberReconnects, Crash, Sigterm, Quit, Publish

(* A change of one socket that is none of these.                           *)
LEMMA OnePlug ==
  ASSUME Typed, NEW s \in Sockets, NEW r, sock' = [sock EXCEPT ![s] = r],
         r.tab = sock[s].tab, r.disposed = sock[s].disposed, r.state = sock[s].state
  PROVE  PlugsKept
BY DEF Typed, SocketsTyped, PlugsKept

LEMMA OpensOne ==
  ASSUME Typed, ConnInv, NEW s \in Sockets, sock[s].pipe # <<>>, OnOpen(s)
  PROVE  ConnInv'
<1>1. /\ sock[s].tab \in Tabs /\ sock[s] \in SocketType(issued) /\ DOMAIN sock = Sockets
      /\ tab = [t \in Tabs |-> tab[t]]
  BY PipesOfSockets DEF Typed, SocketsTyped, SocketRight, PagesTyped
<1>2. PICK t : t = sock[s].tab /\ t \in Tabs
  BY <1>1
<1>3. sock' = [sock EXCEPT ![s] = Opening(sock[s], Tail(sock[s].pipe))]
  BY <1>1 DEF OnOpen, Opening
<1>4. PICK r : r = Opening(sock[s], Tail(sock[s].pipe))
  OBVIOUS
<1>5. r.tab = sock[s].tab /\ r.disposed = sock[s].disposed /\ r.state = "open"
  BY <1>1, <1>4 DEF Opening, SocketType
<1>6. /\ sock'[s] = r /\ \A q \in Sockets : q # s => sock'[q] = sock[q]
  BY <1>1, <1>3, <1>4
<1>7. \A u \in Tabs : Live(u)' = Live(u)
  BY <1>5, <1>6 DEF Live
<1>8. CASE sock[s].disposed
  <2>1. tab' = tab
    BY <1>8 DEF OnOpen
  <2>2. \A u \in Tabs : \A q \in Live(u) : sock'[q].state = sock[q].state
    BY <1>6, <1>8 DEF Live
  <2> QED BY <1>7, <2>1, <2>2 DEF ConnInv, Attached
<1>9. CASE ~sock[s].disposed
  <2>1. s \in Live(t)
    BY <1>2, <1>9 DEF Live
  <2>2. tab' = [tab EXCEPT ![t] = [tab[t] EXCEPT !.connected = TRUE]]
    BY <1>2, <1>9 DEF OnOpen
  <2>3. PICK x : x = [tab[t] EXCEPT !.connected = TRUE]
    OBVIOUS
  <2>4. x.connected = TRUE /\ x.token = tab[t].token /\ x.timer = tab[t].timer
    <3>1. tab[t] \in PageType(issued)
      BY <1>2 DEF Typed, PagesTyped, PageRight
    <3> QED BY <2>3, <3>1 DEF PageType
  <2>5. tab'[t] = x /\ \A u \in Tabs : u # t => tab'[u] = tab[u]
    BY <1>1, <1>2, <2>2, <2>3
  <2>6. Attached(t)'
    BY <1>2, <1>5, <1>6, <1>7, <2>1, <2>4, <2>5 DEF ConnInv, Attached
  <2>7. ASSUME NEW u \in Tabs, u # t
        PROVE  Attached(u)'
    <3>1. \A q \in Live(u) : sock'[q].state = sock[q].state
      BY <1>2, <1>6, <2>7 DEF Live
    <3> QED BY <1>7, <2>5, <2>7, <3>1 DEF ConnInv, Attached
  <2> QED BY <2>6, <2>7 DEF ConnInv
<1> QED BY <1>8, <1>9

LEMMA ClosesOne ==
  ASSUME Typed, ConnInv, NEW s \in Sockets, sock[s].pipe # <<>>, OnClose(s)
  PROVE  ConnInv'
<1>1. /\ sock[s].tab \in Tabs /\ DOMAIN sock = Sockets /\ tab = [t \in Tabs |-> tab[t]]
  BY PipesOfSockets DEF Typed, SocketsTyped, PagesTyped
<1>2. PICK t : t = sock[s].tab /\ t \in Tabs
  BY <1>1
<1>3. sock'[s] = Free /\ \A q \in Sockets : q # s => sock'[q] = sock[q]
  BY <1>1 DEF OnClose
<1>4. \A u \in Tabs : Live(u)' = Live(u) \ {s}
  BY <1>3, RelayConstants DEF Live, Free
<1>5. CASE sock[s].disposed
  <2>1. tab' = tab
    BY <1>5 DEF OnClose
  <2>2. \A u \in Tabs : s \notin Live(u) /\ Live(u)' = Live(u)
    BY <1>4, <1>5 DEF Live
  <2>3. \A u \in Tabs : \A q \in Live(u) : sock'[q] = sock[q]
    BY <1>3, <2>2 DEF Live
  <2> QED BY <2>1, <2>2, <2>3 DEF ConnInv, Attached
<1>6. CASE ~sock[s].disposed
  <2>1. s \in Live(t)
    BY <1>2, <1>6 DEF Live
  <2>2. tab' = [tab EXCEPT ![t] = [tab[t] EXCEPT !.connected = FALSE, !.timer = TRUE]]
    BY <1>2, <1>6 DEF OnClose
  <2>3. PICK x : x = [tab[t] EXCEPT !.connected = FALSE, !.timer = TRUE]
    OBVIOUS
  <2>4. x.connected = FALSE /\ x.token = tab[t].token /\ x.timer = TRUE
    <3>1. tab[t] \in PageType(issued)
      BY <1>2 DEF Typed, PagesTyped, PageRight
    <3> QED BY <2>3, <3>1 DEF PageType
  <2>5. tab'[t] = x /\ \A u \in Tabs : u # t => tab'[u] = tab[u]
    BY <1>1, <1>2, <2>2, <2>3
  <2>6. Live(t)' = {}
    BY <1>2, <1>4, <2>1 DEF ConnInv, Attached
  <2>7. Attached(t)'
    BY <1>2, <2>1, <2>4, <2>5, <2>6 DEF ConnInv, Attached
  <2>8. ASSUME NEW u \in Tabs, u # t
        PROVE  Attached(u)'
    <3>1. Live(u)' = Live(u) /\ \A q \in Live(u) : sock'[q] = sock[q]
      BY <1>2, <1>3, <1>4, <2>8 DEF Live
    <3> QED BY <2>5, <2>8, <3>1 DEF ConnInv, Attached
  <2> QED BY <2>7, <2>8 DEF ConnInv
<1> QED BY <1>5, <1>6

(* One page moves.                                                         *)
LEMMA PageMoves ==
  ASSUME ConnInv, NEW t \in Tabs, Attached(t)',
         \A u \in Tabs \ {t} :
            /\ PageKept(u) /\ Live(u)' = Live(u)
            /\ \A q \in Live(u) : sock'[q].state = sock[q].state
  PROVE  ConnInv'
<1>1. ASSUME NEW u \in Tabs, u # t
      PROVE  Attached(u)'
  BY <1>1 DEF ConnInv, Attached, PageKept
<1> QED BY <1>1 DEF ConnInv

(* A page connects that had no socket but what it gave up.                 *)
LEMMA Connecting ==
  ASSUME Typed, NEW t \in Tabs, NEW token, NEW socks, Dial(socks, t, token),
         socks = [s \in Sockets |-> socks[s]],
         \A s \in Sockets : socks[s].tab = t => socks[s].disposed,
         \A s \in Sockets : socks[s] = sock[s] \/ (sock[s].tab = t /\ socks[s] = Free)
  PROVE  /\ \E c \in Sockets : /\ Live(t)' = {c} /\ sock'[c].state = "connecting"
                               /\ sock'[c].pipe = <<>>
         /\ \A s \in Sockets : sock'[s] = sock[s] \/ sock'[s].pipe = <<>>
         /\ \A u \in Tabs \ {t} : Live(u)' = Live(u) /\ \A q \in Live(u) : sock'[q] = sock[q]
<1>1. PICK c \in Sockets : socks[c] = Free /\ sock' = [socks EXCEPT ![c] = Dialled(t, token)]
  BY DialEffect
<1>2. PICK r : r = Dialled(t, token)
  OBVIOUS
<1>3. r.tab = t /\ ~r.disposed /\ r.state = "connecting" /\ r.pipe = <<>>
  BY <1>2 DEF Dialled, Free
<1>4. sock'[c] = r /\ \A s \in Sockets : s # c => sock'[s] = socks[s]
  BY <1>1, <1>2
<1>5. Live(t)' = {c}
  BY <1>3, <1>4 DEF Live
<1>6. Free.tab = NoTab /\ Free.pipe = <<>> /\ NoTab \notin Tabs
  BY RelayConstants DEF Free
<1>7. ASSUME NEW u \in Tabs \ {t}
      PROVE  Live(u)' = Live(u) /\ \A q \in Live(u) : sock'[q] = sock[q]
  <2>1. \A q \in Live(u) : q # c /\ socks[q] = sock[q]
    BY <1>1, <1>6 DEF Live
  <2>2. \A q \in Live(u)' : q # c /\ socks[q] = sock[q]
    BY <1>3, <1>4, <1>6 DEF Live
  <2> QED BY <1>4, <2>1, <2>2 DEF Live
<1>8. \A s \in Sockets : sock'[s] = sock[s] \/ sock'[s].pipe = <<>>
  BY <1>3, <1>4, <1>6
<1> QED BY <1>3, <1>4, <1>5, <1>7, <1>8

LEMMA SocketPlugs ==
  ASSUME Typed, ConnInv, NEW s \in Sockets, SocketStep(s)
  PROVE  ConnInv'
<1>1. /\ sock[s] \in SocketType(issued) /\ SocketsTyped
      /\ Tail(sock[s].pipe) = Tail(sock[s].pipe)
  BY DEF Typed, SocketsTyped, SocketRight
<1>2. ASSUME NEW r, sock' = [sock EXCEPT ![s] = r], tab' = tab,
             r.tab = sock[s].tab, r.disposed = sock[s].disposed, r.state = sock[s].state
      PROVE  ConnInv'
  BY <1>2, OnePlug, NothingMoves DEF PageKept
<1>3. CASE Upgrade(s)
  <2>1. PICK r : r = Accepted(sock[s], Valid(sock[s].token), <<Opened>>)
    OBVIOUS
  <2>2. sock' = [sock EXCEPT ![s] = r] /\ tab' = tab
    BY <1>3, <2>1 DEF Upgrade, Accepted
  <2>3. r.tab = sock[s].tab /\ r.disposed = sock[s].disposed /\ r.state = sock[s].state
    BY <1>1, <2>1 DEF Accepted, SocketType
  <2> QED BY <1>2, <2>2, <2>3
<1>4. CASE Refuse(s) \/ Disconnect(s)
  <2>1. PICK p : sock' = [sock EXCEPT ![s] = Hung(sock[s], p)]
    BY <1>1, <1>4, HangsUp
  <2>2. PICK r : r = Hung(sock[s], p)
    OBVIOUS
  <2>3. r.tab = sock[s].tab /\ r.disposed = sock[s].disposed /\ r.state = sock[s].state
    BY <1>1, <2>2 DEF Hung, SocketType
  <2>4. tab' = tab
    BY <1>4 DEF Refuse, Disconnect
  <2> QED BY <1>2, <2>1, <2>2, <2>3, <2>4
<1>5. CASE SocketEvent(s)
  <2>1. sock[s].pipe # <<>>
    BY <1>5 DEF SocketEvent
  <2>2. CASE OnMessage(s)
    <3>1. PICK r : r = Piped(sock[s], Tail(sock[s].pipe))
      OBVIOUS
    <3>2. sock' = [sock EXCEPT ![s] = r]
      BY <2>2, <3>1 DEF OnMessage, Piped
    <3>3. r.tab = sock[s].tab /\ r.disposed = sock[s].disposed /\ r.state = sock[s].state
      BY <1>1, <3>1 DEF Piped, SocketType
    <3>4. \A t \in Tabs : PageKept(t)
      <4>1. CASE tab' = tab
        BY <4>1 DEF PageKept
      <4>2. ASSUME NEW u, NEW ch, NEW q, tab' = [tab EXCEPT ![u].shown[ch] = q]
            PROVE  \A t \in Tabs : PageKept(t)
        <5>1. ASSUME NEW t \in Tabs
              PROVE  PageKept(t)
          <6>1. /\ tab[t] \in PageType(issued) /\ tab = [x \in Tabs |-> tab[x]]
            BY DEF Typed, PagesTyped, PageRight
          <6>2. tab'[t] = tab[t] \/ tab'[t] = [tab[t] EXCEPT !.shown[ch] = q]
            BY <4>2, <6>1
          <6> QED BY <6>1, <6>2 DEF PageKept, PageType
        <5> QED BY <5>1
      <4> QED BY <2>2, <4>1, <4>2 DEF OnMessage
    <3> QED BY <3>2, <3>3, <3>4, OnePlug, NothingMoves
  <2> QED BY <1>5, <2>1, <2>2, OpensOne, ClosesOne DEF SocketEvent
<1> QED BY <1>3, <1>4, <1>5 DEF SocketStep


LEMMA PagePlugs ==
  ASSUME Typed, ConnInv, NEW t \in Tabs, PageStep(t)
  PROVE  ConnInv'
<1>1. /\ tab[t] \in PageType(issued) /\ tab = [u \in Tabs |-> tab[u]] /\ Attached(t)
      /\ sock = [s \in Sockets |-> sock[s]]
  BY DEF Typed, PagesTyped, PageRight, ConnInv, SocketsTyped
<1>2. ASSUME NEW x, tab' = [tab EXCEPT ![t] = x]
      PROVE  tab'[t] = x /\ \A u \in Tabs \ {t} : PageKept(u)
  BY <1>1, <1>2 DEF PageKept
<1>3. ASSUME NEW c \in Sockets, Live(t)' = {c}, sock'[c].state = "connecting",
             ~tab'[t].timer, ~tab'[t].connected, t \in AdminTabs => tab'[t].token # 0
      PROVE  Attached(t)'
  BY <1>3 DEF Attached
<1>4. CASE Retry(t)
  <2>1. PICK token : Dial(sock, t, token)
    BY <1>4 DEF Retry
  <2>2. PICK x : x = [tab[t] EXCEPT !.timer = FALSE]
    OBVIOUS
  <2>3. ~x.timer /\ x.connected = tab[t].connected /\ x.token = tab[t].token
    BY <1>1, <2>2 DEF PageType
  <2>4. tab' = [tab EXCEPT ![t] = x] /\ tab[t].timer
    BY <1>4, <2>2 DEF Retry
  <2>5. Live(t) = {} /\ ~x.connected /\ (t \in AdminTabs => x.token # 0)
    BY <1>1, <2>3, <2>4 DEF Attached, PageType
  <2>6. \A s \in Sockets : sock[s].tab = t => sock[s].disposed
    BY <2>5 DEF Live
  <2>7. /\ \E c \in Sockets : Live(t)' = {c} /\ sock'[c].state = "connecting"
        /\ \A u \in Tabs \ {t} : Live(u)' = Live(u) /\ \A q \in Live(u) : sock'[q] = sock[q]
    BY <1>1, <2>1, <2>6, Connecting
  <2>8. Attached(t)'
    BY <1>2, <1>3, <2>3, <2>4, <2>5, <2>7
  <2> QED BY <1>2, <2>4, <2>7, <2>8, PageMoves
<1>5. CASE Expire
  BY <1>5, NothingMoves DEF Expire, PlugsKept, PageKept
<1>6. CASE t \in AdminTabs /\ Login(t)
  <2>1. Dial(sock, t, issued + 1)
    BY <1>6 DEF Login
  <2>2. PICK x : x = [tab[t] EXCEPT !.token = issued + 1]
    OBVIOUS
  <2>3. x.timer = tab[t].timer /\ x.connected = tab[t].connected /\ x.token # 0
    BY <1>1, <2>2 DEF PageType, Typed, SessionTyped
  <2>4. tab' = [tab EXCEPT ![t] = x] /\ tab[t].token = 0
    BY <1>6, <2>2 DEF Login
  <2>5. Live(t) = {} /\ ~x.connected /\ ~x.timer
    BY <1>1, <1>6, <2>3, <2>4 DEF Attached, PageType
  <2>6. \A s \in Sockets : sock[s].tab = t => sock[s].disposed
    BY <2>5 DEF Live
  <2>7. /\ \E c \in Sockets : Live(t)' = {c} /\ sock'[c].state = "connecting"
        /\ \A u \in Tabs \ {t} : Live(u)' = Live(u) /\ \A q \in Live(u) : sock'[q] = sock[q]
    BY <1>1, <2>1, <2>6, Connecting
  <2>8. Attached(t)'
    BY <1>2, <1>3, <2>3, <2>4, <2>5, <2>7
  <2> QED BY <1>2, <2>4, <2>7, <2>8, PageMoves
<1>7. CASE t \in AdminTabs /\ Logout(t)
  <2>1. PICK x : x = [tab[t] EXCEPT !.leaving = TRUE]
    OBVIOUS
  <2>2. x.timer = tab[t].timer /\ x.connected = tab[t].connected /\ x.token = tab[t].token
    BY <1>1, <2>1 DEF PageType
  <2>3. tab' = [tab EXCEPT ![t] = x] /\ sock' = sock
    BY <1>7, <2>1 DEF Logout
  <2> QED BY <1>2, <2>2, <2>3, NothingMoves DEF PlugsKept, PageKept
<1>8. CASE t \in AdminTabs /\ LoggedOut(t)
  <2>1. PICK x : x = [tab[t] EXCEPT !.token = 0, !.leaving = FALSE, !.connected = FALSE, !.timer = FALSE]
    OBVIOUS
  <2>2. ~x.timer /\ ~x.connected
    BY <1>1, <2>1 DEF PageType
  <2>3. tab' = [tab EXCEPT ![t] = x] /\ sock' = Disposed(t)
    BY <1>8, <2>1 DEF LoggedOut
  <2>4. ASSUME NEW s \in Sockets
        PROVE  /\ sock[s].tab # t => sock'[s] = sock[s]
               /\ sock[s].tab = t => sock'[s].tab = t /\ sock'[s].disposed
    <3>1. \/ sock'[s] = sock[s] /\ (sock[s].tab # t \/ sock[s].disposed)
          \/ sock'[s] = Dropped(sock[s], <<Closed>>) /\ sock[s].tab = t
      <4>1. sock'[s] = IF sock[s].tab # t \/ sock[s].disposed THEN sock[s]
                       ELSE Dropped(sock[s], <<Closed>>)
        BY <2>3 DEF Disposed, Dropped
      <4> QED BY <4>1
    <3>2. sock[s] \in SocketType(issued) /\ sock[s].disposed \in BOOLEAN
      BY DEF Typed, SocketsTyped, SocketRight, SocketType
    <3>3. PICK r : r = Dropped(sock[s], <<Closed>>)
      OBVIOUS
    <3>4. r.tab = sock[s].tab /\ r.disposed
      BY <3>2, <3>3 DEF Dropped, SocketType
    <3> QED BY <3>1, <3>3, <3>4
  <2>5. Live(t)' = {}
    BY <2>4 DEF Live
  <2>6. Attached(t)'
    BY <1>2, <2>2, <2>3, <2>5 DEF Attached
  <2>7. \A u \in Tabs \ {t} : Live(u)' = Live(u) /\ \A q \in Live(u) : sock'[q] = sock[q]
    BY <2>4 DEF Live
  <2> QED BY <1>2, <2>3, <2>6, <2>7, PageMoves
<1>9. CASE t \in AdminTabs /\ Reload(t)
  <2> DEFINE gone == [s \in Sockets |-> IF sock[s].tab = t THEN Free ELSE sock[s]]
  <2>1. PICK x : x = [NewPage EXCEPT !.token = SessionToken]
    OBVIOUS
  <2>2. ~x.timer /\ ~x.connected /\ x.token = SessionToken
    BY <2>1 DEF NewPage
  <2>3. /\ tab' = [tab EXCEPT ![t] = x]
        /\ IF SessionToken = 0 THEN sock' = gone ELSE Dial(gone, t, SessionToken)
    BY <1>9, <2>1 DEF Reload
  <2>4. /\ gone = [s \in Sockets |-> gone[s]]
        /\ \A s \in Sockets : gone[s].tab # t
        /\ \A s \in Sockets : gone[s] = sock[s] \/ (sock[s].tab = t /\ gone[s] = Free)
    BY RelayConstants DEF Free
  <2> HIDE DEF gone
  <2>5. CASE SessionToken = 0
    <3>1. sock' = gone
      BY <2>3, <2>5
    <3>2. Live(t)' = {}
      BY <2>4, <3>1 DEF Live
    <3>3. Attached(t)'
      BY <1>2, <2>2, <2>3, <3>2 DEF Attached
    <3>4. \A u \in Tabs \ {t} : Live(u)' = Live(u) /\ \A q \in Live(u) : sock'[q] = sock[q]
      <4>1. Free.tab = NoTab /\ NoTab \notin Tabs
        BY RelayConstants DEF Free
      <4> QED BY <2>4, <3>1, <4>1 DEF Live
    <3> QED BY <1>2, <2>3, <3>3, <3>4, PageMoves
  <2>6. CASE SessionToken # 0
    <3>1. /\ \E c \in Sockets : Live(t)' = {c} /\ sock'[c].state = "connecting"
          /\ \A u \in Tabs \ {t} : Live(u)' = Live(u) /\ \A q \in Live(u) : sock'[q] = sock[q]
      BY <2>3, <2>4, <2>6, Connecting
    <3>2. Attached(t)'
      BY <1>2, <1>3, <2>2, <2>3, <2>6, <3>1
    <3> QED BY <1>2, <2>3, <3>1, <3>2, PageMoves
  <2> QED BY <2>5, <2>6
<1> QED BY <1>4, <1>5, <1>6, <1>7, <1>8, <1>9 DEF PageStep

LEMMA ConnStep ==
  ASSUME Typed, ConnInv, [StreamNext]_streamVars
  PROVE  ConnInv'
<1>1. CASE RelayStep
  BY <1>1, RelayPlugs, NothingMoves DEF PageKept
<1>2. CASE Expire \/ UNCHANGED socketVars
  BY <1>2, NothingMoves DEF Expire, socketVars, PlugsKept, PageKept
<1> QED BY <1>1, <1>2, StreamCases, SocketPlugs, PagePlugs

LEMMA ConnInit == StreamInit => ConnInv
<1> SUFFICES ASSUME Init, NEW t \in Tabs PROVE Attached(t)
  BY DEF StreamInit, ConnInv
<1>1. Live(t) = {}
  BY RelayConstants DEF Init, Live, Free
<1>2. ~tab[t].connected /\ tab[t].timer = (t \in PublicTabs)
  BY DEF Init, NewPage
<1> QED BY <1>1, <1>2, RelayConstants DEF Attached

LEMMA ConnHolds == FairStreamSpec => []ConnInv
BY TypedHolds, ConnInit, ConnStep, PTL DEF FairStreamSpec

(* A page says it is online exactly when the one socket it uses is open,   *)
(* and one that asks for the secret neither has a socket nor waits for one *)
(* (useAdminWebSockets.js:41-92, useWebSockets.js:38-115).                 *)
THEOREM OnlineIsOpen == FairStreamSpec => []ConnectedMeansOpen
<1>1. ASSUME Typed, ConnInv
      PROVE  ConnectedMeansOpen
  <2>1. ASSUME NEW t \in Tabs
        PROVE  /\ \A s, r \in Live(t) : s = r
               /\ Page(t).body = "login" => Live(t) = {} /\ ~tab[t].timer
               /\ Page(t).online <=> \E s \in Live(t) : sock[s].state = "open"
    <3>1. Attached(t) /\ tab[t].connected \in BOOLEAN
      BY <1>1 DEF ConnInv, Typed, PagesTyped, PageRight, PageType
    <3>2. CASE t \in AdminTabs /\ tab[t].token = 0
      <4>1. Page(t).body = "login" /\ Page(t).online = FALSE /\ Live(t) = {} /\ ~tab[t].timer
        BY <3>1, <3>2 DEF Page, AdminPage, Attached
      <4> QED BY <4>1
    <3>3. CASE ~(t \in AdminTabs /\ tab[t].token = 0)
      <4>1. Page(t).body # "login" /\ Page(t).online = tab[t].connected
        BY <3>3 DEF Page, AdminPage, PublicPage
      <4> QED BY <3>1, <4>1 DEF Attached
    <3> QED BY <3>2, <3>3
  <2> QED BY <2>1 DEF ConnectedMeansOpen
<1> QED BY <1>1, TypedHolds, ConnHolds, PTL

-----------------------------------------------------------------------------
(* The order of the events.  What has left the relay, in a pipe or on a    *)
(* page, is older than all that waits in it; a pipe is in order; and what  *)
(* a page shows of a channel is older than what is on its way to it.       *)
Behind(n) == n <= published /\ \A k \in DOMAIN inbox : n < inbox[k].id

InboxInv ==
  /\ \A i \in DOMAIN inbox : inbox[i].id <= published
  /\ \A i, j \in DOMAIN inbox : i < j => inbox[i].id < inbox[j].id

FrameAt(s, i) == i \in DOMAIN sock[s].pipe /\ sock[s].pipe[i].at = "frame"

PipeInv(s) ==
  \A i \in DOMAIN sock[s].pipe : FrameAt(s, i) =>
    /\ Behind(sock[s].pipe[i].id)
    /\ \A j \in DOMAIN sock[s].pipe :
         (FrameAt(s, j) /\ i < j) => sock[s].pipe[i].id < sock[s].pipe[j].id

(* n is older than all of channel ch that is on its way to the page.       *)
Awaits(t, ch, n) ==
  \A s \in Live(t) : \A j \in DOMAIN sock[s].pipe :
    (FrameAt(s, j) /\ sock[s].pipe[j].channel = ch) => n < sock[s].pipe[j].id

ListInv(t, ch, list) ==
  /\ \A i \in DOMAIN list : Behind(list[i]) /\ Awaits(t, ch, list[i])
  /\ \A i, j \in DOMAIN list : i < j => list[i] > list[j]

OrderInv ==
  /\ InboxInv
  /\ \A s \in Sockets : PipeInv(s)
  /\ \A t \in Tabs : \A ch \in ToSet(Channels) : ListInv(t, ch, tab[t].shown[ch])

(* A step that sends nothing: some pipes get shorter.                      *)
Quiet(s) ==
  \E d \in Nat : \A i \in DOMAIN sock'[s].pipe :
    sock'[s].pipe[i].at = "frame" =>
      i + d \in DOMAIN sock[s].pipe /\ sock'[s].pipe[i] = sock[s].pipe[i + d]

(* No page gets a socket that brings it something.                         *)
NoNewFrames ==
  \A t \in Tabs : \A s \in Live(t)' : s \in Live(t) \/ sock'[s].pipe = <<>>

Settles == \A n \in Nat : Behind(n) => Behind(n)'

ListKept(t) ==
  \A ch \in ToSet(Channels) : tab'[t].shown[ch] = tab[t].shown[ch] \/ tab'[t].shown[ch] = <<>>

LEMMA Numbers ==
  ASSUME Typed
  PROVE  /\ published \in Nat
         /\ \A k \in DOMAIN inbox : k \in Nat /\ inbox[k] \in Message /\ inbox[k].id \in Nat
         /\ \A s \in Sockets : /\ sock[s].pipe \in Seq(Item)
                               /\ DOMAIN sock[s].pipe \subseteq Nat
                               /\ \A i \in DOMAIN sock[s].pipe :
                                    FrameAt(s, i) => /\ sock[s].pipe[i] \in Frames
                                                     /\ sock[s].pipe[i].id \in Nat
         /\ \A t \in Tabs : \A ch \in ToSet(Channels) :
              /\ tab[t].shown[ch] \in Seq(1..MaxEvents)
              /\ DOMAIN tab[t].shown[ch] \subseteq Nat
              /\ \A i \in DOMAIN tab[t].shown[ch] : tab[t].shown[ch][i] \in 1..MaxEvents /\ tab[t].shown[ch][i] \in Nat
<1>1. published \in Nat
  BY DEF Typed, RelayTyped
<1>2. ASSUME NEW k \in DOMAIN inbox
      PROVE  k \in Nat /\ inbox[k] \in Message /\ inbox[k].id \in Nat
  <2>1. inbox \in Seq(Message)
    BY DEF Typed, RelayTyped
  <2>2. k \in Nat /\ inbox[k] \in Message
    BY <2>1, ElementOfSeq, LenProperties
  <2> QED BY <2>2 DEF Message
<1>3. ASSUME NEW s \in Sockets
      PROVE  /\ sock[s].pipe \in Seq(Item)
             /\ DOMAIN sock[s].pipe \subseteq Nat
             /\ \A i \in DOMAIN sock[s].pipe : FrameAt(s, i) => /\ sock[s].pipe[i] \in Frames
                                                                /\ sock[s].pipe[i].id \in Nat
  <2>1. sock[s].pipe \in Seq(Item)
    BY PipesOfSockets DEF Typed
  <2>2. DOMAIN sock[s].pipe \subseteq Nat /\ \A i \in DOMAIN sock[s].pipe : sock[s].pipe[i] \in Item
    BY <2>1, ElementOfSeq, LenProperties
  <2>3. \A e \in Item : e.at = "frame" => e \in Frames
    BY EventParts DEF Opened, Closed
  <2>4. \A e \in Frames : e.id \in Nat
    BY DEF Frames
  <2> QED BY <2>1, <2>2, <2>3, <2>4 DEF FrameAt
<1>4. ASSUME NEW t \in Tabs, NEW ch \in ToSet(Channels)
      PROVE  /\ tab[t].shown[ch] \in Seq(1..MaxEvents)
             /\ DOMAIN tab[t].shown[ch] \subseteq Nat
             /\ \A i \in DOMAIN tab[t].shown[ch] : tab[t].shown[ch][i] \in 1..MaxEvents /\ tab[t].shown[ch][i] \in Nat
  <2>1. tab[t].shown[ch] \in Seq(1..MaxEvents)
    BY DEF Typed, PagesTyped, PageRight, PageType
  <2>2. PICK list : list = tab[t].shown[ch]
    OBVIOUS
  <2>3. /\ list \in Seq(1..MaxEvents) /\ Len(list) \in Nat /\ DOMAIN list = 1..Len(list)
        /\ \A i \in 1..Len(list) : list[i] \in 1..MaxEvents
    BY <2>1, <2>2, ElementOfSeq, LenProperties
  <2>4. \A n \in 1..MaxEvents : n \in Nat
    BY RelayConstants
  <2> QED BY <2>2, <2>3, <2>4
<1> QED BY <1>1, <1>2, <1>3, <1>4

LEMMA QuietPipes ==
  ASSUME Typed, Typed', OrderInv, Settles, \A s \in Sockets : Quiet(s)
  PROVE  \A s \in Sockets : PipeInv(s)'
<1>1. ASSUME NEW s \in Sockets
      PROVE  PipeInv(s)'
  <2>1. PICK d \in Nat : \A i \in DOMAIN sock'[s].pipe :
          sock'[s].pipe[i].at = "frame" =>
            i + d \in DOMAIN sock[s].pipe /\ sock'[s].pipe[i] = sock[s].pipe[i + d]
    BY DEF Quiet
  <2>2. PipeInv(s)
    BY DEF OrderInv
  <2>3. ASSUME NEW i \in DOMAIN sock'[s].pipe, sock'[s].pipe[i].at = "frame"
        PROVE  FrameAt(s, i + d) /\ sock'[s].pipe[i] = sock[s].pipe[i + d] /\ Behind(sock[s].pipe[i].id)'
    <3>1. i + d \in DOMAIN sock[s].pipe /\ sock'[s].pipe[i] = sock[s].pipe[i + d]
      BY <2>1, <2>3
    <3>2. FrameAt(s, i + d)
      BY <2>3, <3>1 DEF FrameAt
    <3>3. PICK n : n = sock[s].pipe[i + d].id
      OBVIOUS
    <3>4. n \in Nat /\ Behind(n)
      BY <2>2, <3>1, <3>2, <3>3, Numbers DEF PipeInv
    <3>5. Behind(n)'
      BY <3>4 DEF Settles
    <3> QED BY <3>1, <3>2, <3>3, <3>5 DEF Behind
  <2>4. ASSUME NEW i \in DOMAIN sock'[s].pipe, NEW j \in DOMAIN sock'[s].pipe,
               sock'[s].pipe[i].at = "frame", sock'[s].pipe[j].at = "frame", i < j
        PROVE  sock'[s].pipe[i].id < sock'[s].pipe[j].id
    <3>1. i + d < j + d
      <4>1. sock'[s].pipe \in Seq(Item)
        BY DEF Typed, SocketsTyped, SocketRight, SocketType
      <4>2. i \in Nat /\ j \in Nat
        BY <4>1, LenProperties
      <4> QED BY <2>4, <4>2
    <3> QED BY <2>2, <2>3, <2>4, <3>1 DEF PipeInv, FrameAt
  <2> QED BY <2>3, <2>4 DEF PipeInv, FrameAt
<1> QED BY <1>1

LEMMA QuietList ==
  ASSUME Typed, OrderInv, Settles, NoNewFrames, \A s \in Sockets : Quiet(s),
         NEW t \in Tabs, NEW ch \in ToSet(Channels),
         tab'[t].shown[ch] = tab[t].shown[ch] \/ tab'[t].shown[ch] = <<>>
  PROVE  ListInv(t, ch, tab[t].shown[ch])'
<1>1. CASE tab'[t].shown[ch] = <<>>
  BY <1>1 DEF ListInv
<1>2. CASE tab'[t].shown[ch] = tab[t].shown[ch]
  <2>1. PICK list : list = tab[t].shown[ch]
    OBVIOUS
  <2>2. ListInv(t, ch, list) /\ \A i \in DOMAIN list : list[i] \in Nat
    BY <2>1, Numbers DEF OrderInv
  <2>3. \A i \in DOMAIN list : Behind(list[i])'
    BY <2>2 DEF ListInv, Settles
  <2>4. ASSUME NEW i \in DOMAIN list, NEW s \in Live(t)', NEW j \in DOMAIN sock'[s].pipe,
               sock'[s].pipe[j].at = "frame", sock'[s].pipe[j].channel = ch
        PROVE  list[i] < sock'[s].pipe[j].id
    <3>1. s \in Live(t) /\ s \in Sockets
      BY <2>4 DEF NoNewFrames, Live
    <3>2. PICK d \in Nat : j + d \in DOMAIN sock[s].pipe /\ sock'[s].pipe[j] = sock[s].pipe[j + d]
      BY <2>4, <3>1 DEF Quiet
    <3>3. FrameAt(s, j + d) /\ sock[s].pipe[j + d].channel = ch
      BY <2>4, <3>2 DEF FrameAt
    <3> QED BY <2>2, <3>1, <3>2, <3>3 DEF ListInv, Awaits
  <2>5. \A i \in DOMAIN list : Awaits(t, ch, list[i])'
    BY <2>4 DEF Awaits, FrameAt
  <2> QED BY <1>2, <2>1, <2>2, <2>3, <2>5 DEF ListInv
<1> QED BY <1>1, <1>2

LEMMA QuietStep ==
  ASSUME Typed, Typed', OrderInv, Settles, InboxInv', NoNewFrames,
         \A s \in Sockets : Quiet(s), \A t \in Tabs : ListKept(t)
  PROVE  OrderInv'
<1>1. \A t \in Tabs : \A ch \in ToSet(Channels) : ListInv(t, ch, tab[t].shown[ch])'
  BY QuietList DEF ListKept
<1> QED BY <1>1, QuietPipes DEF OrderInv

LEMMA QuietCases ==
  ASSUME Typed, Typed', NEW s \in Sockets,
         \/ sock'[s].pipe = sock[s].pipe
         \/ sock[s].pipe # <<>> /\ sock'[s].pipe = Tail(sock[s].pipe)
         \/ \A i \in DOMAIN sock'[s].pipe :
              \/ sock'[s].pipe[i] \in {Opened, Closed}
              \/ i \in DOMAIN sock[s].pipe /\ sock'[s].pipe[i] = sock[s].pipe[i]
  PROVE  Quiet(s)
<1>1. sock[s].pipe \in Seq(Item) /\ sock'[s].pipe \in Seq(Item)
  BY DEF Typed, SocketsTyped, SocketRight, SocketType
<1>2. \A i \in DOMAIN sock'[s].pipe : i \in Nat /\ i + 0 = i
  BY <1>1, LenProperties
<1>3. \A e \in {Opened, Closed} : e.at # "frame"
  BY DEF Opened, Closed
<1>4. CASE sock[s].pipe # <<>> /\ sock'[s].pipe = Tail(sock[s].pipe)
  BY <1>1, <1>4, Tailed DEF Quiet
<1>5. CASE ~(sock[s].pipe # <<>> /\ sock'[s].pipe = Tail(sock[s].pipe))
  <2>1. \A i \in DOMAIN sock'[s].pipe :
          sock'[s].pipe[i].at = "frame" =>
            i + 0 \in DOMAIN sock[s].pipe /\ sock'[s].pipe[i] = sock[s].pipe[i + 0]
    BY <1>2, <1>3, <1>5
  <2> QED BY <2>1 DEF Quiet
<1> QED BY <1>4, <1>5

(* The messages that wait in the relay.                                    *)
Waiting ==
  \/ inbox' = inbox /\ published' = published
  \/ inbox' = <<>> /\ published' = published
  \/ inbox # <<>> /\ inbox' = Tail(inbox) /\ published' = published
  \/ /\ published' = published + 1
     /\ \E ch \in ToSet(Channels) : inbox' = Append(inbox, [id |-> published + 1, channel |-> ch])

LEMMA WaitingCases ==
  ASSUME RelayStep \/ Expire \/ (\E s \in Sockets : SocketStep(s)) \/ (\E t \in Tabs : PageStep(t))
         \/ UNCHANGED socketVars
  PROVE  Waiting
<1>1. CASE RelayStep
  BY <1>1 DEF RelayStep, Start, Subscribe, RelayMessage, SubscriberReconnects, Crash, Sigterm, Quit,
    Publish, Exit, Waiting
<1>2. CASE \E s \in Sockets : SocketStep(s)
  BY <1>2 DEF SocketStep, Upgrade, Refuse, Disconnect, SocketEvent, Waiting
<1>3. CASE Expire \/ \E t \in Tabs : PageStep(t)
  BY <1>3 DEF PageStep, Retry, Expire, Login, Logout, LoggedOut, Reload, Waiting
<1>4. CASE UNCHANGED socketVars
  BY <1>4 DEF socketVars, Waiting
<1> QED BY <1>1, <1>2, <1>3, <1>4

LEMMA InboxSteps ==
  ASSUME Typed, Typed', InboxInv, Waiting
  PROVE  Settles /\ InboxInv'
<1>1. /\ published \in Nat /\ inbox \in Seq(Message) /\ Len(inbox) \in Nat /\ DOMAIN inbox = 1..Len(inbox)
      /\ \A k \in DOMAIN inbox : inbox[k].id \in Nat
  BY Numbers, LenProperties DEF Typed, RelayTyped
<1>2. CASE inbox' = inbox /\ published' = published
  BY <1>2 DEF Settles, Behind, InboxInv
<1>3. CASE inbox' = <<>> /\ published' = published
  BY <1>3 DEF Settles, Behind, InboxInv
<1>4. CASE inbox # <<>> /\ inbox' = Tail(inbox) /\ published' = published
  <2>1. \A k \in DOMAIN inbox' : k + 1 \in DOMAIN inbox /\ inbox'[k] = inbox[k + 1] /\ k \in Nat
    BY <1>1, <1>4, Tailed
  <2>2. Settles
    BY <1>4, <2>1 DEF Settles, Behind
  <2>3. \A i, j \in DOMAIN inbox' : i < j => i + 1 < j + 1
    BY <2>1
  <2> QED BY <1>4, <2>1, <2>2, <2>3 DEF InboxInv
<1>5. ASSUME NEW ch \in ToSet(Channels), published' = published + 1,
             inbox' = Append(inbox, [id |-> published + 1, channel |-> ch])
      PROVE  Settles /\ InboxInv'
  <2>1. PICK m : m = [id |-> published + 1, channel |-> ch]
    OBVIOUS
  <2>2. m.id = published + 1 /\ m \in Message
    <3>1. m.id = published + 1
      BY <2>1
    <3>2. published + 1 \in 1..MaxEvents
      BY <1>1, <1>5, RelayConstants DEF Typed, RelayTyped
    <3> QED BY <2>1, <3>1, <3>2 DEF Message
  <2>3. /\ DOMAIN inbox' = 1..(Len(inbox) + 1) /\ inbox'[Len(inbox) + 1] = m
        /\ \A k \in DOMAIN inbox : inbox'[k] = inbox[k]
    <3>1. /\ inbox' \in Seq(Message) /\ Len(inbox') = Len(inbox) + 1
          /\ \A k \in 1..Len(inbox) : inbox'[k] = inbox[k]
          /\ inbox'[Len(inbox) + 1] = m
      BY <1>1, <1>5, <2>1, <2>2, AppendProperties
    <3> QED BY <1>1, <3>1, LenProperties
  <2>4. \A k \in DOMAIN inbox' : k \in DOMAIN inbox \/ (k = Len(inbox) + 1 /\ k \notin DOMAIN inbox)
    BY <1>1, <2>3
  <2>5. Settles
    <3>1. ASSUME NEW n \in Nat, Behind(n)
          PROVE  Behind(n)'
      <4>1. n <= published' /\ n < m.id
        BY <1>1, <1>5, <2>2, <3>1 DEF Behind
      <4> QED BY <2>3, <2>4, <3>1, <4>1 DEF Behind
    <3> QED BY <3>1 DEF Settles
  <2>6. \A k \in DOMAIN inbox' : inbox'[k].id <= published'
    BY <1>1, <1>5, <2>2, <2>3, <2>4 DEF InboxInv
  <2>7. ASSUME NEW i \in DOMAIN inbox', NEW j \in DOMAIN inbox', i < j
        PROVE  inbox'[i].id < inbox'[j].id
    <3>1. i \in DOMAIN inbox
      BY <1>1, <2>3, <2>7
    <3>2. CASE j \in DOMAIN inbox
      BY <2>3, <2>7, <3>1, <3>2 DEF InboxInv
    <3>3. CASE j = Len(inbox) + 1
      <4>1. inbox[i].id <= published
        BY <3>1 DEF InboxInv
      <4> QED BY <1>1, <2>2, <2>3, <3>1, <3>3, <4>1
    <3> QED BY <2>4, <3>2, <3>3
  <2> QED BY <2>5, <2>6, <2>7 DEF InboxInv
<1> QED BY <1>2, <1>3, <1>4, <1>5 DEF Waiting

(* A message goes out: to the end of some pipes, and newer than all that   *)
(* went out before.                                                        *)
LEMMA ForwardsInOrder ==
  ASSUME Typed, Typed', OrderInv, Settles, InboxInv', RelayMessage
  PROVE  OrderInv'
<1>1. PICK m : m = Head(inbox)
  OBVIOUS
<1>2. /\ inbox # <<>> /\ inbox \in Seq(Message) /\ inbox' = Tail(inbox) /\ tab' = tab
      /\ published' = published /\ published \in Nat /\ sock' = FanOut(m)
  BY <1>1, Numbers DEF RelayMessage, Typed, RelayTyped
<1>3. m = inbox[1] /\ m \in Message /\ 1 \in DOMAIN inbox
      /\ \A k \in DOMAIN inbox' : 1 < k + 1 /\ k + 1 \in DOMAIN inbox /\ inbox'[k] = inbox[k + 1]
  BY <1>1, <1>2, Tailed
<1>4. \A n \in Nat : Behind(n) => n < m.id
  BY <1>3 DEF Behind
<1>5. m.id \in Nat /\ Behind(m.id)'
  BY <1>2, <1>3, Numbers DEF OrderInv, InboxInv, Behind
<1>6. PICK f : f = Frame(m)
  OBVIOUS
<1>7. f.at = "frame" /\ f.id = m.id /\ f \in Item
  BY <1>3, <1>6, ItemsOfPipe DEF Frame
<1>8. ASSUME NEW s \in Sockets
      PROVE  /\ sock'[s].tab = sock[s].tab /\ sock'[s].disposed = sock[s].disposed
             /\ \A j \in DOMAIN sock'[s].pipe :
                  \/ j \in DOMAIN sock[s].pipe /\ sock'[s].pipe[j] = sock[s].pipe[j]
                  \/ /\ sock'[s].pipe[j] = f /\ j = Len(sock[s].pipe) + 1
                     /\ \A i \in DOMAIN sock[s].pipe : i < j
             /\ \A j \in DOMAIN sock'[s].pipe : j \in Nat
  <2>1. /\ sock[s] \in SocketType(issued) /\ sock[s].pipe \in Seq(Item)
        /\ Len(sock[s].pipe) \in Nat /\ DOMAIN sock[s].pipe = 1..Len(sock[s].pipe)
    BY Numbers, LenProperties DEF Typed, SocketsTyped, SocketRight
  <2>2. sock'[s] = sock[s] \/ sock'[s] = Piped(sock[s], Append(sock[s].pipe, f))
    BY <1>2, <1>6 DEF FanOut, Piped
  <2>3. CASE sock'[s] = sock[s]
    BY <2>1, <2>3
  <2>4. CASE sock'[s] = Piped(sock[s], Append(sock[s].pipe, f))
    <3>1. PICK q : q = Append(sock[s].pipe, f)
      OBVIOUS
    <3>2. q \in Seq(Item) /\ \A j \in DOMAIN q : \/ j \in DOMAIN sock[s].pipe /\ q[j] = sock[s].pipe[j]
                                                 \/ j = Len(sock[s].pipe) + 1 /\ q[j] = f
      BY <1>7, <2>1, <3>1, Appended
    <3>3. PICK r : r = Piped(sock[s], q)
      OBVIOUS
    <3>4. r.pipe = q /\ r.tab = sock[s].tab /\ r.disposed = sock[s].disposed
      BY <2>1, <3>3 DEF Piped, SocketType
    <3>5. sock'[s] = r
      BY <2>4, <3>1, <3>3
    <3>6. \A j \in DOMAIN q : j \in Nat
      BY <3>2, LenProperties
    <3>7. \A i \in DOMAIN sock[s].pipe : i < Len(sock[s].pipe) + 1
      BY <2>1
    <3> QED BY <3>2, <3>4, <3>5, <3>6, <3>7
  <2> QED BY <2>2, <2>3, <2>4
<1>9. ASSUME NEW s \in Sockets
      PROVE  PipeInv(s)'
  <2>1. PipeInv(s) /\ sock[s].pipe \in Seq(Item)
    BY Numbers DEF OrderInv
  <2>2. ASSUME NEW i \in DOMAIN sock'[s].pipe, sock'[s].pipe[i].at = "frame"
        PROVE  Behind(sock[s].pipe[i].id)'
    <3>1. CASE sock'[s].pipe[i] = f
      BY <1>5, <1>7, <3>1 DEF Behind
    <3>2. CASE i \in DOMAIN sock[s].pipe /\ sock'[s].pipe[i] = sock[s].pipe[i]
      <4>1. PICK n : n = sock[s].pipe[i].id
        OBVIOUS
      <4>2. n \in Nat /\ Behind(n)
        BY <2>1, <2>2, <3>2, <4>1, Numbers DEF PipeInv, FrameAt
      <4> QED BY <3>2, <4>1, <4>2 DEF Settles, Behind
    <3> QED BY <1>8, <3>1, <3>2
  <2>3. ASSUME NEW i \in DOMAIN sock'[s].pipe, NEW j \in DOMAIN sock'[s].pipe,
               sock'[s].pipe[i].at = "frame", sock'[s].pipe[j].at = "frame", i < j
        PROVE  sock'[s].pipe[i].id < sock'[s].pipe[j].id
    <3>1. i \in DOMAIN sock[s].pipe /\ sock'[s].pipe[i] = sock[s].pipe[i]
      <4>1. i \in Nat /\ j \in Nat
        BY <1>8
      <4>2. CASE i = Len(sock[s].pipe) + 1 /\ j \in DOMAIN sock[s].pipe
        BY <2>1, <2>3, <4>1, <4>2, LenProperties
      <4>3. CASE i = Len(sock[s].pipe) + 1 /\ j = Len(sock[s].pipe) + 1
        BY <2>1, <2>3, <4>1, <4>3
      <4> QED BY <1>8, <4>2, <4>3
    <3>2. sock[s].pipe[i].id \in Nat /\ Behind(sock[s].pipe[i].id)
      BY <2>1, <2>3, <3>1, Numbers DEF PipeInv, FrameAt
    <3>3. CASE sock'[s].pipe[j] = f
      BY <1>4, <1>7, <3>1, <3>2, <3>3
    <3>4. CASE j \in DOMAIN sock[s].pipe /\ sock'[s].pipe[j] = sock[s].pipe[j]
      BY <2>1, <2>3, <3>1, <3>4 DEF PipeInv, FrameAt
    <3> QED BY <1>8, <3>3, <3>4
  <2> QED BY <2>2, <2>3 DEF PipeInv, FrameAt
<1>10. ASSUME NEW t \in Tabs, NEW ch \in ToSet(Channels)
       PROVE  ListInv(t, ch, tab[t].shown[ch])'
  <2>1. PICK list : list = tab[t].shown[ch]
    OBVIOUS
  <2>2. ListInv(t, ch, list) /\ \A i \in DOMAIN list : list[i] \in Nat
    BY <2>1, Numbers DEF OrderInv
  <2>3. \A i \in DOMAIN list : Behind(list[i])'
    BY <2>2 DEF ListInv, Settles
  <2>4. ASSUME NEW i \in DOMAIN list, NEW s \in Live(t)', NEW j \in DOMAIN sock'[s].pipe,
               sock'[s].pipe[j].at = "frame", sock'[s].pipe[j].channel = ch
        PROVE  list[i] < sock'[s].pipe[j].id
    <3>1. s \in Live(t) /\ s \in Sockets
      BY <1>8, <2>4 DEF Live
    <3>2. CASE sock'[s].pipe[j] = f
      BY <1>4, <1>7, <2>2, <3>2 DEF ListInv
    <3>3. CASE j \in DOMAIN sock[s].pipe /\ sock'[s].pipe[j] = sock[s].pipe[j]
      BY <2>2, <2>4, <3>1, <3>3 DEF ListInv, Awaits, FrameAt
    <3> QED BY <1>8, <3>1, <3>2, <3>3
  <2>5. \A i \in DOMAIN list : Awaits(t, ch, list[i])'
    BY <2>4 DEF Awaits, FrameAt
  <2>6. tab'[t].shown[ch] = list
    BY <1>2, <2>1
  <2> QED BY <2>2, <2>3, <2>5, <2>6 DEF ListInv
<1> QED BY <1>9, <1>10 DEF OrderInv

(* A page takes the first message of its one socket to the top of a list.  *)
LEMMA ShowsInOrder ==
  ASSUME Typed, Typed', ConnInv, OrderInv, Settles, InboxInv',
         NEW s \in Sockets, sock[s].pipe # <<>>, Head(sock[s].pipe).at = "frame", OnMessage(s),
         UNCHANGED <<inbox, published>>
  PROVE  OrderInv'
<1>1. PICK t : t = sock[s].tab
  OBVIOUS
<1>2. PICK f : f = Head(sock[s].pipe)
  OBVIOUS
<1>3. PICK r : r = Piped(sock[s], Tail(sock[s].pipe))
  OBVIOUS
<1>4. /\ SocketsTyped /\ PagesTyped /\ sock[s] \in SocketType(issued) /\ sock[s].pipe \in Seq(Item)
      /\ t \in Tabs
  BY <1>1, PipesOfSockets DEF Typed, SocketRight
<1>5. /\ r.pipe = Tail(sock[s].pipe) /\ r.tab = sock[s].tab /\ r.disposed = sock[s].disposed
  BY <1>3, <1>4 DEF Piped, SocketType
<1>6. sock'[s] = r /\ \A q \in Sockets : q # s => sock'[q] = sock[q]
  <2>1. sock' = [sock EXCEPT ![s] = r]
    BY <1>3 DEF OnMessage, Piped
  <2> QED BY <1>4, <2>1 DEF SocketsTyped
<1>7. \A q \in Sockets : Quiet(q)
  BY <1>5, <1>6, QuietCases
<1>8. \A u \in Tabs : Live(u)' = Live(u)
  BY <1>5, <1>6 DEF Live
<1>9. NoNewFrames
  BY <1>8 DEF NoNewFrames
<1>10. CASE tab' = tab
  BY <1>7, <1>9, <1>10, QuietStep DEF ListKept
<1>11. CASE ~(sock[s].disposed \/ f.channel \notin Shows(t))
  <2>1. /\ f = sock[s].pipe[1] /\ FrameAt(s, 1) /\ f \in Frames /\ f.id \in Nat /\ s \in Live(t)
        /\ f.id \in 1..MaxEvents /\ f.channel \in ToSet(Channels)
    <3>1. f = sock[s].pipe[1] /\ 1 \in DOMAIN sock[s].pipe /\ f.at = "frame"
      BY <1>2, <1>4, Tailed
    <3>2. f \in Frames /\ f.id \in Nat
      BY <3>1, Numbers DEF FrameAt
    <3> QED BY <1>1, <1>11, <3>1, <3>2 DEF FrameAt, Frames, Live
  <2>2. PICK ch : ch = f.channel
    OBVIOUS
  <2>3. PICK list : list = tab[t].shown[ch]
    OBVIOUS
  <2>4. PICK q : q = Kept(<<f.id>> \o list)
    OBVIOUS
  <2>5. tab' = [tab EXCEPT ![t] = [tab[t] EXCEPT !.shown[ch] = q]]
    BY <1>1, <1>2, <1>11, <2>2, <2>3, <2>4 DEF OnMessage
  <2>6. /\ tab[t] \in PageType(issued) /\ tab = [u \in Tabs |-> tab[u]] /\ ch \in ToSet(Channels)
        /\ list \in Seq(1..MaxEvents)
    BY <1>4, <2>1, <2>2, <2>3, Numbers DEF PagesTyped, PageRight
  <2>7. /\ tab'[t].shown[ch] = q
        /\ \A c \in ToSet(Channels) : c # ch => tab'[t].shown[c] = tab[t].shown[c]
        /\ \A u \in Tabs : u # t => tab'[u] = tab[u]
    <3>1. PICK x : x = [tab[t] EXCEPT !.shown[ch] = q]
      OBVIOUS
    <3>2. x.shown = [tab[t].shown EXCEPT ![ch] = q]
      BY <2>6, <3>1 DEF PageType
    <3>3. tab[t].shown \in [ToSet(Channels) -> Seq(1..MaxEvents)]
      BY <2>6 DEF PageType
    <3>4. tab'[t] = x
      BY <1>4, <2>5, <2>6, <3>1
    <3>5. \A u \in Tabs : u # t => tab'[u] = tab[u]
      BY <2>5, <2>6
    <3>6. x.shown[ch] = q /\ \A c \in ToSet(Channels) : c # ch => x.shown[c] = tab[t].shown[c]
      BY <2>6, <3>2, <3>3
    <3> QED BY <3>4, <3>5, <3>6
  <2>8. /\ \A i \in DOMAIN q : (i = 1 /\ q[i] = f.id) \/ (i - 1 \in DOMAIN list /\ q[i] = list[i - 1])
        /\ \A i \in DOMAIN q : i \in Nat
    <3>1. /\ q \in Seq(1..MaxEvents)
          /\ \A i \in DOMAIN q : (i = 1 /\ q[i] = f.id) \/ (i - 1 \in DOMAIN list /\ q[i] = list[i - 1])
      BY <2>1, <2>4, <2>6, KeptList, RelayConstants
    <3> QED BY <3>1, LenProperties
  <2>9. ListInv(t, ch, list) /\ \A i \in DOMAIN list : list[i] \in Nat /\ i \in Nat
    BY <1>4, <2>3, <2>6, Numbers DEF OrderInv
  <2>10. \A i \in DOMAIN list : list[i] < f.id
    BY <2>1, <2>2, <2>9 DEF ListInv, Awaits, FrameAt
  <2>11. ListInv(t, ch, q)'
    <3>1. \A n \in Nat : Behind(n) => Behind(n)'
      BY DEF Settles
    <3>2. Behind(f.id) /\ \A i \in DOMAIN list : Behind(list[i])
      BY <2>1, <2>9 DEF OrderInv, PipeInv, FrameAt, ListInv
    <3>3. \A i \in DOMAIN q : Behind(q[i])'
      BY <2>1, <2>8, <2>9, <3>1, <3>2
    <3>4. ASSUME NEW j \in DOMAIN sock'[s].pipe, sock'[s].pipe[j].at = "frame"
          PROVE  f.id < sock'[s].pipe[j].id /\ FrameAt(s, j + 1) /\ sock'[s].pipe[j] = sock[s].pipe[j + 1]
      <4>1. 1 < j + 1 /\ j + 1 \in DOMAIN sock[s].pipe /\ sock'[s].pipe[j] = sock[s].pipe[j + 1]
        <5>1. PICK rest : rest = Tail(sock[s].pipe)
          OBVIOUS
        <5>2. \A k \in DOMAIN rest :
                k \in Nat /\ 1 < k + 1 /\ k + 1 \in DOMAIN sock[s].pipe /\ rest[k] = sock[s].pipe[k + 1]
          BY <1>4, <5>1, Tailed
        <5>3. sock'[s].pipe = rest
          BY <1>5, <1>6, <5>1
        <5> QED BY <3>4, <5>2, <5>3
      <4>2. FrameAt(s, j + 1) /\ PipeInv(s)
        BY <3>4, <4>1 DEF FrameAt, OrderInv
      <4>3. sock[s].pipe[1].id < sock[s].pipe[j + 1].id
        BY <2>1, <4>1, <4>2 DEF PipeInv, FrameAt
      <4> QED BY <2>1, <4>1, <4>2, <4>3
    <3>5. ASSUME NEW i \in DOMAIN q, NEW z \in Live(t)', NEW j \in DOMAIN sock'[z].pipe,
                 sock'[z].pipe[j].at = "frame", sock'[z].pipe[j].channel = ch
          PROVE  q[i] < sock'[z].pipe[j].id
      <4>1. z = s
        BY <1>4, <1>8, <2>1, <3>5 DEF ConnInv, Attached
      <4>2. f.id < sock'[s].pipe[j].id /\ FrameAt(s, j + 1) /\ sock'[s].pipe[j] = sock[s].pipe[j + 1]
        BY <3>4, <3>5, <4>1
      <4>3. CASE q[i] = f.id
        BY <4>1, <4>2, <4>3
      <4>4. CASE i - 1 \in DOMAIN list /\ q[i] = list[i - 1]
        BY <2>1, <2>9, <3>5, <4>1, <4>2, <4>4 DEF ListInv, Awaits, FrameAt
      <4> QED BY <2>8, <4>3, <4>4
    <3>6. \A i \in DOMAIN q : Awaits(t, ch, q[i])'
      BY <3>5 DEF Awaits, FrameAt
    <3>7. ASSUME NEW i \in DOMAIN q, NEW j \in DOMAIN q, i < j
          PROVE  q[i] > q[j]
      <4>1. i \in Nat /\ j \in Nat
        BY <2>8
      <4>2. j - 1 \in DOMAIN list /\ q[j] = list[j - 1]
        <5>1. j # 1 \/ i - 1 \in DOMAIN list
          BY <2>8, <3>7, <4>1
        <5>2. i - 1 \in DOMAIN list => i - 1 >= 0
          BY <2>9
        <5>3. CASE j = 1
          <6>1. i = 0
            BY <3>7, <4>1, <5>3
          <6> QED BY <2>9, <4>1, <5>1, <5>2, <5>3, <6>1
        <5> QED BY <2>8, <5>3
      <4>3. CASE i = 1 /\ q[i] = f.id
        BY <2>1, <2>9, <2>10, <4>2, <4>3
      <4>4. CASE i - 1 \in DOMAIN list /\ q[i] = list[i - 1]
        <5>1. i - 1 < j - 1
          BY <3>7, <4>1
        <5> QED BY <2>9, <4>2, <4>4, <5>1 DEF ListInv
      <4> QED BY <2>8, <4>3, <4>4
    <3> QED BY <3>3, <3>6, <3>7 DEF ListInv
  <2>12. ASSUME NEW u \in Tabs, NEW c \in ToSet(Channels), u # t \/ c # ch
         PROVE  ListInv(u, c, tab[u].shown[c])'
    <3>1. tab'[u].shown[c] = tab[u].shown[c]
      BY <2>7, <2>12
    <3> QED BY <1>7, <1>9, <3>1, QuietList
  <2>13. \A u \in Tabs : \A c \in ToSet(Channels) : ListInv(u, c, tab[u].shown[c])'
    <3>1. ListInv(t, ch, tab[t].shown[ch])'
      BY <2>7, <2>11 DEF ListInv
    <3> QED BY <2>12, <3>1
  <2> QED BY <1>7, <2>13, QuietPipes DEF OrderInv
<1> QED BY <1>1, <1>2, <1>10, <1>11 DEF OnMessage

(* The other steps of a socket: its connection is accepted or ends, and    *)
(* its page learns of it.                                                  *)
LEMMA SocketOrder ==
  ASSUME Typed, Typed', ConnInv, OrderInv, Settles, InboxInv', NEW s \in Sockets, SocketStep(s)
  PROVE  OrderInv'
<1>1. /\ SocketsTyped /\ PagesTyped /\ sock[s] \in SocketType(issued) /\ sock[s].pipe \in Seq(Item)
  BY PipesOfSockets DEF Typed, SocketRight
<1>2. ASSUME NEW r, sock' = [sock EXCEPT ![s] = r], r.tab = sock[s].tab,
             r.disposed = sock[s].disposed \/ r.tab = NoTab, \A t \in Tabs : ListKept(t),
             \/ r.pipe = <<>>
             \/ sock[s].pipe # <<>> /\ r.pipe = Tail(sock[s].pipe)
             \/ \A i \in DOMAIN r.pipe :
                  \/ r.pipe[i] \in {Opened, Closed}
                  \/ i \in DOMAIN sock[s].pipe /\ r.pipe[i] = sock[s].pipe[i]
      PROVE  OrderInv'
  <2>1. sock'[s] = r /\ \A q \in Sockets : q # s => sock'[q] = sock[q]
    BY <1>1, <1>2 DEF SocketsTyped
  <2>2. \A q \in Sockets : Quiet(q)
    BY <1>2, <2>1, QuietCases
  <2>3. NoNewFrames
    BY <1>2, <2>1, RelayConstants DEF NoNewFrames, Live
  <2> QED BY <1>2, <2>2, <2>3, QuietStep
<1>3. tab' = tab => \A t \in Tabs : ListKept(t)
  BY DEF ListKept
<1>4. CASE Upgrade(s)
  <2>1. PICK r : r = Accepted(sock[s], Valid(sock[s].token), <<Opened>>)
    OBVIOUS
  <2>2. sock' = [sock EXCEPT ![s] = r] /\ tab' = tab
    BY <1>4, <2>1 DEF Upgrade, Accepted
  <2>3. r.tab = sock[s].tab /\ r.disposed = sock[s].disposed /\ r.pipe = <<Opened>>
    BY <1>1, <2>1 DEF Accepted, SocketType
  <2>4. \A i \in DOMAIN r.pipe : r.pipe[i] \in {Opened, Closed}
    BY <2>3
  <2> QED BY <1>2, <1>3, <2>2, <2>3, <2>4
<1>5. CASE Refuse(s) \/ Disconnect(s)
  <2>1. PICK p \in Seq(Item) :
          /\ sock' = [sock EXCEPT ![s] = Hung(sock[s], p)]
          /\ \A i \in DOMAIN p : p[i] = Closed \/ (i \in DOMAIN sock[s].pipe /\ p[i] = sock[s].pipe[i])
    BY <1>1, <1>5, HangsUp
  <2>2. PICK r : r = Hung(sock[s], p)
    OBVIOUS
  <2>3. r.tab = sock[s].tab /\ r.disposed = sock[s].disposed /\ r.pipe = p
    BY <1>1, <2>2 DEF Hung, SocketType
  <2>4. tab' = tab
    BY <1>5 DEF Refuse, Disconnect
  <2> QED BY <1>2, <1>3, <2>1, <2>2, <2>3, <2>4
<1>6. CASE SocketEvent(s)
  <2>1. sock[s].pipe # <<>> /\ UNCHANGED <<inbox, published>> /\ sock[s].tab \in Tabs
    BY <1>1, <1>6, PipesOfSockets DEF SocketEvent
  <2>2. ASSUME NEW u \in Tabs, NEW x, tab' = [tab EXCEPT ![u] = x], x.shown = tab[u].shown
        PROVE  \A t \in Tabs : ListKept(t)
    BY <1>1, <2>2 DEF PagesTyped, ListKept
  <2>3. PICK u \in Tabs : u = sock[s].tab
    BY <2>1
  <2>4. tab[u] \in PageType(issued)
    BY <1>1 DEF PagesTyped, PageRight
  <2>5. CASE OnOpen(s)
    <3>1. PICK r : r = Opening(sock[s], Tail(sock[s].pipe))
      OBVIOUS
    <3>2. sock' = [sock EXCEPT ![s] = r]
      BY <1>1, <2>5, <3>1 DEF OnOpen, Opening, SocketsTyped
    <3>3. r.tab = sock[s].tab /\ r.disposed = sock[s].disposed /\ r.pipe = Tail(sock[s].pipe)
      BY <1>1, <3>1 DEF Opening, SocketType
    <3>4. PICK x : x = [tab[u] EXCEPT !.connected = TRUE]
      OBVIOUS
    <3>5. x.shown = tab[u].shown
      BY <2>4, <3>4 DEF PageType
    <3>6. tab' = tab \/ tab' = [tab EXCEPT ![u] = x]
      BY <2>3, <2>5, <3>4 DEF OnOpen
    <3> QED BY <1>2, <1>3, <2>1, <2>2, <3>2, <3>3, <3>5, <3>6
  <2>6. CASE OnClose(s)
    <3>1. /\ sock'[s] = Free /\ \A q \in Sockets : q # s => sock'[q] = sock[q]
          /\ Free.pipe = <<>> /\ Free.tab = NoTab
      BY <1>1, <2>6 DEF OnClose, SocketsTyped, Free
    <3>2. \A q \in Sockets : Quiet(q)
      BY <3>1, QuietCases
    <3>3. NoNewFrames
      BY <3>1, RelayConstants DEF NoNewFrames, Live
    <3>4. PICK x : x = [tab[u] EXCEPT !.connected = FALSE, !.timer = TRUE]
      OBVIOUS
    <3>5. x.shown = tab[u].shown
      BY <2>4, <3>4 DEF PageType
    <3>6. tab' = tab \/ tab' = [tab EXCEPT ![u] = x]
      BY <2>3, <2>6, <3>4 DEF OnClose
    <3>7. \A t \in Tabs : ListKept(t)
      BY <1>3, <2>2, <3>5, <3>6
    <3> QED BY <3>2, <3>3, <3>7, QuietStep
  <2>7. CASE Head(sock[s].pipe).at = "frame" /\ OnMessage(s)
    BY <2>1, <2>7, ShowsInOrder
  <2> QED BY <1>6, <2>5, <2>6, <2>7 DEF SocketEvent
<1> QED BY <1>4, <1>5, <1>6 DEF SocketStep

LEMMA PageLists ==
  ASSUME Typed, NEW t \in Tabs,
         Retry(t) \/ (t \in AdminTabs /\ (Login(t) \/ Logout(t) \/ LoggedOut(t) \/ Reload(t)))
  PROVE  \E x : /\ tab' = [tab EXCEPT ![t] = x]
                /\ \A ch \in ToSet(Channels) : x.shown[ch] = tab[t].shown[ch] \/ x.shown[ch] = <<>>
<1>1. tab[t] \in PageType(issued)
  BY DEF Typed, PagesTyped, PageRight
<1>2. CASE Retry(t)
  <2>1. PICK x : x = [tab[t] EXCEPT !.timer = FALSE]
    OBVIOUS
  <2>2. x.shown = tab[t].shown
    BY <1>1, <2>1 DEF PageType
  <2> QED BY <1>2, <2>1, <2>2 DEF Retry
<1>3. CASE t \in AdminTabs /\ Login(t)
  <2>1. PICK x : x = [tab[t] EXCEPT !.token = issued + 1]
    OBVIOUS
  <2>2. x.shown = tab[t].shown
    BY <1>1, <2>1 DEF PageType
  <2> QED BY <1>3, <2>1, <2>2 DEF Login
<1>4. CASE t \in AdminTabs /\ Logout(t)
  <2>1. PICK x : x = [tab[t] EXCEPT !.leaving = TRUE]
    OBVIOUS
  <2>2. x.shown = tab[t].shown
    BY <1>1, <2>1 DEF PageType
  <2> QED BY <1>4, <2>1, <2>2 DEF Logout
<1>5. CASE t \in AdminTabs /\ LoggedOut(t)
  <2>1. PICK x : x = [tab[t] EXCEPT !.token = 0, !.leaving = FALSE, !.connected = FALSE, !.timer = FALSE]
    OBVIOUS
  <2>2. x.shown = tab[t].shown
    BY <1>1, <2>1 DEF PageType
  <2> QED BY <1>5, <2>1, <2>2 DEF LoggedOut
<1>6. CASE t \in AdminTabs /\ Reload(t)
  <2>1. PICK x : x = [NewPage EXCEPT !.token = SessionToken]
    OBVIOUS
  <2>2. \A ch \in ToSet(Channels) : x.shown[ch] = <<>>
    BY <2>1 DEF NewPage
  <2> QED BY <1>6, <2>1, <2>2 DEF Reload
<1> QED BY <1>2, <1>3, <1>4, <1>5, <1>6

LEMMA PageOrder ==
  ASSUME Typed, Typed', ConnInv, OrderInv, Settles, InboxInv', NEW t \in Tabs, PageStep(t)
  PROVE  OrderInv'
<1>1. /\ tab[t] \in PageType(issued) /\ tab = [u \in Tabs |-> tab[u]] /\ Attached(t)
      /\ sock = [s \in Sockets |-> sock[s]]
  BY DEF Typed, PagesTyped, PageRight, ConnInv, SocketsTyped
<1>2. ASSUME NEW x, tab' = [tab EXCEPT ![t] = x],
             \A ch \in ToSet(Channels) : x.shown[ch] = tab[t].shown[ch] \/ x.shown[ch] = <<>>
      PROVE  \A u \in Tabs : ListKept(u)
  BY <1>1, <1>2 DEF ListKept
<1>3. CASE sock' = sock
  <2>1. \A s \in Sockets : Quiet(s)
    BY <1>3, QuietCases
  <2>2. NoNewFrames
    BY <1>3 DEF NoNewFrames, Live
  <2>3. \A u \in Tabs : ListKept(u)
    <3>1. CASE tab' = tab
      BY <3>1 DEF ListKept
    <3>2. CASE tab' # tab
      <4>1. \/ t \in AdminTabs /\ (Logout(t) \/ LoggedOut(t) \/ Reload(t) \/ Login(t))
            \/ Retry(t)
        BY <3>2 DEF PageStep, Expire
      <4>2. PICK x : tab' = [tab EXCEPT ![t] = x] /\
                     \A ch \in ToSet(Channels) : x.shown[ch] = tab[t].shown[ch] \/ x.shown[ch] = <<>>
        BY <4>1, PageLists
      <4> QED BY <1>2, <4>2
    <3> QED BY <3>1, <3>2
  <2> QED BY <2>1, <2>2, <2>3, QuietStep
<1>4. CASE sock' # sock
  <2>1. Retry(t) \/ (t \in AdminTabs /\ (Login(t) \/ LoggedOut(t) \/ Reload(t)))
    BY <1>4 DEF PageStep, Expire, Logout
  <2>2. \A u \in Tabs : ListKept(u)
    <3>1. PICK x : tab' = [tab EXCEPT ![t] = x] /\
                   \A ch \in ToSet(Channels) : x.shown[ch] = tab[t].shown[ch] \/ x.shown[ch] = <<>>
      BY <2>1, PageLists
    <3> QED BY <1>2, <3>1
  <2>3. ASSUME \A s \in Sockets : sock'[s] = sock[s] \/ sock'[s].pipe = <<>> \/ sock'[s].pipe = <<Closed>>
        PROVE  \A s \in Sockets : Quiet(s)
    <3>1. ASSUME NEW s \in Sockets
          PROVE  Quiet(s)
      BY <2>3, QuietCases
    <3> QED BY <3>1
  <2>4. ASSUME NEW socks, NEW token, Dial(socks, t, token),
               socks = [s \in Sockets |-> socks[s]],
               \A s \in Sockets : socks[s].tab = t => socks[s].disposed,
               \A s \in Sockets : socks[s] = sock[s] \/ (sock[s].tab = t /\ socks[s] = Free)
        PROVE  OrderInv'
    <3>1. /\ \E c \in Sockets : Live(t)' = {c} /\ sock'[c].pipe = <<>>
          /\ \A s \in Sockets : sock'[s] = sock[s] \/ sock'[s].pipe = <<>>
          /\ \A u \in Tabs \ {t} : Live(u)' = Live(u)
      BY <2>4, Connecting
    <3>2. NoNewFrames
      BY <3>1 DEF NoNewFrames
    <3> QED BY <2>2, <2>3, <3>1, <3>2, QuietStep
  <2>5. CASE Retry(t) \/ (t \in AdminTabs /\ Login(t))
    <3>1. \E token : Dial(sock, t, token)
      BY <2>5 DEF Retry, Login
    <3>2. Live(t) = {}
      BY <1>1, <2>5 DEF Attached, Retry, Login
    <3>3. \A s \in Sockets : sock[s].tab = t => sock[s].disposed
      BY <3>2 DEF Live
    <3> QED BY <1>1, <2>4, <3>1, <3>3
  <2>6. CASE t \in AdminTabs /\ LoggedOut(t)
    <3>1. ASSUME NEW s \in Sockets
          PROVE  /\ sock'[s] = sock[s] \/ sock'[s].pipe = <<Closed>>
                 /\ sock'[s].tab = sock[s].tab /\ (sock'[s].disposed = sock[s].disposed \/ sock'[s].disposed)
      <4>1. sock[s] \in SocketType(issued)
        BY DEF Typed, SocketsTyped, SocketRight
      <4>2. PICK r : r = Dropped(sock[s], <<Closed>>)
        OBVIOUS
      <4>3. r.pipe = <<Closed>> /\ r.tab = sock[s].tab /\ r.disposed
        BY <4>1, <4>2 DEF Dropped, SocketType
      <4>4. sock'[s] = IF sock[s].tab # t \/ sock[s].disposed THEN sock[s] ELSE r
        BY <2>6, <4>2 DEF LoggedOut, Disposed, Dropped
      <4> QED BY <4>3, <4>4
    <3>2. NoNewFrames
      BY <3>1 DEF NoNewFrames, Live
    <3> QED BY <2>2, <2>3, <3>1, <3>2, QuietStep
  <2>7. CASE t \in AdminTabs /\ Reload(t)
    <3> DEFINE gone == [s \in Sockets |-> IF sock[s].tab = t THEN Free ELSE sock[s]]
    <3>1. sock' = gone \/ Dial(gone, t, SessionToken)
      BY <2>7 DEF Reload
    <3>2. /\ gone = [s \in Sockets |-> gone[s]]
          /\ \A s \in Sockets : gone[s].tab # t
          /\ \A s \in Sockets : gone[s] = sock[s] \/ (sock[s].tab = t /\ gone[s] = Free)
      BY RelayConstants DEF Free
    <3> HIDE DEF gone
    <3>3. CASE sock' = gone
      <4>1. Free.pipe = <<>> /\ Free.tab = NoTab
        BY DEF Free
      <4>2. \A s \in Sockets : sock'[s] = sock[s] \/ sock'[s].pipe = <<>>
        BY <3>2, <3>3, <4>1
      <4>3. NoNewFrames
        BY <3>2, <3>3, <4>1 DEF NoNewFrames, Live
      <4> QED BY <2>2, <2>3, <4>2, <4>3, QuietStep
    <3> QED BY <2>4, <3>1, <3>2, <3>3
  <2> QED BY <2>1, <2>5, <2>6, <2>7
<1> QED BY <1>3, <1>4

LEMMA OrderStep ==
  ASSUME Typed, ConnInv, OrderInv, [StreamNext]_streamVars
  PROVE  OrderInv'
<1>1. Typed' /\ Waiting
  BY TypedStep, StreamCases, WaitingCases
<1>2. Settles /\ InboxInv'
  BY <1>1, InboxSteps DEF OrderInv
<1>3. ASSUME tab' = tab, PlugsKept, \A s \in Sockets : Quiet(s)
      PROVE  OrderInv'
  <2>1. NoNewFrames /\ \A t \in Tabs : ListKept(t)
    BY <1>3 DEF PlugsKept, NoNewFrames, Live, ListKept
  <2> QED BY <1>1, <1>2, <1>3, <2>1, QuietStep
<1>4. CASE RelayStep
  <2>1. tab' = tab /\ PlugsKept
    BY <1>4, RelayPlugs
  <2>2. CASE RelayMessage
    BY <1>1, <1>2, <2>2, ForwardsInOrder
  <2>3. CASE Crash \/ Quit
    <3>1. ASSUME NEW s \in Sockets
          PROVE  Quiet(s)
      <4>1. sock[s] \in SocketType(issued) /\ sock[s].pipe \in Seq(Item)
        BY Numbers DEF Typed, SocketsTyped, SocketRight
      <4>2. PICK q : q = Append(sock[s].pipe, Closed)
        OBVIOUS
      <4>3. \A i \in DOMAIN q : q[i] = Closed \/ (i \in DOMAIN sock[s].pipe /\ q[i] = sock[s].pipe[i])
        BY <4>1, <4>2, Appended, ItemsOfPipe
      <4>4. PICK r : r = Hung(sock[s], q)
        OBVIOUS
      <4>5. r.pipe = q
        BY <4>1, <4>4 DEF Hung, SocketType
      <4>6. sock'[s] = IF sock[s].peer THEN r ELSE sock[s]
        BY <2>3, <4>2, <4>4 DEF Crash, Quit, Exit, HungUp, Hung
      <4> QED BY <1>1, <4>3, <4>5, <4>6, QuietCases
    <3> QED BY <1>3, <2>1, <3>1
  <2>4. CASE sock' = sock
    BY <1>1, <1>3, <2>1, <2>4, QuietCases
  <2> QED BY <1>4, <2>2, <2>3, <2>4
        DEF RelayStep, Start, Subscribe, SubscriberReconnects, Sigterm, Publish
<1>5. CASE Expire \/ UNCHANGED socketVars
  <2>1. sock' = sock /\ tab' = tab
    BY <1>5 DEF Expire, socketVars
  <2> QED BY <1>1, <1>3, <2>1, QuietCases DEF PlugsKept
<1> QED BY <1>1, <1>2, <1>4, <1>5, StreamCases, SocketOrder, PageOrder

LEMMA OrderInit == StreamInit => OrderInv
<1> SUFFICES ASSUME Init PROVE OrderInv
  BY DEF StreamInit
<1>1. inbox = <<>> /\ \A s \in Sockets : sock[s].pipe = <<>>
  BY DEF Init, Free
<1>2. \A t \in Tabs : \A ch \in ToSet(Channels) : tab[t].shown[ch] = <<>>
  BY DEF Init, NewPage
<1> QED BY <1>1, <1>2 DEF OrderInv, InboxInv, PipeInv, ListInv

LEMMA OrderHolds == FairStreamSpec => []OrderInv
BY TypedHolds, ConnHolds, OrderInit, OrderStep, PTL DEF FairStreamSpec

(* Across reconnects, restarts of the relay, reloads and logins a page     *)
(* shows no event twice and none above a later one of its channel          *)
(* (server.js:273-292, useWebSockets.js:38-115).                           *)
THEOREM EventsInOrder == FairStreamSpec => []ShownInOrder
<1>1. OrderInv => ShownInOrder
  BY DEF OrderInv, ListInv, ShownInOrder
<1> QED BY <1>1, OrderHolds, PTL

-----------------------------------------------------------------------------
(* The chips.  A card with a price has one, whatever the page keeps.       *)
Lit(m) ==
  LET c == chip[m]
  IN /\ c = [first |-> c.first, flash |-> c.flash, timer |-> c.timer]
     /\ c.flash \in {"none", "up", "down"} /\ c.timer \in BOOLEAN
     /\ (c.flash # "none" /\ ~c.timer) => Grid!Price(m, screen) = c.first

ChipInv ==
  /\ chip = [m \in Match |-> chip[m]]
  /\ \A m \in Match : IF Grid!Priced(m, screen) THEN Lit(m) ELSE chip[m] = Grid!NoChip

LEMMA ChipOfPrice ==
  ASSUME NEW c, NEW p, c = [first |-> c.first, flash |-> c.flash, timer |-> c.timer],
         c.flash \in {"none", "up", "down"}
  PROVE  /\ Grid!PriceChip(c, p).first = c.first
         /\ Grid!PriceChip(c, p).flash \in {"none", "up", "down"}
         /\ Grid!PriceChip(c, p).timer = (p # c.first)
         /\ Grid!PriceChip(c, p) = [first |-> c.first, flash |-> Grid!PriceChip(c, p).flash,
                                    timer |-> p # c.first]
<1>1. CASE p = c.first
  BY <1>1 DEF Grid!PriceChip
<1>2. CASE p # c.first
  BY <1>2 DEF Grid!PriceChip
<1> QED BY <1>1, <1>2

LEMMA ChipStep ==
  ASSUME ChipInv, [StreamNext]_streamVars
  PROVE  ChipInv'
<1>1. CASE UNCHANGED <<screen, chip>>
  BY <1>1 DEF ChipInv, Lit, Grid!Priced, Grid!Price, Grid!IndexIn, Grid!CardIn
<1>2. CASE Grid!Reload
  <2>1. screen' = <<>> /\ chip' = [m \in Match |-> Grid!NoChip]
    BY <1>2 DEF Grid!Reload
  <2>2. \A m \in Match : ~Grid!Priced(m, screen)'
    BY <2>1 DEF Grid!Priced, Grid!IndexIn
  <2> QED BY <2>1, <2>2 DEF ChipInv
<1>3. CASE Grid!Render
  <2>1. /\ screen' = matches
        /\ chip' = [m \in Match |->
             IF ~Grid!Priced(m, matches) THEN Grid!NoChip
             ELSE IF ~Grid!Priced(m, screen) THEN Grid!Mounted(Grid!Price(m, matches))
             ELSE IF Grid!Price(m, matches) = Grid!Price(m, screen) THEN chip[m]
             ELSE Grid!PriceChip(chip[m], Grid!Price(m, matches))]
    BY <1>3 DEF Grid!Render
  <2>2. ASSUME NEW m \in Match, Grid!Priced(m, screen)'
        PROVE  Lit(m)'
    <3>1. Grid!Priced(m, matches)
      BY <2>1, <2>2 DEF Grid!Priced, Grid!IndexIn, Grid!CardIn
    <3>2. PICK p : p = Grid!Price(m, matches)
      OBVIOUS
    <3>3. Grid!Price(m, screen)' = p
      BY <2>1, <3>2 DEF Grid!Price, Grid!IndexIn, Grid!CardIn
    <3>4. CASE ~Grid!Priced(m, screen)
      <4>1. chip'[m] = [first |-> p, flash |-> "none", timer |-> FALSE]
        BY <2>1, <3>1, <3>2, <3>4 DEF Grid!Mounted
      <4> QED BY <4>1 DEF Lit
    <3>5. CASE Grid!Priced(m, screen) /\ p = Grid!Price(m, screen)
      <4>1. chip'[m] = chip[m] /\ Lit(m)
        BY <2>1, <3>1, <3>2, <3>5 DEF ChipInv
      <4> QED BY <3>3, <3>5, <4>1 DEF Lit
    <3>6. CASE Grid!Priced(m, screen) /\ p # Grid!Price(m, screen)
      <4>1. Lit(m)
        BY <3>6 DEF ChipInv
      <4>2. PICK c : c = chip[m]
        OBVIOUS
      <4>3. PICK d : d = Grid!PriceChip(c, p)
        OBVIOUS
      <4>4. /\ c = [first |-> c.first, flash |-> c.flash, timer |-> c.timer]
            /\ c.flash \in {"none", "up", "down"}
        BY <4>1, <4>2 DEF Lit
      <4>5. /\ d.first = c.first /\ d.flash \in {"none", "up", "down"} /\ d.timer = (p # c.first)
            /\ d = [first |-> c.first, flash |-> d.flash, timer |-> p # c.first]
        BY <4>3, <4>4, ChipOfPrice
      <4>6. chip'[m] = d
        BY <2>1, <3>1, <3>2, <3>6, <4>2, <4>3
      <4>7. d = [first |-> d.first, flash |-> d.flash, timer |-> d.timer] /\ d.timer \in BOOLEAN
        BY <4>5
      <4>8. ~d.timer => p = d.first
        BY <4>5
      <4> QED BY <3>3, <4>5, <4>6, <4>7, <4>8 DEF Lit
    <3> QED BY <3>4, <3>5, <3>6
  <2>3. ASSUME NEW m \in Match, ~Grid!Priced(m, screen)'
        PROVE  chip'[m] = Grid!NoChip
    <3>1. ~Grid!Priced(m, matches)
      BY <2>1, <2>3 DEF Grid!Priced, Grid!IndexIn, Grid!CardIn
    <3> QED BY <2>1, <3>1
  <2>4. chip' = [m \in Match |-> chip'[m]]
    BY <2>1
  <2> QED BY <2>2, <2>3, <2>4 DEF ChipInv, Grid!NoChip
<1>4. ASSUME NEW m \in Match, Grid!FlashTimeout(m)
      PROVE  ChipInv'
  <2>1. /\ chip[m] # Grid!NoChip /\ screen' = screen
        /\ chip' = [chip EXCEPT ![m].flash = "none", ![m].timer = FALSE]
    BY <1>4 DEF Grid!FlashTimeout
  <2>2. Grid!Priced(m, screen) /\ Lit(m)
    BY <2>1 DEF ChipInv
  <2>3. PICK c : c = chip[m]
    OBVIOUS
  <2>4. c = [first |-> c.first, flash |-> c.flash, timer |-> c.timer]
    BY <2>2, <2>3 DEF Lit
  <2>5. PICK d : d = [[c EXCEPT !.flash = "none"] EXCEPT !.timer = FALSE]
    OBVIOUS
  <2>6. d = [first |-> c.first, flash |-> "none", timer |-> FALSE]
    BY <2>4, <2>5
  <2>7. chip'[m] = d /\ \A k \in Match : k # m => chip'[k] = chip[k]
    BY <2>1, <2>3, <2>5 DEF ChipInv
  <2>8. chip' = [k \in Match |-> chip'[k]]
    BY <2>1 DEF ChipInv
  <2>9. Lit(m)'
    BY <2>6, <2>7 DEF Lit
  <2>10. ASSUME NEW k \in Match, k # m
         PROVE  IF Grid!Priced(k, screen)' THEN Lit(k)' ELSE chip'[k] = Grid!NoChip
    <3>1. chip'[k] = chip[k]
      BY <2>7, <2>10
    <3>2. /\ Grid!Priced(k, screen)' <=> Grid!Priced(k, screen)
          /\ Grid!Price(k, screen)' = Grid!Price(k, screen)
      BY <2>1 DEF Grid!Priced, Grid!Price, Grid!IndexIn, Grid!CardIn
    <3>3. CASE Grid!Priced(k, screen)
      <4>1. Lit(k)
        BY <3>3 DEF ChipInv
      <4> QED BY <3>1, <3>2, <3>3, <4>1 DEF Lit
    <3>4. CASE ~Grid!Priced(k, screen)
      BY <3>1, <3>2, <3>4 DEF ChipInv, Grid!NoChip
    <3> QED BY <3>3, <3>4
  <2>11. Grid!Priced(m, screen)'
    BY <2>1, <2>2 DEF Grid!Priced, Grid!Price, Grid!IndexIn, Grid!CardIn
  <2> QED BY <2>8, <2>9, <2>10, <2>11 DEF ChipInv, Grid!NoChip
<1> QED BY <1>1, <1>2, <1>3, <1>4 DEF StreamNext, streamVars, gridVars, Grid!Next, Grid!Publish,
      Grid!Connect, Grid!Disconnect, Grid!OnMessage, Grid!pageVars

LEMMA ChipHolds == FairStreamSpec => []ChipInv
<1>1. StreamInit => ChipInv
  BY DEF StreamInit, Grid!Init, ChipInv, Grid!Priced, Grid!IndexIn
<1> QED BY <1>1, ChipStep, PTL DEF FairStreamSpec

(* A flash of a price has a timer that ends it, unless the price went back *)
(* to where it was when its card came up (LiveBetsGrid.jsx:50-62).         *)
THEOREM TimersOfFlashes == FairStreamSpec => []FlashesEnd
<1>1. ChipInv => FlashesEnd
  <2> SUFFICES ASSUME ChipInv, NEW m \in Match,
                      chip[m] # Grid!NoChip, chip[m].flash # "none", ~chip[m].timer
               PROVE  Grid!Price(m, screen) = chip[m].first
    BY DEF FlashesEnd, Grid!FlashesEnd
  <2> QED BY DEF ChipInv, Lit
<1> QED BY <1>1, ChipHolds, PTL

-----------------------------------------------------------------------------
(* What is left of the cards without those of a match.  Without is         *)
(* recursive: its function is built, and what it computes shown, by        *)
(* induction over the numbers.                                             *)
LEMMA LeastNat ==
  ASSUME NEW S \in SUBSET Nat, S # {}
  PROVE  \E n \in S : \A m \in S : n <= m
<1>1. PICK n \in S : \A m \in S : <<m, n>> \notin OpToRel(<, Nat)
  BY WFMin, NatLessThanWellFounded, Zenon
<1>2. \A m \in S : ~(m < n)
  BY <1>1, Zenon DEF OpToRel
<1> QED BY <1>2

(* Induction over the numbers up to n, with a set for the property.        *)
LEMMA Upward ==
  ASSUME NEW n \in Nat, NEW T, 0 \in T, \A i \in 0..n : i # 0 /\ i - 1 \in T => i \in T
  PROVE  0..n \subseteq T
<1> DEFINE S == {i \in 0..n : i \notin T}
<1>1. SUFFICES ASSUME S # {} PROVE FALSE
  OBVIOUS
<1>2. PICK m \in S : \A k \in S : m <= k
  <2>1. S \in SUBSET Nat
    OBVIOUS
  <2> HIDE DEF S
  <2> QED BY <1>1, <2>1, LeastNat
<1>3. m # 0 /\ m - 1 \in 0..n
  BY <1>2
<1>4. m - 1 \in T
  BY <1>2, <1>3
<1>5. m \in 0..n /\ m \notin T
  BY <1>2
<1> QED BY <1>3, <1>4, <1>5

(* g is the function that Without computes, up to card n.                  *)
Rest(g, m, cards, n) ==
  g = [i \in 0..n |-> IF i = 0 THEN <<>>
                      ELSE IF cards[i].match = m THEN g[i - 1]
                      ELSE Append(g[i - 1], cards[i])]

LEMMA RestExists ==
  ASSUME NEW m, NEW cards, NEW n \in Nat
  PROVE  \E g : Rest(g, m, cards, n)
<1> DEFINE T == {k \in Nat : \E g : Rest(g, m, cards, k)}
<1>1. 0 \in T
  <2>1. Rest([i \in 0..0 |-> <<>>], m, cards, 0)
    BY DEF Rest
  <2> QED BY <2>1
<1>2. ASSUME NEW k \in 0..n, k # 0, k - 1 \in T
      PROVE  k \in T
  <2>1. PICK g : Rest(g, m, cards, k - 1)
    BY <1>2
  <2> DEFINE h == [i \in 0..k |-> IF i < k THEN g[i]
                     ELSE IF cards[k].match = m THEN g[k - 1] ELSE Append(g[k - 1], cards[k])]
  <2>2. \A i \in 0..(k - 1) :
          g[i] = IF i = 0 THEN <<>>
                 ELSE IF cards[i].match = m THEN g[i - 1] ELSE Append(g[i - 1], cards[i])
    BY <2>1 DEF Rest
  <2>3. \A i \in 0..k : /\ i < k => i \in 0..(k - 1) /\ h[i] = g[i]
                        /\ i # 0 => i - 1 \in 0..k /\ h[i - 1] = g[i - 1]
                        /\ i < k \/ i = k
    OBVIOUS
  <2>4. \A i \in 0..k : h[i] = IF i = 0 THEN <<>>
                               ELSE IF cards[i].match = m THEN h[i - 1]
                               ELSE Append(h[i - 1], cards[i])
    BY <1>2, <2>2, <2>3
  <2>5. Rest(h, m, cards, k)
    BY <2>4 DEF Rest
  <2> QED BY <1>2, <2>5
<1> HIDE DEF T
<1>3. 0..n \subseteq T
  BY <1>1, <1>2, Upward
<1>4. n \in T
  BY <1>3
<1> QED BY <1>4 DEF T

LEMMA WithoutIs ==
  ASSUME NEW m, NEW cards, Len(cards) \in Nat
  PROVE  \E g : Rest(g, m, cards, Len(cards)) /\ Grid!Without(m, cards) = g[Len(cards)]
<1> DEFINE r == CHOOSE g : Rest(g, m, cards, Len(cards))
<1>1. Rest(r, m, cards, Len(cards))
  BY RestExists, Zenon
<1>2. Grid!Without(m, cards) = r[Len(cards)]
  BY DEF Grid!Without, Rest
<1> QED BY <1>1, <1>2

(* p is where the match m is among the cards, or the place behind them.    *)
At(p, m, cards) ==
  /\ p \in 1..(Len(cards) + 1)
  /\ \A i \in 1..Len(cards) : cards[i].match = m <=> i = p

(* The cards behind the one that is left out move up.                      *)
LEMMA WithoutMovesUp ==
  ASSUME NEW S, NEW cards \in Seq(S), NEW m, NEW p, At(p, m, cards)
  PROVE  /\ Grid!Without(m, cards) \in Seq(S)
         /\ Len(Grid!Without(m, cards)) = IF p <= Len(cards) THEN Len(cards) - 1 ELSE Len(cards)
         /\ \A i \in 1..Len(Grid!Without(m, cards)) :
              Grid!Without(m, cards)[i] = cards[IF i < p THEN i ELSE i + 1]
<1> DEFINE n == Len(cards)
<1>1. n \in Nat /\ p \in 1..(n + 1)
  BY DEF At
<1>2. PICK g : Rest(g, m, cards, n) /\ Grid!Without(m, cards) = g[n]
  BY <1>1, WithoutIs
<1> DEFINE T == {k \in 0..n :
                   /\ g[k] \in Seq(S)
                   /\ Len(g[k]) = IF p <= k THEN k - 1 ELSE k
                   /\ \A i \in 1..Len(g[k]) : g[k][i] = cards[IF i < p THEN i ELSE i + 1]}
<1>3. 0 \in T
  <2>1. g[0] = <<>>
    BY <1>1, <1>2 DEF Rest
  <2>2. <<>> \in Seq(S) /\ Len(<<>>) = 0 /\ 1..0 = {} /\ 0 \in 0..n /\ ~(p <= 0)
    BY <1>1
  <2> HIDE DEF n
  <2>3. Len(g[0]) = IF p <= 0 THEN 0 - 1 ELSE 0
    BY <2>1, <2>2
  <2>4. g[0] \in Seq(S) /\ 1..Len(g[0]) = {}
    BY <2>1, <2>2
  <2> QED BY <2>2, <2>3, <2>4, Zenon
<1>4. ASSUME NEW k \in 0..n, k # 0, k - 1 \in T
      PROVE  k \in T
  <2> DEFINE q == g[k - 1]
  <2>1. g[k] = IF cards[k].match = m THEN q ELSE Append(q, cards[k])
    BY <1>2, <1>4 DEF Rest
  <2>2. /\ q \in Seq(S) /\ Len(q) = (IF p <= k - 1 THEN (k - 1) - 1 ELSE k - 1)
        /\ \A i \in 1..Len(q) : q[i] = cards[IF i < p THEN i ELSE i + 1]
    BY <1>4
  <2>3. cards[k] \in S /\ k \in 1..n /\ (cards[k].match = m <=> k = p)
    BY <1>1, <1>4 DEF At
  <2> HIDE DEF q, n
  <2>4. CASE k = p
    <3>1. g[k] = q
      BY <2>1, <2>3, <2>4
    <3>2. Len(q) = k - 1
      BY <1>1, <2>2, <2>3, <2>4
    <3> QED BY <2>2, <2>3, <2>4, <3>1, <3>2
  <2>5. CASE k # p
    <3>1. g[k] = Append(q, cards[k])
      BY <2>1, <2>3, <2>5
    <3>2. /\ g[k] \in Seq(S) /\ Len(g[k]) = Len(q) + 1 /\ Len(q) \in Nat
          /\ \A i \in 1..Len(q) : g[k][i] = q[i]
          /\ g[k][Len(q) + 1] = cards[k]
      BY <2>2, <2>3, <3>1
    <3>3. Len(g[k]) = IF p <= k THEN k - 1 ELSE k
      BY <1>1, <2>2, <2>3, <2>5, <3>2
    <3>4. k = IF Len(q) + 1 < p THEN Len(q) + 1 ELSE (Len(q) + 1) + 1
      BY <1>1, <2>2, <2>3, <2>5
    <3>5. ASSUME NEW i \in 1..Len(g[k])
          PROVE  g[k][i] = cards[IF i < p THEN i ELSE i + 1]
      <4>1. CASE i \in 1..Len(q)
        BY <2>2, <3>2, <4>1
      <4>2. CASE i = Len(q) + 1
        BY <3>2, <3>4, <4>2
      <4> QED BY <3>2, <3>5, <4>1, <4>2
    <3> QED BY <2>3, <3>2, <3>3, <3>5
  <2> QED BY <2>4, <2>5
<1>5. n \in T
  <2> HIDE DEF T, n
  <2>1. 0..n \subseteq T
    BY <1>1, <1>3, <1>4, Upward
  <2> QED BY <1>1, <2>1
<1> QED BY <1>2, <1>5

(* The frame goes to the front, and the cards above the old one of its     *)
(* match, or all of them, move down; the last may fall off.                *)
LEMMA MovedIs ==
  ASSUME StreamAssumption,
         NEW S, NEW f \in S, matches \in Seq(S), Len(matches) <= Cap,
         NEW p, At(p, f.match, matches)
  PROVE  /\ Grid!Moved(f) \in Seq(S) /\ Len(Grid!Moved(f)) \in 1..Cap
         /\ Grid!Moved(f)[1] = f
         /\ p <= Len(matches) => Len(Grid!Moved(f)) = Len(matches)
         /\ p > Len(matches) =>
              Len(Grid!Moved(f)) = IF Len(matches) < Cap THEN Len(matches) + 1 ELSE Cap
         /\ \A i \in 2..Len(Grid!Moved(f)) :
              Grid!Moved(f)[i] = matches[IF i <= p THEN i - 1 ELSE i]
<1> DEFINE n == Len(matches)
           w == Grid!Without(f.match, matches)
           s == <<f>> \o w
           k == IF Len(s) < Cap THEN Len(s) ELSE Cap
<1>1. n \in Nat /\ Cap \in Nat \ {0} /\ p \in 1..(n + 1)
  BY DEF At, StreamAssumption, Grid!LiveGridAssumption
<1>2. /\ w \in Seq(S) /\ Len(w) = (IF p <= n THEN n - 1 ELSE n)
      /\ \A i \in 1..Len(w) : w[i] = matches[IF i < p THEN i ELSE i + 1]
  BY WithoutMovesUp
<1>3. Grid!Moved(f) = SubSeq(s, 1, k)
  BY DEF Grid!Moved, Grid!Shortened
<1> HIDE DEF w
<1>4. /\ s \in Seq(S) /\ Len(s) = 1 + Len(w) /\ s[1] = f
      /\ \A i \in 2..Len(s) : s[i] = w[i - 1]
  BY <1>2
<1>5. Len(w) \in Nat /\ k \in 1..Cap /\ k <= Len(s)
  BY <1>1, <1>2, <1>4
<1> HIDE DEF s, k
<1>6. /\ Grid!Moved(f) \in Seq(S) /\ Len(Grid!Moved(f)) = k
      /\ \A i \in 1..k : Grid!Moved(f)[i] = s[i]
  BY <1>1, <1>3, <1>4, <1>5
<1> HIDE DEF n
<1>7. /\ p <= n => k = n
      /\ p > n => k = IF n < Cap THEN n + 1 ELSE Cap
  <2>1. n <= Cap
    BY DEF n
  <2> QED BY <1>1, <1>2, <1>4, <2>1 DEF k
<1>8. ASSUME NEW i \in 2..k
      PROVE  Grid!Moved(f)[i] = matches[IF i <= p THEN i - 1 ELSE i]
  <2>1. Grid!Moved(f)[i] = s[i] /\ s[i] = w[i - 1] /\ i - 1 \in 1..Len(w)
    <3>1. PICK ls, lw : ls = Len(s) /\ lw = Len(w)
      OBVIOUS
    <3>2. ls = 1 + lw /\ lw \in Nat /\ k \in Nat /\ k <= ls
      BY <1>4, <1>5, <3>1
    <3>3. i \in 1..k /\ i \in 2..ls /\ i - 1 \in 1..lw
      BY <3>2
    <3> QED BY <1>4, <1>6, <3>1, <3>3, Zenon
  <2>2. w[i - 1] = matches[IF i - 1 < p THEN i - 1 ELSE (i - 1) + 1]
    BY <1>2, <2>1
  <2>3. (i - 1 < p <=> i <= p) /\ (i - 1) + 1 = i
    BY <1>1, <1>5
  <2> QED BY <2>1, <2>2, <2>3
<1>9. Grid!Moved(f)[1] = f
  BY <1>4, <1>5, <1>6
<1> QED BY <1>5, <1>6, <1>7, <1>8, <1>9 DEF n

-----------------------------------------------------------------------------
(* The types of the grid.                                                  *)
NoneTwice(cards) == \A i, j \in DOMAIN cards : cards[i].match = cards[j].match => i = j

CardsType(cards) == cards \in Seq(Grid!Frame) /\ Len(cards) <= Cap /\ NoneTwice(cards)

GridTyped ==
  /\ sent \in 0..MaxFrames
  /\ wire \in Seq(Grid!Frame)
  /\ connected \in BOOLEAN
  /\ CardsType(matches) /\ CardsType(screen)
  /\ lastEvent \in Grid!Frame \cup {Grid!None}
  /\ chip \in [Match -> Grid!Chip \cup {Grid!NoChip}]
  /\ told \in [Match -> Grid!Frame \cup {Grid!None}]
  /\ faults \in 0..MaxFaults

LEMMA PlaceOf ==
  ASSUME NEW cards \in Seq(Grid!Frame), NoneTwice(cards), NEW m
  PROVE  \E p : At(p, m, cards)
<1>1. CASE \E i \in 1..Len(cards) : cards[i].match = m
  <2>1. PICK i \in 1..Len(cards) : cards[i].match = m
    BY <1>1
  <2>2. \A j \in 1..Len(cards) : cards[j].match = m => j = i
    BY <2>1 DEF NoneTwice
  <2>3. i \in 1..(Len(cards) + 1)
    BY <2>1
  <2> QED BY <2>1, <2>2, <2>3 DEF At
<1>2. CASE ~\E i \in 1..Len(cards) : cards[i].match = m
  <2>1. At(Len(cards) + 1, m, cards)
    <3>1. Len(cards) + 1 \in 1..(Len(cards) + 1) /\ \A i \in 1..Len(cards) : i # Len(cards) + 1
      OBVIOUS
    <3> QED BY <1>2, <3>1 DEF At
  <2> QED BY <2>1
<1> QED BY <1>1, <1>2

LEMMA MovedTyped ==
  ASSUME StreamAssumption, CardsType(matches), NEW f \in Grid!Frame
  PROVE  CardsType(Grid!Moved(f))
<1>1. matches \in Seq(Grid!Frame) /\ Len(matches) <= Cap /\ NoneTwice(matches)
  BY DEF CardsType
<1>2. PICK p : At(p, f.match, matches)
  BY <1>1, PlaceOf
<1>3. PICK c : c = Grid!Moved(f)
  OBVIOUS
<1>4. /\ c \in Seq(Grid!Frame) /\ Len(c) \in 1..Cap /\ c[1] = f
      /\ p <= Len(matches) => Len(c) = Len(matches)
      /\ p > Len(matches) => Len(c) = IF Len(matches) < Cap THEN Len(matches) + 1 ELSE Cap
      /\ \A i \in 2..Len(c) : c[i] = matches[IF i <= p THEN i - 1 ELSE i]
  BY <1>1, <1>2, <1>3, MovedIs
<1>5. /\ p \in 1..(Len(matches) + 1) /\ Len(matches) \in Nat /\ Cap \in Nat \ {0}
      /\ \A i \in 1..Len(matches) : matches[i].match = f.match <=> i = p
  BY <1>1, <1>2 DEF At, StreamAssumption, Grid!LiveGridAssumption
<1> DEFINE from(i) == IF i <= p THEN i - 1 ELSE i
<1>6. \A i \in 2..Len(c) : from(i) \in 1..Len(matches) /\ from(i) # p
  BY <1>1, <1>4, <1>5
<1>7. \A i, j \in 2..Len(c) : from(i) = from(j) => i = j
  BY <1>5
<1>8. \A i \in 2..Len(c) : c[i] = matches[from(i)]
  BY <1>4
<1> HIDE DEF from
<1>9. \A i \in 2..Len(c) : c[i].match # f.match
  BY <1>5, <1>6, <1>8
<1>10. \A i, j \in 2..Len(c) : c[i].match = c[j].match => i = j
  <2>1. \A i, j \in 1..Len(matches) : matches[i].match = matches[j].match => i = j
    BY <1>1 DEF NoneTwice
  <2> QED BY <1>6, <1>7, <1>8, <2>1
<1>11. \A i \in DOMAIN c : i = 1 \/ i \in 2..Len(c)
  BY <1>4
<1>12. NoneTwice(c)
  BY <1>4, <1>9, <1>10, <1>11 DEF NoneTwice
<1>13. Len(c) <= Cap
  BY <1>4, <1>5
<1> QED BY <1>3, <1>4, <1>12, <1>13 DEF CardsType

LEMMA GridTypedInit == StreamAssumption /\ StreamInit => GridTyped
<1> SUFFICES ASSUME StreamAssumption, StreamInit PROVE GridTyped
  OBVIOUS
<1>1. Grid!Init
  BY DEF StreamInit
<1>2. CardsType(<<>>)
  BY DEF CardsType, NoneTwice, StreamAssumption, Grid!LiveGridAssumption
<1>3. /\ MaxFrames \in Nat /\ MaxFaults \in Nat
      /\ chip \in [Match -> Grid!Chip \cup {Grid!NoChip}]
      /\ told \in [Match -> Grid!Frame \cup {Grid!None}]
  BY <1>1 DEF Grid!Init, StreamAssumption, Grid!LiveGridAssumption
<1>4. sent \in 0..MaxFrames /\ faults \in 0..MaxFaults
  BY <1>1, <1>3 DEF Grid!Init
<1>5. CardsType(matches) /\ CardsType(screen)
  BY <1>1, <1>2, Zenon DEF Grid!Init
<1>6. connected \in BOOLEAN /\ lastEvent \in {Grid!None}
  BY <1>1, Zenon DEF Grid!Init
<1>7. wire \in Seq(Grid!Frame)
  <2>1. wire = <<>>
    BY <1>1 DEF Grid!Init
  <2> QED BY <2>1
<1> QED BY <1>3, <1>4, <1>5, <1>6, <1>7, Zenon DEF GridTyped

(* Prices of cards are numbers, and chips of such prices are chips.        *)
LEMMA PriceTyped ==
  ASSUME StreamAssumption, NEW cards \in Seq(Grid!Frame), NEW m, Grid!Priced(m, cards)
  PROVE  Grid!Price(m, cards) \in Nat
<1>1. PICK i \in DOMAIN cards : Grid!CardIn(m, cards) = cards[i]
  BY DEF Grid!Priced, Grid!IndexIn, Grid!CardIn
<1>2. cards[i] \in Grid!Frame
  BY <1>1
<1>3. cards[i].markets \in Seq([{"home", "draw", "away"} -> Nat]) /\ cards[i].markets # <<>>
  BY <1>1, <1>2 DEF Grid!Priced, Grid!Frame, Grid!Sides, StreamAssumption, Grid!LiveGridAssumption
<1>4. Head(cards[i].markets) \in [{"home", "draw", "away"} -> Nat]
  BY <1>3
<1> QED BY <1>1, <1>4 DEF Grid!Price

LEMMA PriceChipTyped ==
  ASSUME NEW c \in Grid!Chip, NEW p
  PROVE  Grid!PriceChip(c, p) \in Grid!Chip
<1>1. c = [first |-> c.first, flash |-> c.flash, timer |-> c.timer]
      /\ c.first \in Nat /\ c.flash \in {"none", "up", "down"} /\ c.timer \in BOOLEAN
  BY DEF Grid!Chip
<1> HIDE DEF Grid!Chip
<1>2. PICK d : d = Grid!PriceChip(c, p)
  OBVIOUS
<1>3. /\ d = [first |-> c.first, flash |-> d.flash, timer |-> p # c.first]
      /\ d.flash \in {"none", "up", "down"}
  BY <1>1, <1>2, ChipOfPrice
<1>4. PICK b \in BOOLEAN : b = (p # c.first)
  BY Zenon
<1>5. d = [first |-> c.first, flash |-> d.flash, timer |-> b]
  BY <1>3, <1>4, Zenon
<1> QED BY <1>1, <1>2, <1>3, <1>5 DEF Grid!Chip

LEMMA ChipTypedStep ==
  ASSUME StreamAssumption, GridTyped, ChipInv, Grid!Render \/ \E m \in Match : Grid!FlashTimeout(m)
  PROVE  chip' \in [Match -> Grid!Chip \cup {Grid!NoChip}]
<1>1. CASE Grid!Render
  <2>1. chip' = [m \in Match |->
             IF ~Grid!Priced(m, matches) THEN Grid!NoChip
             ELSE IF ~Grid!Priced(m, screen) THEN Grid!Mounted(Grid!Price(m, matches))
             ELSE IF Grid!Price(m, matches) = Grid!Price(m, screen) THEN chip[m]
             ELSE Grid!PriceChip(chip[m], Grid!Price(m, matches))]
    BY <1>1 DEF Grid!Render
  <2>2. SUFFICES ASSUME NEW m \in Match PROVE chip'[m] \in Grid!Chip \cup {Grid!NoChip}
    BY <2>1
  <2>3. chip[m] \in Grid!Chip \cup {Grid!NoChip} /\ matches \in Seq(Grid!Frame)
    BY DEF GridTyped, CardsType
  <2>4. CASE ~Grid!Priced(m, matches)
    BY <2>1, <2>4
  <2>5. CASE Grid!Priced(m, matches) /\ ~Grid!Priced(m, screen)
    <3>1. PICK p \in Nat : p = Grid!Price(m, matches)
      BY <2>3, <2>5, PriceTyped
    <3>2. chip'[m] = [first |-> p, flash |-> "none", timer |-> FALSE]
      BY <2>1, <2>5, <3>1 DEF Grid!Mounted
    <3> QED BY <3>1, <3>2 DEF Grid!Chip
  <2>6. CASE /\ Grid!Priced(m, matches) /\ Grid!Priced(m, screen)
             /\ Grid!Price(m, matches) = Grid!Price(m, screen)
    BY <2>1, <2>3, <2>6
  <2>7. CASE /\ Grid!Priced(m, matches) /\ Grid!Priced(m, screen)
             /\ Grid!Price(m, matches) # Grid!Price(m, screen)
    <3>1. chip'[m] = Grid!PriceChip(chip[m], Grid!Price(m, matches))
      BY <2>1, <2>7
    <3>2. PICK p : p = Grid!Price(m, matches)
      OBVIOUS
    <3>3. PICK c : c = chip[m]
      OBVIOUS
    <3>4. c \in Grid!Chip
      <4>1. c.flash \in {"none", "up", "down"}
        BY <2>7, <3>3 DEF ChipInv, Lit
      <4>2. c # Grid!NoChip
        BY <4>1 DEF Grid!NoChip
      <4> QED BY <2>3, <3>3, <4>2
    <3>5. Grid!PriceChip(c, p) \in Grid!Chip
      BY <3>4, PriceChipTyped
    <3> QED BY <3>1, <3>2, <3>3, <3>5
  <2> QED BY <2>4, <2>5, <2>6, <2>7
<1>2. ASSUME NEW m \in Match, Grid!FlashTimeout(m)
      PROVE  chip' \in [Match -> Grid!Chip \cup {Grid!NoChip}]
  <2>1. PICK c : c = chip[m]
    OBVIOUS
  <2>2. chip \in [Match -> Grid!Chip \cup {Grid!NoChip}]
    BY DEF GridTyped
  <2>3. chip' = [chip EXCEPT ![m].flash = "none", ![m].timer = FALSE] /\ c # Grid!NoChip
    BY <1>2, <2>1 DEF Grid!FlashTimeout
  <2>4. c \in Grid!Chip
    BY <2>1, <2>2, <2>3
  <2>5. PICK d : d = [[c EXCEPT !.flash = "none"] EXCEPT !.timer = FALSE]
    OBVIOUS
  <2>6. d \in Grid!Chip
    BY <2>4, <2>5 DEF Grid!Chip
  <2>7. chip' = [chip EXCEPT ![m] = d]
    BY <2>1, <2>2, <2>3, <2>5
  <2> QED BY <2>2, <2>6, <2>7
<1> QED BY <1>1, <1>2

LEMMA GridTypedStep ==
  ASSUME StreamAssumption, Typed', GridTyped, ChipInv, [StreamNext]_streamVars
  PROVE  GridTyped'
<1>1. CASE UNCHANGED gridVars
  <2>1. faults' \in 0..MaxFaults
    BY DEF Typed
  <2> QED BY <1>1, <2>1 DEF GridTyped, gridVars, CardsType, NoneTwice
<1>2. CASE Grid!Next
  <2>1. ASSUME NEW m \in Match, NEW markets \in Books, Grid!Publish(m, markets)
        PROVE  GridTyped'
    <3>1. PICK f : f = [match |-> m, n |-> sent + 1, markets |-> markets]
      OBVIOUS
    <3>2. /\ sent < MaxFrames /\ sent' = sent + 1
          /\ wire' = IF connected THEN Append(wire, f) ELSE wire
          /\ UNCHANGED <<connected, matches, lastEvent, screen, chip, told, faults>>
      BY <2>1, <3>1 DEF Grid!Publish, Grid!pageVars
    <3>3. sent \in 0..MaxFrames /\ MaxFrames \in Nat /\ wire \in Seq(Grid!Frame)
      BY DEF GridTyped, StreamAssumption, Grid!LiveGridAssumption
    <3>4. sent' \in 0..MaxFrames /\ sent + 1 \in 1..MaxFrames
      BY <3>2, <3>3
    <3>5. f \in Grid!Frame
      BY <3>1, <3>4 DEF Grid!Frame
    <3>6. wire' \in Seq(Grid!Frame)
      BY <3>2, <3>3, <3>5
    <3>7. CardsType(matches)' /\ CardsType(screen)'
      BY <3>2 DEF GridTyped, CardsType, NoneTwice
    <3> QED BY <3>2, <3>4, <3>6, <3>7 DEF GridTyped
  <2>2. CASE Grid!Connect
    BY <2>2 DEF Grid!Connect, Grid!pageVars, GridTyped, CardsType, NoneTwice
  <2>3. CASE Grid!Disconnect
    <3>1. /\ faults < MaxFaults /\ faults' = faults + 1 /\ connected' = FALSE /\ wire' = <<>>
          /\ UNCHANGED <<sent, matches, lastEvent, screen, chip, told>>
      BY <2>3 DEF Grid!Disconnect, Grid!Fault, Grid!pageVars
    <3>2. faults' \in 0..MaxFaults
      BY <3>1 DEF GridTyped, StreamAssumption, Grid!LiveGridAssumption
    <3>3. CardsType(matches)' /\ CardsType(screen)'
      BY <3>1 DEF GridTyped, CardsType, NoneTwice
    <3>4. <<>> \in Seq(Grid!Frame)
      OBVIOUS
    <3> QED BY <3>1, <3>2, <3>3, <3>4 DEF GridTyped
  <2>4. CASE Grid!Reload
    <3>1. /\ faults < MaxFaults /\ faults' = faults + 1 /\ connected' = FALSE /\ wire' = <<>>
          /\ matches' = <<>> /\ lastEvent' = Grid!None /\ screen' = <<>>
          /\ chip' = [m \in Match |-> Grid!NoChip] /\ told' = [m \in Match |-> Grid!None]
          /\ sent' = sent
      BY <2>4 DEF Grid!Reload, Grid!Fault
    <3>2. faults' \in 0..MaxFaults
      BY <3>1 DEF GridTyped, StreamAssumption, Grid!LiveGridAssumption
    <3>3. CardsType(<<>>)
      BY DEF CardsType, NoneTwice, StreamAssumption, Grid!LiveGridAssumption
    <3>4. CardsType(matches)' /\ CardsType(screen)'
      BY <3>1, <3>3 DEF CardsType, NoneTwice
    <3>5. <<>> \in Seq(Grid!Frame)
      OBVIOUS
    <3>6. /\ chip' \in [Match -> Grid!Chip \cup {Grid!NoChip}]
          /\ told' \in [Match -> Grid!Frame \cup {Grid!None}]
      BY <3>1
    <3> QED BY <3>1, <3>2, <3>4, <3>5, <3>6 DEF GridTyped
  <2>5. CASE Grid!OnMessage
    <3>1. PICK f : f = Head(wire)
      OBVIOUS
    <3>2. /\ wire # <<>> /\ wire' = Tail(wire) /\ matches' = Grid!Moved(f) /\ lastEvent' = f
          /\ told' = [told EXCEPT ![f.match] = f]
          /\ UNCHANGED <<sent, connected, screen, chip, faults>>
      BY <2>5, <3>1 DEF Grid!OnMessage
    <3>3. f \in Grid!Frame /\ wire' \in Seq(Grid!Frame)
      BY <3>1, <3>2 DEF GridTyped
    <3>4. CardsType(Grid!Moved(f))
      BY <3>3, MovedTyped DEF GridTyped
    <3>5. CardsType(matches)' /\ CardsType(screen)'
      BY <3>2, <3>4 DEF GridTyped, CardsType, NoneTwice
    <3>6. told' \in [Match -> Grid!Frame \cup {Grid!None}]
      BY <3>2, <3>3 DEF GridTyped
    <3> QED BY <3>2, <3>3, <3>5, <3>6 DEF GridTyped
  <2>6. CASE Grid!Render
    <3>1. /\ screen' = matches
          /\ UNCHANGED <<sent, wire, connected, matches, lastEvent, told, faults>>
      BY <2>6 DEF Grid!Render
    <3>2. chip' \in [Match -> Grid!Chip \cup {Grid!NoChip}]
      BY <2>6, ChipTypedStep
    <3>3. CardsType(matches)' /\ CardsType(screen)'
      BY <3>1 DEF GridTyped, CardsType, NoneTwice
    <3> QED BY <3>1, <3>2, <3>3 DEF GridTyped
  <2>7. ASSUME NEW m \in Match, Grid!FlashTimeout(m)
        PROVE  GridTyped'
    <3>1. UNCHANGED <<sent, wire, connected, matches, lastEvent, screen, told, faults>>
      BY <2>7 DEF Grid!FlashTimeout
    <3>2. chip' \in [Match -> Grid!Chip \cup {Grid!NoChip}]
      BY <2>7, ChipTypedStep
    <3> QED BY <3>1, <3>2 DEF GridTyped, CardsType, NoneTwice
  <2> QED BY <1>2, <2>1, <2>2, <2>3, <2>4, <2>5, <2>6, <2>7 DEF Grid!Next
<1> QED BY <1>1, <1>2 DEF StreamNext, streamVars

LEMMA GridTypedHolds == FairStreamSpec => []GridTyped
BY StreamAssumption, TypedHolds, ChipHolds, GridTypedInit, GridTypedStep, PTL DEF FairStreamSpec

SideTyped == side \in {"sockets", "grid"}

(* No list is longer than its page keeps, and the grid shows no match      *)
(* twice (useWebSockets.js:64-69).                                         *)
THEOREM StreamTypes == FairStreamSpec => []StreamTypeOK
<1>1. StreamInit => SideTyped
  BY DEF StreamInit, SideTyped
<1>2. SideTyped /\ [StreamNext]_streamVars => SideTyped'
  BY DEF StreamNext, streamVars, SideTyped
<1>3. ASSUME GridTyped PROVE Grid!TypeOK
  <2>1. \A cards \in {matches, screen} :
          /\ Len(cards) <= Cap
          /\ \A i, j \in DOMAIN cards : cards[i].match = cards[j].match => i = j
    BY <1>3 DEF GridTyped, CardsType, NoneTwice
  <2> QED BY <1>3, <2>1 DEF GridTyped, CardsType, Grid!TypeOK
<1>4. SideTyped /\ Typed /\ GridTyped => StreamTypeOK
  BY <1>3, TypedIsTypeOK DEF StreamTypeOK, SideTyped
<1> QED BY <1>1, <1>2, <1>4, TypedHolds, GridTypedHolds, PTL DEF FairStreamSpec

-----------------------------------------------------------------------------
(* The newest frames.  What waits in the wire is newer than all the page   *)
(* has heard of; the cards are the newest frames of their matches, in      *)
(* descending order; and a match that fell off has left a full page of     *)
(* newer ones behind.                                                      *)
Known == {m \in Match : told[m] # Grid!None}

WireInv ==
  /\ \A i \in DOMAIN wire : wire[i].n <= sent /\ \A m \in Match : told[m].n < wire[i].n
  /\ \A i, j \in DOMAIN wire : i < j => wire[i].n < wire[j].n

ToldInv ==
  /\ \A m \in Match : told[m].n \in 0..sent
  /\ \A m \in Known : told[m].match = m /\ told[m] \in Grid!Frame
  /\ \A m, r \in Known : told[m].n = told[r].n => m = r

CardsInv ==
  /\ \A i, j \in DOMAIN matches : i < j => matches[j].n < matches[i].n
  /\ \A i \in DOMAIN matches : matches[i].match \in Known /\ matches[i] = told[matches[i].match]
  /\ \A m \in Known : (\A i \in DOMAIN matches : matches[i].match # m) =>
       Len(matches) = Cap /\ \A i \in DOMAIN matches : told[m].n < matches[i].n
  /\ matches # <<>> => lastEvent = Head(matches)

Latest == WireInv /\ ToldInv /\ CardsInv

LEMMA NumberOfNone == Grid!None.n = 0 /\ Grid!None \notin Grid!Frame
<1>1. Grid!None.n = 0
  BY DEF Grid!None
<1>2. \A f \in Grid!Frame : f.n \in 1..MaxFrames
  BY DEF Grid!Frame
<1> QED BY <1>1, <1>2

LEMMA LatestInit == StreamInit => Latest
<1> SUFFICES ASSUME StreamInit PROVE Latest
  OBVIOUS
<1>1. /\ sent = 0 /\ wire = <<>> /\ matches = <<>>
      /\ told = [m \in Match |-> Grid!None]
  BY DEF StreamInit, Grid!Init
<1>2. Known = {} /\ \A m \in Match : told[m].n = 0
  BY <1>1, NumberOfNone DEF Known
<1> QED BY <1>1, <1>2 DEF Latest, WireInv, ToldInv, CardsInv

LEMMA WireStep ==
  ASSUME StreamAssumption, GridTyped, Latest, Grid!Next
  PROVE  WireInv'
<1>1. CASE UNCHANGED <<sent, wire, told>>
  BY <1>1 DEF Latest, WireInv
<1>2. CASE wire' = <<>>
  BY <1>2 DEF WireInv
<1>3. ASSUME NEW m \in Match, NEW markets \in Books, Grid!Publish(m, markets)
      PROVE  WireInv'
  <2>1. PICK f : f = [match |-> m, n |-> sent + 1, markets |-> markets]
    OBVIOUS
  <2>2. /\ sent' = sent + 1 /\ told' = told /\ sent \in Nat
        /\ wire' = IF connected THEN Append(wire, f) ELSE wire
    BY <1>3, <2>1 DEF Grid!Publish, Grid!pageVars, GridTyped
  <2>3. wire \in Seq(Grid!Frame)
    BY DEF GridTyped
  <2>4. /\ \A i \in DOMAIN wire : wire[i].n \in Nat /\ wire[i].n <= sent
        /\ \A i \in DOMAIN wire : \A r \in Match : told[r].n < wire[i].n
        /\ \A i, j \in DOMAIN wire : i < j => wire[i].n < wire[j].n
    <3>1. \A i \in DOMAIN wire : wire[i] \in Grid!Frame
      BY <2>3
    <3>2. \A g \in Grid!Frame : g.n \in Nat
      BY DEF Grid!Frame
    <3> QED BY <3>1, <3>2 DEF Latest, WireInv
  <2>5. \A r \in Match : told[r].n \in 0..sent
    BY DEF Latest, ToldInv
  <2>6. CASE ~connected
    BY <2>2, <2>4, <2>6 DEF WireInv
  <2>7. CASE connected
    <3>1. f.n = sent + 1
      BY <2>1
    <3>2. PICK w : w = Append(wire, f)
      OBVIOUS
    <3>3. /\ DOMAIN w = 1..(Len(wire) + 1) /\ Len(wire) \in Nat /\ DOMAIN wire = 1..Len(wire)
          /\ \A i \in 1..Len(wire) : w[i] = wire[i]
          /\ w[Len(wire) + 1] = f
      BY <2>3, <3>2
    <3>4. \A i \in DOMAIN w : i \in DOMAIN wire \/ i = Len(wire) + 1
      BY <3>3
    <3>5. \A i \in DOMAIN w : w[i].n <= sent + 1
      BY <2>2, <2>4, <3>1, <3>3, <3>4
    <3>6. \A i \in DOMAIN w : \A r \in Match : told[r].n < w[i].n
      BY <2>2, <2>4, <2>5, <3>1, <3>3, <3>4
    <3>7. \A i, j \in DOMAIN w : i < j => w[i].n < w[j].n
      <4>1. ASSUME NEW i \in DOMAIN w, NEW j \in DOMAIN w, i < j PROVE w[i].n < w[j].n
        <5>1. i \in DOMAIN wire /\ w[i] = wire[i]
          BY <3>3, <4>1
        <5>2. CASE j \in DOMAIN wire
          BY <2>4, <3>3, <4>1, <5>1, <5>2
        <5>3. CASE j = Len(wire) + 1
          BY <2>2, <2>4, <3>1, <3>3, <5>1, <5>3
        <5> QED BY <3>4, <5>2, <5>3
      <4> QED BY <4>1
    <3>8. wire' = w
      BY <2>2, <2>7, <3>2
    <3> QED BY <2>2, <3>5, <3>6, <3>7, <3>8 DEF WireInv
  <2> QED BY <2>6, <2>7
<1>4. CASE Grid!OnMessage
  <2>1. PICK f : f = Head(wire)
    OBVIOUS
  <2>2. /\ wire # <<>> /\ wire' = Tail(wire) /\ sent' = sent
        /\ told' = [told EXCEPT ![f.match] = f] /\ wire \in Seq(Grid!Frame)
    BY <1>4, <2>1 DEF Grid!OnMessage, GridTyped
  <2>3. PICK w : w = Tail(wire)
    OBVIOUS
  <2>4. /\ Len(wire) \in Nat \ {0} /\ f = wire[1] /\ DOMAIN w = 1..(Len(wire) - 1)
        /\ \A i \in DOMAIN w : i + 1 \in DOMAIN wire /\ w[i] = wire[i + 1]
        /\ 1 \in DOMAIN wire
    BY <2>1, <2>2, <2>3
  <2>5. /\ \A i \in DOMAIN wire : wire[i].n <= sent
        /\ \A i \in DOMAIN wire : \A r \in Match : told[r].n < wire[i].n
        /\ \A i, j \in DOMAIN wire : i < j => wire[i].n < wire[j].n
    BY DEF Latest, WireInv
  <2>6. \A i \in DOMAIN w : w[i].n <= sent /\ f.n < w[i].n
    BY <2>4, <2>5
  <2>7. \A i \in DOMAIN w : \A r \in Match : told[r].n < w[i].n
    BY <2>4, <2>5
  <2>8. \A r \in Match : told'[r] \in {told[r], f}
    BY <2>2 DEF GridTyped
  <2>9. ASSUME NEW i \in DOMAIN w, NEW j \in DOMAIN w, i < j
        PROVE  w[i].n < w[j].n
    <3>1. i + 1 \in DOMAIN wire /\ j + 1 \in DOMAIN wire /\ i + 1 < j + 1
      BY <2>4, <2>9
    <3>2. wire[i + 1].n < wire[j + 1].n
      BY <2>5, <3>1
    <3> QED BY <2>4, <3>2
  <2>10. wire' = w
    BY <2>2, <2>3
  <2> HIDE DEF WireInv
  <2>11. \A i \in DOMAIN w : \A r \in Match : told'[r].n < w[i].n
    BY <2>6, <2>7, <2>8
  <2> QED BY <2>2, <2>6, <2>9, <2>10, <2>11 DEF WireInv
<1> QED BY <1>1, <1>2, <1>3, <1>4 DEF Grid!Next, Grid!Connect, Grid!Disconnect, Grid!Reload,
      Grid!Render, Grid!FlashTimeout, Grid!pageVars

LEMMA ToldStep ==
  ASSUME StreamAssumption, GridTyped, Latest, Grid!Next
  PROVE  ToldInv'
<1>1. CASE UNCHANGED <<sent, told>>
  BY <1>1 DEF Latest, ToldInv, Known
<1>2. CASE Grid!Reload
  <2>1. told' = [m \in Match |-> Grid!None] /\ sent' = sent /\ sent \in Nat
    BY <1>2 DEF Grid!Reload, GridTyped
  <2>2. Known' = {} /\ \A m \in Match : told'[m].n = 0
    BY <2>1, NumberOfNone DEF Known, Grid!None
  <2> QED BY <2>1, <2>2 DEF ToldInv
<1>3. CASE told' = told /\ sent' = sent + 1
  <2>1. sent \in Nat /\ Known' = Known
    BY <1>3 DEF GridTyped, Known, Grid!None
  <2> QED BY <1>3, <2>1 DEF Latest, ToldInv
<1>4. CASE Grid!OnMessage
  <2>1. PICK f : f = Head(wire)
    OBVIOUS
  <2>2. /\ wire # <<>> /\ sent' = sent /\ wire \in Seq(Grid!Frame)
        /\ told' = [told EXCEPT ![f.match] = f]
        /\ told \in [Match -> Grid!Frame \cup {Grid!None}]
    BY <1>4, <2>1 DEF Grid!OnMessage, GridTyped
  <2>3. f \in Grid!Frame /\ f = wire[1] /\ 1 \in DOMAIN wire
    BY <2>1, <2>2
  <2>4. f.match \in Match /\ f.n \in 1..MaxFrames
    BY <2>3 DEF Grid!Frame
  <2>5. f.n <= sent /\ \A m \in Match : told[m].n < f.n
    BY <2>3 DEF Latest, WireInv
  <2>6. told'[f.match] = f /\ \A m \in Match : m # f.match => told'[m] = told[m]
    BY <2>2, <2>4
  <2>7. /\ \A m \in Match : told[m].n \in 0..sent
        /\ \A m \in Known : told[m].match = m /\ told[m] \in Grid!Frame
        /\ \A m, r \in Known : told[m].n = told[r].n => m = r
    BY DEF Latest, ToldInv
  <2>8. f # Grid!None /\ sent \in Nat
    BY <2>3, NumberOfNone DEF GridTyped
  <2>9. Known' = Known \cup {f.match}
    BY <2>4, <2>6, <2>8 DEF Known, Grid!None
  <2>10. \A m \in Match : told'[m].n \in 0..sent
    BY <2>4, <2>5, <2>6, <2>7, <2>8
  <2>11. \A m \in Known' : told'[m].match = m /\ told'[m] \in Grid!Frame
    BY <2>3, <2>6, <2>7, <2>9 DEF Known
  <2>12. ASSUME NEW m \in Known', NEW r \in Known', told'[m].n = told'[r].n
         PROVE  m = r
    <3>1. \A k \in Known : k # f.match => told'[k].n \in Int /\ told'[k].n < f.n
      BY <2>4, <2>5, <2>6, <2>7 DEF Known
    <3>2. CASE m = f.match
      BY <2>4, <2>6, <2>9, <2>12, <3>1, <3>2
    <3>3. CASE r = f.match
      BY <2>4, <2>6, <2>9, <2>12, <3>1, <3>3
    <3>4. CASE m # f.match /\ r # f.match
      BY <2>6, <2>7, <2>9, <2>12, <3>4 DEF Known
    <3> QED BY <3>2, <3>3, <3>4
  <2>13. (\A m \in Match : told[m].n \in 0..sent)' /\ Grid!Frame' = Grid!Frame
    BY <2>2, <2>10
  <2> QED BY <2>2, <2>10, <2>11, <2>12 DEF ToldInv
<1> QED BY <1>1, <1>2, <1>3, <1>4 DEF Grid!Next, Grid!Publish, Grid!Connect, Grid!Disconnect,
      Grid!Render, Grid!FlashTimeout, Grid!pageVars

LEMMA CardsStep ==
  ASSUME StreamAssumption, GridTyped, Latest, Grid!Next
  PROVE  CardsInv'
<1>1. CASE UNCHANGED <<matches, lastEvent, told>>
  BY <1>1 DEF Latest, CardsInv, Known, Grid!None
<1>2. CASE Grid!Reload
  <2>1. told' = [m \in Match |-> Grid!None] /\ matches' = <<>>
    BY <1>2 DEF Grid!Reload
  <2>2. Known' = {}
    BY <2>1 DEF Known, Grid!None
  <2> QED BY <2>1, <2>2 DEF CardsInv
<1>3. CASE Grid!OnMessage
  <2>1. PICK f : f = Head(wire)
    OBVIOUS
  <2>2. PICK c : c = Grid!Moved(f)
    OBVIOUS
  <2>3. /\ wire # <<>> /\ wire \in Seq(Grid!Frame)
        /\ told' = [told EXCEPT ![f.match] = f] /\ matches' = c /\ lastEvent' = f
        /\ told \in [Match -> Grid!Frame \cup {Grid!None}]
        /\ matches \in Seq(Grid!Frame) /\ Len(matches) <= Cap /\ NoneTwice(matches)
    BY <1>3, <2>1, <2>2 DEF Grid!OnMessage, GridTyped, CardsType
  <2>4. f \in Grid!Frame /\ f = wire[1] /\ 1 \in DOMAIN wire
    BY <2>1, <2>3
  <2>5. f.match \in Match /\ f.n \in 1..MaxFrames
    BY <2>4 DEF Grid!Frame
  <2>6. \A m \in Match : told[m].n < f.n
    BY <2>4 DEF Latest, WireInv
  <2>7. told'[f.match] = f /\ \A m \in Match : m # f.match => told'[m] = told[m]
    BY <2>3, <2>5
  <2>8. f # Grid!None
    BY <2>4, NumberOfNone
  <2>9. Known' = Known \cup {f.match} /\ Known \subseteq Match
    BY <2>5, <2>7, <2>8 DEF Known, Grid!None
  <2>10. PICK p : At(p, f.match, matches)
    BY <2>3, PlaceOf
  <2>11. /\ p \in 1..(Len(matches) + 1) /\ Len(matches) \in Nat /\ Cap \in Nat \ {0}
         /\ \A i \in 1..Len(matches) : matches[i].match = f.match <=> i = p
    BY <2>3, <2>10 DEF At, StreamAssumption, Grid!LiveGridAssumption
  <2> DEFINE n == Len(matches)
             from(i) == IF i <= p THEN i - 1 ELSE i
  <2>12. /\ c \in Seq(Grid!Frame) /\ Len(c) \in 1..Cap /\ c[1] = f
         /\ p <= n => Len(c) = n
         /\ p > n => Len(c) = IF n < Cap THEN n + 1 ELSE Cap
         /\ \A i \in 2..Len(c) : c[i] = matches[from(i)]
    BY <2>2, <2>3, <2>4, <2>10, MovedIs
  <2>13. /\ n \in Nat /\ n <= Cap /\ DOMAIN matches = 1..n /\ DOMAIN c = 1..Len(c)
         /\ p \in 1..(n + 1) /\ \A i \in 1..n : matches[i].match = f.match <=> i = p
    <3> HIDE DEF from
    <3> QED BY <2>3, <2>11, <2>12
  <2>14. \A i \in Int : (i <= p => from(i) = i - 1) /\ (i > p => from(i) = i)
    BY <2>11
  <2> HIDE DEF n, from
  <2>15. /\ \A i \in 2..Len(c) : from(i) \in 1..n /\ from(i) # p
         /\ \A i, j \in 2..Len(c) : i < j => from(i) < from(j)
         /\ \A i \in 1..n : i # p =>
              \/ i + 1 \in 2..Len(c) /\ from(i + 1) = i
              \/ i \in 2..Len(c) /\ from(i) = i
              \/ i = Cap /\ Len(c) = Cap /\ p = n + 1
    <3>1. \E l \in Nat : l = Len(c)
      BY <2>12
    <3>2. PICK l \in Nat : l = Len(c)
      BY <3>1
    <3>3. /\ n \in Nat /\ n <= Cap /\ p \in 1..(n + 1) /\ Cap \in Nat \ {0}
          /\ p <= n => l = n
          /\ p > n => l = IF n < Cap THEN n + 1 ELSE Cap
      BY <2>11, <2>12, <2>13, <3>2
    <3>4. l <= n + 1 /\ (p > l => l = n + 1 \/ (l = Cap /\ n = Cap /\ p = n + 1))
      BY <3>3
    <3>5. \A i \in 2..l : from(i) \in 1..n /\ from(i) # p
      BY <2>14, <3>3, <3>4
    <3>6. \A i, j \in 2..l : i < j => from(i) < from(j)
      BY <2>14, <3>3
    <3>7. ASSUME NEW i \in 1..n, i # p
          PROVE  \/ i + 1 \in 2..l /\ from(i + 1) = i
                 \/ i \in 2..l /\ from(i) = i
                 \/ i = Cap /\ l = Cap /\ p = n + 1
      <4>1. CASE i > p
        BY <2>14, <3>3, <3>7, <4>1
      <4>2. CASE i < p
        <5>1. from(i + 1) = i
          BY <2>14, <3>3, <4>2
        <5>2. i + 1 \in 2..l \/ (i = Cap /\ l = Cap /\ p = n + 1)
          BY <3>3, <3>7, <4>2
        <5> QED BY <5>1, <5>2
      <4> QED BY <3>3, <3>7, <4>1, <4>2
    <3> QED BY <3>2, <3>5, <3>6, <3>7
  <2>17. /\ \A i, j \in 1..n : i < j => matches[j].n < matches[i].n
         /\ \A i \in 1..n : matches[i].match \in Known /\ matches[i] = told[matches[i].match]
         /\ \A m \in Known : (\A i \in 1..n : matches[i].match # m) =>
              n = Cap /\ \A i \in 1..n : told[m].n < matches[i].n
    BY <2>13 DEF Latest, CardsInv
  <2>18. \A i \in 1..Len(c) : i = 1 \/ i \in 2..Len(c)
    BY <2>12
  <2>19. \A i \in 2..Len(c) : c[i].match # f.match /\ c[i].match \in Known
                              /\ c[i] = told'[c[i].match] /\ c[i].n < f.n
    <3>1. TAKE i \in 2..Len(c)
    <3>2. PICK k \in 1..n : k = from(i) /\ k # p
      BY <2>15
    <3>3. c[i] = matches[k]
      BY <2>12, <3>2
    <3>4. matches[k].match \in Known /\ matches[k] = told[matches[k].match]
      BY <2>17
    <3>5. matches[k].match # f.match
      BY <2>13, <3>2
    <3>6. told'[matches[k].match] = told[matches[k].match] /\ told[matches[k].match].n < f.n
      BY <2>6, <2>7, <2>9, <3>4, <3>5
    <3> QED BY <3>3, <3>4, <3>5, <3>6
  <2>20. ASSUME NEW i \in 1..Len(c), NEW j \in 1..Len(c), i < j
         PROVE  c[j].n < c[i].n
    <3>1. j \in 2..Len(c)
      BY <2>12, <2>20
    <3>2. CASE i = 1
      BY <2>12, <2>19, <3>1, <3>2
    <3>3. CASE i \in 2..Len(c)
      <4>1. from(i) < from(j) /\ from(i) \in 1..n /\ from(j) \in 1..n
        BY <2>15, <2>20, <3>1, <3>3
      <4> QED BY <2>12, <2>17, <3>1, <3>3, <4>1
    <3> QED BY <2>18, <3>2, <3>3
  <2>21. \A i \in 1..Len(c) : c[i].match \in Known' /\ c[i] = told'[c[i].match]
    BY <2>7, <2>9, <2>12, <2>18, <2>19
  <2>22. ASSUME NEW m \in Known', \A i \in 1..Len(c) : c[i].match # m
         PROVE  Len(c) = Cap /\ \A i \in 1..Len(c) : told'[m].n < c[i].n
    <3>1. m # f.match /\ m \in Known /\ told'[m] = told[m] /\ told[m].n < f.n
      BY <2>6, <2>7, <2>9, <2>12, <2>22
    <3>2. CASE \A i \in 1..n : matches[i].match # m
      <4>1. n = Cap /\ \A i \in 1..n : told[m].n < matches[i].n
        BY <2>17, <3>1, <3>2
      <4>2. Len(c) = Cap
        <5>1. p <= n \/ p > n
          BY <2>13
        <5>2. ~(n < Cap)
          BY <2>11, <4>1
        <5> QED BY <2>12, <4>1, <5>1, <5>2
      <4>3. \A i \in 2..Len(c) : told[m].n < c[i].n
        BY <2>12, <2>15, <4>1
      <4> QED BY <2>12, <2>18, <3>1, <4>2, <4>3
    <3>3. ASSUME NEW k \in 1..n, matches[k].match = m
          PROVE  Len(c) = Cap /\ \A i \in 1..Len(c) : told'[m].n < c[i].n
      <4>1. k # p
        BY <2>13, <3>1, <3>3
      <4>2. k = Cap /\ Len(c) = Cap /\ p = n + 1
        <5>1. ~(k + 1 \in 2..Len(c) /\ from(k + 1) = k)
          BY <2>12, <2>22, <3>3
        <5>2. ~(k \in 2..Len(c) /\ from(k) = k)
          BY <2>12, <2>22, <3>3
        <5> QED BY <2>15, <3>3, <4>1, <5>1, <5>2
      <4>3. \A i \in 2..Len(c) : from(i) < k
        <5>1. n = Cap
          BY <2>13, <3>3, <4>2
        <5>2. \A i \in 2..Cap : i <= p /\ i - 1 < Cap
          BY <2>11, <4>2, <5>1
        <5> QED BY <2>14, <4>2, <5>2
      <4>4. matches[k] = told[m]
        BY <2>17, <3>3
      <4>5. \A i \in 2..Len(c) : told[m].n < c[i].n
        BY <2>12, <2>15, <2>17, <3>3, <4>3, <4>4
      <4> QED BY <2>12, <2>18, <3>1, <4>2, <4>5
    <3> QED BY <3>2, <3>3
  <2>23. Head(c) = f
    BY <2>12
  <2> QED BY <2>3, <2>13, <2>20, <2>21, <2>22, <2>23 DEF CardsInv
<1> QED BY <1>1, <1>2, <1>3 DEF Grid!Next, Grid!Publish, Grid!Connect, Grid!Disconnect,
      Grid!Render, Grid!FlashTimeout, Grid!pageVars

LEMMA LatestHolds == FairStreamSpec => []Latest
<1>1. ASSUME StreamAssumption, GridTyped, Latest, [StreamNext]_streamVars
      PROVE  Latest'
  <2>1. CASE UNCHANGED gridVars
    <3>1. WireInv' /\ ToldInv' /\ CardsInv'
      BY <1>1, <2>1 DEF Latest, WireInv, ToldInv, CardsInv, Known, gridVars, Grid!None
    <3> QED BY <3>1 DEF Latest
  <2>2. CASE Grid!Next
    BY <1>1, <2>2, WireStep, ToldStep, CardsStep DEF Latest
  <2> QED BY <1>1, <2>1, <2>2 DEF StreamNext, streamVars
<1> QED BY <1>1, StreamAssumption, GridTypedHolds, LatestInit, PTL DEF FairStreamSpec

(* As many as there are numbers.                                           *)
LEMMA Numbered ==
  ASSUME NEW n \in Nat, NEW S, NEW g \in [1..n -> S],
         \A i, j \in 1..n : g[i] = g[j] => i = j,
         \A t \in S : \E i \in 1..n : g[i] = t
  PROVE  IsFiniteSet(S) /\ Cardinality(S) = n
<1>1. g \in Bijection(1..n, S)
  BY Fun_IsBij
<1>2. ExistsBijection(1..n, S)
  BY <1>1 DEF ExistsBijection
<1>3. IsFiniteSet(1..n)
  BY FS_Interval
<1> QED BY <1>2, <1>3, FS_Bijection, FS_CountingElements

LEMMA SameCardinality == \A S : Grid!Cardinality(S) = Cardinality(S)
BY DEF Grid!Cardinality, Cardinality

Later(m) == {r \in Match : told[r].n > told[m].n}

(* Before a card are the matches of which the page has newer frames.       *)
LEMMA LaterOfCard ==
  ASSUME StreamAssumption, GridTyped, Latest, NEW i \in DOMAIN matches
  PROVE  /\ matches[i].match \in Known /\ told[matches[i].match] = matches[i]
         /\ Cardinality(Later(matches[i].match)) = i - 1
<1>1. /\ matches \in Seq(Grid!Frame) /\ DOMAIN matches = 1..Len(matches) /\ Len(matches) \in Nat
      /\ NoneTwice(matches)
  BY DEF GridTyped, CardsType
<1>2. \A j \in DOMAIN matches : matches[j].n \in Nat /\ matches[j].match \in Match
  <2>1. \A f \in Grid!Frame : f.n \in Nat /\ f.match \in Match
    BY DEF Grid!Frame
  <2> QED BY <1>1, <2>1
<1>3. /\ \A j, k \in DOMAIN matches : j < k => matches[k].n < matches[j].n
      /\ \A j \in DOMAIN matches : matches[j].match \in Known /\ told[matches[j].match] = matches[j]
      /\ \A r \in Known : (\A j \in DOMAIN matches : matches[j].match # r) =>
           \A j \in DOMAIN matches : told[r].n < matches[j].n
  BY DEF Latest, CardsInv
<1>4. \A r \in Match : told[r].n \in Nat /\ (told[r].n > 0 => r \in Known)
  <2>1. \A r \in Match : told[r].n \in 0..sent /\ sent \in Nat
    BY DEF Latest, ToldInv, GridTyped
  <2>2. \A r \in Match : r \notin Known => told[r].n = 0
    BY NumberOfNone DEF Known
  <2> QED BY <2>1, <2>2
<1> DEFINE before == [j \in 1..(i - 1) |-> matches[j].match]
           B == {before[j] : j \in 1..(i - 1)}
<1>5. i - 1 \in Nat /\ 1..(i - 1) \subseteq DOMAIN matches
  BY <1>1
<1>6. Later(matches[i].match) = B
  <2>1. ASSUME NEW r \in Later(matches[i].match) PROVE r \in B
    <3>1. r \in Match /\ told[r].n > matches[i].n /\ r \in Known
      BY <1>2, <1>3, <1>4, <2>1 DEF Later
    <3>2. PICK j \in DOMAIN matches : matches[j].match = r
      BY <1>2, <1>3, <1>4, <3>1
    <3>3. matches[j].n > matches[i].n
      BY <1>3, <3>1, <3>2
    <3>4. j \in 1..(i - 1)
      BY <1>1, <1>2, <1>3, <3>3
    <3> QED BY <3>2, <3>4
  <2>2. ASSUME NEW j \in 1..(i - 1) PROVE before[j] \in Later(matches[i].match)
    <3>1. j \in DOMAIN matches /\ j < i
      BY <1>1, <1>5
    <3>2. matches[i].n < matches[j].n
      BY <1>3, <3>1
    <3> QED BY <1>2, <1>3, <1>5, <3>1, <3>2 DEF Later
  <2> QED BY <2>1, <2>2
<1>7. \A j, k \in 1..(i - 1) : before[j] = before[k] => j = k
  BY <1>1, <1>5 DEF NoneTwice
<1>8. before \in [1..(i - 1) -> B] /\ \A t \in B : \E j \in 1..(i - 1) : before[j] = t
  OBVIOUS
<1> HIDE DEF before, B
<1>9. Cardinality(B) = i - 1
  BY <1>5, <1>7, <1>8, Numbered
<1> QED BY <1>3, <1>6, <1>9

(* A match without a card is behind a full page of newer ones.             *)
LEMMA LaterOfOthers ==
  ASSUME StreamAssumption, GridTyped, Latest,
         NEW m \in Known, \A i \in DOMAIN matches : matches[i].match # m
  PROVE  /\ Cardinality(Later(m)) \in Nat
         /\ Cardinality(Later(m)) >= Cap
<1>1. Len(matches) = Cap /\ \A i \in DOMAIN matches : told[m].n < matches[i].n
  BY DEF Latest, CardsInv
<1>2. matches \in Seq(Grid!Frame) /\ DOMAIN matches = 1..Cap /\ Cap \in Nat /\ NoneTwice(matches)
  BY <1>1 DEF GridTyped, CardsType
<1>3. \A j \in DOMAIN matches : matches[j].n \in Nat /\ matches[j].match \in Match
  <2>1. \A f \in Grid!Frame : f.n \in Nat /\ f.match \in Match
    BY DEF Grid!Frame
  <2> QED BY <1>2, <2>1
<1>4. \A j \in DOMAIN matches : told[matches[j].match] = matches[j]
  BY DEF Latest, CardsInv
<1>5. told[m].n \in Nat
  BY DEF Latest, ToldInv, Known, GridTyped
<1>6. IsFiniteSet(Later(m))
  <2> DEFINE number == [r \in Later(m) |-> told[r].n]
  <2>1. \A r \in Match : told[r].n \in 0..sent /\ sent \in Nat
    BY DEF Latest, ToldInv, GridTyped
  <2>2. Later(m) \subseteq Known
    <3>1. \A r \in Match : r \notin Known => told[r].n = 0
      BY NumberOfNone DEF Known
    <3> QED BY <1>5, <3>1 DEF Later
  <2>3. \A r, s \in Known : told[r].n = told[s].n => r = s
    BY DEF Latest, ToldInv
  <2>4. number \in [Later(m) -> 0..sent]
    BY <2>1 DEF Later
  <2>5. \A r, s \in Later(m) : number[r] = number[s] => r = s
    BY <2>2, <2>3
  <2> HIDE DEF number
  <2>6. number \in Injection(Later(m), 0..sent)
    BY <2>4, <2>5, Fun_IsInj
  <2>7. IsFiniteSet(0..sent)
    BY FS_Interval DEF GridTyped
  <2> QED BY <2>6, <2>7, FS_Injection
<1> DEFINE g == [j \in 1..Cap |-> matches[j].match]
           B == {g[j] : j \in 1..Cap}
<1>7. \A j \in 1..Cap : g[j] \in Later(m)
  BY <1>1, <1>2, <1>3, <1>4, <1>5 DEF Later
<1>8. \A j, k \in 1..Cap : g[j] = g[k] => j = k
  BY <1>2 DEF NoneTwice
<1>9. g \in [1..Cap -> B] /\ \A t \in B : \E j \in 1..Cap : g[j] = t
  OBVIOUS
<1> HIDE DEF g
<1>10. B \in SUBSET Later(m)
  BY <1>7
<1> HIDE DEF B
<1>11. Cardinality(B) = Cap
  BY <1>2, <1>8, <1>9, Numbered
<1> QED BY <1>6, <1>10, <1>11, FS_Subset, FS_CardinalityType

(* The page keeps the newest frame of each of the matches it heard of      *)
(* last, as many as it may, in that order and no match twice, and its      *)
(* footer tells the newest of them (useWebSockets.js:61-70).               *)
THEOREM NewestFirst == FairStreamSpec => []GridIsLatest
<1>1. ASSUME StreamAssumption, GridTyped, Latest PROVE GridIsLatest
  <2> DEFINE later(m) == Cardinality({r \in Match : told[r].n > told[m].n})
             kept == {m \in Match : told[m] # Grid!None /\ later(m) < Cap}
             g == [i \in 1..Len(matches) |-> matches[i].match]
             B == {g[i] : i \in 1..Len(matches)}
  <2>1. /\ Len(matches) \in Nat /\ DOMAIN matches = 1..Len(matches) /\ NoneTwice(matches)
        /\ Len(matches) <= Cap /\ Cap \in Nat
    BY <1>1 DEF GridTyped, CardsType, StreamAssumption, Grid!LiveGridAssumption
  <2>2. \A m \in Match : later(m) = Cardinality(Later(m))
    BY DEF Later
  <2>3. \A i \in 1..Len(matches) :
          /\ g[i] \in Known /\ told[g[i]] = matches[i] /\ later(g[i]) = i - 1
    BY <1>1, <2>1, <2>2, LaterOfCard DEF Known
  <2>4. \A m \in Known : m \notin B => ~(later(m) < Cap)
    <3>1. TAKE m \in Known
    <3>2. HAVE m \notin B
    <3>3. \A i \in DOMAIN matches : matches[i].match # m
      BY <2>1, <3>2
    <3>4. Cardinality(Later(m)) \in Nat /\ Cardinality(Later(m)) >= Cap
      BY <1>1, <3>3, LaterOfOthers
    <3>5. m \in Match
      BY DEF Known
    <3> QED BY <2>1, <2>2, <3>4, <3>5
  <2>5. kept = {m \in Known : later(m) < Cap}
    BY DEF Known
  <2>6. g \in [1..Len(matches) -> B] /\ \A t \in B : \E i \in 1..Len(matches) : g[i] = t
    OBVIOUS
  <2>7. \A i, j \in 1..Len(matches) : g[i] = g[j] => i = j
    BY <2>1 DEF NoneTwice
  <2> HIDE DEF g, later
  <2>8. kept = B
    <3> HIDE DEF kept
    <3>1. \A i \in 1..Len(matches) : i - 1 < Cap
      BY <2>1
    <3>2. B \subseteq kept
      BY <2>3, <2>5, <3>1
    <3> QED BY <2>4, <2>5, <3>2
  <2>9. Len(matches) = Cardinality(kept)
    <3> HIDE DEF kept, B
    <3>1. Cardinality(B) = Len(matches)
      BY <2>1, <2>6, <2>7, Numbered
    <3> QED BY <2>8, <3>1
  <2>10. \A m \in kept : matches[later(m) + 1] = told[m]
    <3> HIDE DEF kept
    <3>1. TAKE m \in kept
    <3>2. PICK i \in 1..Len(matches) : g[i] = m
      BY <2>8
    <3>3. told[m] = matches[i] /\ later(m) = i - 1 /\ (i - 1) + 1 = i
      BY <2>3, <3>2
    <3> QED BY <3>3
  <2>11. matches # <<>> => lastEvent = Head(matches)
    BY <1>1 DEF Latest, CardsInv
  <2> QED BY <2>9, <2>10, <2>11, SameCardinality DEF GridIsLatest, Grid!GridIsLatest, later
<1> QED BY <1>1, StreamAssumption, GridTypedHolds, LatestHolds, PTL

-----------------------------------------------------------------------------
(* What the cards say.  All of it follows from the types of the frames on  *)
(* the screen.                                                             *)
Side == {"home", "draw", "away"}

Prices(f) == f.markets \in Seq([Side -> Nat])

ChipOn(f, i, s) ==
  [market |-> i, side |-> s, price |-> f.markets[i][s], leader |-> s = Grid!favouriteOf(f)]

LEMMA ChipsOf ==
  ASSUME NEW f
  PROVE  Grid!MatchCard(f).chips = {ChipOn(f, i, s) : i \in DOMAIN f.markets, s \in Side}
BY DEF Grid!MatchCard, ChipOn, Grid!Sides, Side

LEMMA ChipsAre ==
  ASSUME NEW f
  PROVE  /\ \A i \in DOMAIN f.markets : \A s \in Side :
              ChipOn(f, i, s) \in Grid!MatchCard(f).chips
         /\ \A c \in Grid!MatchCard(f).chips :
              \E i \in DOMAIN f.markets, s \in Side : c = ChipOn(f, i, s)
BY ChipsOf

LEMMA ChipFields ==
  ASSUME NEW f, NEW i, NEW s
  PROVE  /\ ChipOn(f, i, s).market = i /\ ChipOn(f, i, s).side = s
         /\ ChipOn(f, i, s).price = f.markets[i][s]
         /\ ChipOn(f, i, s).leader <=> s = Grid!favouriteOf(f)
<1>1. /\ ChipOn(f, i, s).market = i /\ ChipOn(f, i, s).side = s
      /\ ChipOn(f, i, s).price = f.markets[i][s]
  BY DEF ChipOn
<1>2. ChipOn(f, i, s).leader = (s = Grid!favouriteOf(f))
  BY DEF ChipOn
<1> QED BY <1>1, <1>2

LEMMA ValueAgrees ==
  ASSUME NEW f, Prices(f)
  PROVE  Grid!MatchCard(f).value <=>
           \E c \in Grid!MatchCard(f).chips : c.price >= MinTrigger
<1>1. Grid!MatchCard(f).value = Grid!hasValue(f)
  BY DEF Grid!MatchCard
<1>2. Grid!hasValue(f) <=> \E i \in DOMAIN f.markets : \E s \in Side : f.markets[i][s] >= MinTrigger
  BY DEF Grid!hasValue, Grid!Sides, Side
<1>3. (\E c \in Grid!MatchCard(f).chips : c.price >= MinTrigger)
        <=> \E i \in DOMAIN f.markets : \E s \in Side : f.markets[i][s] >= MinTrigger
  BY ChipsOf, ChipFields
<1> QED BY <1>1, <1>2, <1>3

(* Of the prices that are above zero one is the lowest.                    *)
LEMMA CheapestExists ==
  ASSUME NEW p \in [Side -> Nat], NEW r \in Side, p[r] > 0
  PROVE  Grid!Cheapest(p) # {}
<1> DEFINE best(s) == s \in Side /\ p[s] > 0 /\ \A q \in Side : p[q] > 0 => p[s] <= p[q]
<1>1. \A s \in Side : p[s] \in Nat
  OBVIOUS
<1>2. PICK h, d, a : h = p["home"] /\ d = p["draw"] /\ a = p["away"]
  OBVIOUS
<1>3. h \in Nat /\ d \in Nat /\ a \in Nat /\ (h > 0 \/ d > 0 \/ a > 0)
  BY <1>1, <1>2 DEF Side
<1>4. \/ h > 0 /\ (d > 0 => h <= d) /\ (a > 0 => h <= a)
      \/ d > 0 /\ (h > 0 => d <= h) /\ (a > 0 => d <= a)
      \/ a > 0 /\ (h > 0 => a <= h) /\ (d > 0 => a <= d)
  BY <1>3
<1>5. best("home") \/ best("draw") \/ best("away")
  BY <1>2, <1>3, <1>4 DEF Side
<1>6. \A s \in Side : best(s) => s \in Grid!Cheapest(p)
  BY DEF Grid!Cheapest, Grid!Sides, Side
<1> QED BY <1>5, <1>6

LEMMA Favourite ==
  ASSUME NEW f, Prices(f), f.markets # <<>>
  PROVE  /\ (\E r \in Side : f.markets[1][r] > 0) =>
              /\ Grid!favouriteOf(f) \in Side
              /\ f.markets[1][Grid!favouriteOf(f)] > 0
              /\ \A r \in Side : f.markets[1][r] > 0 =>
                   f.markets[1][Grid!favouriteOf(f)] <= f.markets[1][r]
         /\ (\A r \in Side : ~(f.markets[1][r] > 0)) => Grid!favouriteOf(f) \notin Side
<1>1. PICK p : p = f.markets[1]
  OBVIOUS
<1>2. Head(f.markets) = p /\ p \in [Side -> Nat]
  BY <1>1 DEF Prices
<1>3. PICK best : best = Grid!Cheapest(p)
  OBVIOUS
<1>4. best = {s \in Side : p[s] > 0 /\ \A r \in Side : p[r] > 0 => p[s] <= p[r]}
  BY <1>3 DEF Grid!Cheapest, Grid!Sides, Side
<1>5. Grid!favouriteOf(f) = IF "home" \in best THEN "home" ELSE IF "draw" \in best THEN "draw"
                            ELSE IF "away" \in best THEN "away" ELSE ""
  BY <1>2, <1>3 DEF Grid!favouriteOf
<1>6. CASE \E r \in Side : p[r] > 0
  <2>1. best # {}
    BY <1>2, <1>3, <1>6, CheapestExists
  <2>2. best \subseteq Side
    BY <1>4
  <2>3. Grid!favouriteOf(f) \in best
    BY <1>5, <2>1, <2>2 DEF Side
  <2> QED BY <1>1, <1>4, <1>6, <2>3
<1>7. CASE ~\E r \in Side : p[r] > 0
  <2>1. best = {}
    BY <1>4, <1>7
  <2>2. Grid!favouriteOf(f) = ""
    BY <1>5, <2>1
  <2> QED BY <1>1, <1>7, <2>2 DEF Side
<1> QED BY <1>6, <1>7

First(f)   == {c \in Grid!MatchCard(f).chips : c.market = 1}
Offered(f) == {c \in First(f) : c.price > 0}

LEMMA LeaderAgrees ==
  ASSUME NEW f, Prices(f)
  PROVE  /\ Cardinality({c \in First(f) : c.leader}) = (IF Offered(f) = {} THEN 0 ELSE 1)
         /\ \A c \in First(f), d \in Offered(f) :
              c.leader => c \in Offered(f) /\ c.price <= d.price
<1> DEFINE first == First(f)
           priced == Offered(f)
<1>0. first = {c \in Grid!MatchCard(f).chips : c.market = 1} /\ priced = {c \in first : c.price > 0}
  BY DEF First, Offered
<1> SUFFICES /\ Cardinality({c \in first : c.leader}) = (IF priced = {} THEN 0 ELSE 1)
             /\ \A c \in first, d \in priced : c.leader => c \in priced /\ c.price <= d.price
  OBVIOUS
<1> HIDE DEF first, priced
<1>1. /\ \A i \in DOMAIN f.markets : \A s \in Side : i = 1 => ChipOn(f, i, s) \in first
      /\ \A c \in first : 1 \in DOMAIN f.markets /\ \E s \in Side : c = ChipOn(f, 1, s)
      /\ \A c : c \in priced <=> c \in first /\ c.price > 0
  BY <1>0, ChipsAre, ChipFields
<1>2. CASE f.markets = <<>>
  <2>1. first = {} /\ priced = {}
    <3>1. DOMAIN f.markets = {}
      BY <1>2
    <3> QED BY <1>1, <3>1
  <2>2. {c \in first : c.leader} = {}
    BY <2>1
  <2> QED BY <2>1, <2>2, FS_EmptySet
<1>3. CASE f.markets # <<>>
  <2>1. 1 \in DOMAIN f.markets /\ f.markets[1] \in [Side -> Nat]
    BY <1>3 DEF Prices
  <2>2. /\ \A s \in Side : ChipOn(f, 1, s) \in first
        /\ \A c \in first : \E s \in Side : c = ChipOn(f, 1, s)
        /\ \A c : c \in priced <=> c \in first /\ c.price > 0
    BY <1>1, <2>1
  <2>3. PICK lead : lead = Grid!favouriteOf(f)
    OBVIOUS
  <2>4. \A s \in Side : ChipOn(f, 1, s).leader <=> s = lead
    BY <2>3, ChipFields
  <2>5. \A s \in Side : ChipOn(f, 1, s).price = f.markets[1][s]
    BY ChipFields
  <2>6. CASE \E r \in Side : f.markets[1][r] > 0
    <3>1. /\ lead \in Side /\ f.markets[1][lead] > 0
          /\ \A r \in Side : f.markets[1][r] > 0 => f.markets[1][lead] <= f.markets[1][r]
      BY <1>3, <2>3, <2>6, Favourite
    <3>2. {c \in first : c.leader} = {ChipOn(f, 1, lead)}
      BY <2>2, <2>4, <3>1
    <3>3. ChipOn(f, 1, lead) \in priced
      BY <2>2, <2>5, <3>1
    <3>4. Cardinality({ChipOn(f, 1, lead)}) = 1
      BY FS_Singleton
    <3>5. ASSUME NEW c \in first, NEW d \in priced, c.leader
          PROVE  c \in priced /\ c.price <= d.price
      <4>1. c = ChipOn(f, 1, lead)
        BY <3>2, <3>5
      <4>2. PICK r \in Side : d = ChipOn(f, 1, r) /\ d.price > 0
        BY <2>2, <3>5
      <4> QED BY <2>5, <3>1, <3>3, <4>1, <4>2
    <3> QED BY <3>2, <3>3, <3>4, <3>5
  <2>7. CASE ~\E r \in Side : f.markets[1][r] > 0
    <3>1. lead \notin Side
      BY <1>3, <2>3, <2>7, Favourite
    <3>2. {c \in first : c.leader} = {}
      BY <2>2, <2>4, <3>1
    <3>3. priced = {}
      BY <2>2, <2>5, <2>7
    <3> QED BY <3>2, <3>3, FS_EmptySet
  <2> QED BY <2>6, <2>7
<1> QED BY <1>2, <1>3

(* The chips of card k, with the place of the card.                        *)
ChipsAt(cards, k) == {<<k, c>> : c \in Grid!MatchCard(cards[k]).chips}

LEMMA ThreeSides == IsFiniteSet(Side) /\ Cardinality(Side) = 3
<1>1. IsFiniteSet({}) /\ Cardinality({}) = 0
  BY FS_EmptySet
<1>2. IsFiniteSet({"home"}) /\ Cardinality({"home"}) = 1
  BY FS_Singleton
<1>3. IsFiniteSet({"home"} \cup {"draw"}) /\ Cardinality({"home"} \cup {"draw"}) = 2
  <2>1. "draw" \notin {"home"}
    OBVIOUS
  <2> QED BY <1>2, <2>1, FS_AddElement
<1>4. /\ IsFiniteSet(({"home"} \cup {"draw"}) \cup {"away"})
      /\ Cardinality(({"home"} \cup {"draw"}) \cup {"away"}) = 3
  <2>1. "away" \notin {"home"} \cup {"draw"}
    OBVIOUS
  <2> QED BY <1>3, <2>1, FS_AddElement
<1>5. Side = ({"home"} \cup {"draw"}) \cup {"away"}
  BY DEF Side
<1> QED BY <1>4, <1>5

(* Three to a market.                                                      *)
LEMMA ChipsCounted ==
  ASSUME NEW cards, NEW k, Prices(cards[k])
  PROVE  /\ IsFiniteSet(ChipsAt(cards, k))
         /\ Cardinality(ChipsAt(cards, k)) = 3 * Len(cards[k].markets)
<1>1. PICK f : f = cards[k]
  OBVIOUS
<1> DEFINE n == Len(f.markets)
           P == (1..n) \X Side
           C == ChipsAt(cards, k)
           g == [x \in P |-> <<k, ChipOn(f, x[1], x[2])>>]
<1>2. n \in Nat /\ DOMAIN f.markets = 1..n
  BY <1>1 DEF Prices
<1> HIDE DEF n
<1>3. /\ \A i \in 1..n : \A s \in Side : <<k, ChipOn(f, i, s)>> \in C
      /\ \A c \in C : \E i \in 1..n, s \in Side : c = <<k, ChipOn(f, i, s)>>
  <2>1. PICK chips : chips = Grid!MatchCard(f).chips
    OBVIOUS
  <2>2. /\ \A i \in 1..n : \A s \in Side : ChipOn(f, i, s) \in chips
        /\ \A c \in chips : \E i \in 1..n, s \in Side : c = ChipOn(f, i, s)
    <3>1. /\ \A i \in DOMAIN f.markets : \A s \in Side :
               ChipOn(f, i, s) \in Grid!MatchCard(f).chips
          /\ \A c \in Grid!MatchCard(f).chips :
               \E i \in DOMAIN f.markets, s \in Side : c = ChipOn(f, i, s)
      BY ChipsAre, Zenon
    <3> QED BY <1>2, <2>1, <3>1, Zenon
  <2>3. C = {<<k, c>> : c \in chips}
    BY <1>1, <2>1 DEF ChipsAt
  <2> HIDE DEF C
  <2> QED BY <2>2, <2>3
<1>4. g \in [P -> C] /\ \A c \in C : \E x \in P : g[x] = c
  <2>1. ASSUME NEW x \in P PROVE g[x] \in C
    <3>1. x[1] \in 1..n /\ x[2] \in Side
      OBVIOUS
    <3> HIDE DEF C
    <3> QED BY <1>3, <3>1
  <2>2. ASSUME NEW c \in C PROVE \E x \in P : g[x] = c
    <3>1. PICK i \in 1..n, s \in Side : c = <<k, ChipOn(f, i, s)>>
      BY <1>3, <2>2
    <3>2. <<i, s>> \in P /\ g[<<i, s>>] = c
      BY <3>1
    <3> QED BY <3>2
  <2> HIDE DEF C
  <2> QED BY <2>1, <2>2
<1>5. ASSUME NEW x \in P, NEW y \in P, g[x] = g[y]
      PROVE  x = y
  <2>1. ChipOn(f, x[1], x[2]) = ChipOn(f, y[1], y[2])
    BY <1>5
  <2>2. x[1] = y[1] /\ x[2] = y[2]
    BY <2>1, ChipFields
  <2> QED BY <2>2
<1>6. IsFiniteSet(P) /\ Cardinality(P) = n * 3
  <2>1. IsFiniteSet(1..n) /\ Cardinality(1..n) = n
    <3>1. 1 \in Int /\ n \in Int
      BY <1>2
    <3>2. Cardinality(1..n) = IF 1 > n THEN 0 ELSE n - 1 + 1
      BY <3>1, FS_Interval
    <3>3. IsFiniteSet(1..n)
      BY <3>1, FS_Interval
    <3> QED BY <1>2, <3>2, <3>3
  <2>2. IsFiniteSet(P) /\ Cardinality(P) = Cardinality(1..n) * Cardinality(Side)
    BY <2>1, ThreeSides, FS_Product, Zenon
  <2> HIDE DEF P
  <2> QED BY <2>1, <2>2, ThreeSides
<1> HIDE DEF P, C, g
<1>7. g \in Bijection(P, C)
  BY <1>4, <1>5, Fun_IsBij
<1>8. ExistsBijection(P, C)
  BY <1>7 DEF ExistsBijection
<1>9. IsFiniteSet(C) /\ Cardinality(C) = n * 3
  BY <1>6, <1>8, FS_Bijection
<1> QED BY <1>1, <1>2, <1>9 DEF C, n

(* g is the function that marketCount computes.                            *)
UpTo(g, cards, n) ==
  g = [i \in 0..n |-> IF i = 0 THEN 0 ELSE g[i - 1] + Len(cards[i].markets)]

LEMMA UpToExists ==
  ASSUME NEW cards, NEW n \in Nat
  PROVE  \E g : UpTo(g, cards, n)
<1> DEFINE T == {k \in Nat : \E g : UpTo(g, cards, k)}
<1>1. 0 \in T
  <2>1. UpTo([i \in 0..0 |-> 0], cards, 0)
    BY DEF UpTo
  <2> QED BY <2>1
<1>2. ASSUME NEW k \in 0..n, k # 0, k - 1 \in T
      PROVE  k \in T
  <2>1. PICK g : UpTo(g, cards, k - 1)
    BY <1>2
  <2> DEFINE h == [i \in 0..k |-> IF i < k THEN g[i] ELSE g[k - 1] + Len(cards[k].markets)]
  <2>2. \A i \in 0..(k - 1) : g[i] = IF i = 0 THEN 0 ELSE g[i - 1] + Len(cards[i].markets)
    BY <2>1 DEF UpTo
  <2>3. \A i \in 0..k : /\ i < k => i \in 0..(k - 1) /\ h[i] = g[i]
                        /\ i # 0 => i - 1 \in 0..k /\ h[i - 1] = g[i - 1]
                        /\ i < k \/ i = k
    OBVIOUS
  <2>4. \A i \in 0..k : h[i] = IF i = 0 THEN 0 ELSE h[i - 1] + Len(cards[i].markets)
    BY <1>2, <2>2, <2>3
  <2>5. UpTo(h, cards, k)
    BY <2>4 DEF UpTo
  <2> QED BY <1>2, <2>5
<1> HIDE DEF T
<1>3. 0..n \subseteq T
  BY <1>1, <1>2, Upward
<1>4. n \in T
  BY <1>3
<1> QED BY <1>4 DEF T

LEMMA MarketsCounted ==
  ASSUME Len(screen) \in Nat, \A i \in 1..Len(screen) : Prices(screen[i])
  PROVE  3 * Grid!marketCount = Cardinality(UNION {ChipsAt(screen, i) : i \in 1..Len(screen)})
<1> DEFINE n == Len(screen)
           g == CHOOSE h : UpTo(h, screen, n)
           All(k) == UNION {ChipsAt(screen, i) : i \in 1..k}
<1>1. UpTo(g, screen, n)
  BY UpToExists, Zenon
<1>2. Grid!marketCount = g[n]
  BY DEF Grid!marketCount, UpTo
<1> HIDE DEF g
<1> DEFINE T == {k \in 0..n : g[k] \in Nat /\ IsFiniteSet(All(k)) /\ Cardinality(All(k)) = 3 * g[k]}
<1>3. 0 \in T
  <2>1. g[0] = 0 /\ 0 \in 0..n
    BY <1>1 DEF UpTo
  <2>2. All(0) = {}
    OBVIOUS
  <2>3. IsFiniteSet(All(0)) /\ Cardinality(All(0)) = 0
    BY <2>2, FS_EmptySet, Zenon
  <2> HIDE DEF All
  <2> QED BY <2>1, <2>3
<1>4. ASSUME NEW k \in 0..n, k # 0, k - 1 \in T
      PROVE  k \in T
  <2>1. g[k] = g[k - 1] + Len(screen[k].markets)
    BY <1>1, <1>4 DEF UpTo
  <2>2. /\ g[k - 1] \in Nat /\ IsFiniteSet(All(k - 1))
        /\ Cardinality(All(k - 1)) = 3 * g[k - 1]
    BY <1>4
  <2>3. k \in 1..n /\ Prices(screen[k]) /\ Len(screen[k].markets) \in Nat
    BY <1>4 DEF Prices
  <2>4. /\ IsFiniteSet(ChipsAt(screen, k))
        /\ Cardinality(ChipsAt(screen, k)) = 3 * Len(screen[k].markets)
    BY <2>3, ChipsCounted
  <2>5. All(k) = All(k - 1) \cup ChipsAt(screen, k)
    <3>1. 1..k = 1..(k - 1) \cup {k}
      BY <1>4
    <3> QED BY <3>1
  <2>6. All(k - 1) \cap ChipsAt(screen, k) = {}
    <3>1. \A x \in All(k - 1) : x[1] \in 1..(k - 1)
      BY DEF ChipsAt
    <3>2. \A x \in ChipsAt(screen, k) : x[1] = k
      BY DEF ChipsAt
    <3>3. k \notin 1..(k - 1)
      BY <1>4
    <3> HIDE DEF All
    <3> QED BY <3>1, <3>2, <3>3
  <2> HIDE DEF All
  <2>7. /\ IsFiniteSet(All(k))
        /\ Cardinality(All(k)) = Cardinality(All(k - 1)) + Cardinality(ChipsAt(screen, k)) - 0
    <3>1. PICK X, Y : X = All(k - 1) /\ Y = ChipsAt(screen, k)
      OBVIOUS
    <3>2. /\ IsFiniteSet(X \cup Y)
          /\ Cardinality(X \cup Y) = Cardinality(X) + Cardinality(Y) - Cardinality(X \cap Y)
      BY <2>2, <2>4, <3>1, FS_Union
    <3>3. X \cap Y = {} /\ All(k) = X \cup Y
      BY <2>5, <2>6, <3>1
    <3>4. Cardinality({}) = 0
      BY FS_EmptySet
    <3> QED BY <3>1, <3>2, <3>3, <3>4
  <2> QED BY <2>1, <2>2, <2>3, <2>4, <2>7
<1> HIDE DEF T
<1>5. n \in Nat
  OBVIOUS
<1> HIDE DEF n
<1>6. 0..n \subseteq T
  BY <1>3, <1>4, <1>5, Upward
<1>7. n \in T
  BY <1>5, <1>6
<1> QED BY <1>2, <1>7 DEF T, n

LEMMA CardsAgreeAlways == StreamAssumption /\ GridTyped => CardsAgree
<1> SUFFICES ASSUME StreamAssumption, GridTyped PROVE Grid!CardsAgree
  BY DEF CardsAgree
<1>1. /\ screen \in Seq(Grid!Frame) /\ Len(screen) \in Nat
      /\ DOMAIN screen = 1..Len(screen)
  BY DEF GridTyped, CardsType
<1>2. \A i \in 1..Len(screen) : Prices(screen[i])
  <2>1. \A f \in Grid!Frame : f.markets \in Books
    BY DEF Grid!Frame
  <2>2. Books \subseteq Seq([Side -> Nat])
    BY DEF StreamAssumption, Grid!LiveGridAssumption, Grid!Sides, Side
  <2> QED BY <1>1, <2>1, <2>2 DEF Prices
<1>3. PICK cards : cards = Grid!Page.cards
  OBVIOUS
<1>4. cards = [i \in 1..Len(screen) |-> Grid!MatchCard(screen[i])]
  BY <1>1, <1>3 DEF Grid!Page, Grid!LiveBetsGrid
<1>5. 3 * Grid!Page.markets =
        Grid!Cardinality(UNION {{<<i, c>> : c \in cards[i].chips} : i \in DOMAIN cards})
  <2>1. Grid!Page.markets = Grid!marketCount
    BY DEF Grid!Page
  <2>2. \A i \in 1..Len(screen) : {<<i, c>> : c \in cards[i].chips} = ChipsAt(screen, i)
    BY <1>4 DEF ChipsAt
  <2>3. DOMAIN cards = 1..Len(screen)
    BY <1>4
  <2>4. {{<<i, c>> : c \in cards[i].chips} : i \in DOMAIN cards}
          = {ChipsAt(screen, i) : i \in 1..Len(screen)}
    BY <2>2, <2>3
  <2>5. 3 * Grid!marketCount = Cardinality(UNION {ChipsAt(screen, i) : i \in 1..Len(screen)})
    BY <1>1, <1>2, MarketsCounted
  <2> QED BY <2>1, <2>4, <2>5, SameCardinality
<1>6. ASSUME NEW i \in DOMAIN cards
      PROVE  LET card == cards[i]
                 first == {c \in card.chips : c.market = 1}
                 priced == {c \in first : c.price > 0}
             IN /\ card.value <=> \E c \in card.chips : c.price >= MinTrigger
                /\ Grid!Cardinality({c \in first : c.leader}) = (IF priced = {} THEN 0 ELSE 1)
                /\ \A c \in first, d \in priced : c.leader => c \in priced /\ c.price <= d.price
  <2>1. PICK f : f = screen[i]
    OBVIOUS
  <2>2. cards[i] = Grid!MatchCard(f) /\ Prices(f)
    BY <1>2, <1>4, <1>6, <2>1
  <2>3. Grid!MatchCard(f).value <=>
          \E c \in Grid!MatchCard(f).chips : c.price >= MinTrigger
    BY <2>2, ValueAgrees
  <2>4. /\ Grid!Cardinality({c \in First(f) : c.leader}) = (IF Offered(f) = {} THEN 0 ELSE 1)
        /\ \A c \in First(f), d \in Offered(f) :
             c.leader => c \in Offered(f) /\ c.price <= d.price
    BY <2>2, LeaderAgrees, SameCardinality, Zenon
  <2> QED BY <2>2, <2>3, <2>4, Zenon DEF First, Offered
<1> QED BY <1>3, <1>5, <1>6 DEF Grid!CardsAgree

(* The badge, the leaders and the counters of the page agree with the      *)
(* prices next to them (LiveBetsGrid.jsx:18-40, 192-236, page.jsx:9-12).   *)
THEOREM CardsTellPrices == FairStreamSpec => []CardsAgree
BY CardsAgreeAlways, StreamAssumption, GridTypedHolds, PTL
=============================================================================
