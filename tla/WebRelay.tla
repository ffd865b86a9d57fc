------------------------------ MODULE WebRelay ------------------------------
(***************************************************************************)
(* The web relay (web-interface-js/backend/server.js) and the dashboards   *)
(* that listen to it: the public page (hooks/useWebSockets.js) and the     *)
(* operator console (app/admin/page.jsx, hooks/useAdminWebSockets.js,      *)
(* lib/session.js, components/AdminLogin.jsx).                             *)
(*                                                                         *)
(* The relay forwards the messages of some Redis channels to its           *)
(* WebSockets, and a page keeps the newest of every channel it shows.  The *)
(* tabs belong to one browser and share its localStorage.  An action of    *)
(* the relay or of a tab is one callback of its event loop.                *)
(*                                                                         *)
(* Left out: the commands of the relay to Redis and its HTTP API, which    *)
(* are in AdminConsole, and the lengths of the retry delays.               *)
(***************************************************************************)
EXTENDS Integers, Sequences, SequencesExt

CONSTANTS
  Channels,    \* WS_CHANNELS; the first one is public
  UrlPath,     \* path of NEXT_PUBLIC_WS_BACKEND_URL
  Keep,        \* messages that a page keeps of a channel, 40 or 60 in the code
  AdminTabs, PublicTabs,
  NoTab,       \* a socket slot that is not in use
  Sockets,     \* bound: sockets of the browser at one time
  MaxEvents,   \* bound: messages published
  MaxLogins,   \* bound: tokens issued
  MaxFaults    \* bound: crashes, SIGTERMs, lost connections, reloads

ASSUME WebRelayAssumption ==
  /\ Channels \in Seq(STRING) /\ Channels # <<>>
  /\ UrlPath \in {"", "/", "/ws"} /\ Keep \in Nat \ {0}
  /\ AdminTabs \cap PublicTabs = {} /\ NoTab \notin AdminTabs \cup PublicTabs
  /\ {MaxEvents, MaxLogins, MaxFaults} \subseteq Nat

VARIABLES
  relay,       \* the process: "down", "up" or "quitting"
  subscribed,  \* channels that main has subscribed to, in order
  inbox,       \* messages on the subscriber connection
  published,   \* number of messages published
  session,     \* token in localStorage, 0 for none
  issued,      \* tokens issued so far
  expired,     \* those whose time is over
  tab,         \* page state of every tab
  sock,        \* the sockets of the browser
  faults       \* counter behind MaxFaults

sessionVars == <<session, issued, expired>>
vars == <<relay, subscribed, inbox, published, sessionVars, tab, sock, faults>>

Tabs  == AdminTabs \cup PublicTabs

Public  == Head(Channels)
Shows(t) == ToSet(Channels) \ {IF t \in AdminTabs THEN Public ELSE "execution:commands"}

Message == [id : 1..MaxEvents, channel : ToSet(Channels)]
Opened == [at |-> "open"]
Closed == [at |-> "close"]
Frame(m) == [at |-> "frame", id |-> m.id, channel |-> m.channel]
Frames == [at : {"frame"}, id : 1..MaxEvents, channel : ToSet(Channels)]

Free == [tab |-> NoTab, disposed |-> FALSE, token |-> 0, state |-> "free",
         peer |-> FALSE, admin |-> FALSE, pipe |-> <<>>]

TypeOK ==
  /\ relay \in {"down", "up", "quitting"}
  /\ IsPrefix(subscribed, Channels)
  /\ inbox \in Seq(Message)
  /\ published \in 0..MaxEvents
  /\ session \in 0..issued /\ issued \in 0..MaxLogins
  /\ expired \subseteq 1..issued
  /\ \A t \in Tabs :
       /\ tab[t] \in [token : 0..issued, leaving : BOOLEAN, connected : BOOLEAN,
                      timer : BOOLEAN, shown : [ToSet(Channels) -> Seq(1..MaxEvents)]]
       /\ \A ch \in ToSet(Channels) : Len(tab[t].shown[ch]) <= Keep
       /\ tab[t].leaving => tab[t].token # 0
       /\ t \in PublicTabs => tab[t].token = 0
  /\ \A s \in Sockets :
       /\ sock[s] \in [tab : Tabs \cup {NoTab}, disposed : BOOLEAN, token : 0..issued,
                       state : {"free", "connecting", "open", "closing"},
                       peer : BOOLEAN, admin : BOOLEAN,
                       pipe : Seq(Frames \cup {Opened, Closed})]
       /\ sock[s].tab = NoTab <=> sock[s] = Free
  /\ faults \in 0..MaxFaults

Fault == faults < MaxFaults /\ faults' = faults + 1
-----------------------------------------------------------------------------
(* The relay.                                                              *)

Start ==
  /\ relay = "down" /\ relay' = "up"
  /\ UNCHANGED <<subscribed, inbox, published, sessionVars, tab, sock, faults>>

(* main subscribes to one channel after the other.                         *)
Subscribe ==
  /\ relay = "up" /\ Len(subscribed) < Len(Channels)
  /\ subscribed' = Append(subscribed, Channels[Len(subscribed) + 1])
  /\ UNCHANGED <<relay, inbox, published, sessionVars, tab, sock, faults>>

(* The other services publish.  What nobody has subscribed to is forgotten *)
(* by Redis and left out here.                                             *)
Publish(ch) ==
  /\ published < MaxEvents /\ published' = published + 1
  /\ ch \in ToSet(subscribed)
  /\ inbox' = Append(inbox, [id |-> published + 1, channel |-> ch])
  /\ UNCHANGED <<relay, subscribed, sessionVars, tab, sock, faults>>

FanOut(m) ==
  [s \in Sockets |->
     IF sock[s].peer /\ (sock[s].admin \/ m.channel = Public)
     THEN [sock[s] EXCEPT !.pipe = Append(@, Frame(m))] ELSE sock[s]]

(* Mutant: the callback waits for Redis before it forwards, so a later     *)
(* message may overtake an earlier one.                                    *)
RelayAnyMessage ==
  /\ relay # "down"
  /\ \E i \in DOMAIN inbox : sock' = FanOut(inbox[i]) /\ inbox' = RemoveAt(inbox, i)
  /\ UNCHANGED <<relay, subscribed, published, sessionVars, tab, faults>>

RelayMessage ==
  /\ relay # "down" /\ inbox # <<>>
  /\ sock' = FanOut(Head(inbox)) /\ inbox' = Tail(inbox)
  /\ UNCHANGED <<relay, subscribed, published, sessionVars, tab, faults>>

(* The subscriber connection drops and is made again: what was published   *)
(* in between is gone.                                                     *)
SubscriberReconnects ==
  /\ relay # "down" /\ inbox # <<>> /\ Fault /\ inbox' = <<>>
  /\ UNCHANGED <<relay, subscribed, published, sessionVars, tab, sock>>

HungUp(s) == [sock[s] EXCEPT !.peer = FALSE, !.pipe = Append(@, Closed)]

(* The process ends, and the system closes its connections.                *)
Exit ==
  /\ relay' = "down" /\ subscribed' = <<>> /\ inbox' = <<>>
  /\ sock' = [s \in Sockets |-> IF sock[s].peer THEN HungUp(s) ELSE sock[s]]

Crash ==
  /\ relay # "down" /\ Fault /\ Exit
  /\ UNCHANGED <<published, sessionVars, tab>>

(* SIGTERM: the relay takes no socket any more and waits for Redis.        *)
Sigterm ==
  /\ relay = "up" /\ Fault /\ relay' = "quitting"
  /\ UNCHANGED <<subscribed, inbox, published, sessionVars, tab, sock>>

Quit ==
  /\ relay = "quitting" /\ Exit
  /\ UNCHANGED <<published, sessionVars, tab, faults>>

Valid(k) == k # 0 /\ k \notin expired

(* A page adds the path that a bare host lacks.                            *)
ResolvedPath == IF UrlPath \in {"", "/"} THEN "/ws" ELSE UrlPath

(* The relay serves one path, and the upgrade decides the role of a socket *)
(* for good.                                                               *)
Upgrade(s) ==
  /\ relay = "up" /\ ResolvedPath = "/ws" /\ sock[s].state = "connecting" /\ sock[s].pipe = <<>>
  /\ sock' = [sock EXCEPT ![s] = [@ EXCEPT !.peer = TRUE, !.admin = Valid(sock[s].token),
                                           !.pipe = <<Opened>>]]
  /\ UNCHANGED <<relay, subscribed, inbox, published, sessionVars, tab, faults>>

(* Nobody listens, the relay is shutting down, or it is another path.      *)
Refuse(s) ==
  /\ relay # "up" \/ ResolvedPath # "/ws"
  /\ sock[s].state = "connecting" /\ sock[s].pipe = <<>>
  /\ sock' = [sock EXCEPT ![s] = HungUp(s)]
  /\ UNCHANGED <<relay, subscribed, inbox, published, sessionVars, tab, faults>>

(* A connection drops, and with it the end of what was under way.          *)
Disconnect(s) ==
  /\ sock[s].peer /\ Fault
  /\ \E k \in 0..Len(sock[s].pipe) :
       sock' = [sock EXCEPT ![s] = [HungUp(s) EXCEPT !.pipe = Append(SubSeq(sock[s].pipe, 1, k), Closed)]]
  /\ UNCHANGED <<relay, subscribed, inbox, published, sessionVars, tab>>
-----------------------------------------------------------------------------
(* The tabs.                                                               *)

(* getSessionToken forgets a token whose time is over.                     *)
SessionToken == IF Valid(session) THEN session ELSE 0

(* connect: a new socket with the token that resolveWsUrl finds.           *)
Dial(socks, t, token) ==
  LET free == {s \in Sockets : socks[s] = Free}
  IN /\ free # {}
     /\ sock' = [socks EXCEPT ![CHOOSE s \in free : TRUE] =
                   [Free EXCEPT !.tab = t, !.token = token, !.state = "connecting"]]

(* The cleanup of the hook's effect closes the socket.                     *)
Disposed(t) ==
  [s \in Sockets |->
     IF sock[s].tab # t \/ sock[s].disposed THEN sock[s]
     ELSE [sock[s] EXCEPT !.disposed = TRUE, !.state = "closing",
                          !.peer = FALSE, !.pipe = <<Closed>>]]

Retry(t) ==
  /\ tab[t].timer
  /\ tab' = [tab EXCEPT ![t].timer = FALSE]
  /\ IF t \in AdminTabs
     THEN session' = SessionToken /\ Dial(sock, t, SessionToken)
     ELSE UNCHANGED session /\ Dial(sock, t, 0)
  /\ UNCHANGED <<relay, subscribed, inbox, published, issued, expired, faults>>

OnOpen(s) ==
  /\ sock' = [sock EXCEPT ![s].state = "open", ![s].pipe = Tail(@)]
  /\ tab' = IF sock[s].disposed THEN tab ELSE [tab EXCEPT ![sock[s].tab].connected = TRUE]

Kept(list) == SubSeq(list, 1, IF Len(list) < Keep THEN Len(list) ELSE Keep)

OnMessage(s) ==
  LET t == sock[s].tab
      f == Head(sock[s].pipe)
  IN /\ sock' = [sock EXCEPT ![s].pipe = Tail(@)]
     /\ tab' = IF sock[s].disposed \/ f.channel \notin Shows(t) THEN tab
               ELSE [tab EXCEPT ![t].shown[f.channel] = Kept(<<f.id>> \o @)]

(* Mutant: the close of a socket that was given up is taken for its        *)
(* successor's.                                                            *)
OnAnyClose(s) ==
  /\ sock' = [sock EXCEPT ![s] = Free]
  /\ tab' = [tab EXCEPT ![sock[s].tab] = [@ EXCEPT !.connected = FALSE, !.timer = TRUE]]

(* Mutant: only a socket that was open is replaced.                        *)
OnCloseOnce(s) ==
  /\ sock' = [sock EXCEPT ![s] = Free]
  /\ tab' = IF sock[s].disposed THEN tab
            ELSE [tab EXCEPT ![sock[s].tab] = [@ EXCEPT !.connected = FALSE,
                                                        !.timer = sock[s].state = "open"]]

OnClose(s) ==
  /\ sock' = [sock EXCEPT ![s] = Free]
  /\ tab' = IF sock[s].disposed THEN tab
            ELSE [tab EXCEPT ![sock[s].tab] = [@ EXCEPT !.connected = FALSE, !.timer = TRUE]]

SocketEvent(s) ==
  /\ sock[s].pipe # <<>>
  /\ LET e == Head(sock[s].pipe)
     IN \/ e.at = "open" /\ OnOpen(s)
        \/ e.at = "frame" /\ OnMessage(s)
        \/ e.at = "close" /\ OnClose(s)
  /\ UNCHANGED <<relay, subscribed, inbox, published, sessionVars, faults>>

(* POST /api/auth/token: the token is stored, and the page connects.       *)
Login(t) ==
  /\ relay # "down" /\ tab[t].token = 0 /\ issued < MaxLogins
  /\ issued' = issued + 1 /\ session' = issued + 1
  /\ tab' = [tab EXCEPT ![t].token = issued + 1]
  /\ Dial(sock, t, issued + 1)
  /\ UNCHANGED <<relay, subscribed, inbox, published, expired, faults>>

(* logout clears the session of all tabs and its own state a little later. *)
Logout(t) ==
  /\ tab[t].token # 0 /\ ~tab[t].leaving
  /\ session' = 0 /\ tab' = [tab EXCEPT ![t].leaving = TRUE]
  /\ UNCHANGED <<relay, subscribed, inbox, published, issued, expired, sock, faults>>

LoggedOut(t) ==
  /\ tab[t].leaving
  /\ tab' = [tab EXCEPT ![t] = [@ EXCEPT !.token = 0, !.leaving = FALSE,
                                         !.connected = FALSE, !.timer = FALSE]]
  /\ sock' = Disposed(t)
  /\ UNCHANGED <<relay, subscribed, inbox, published, sessionVars, faults>>

NewPage == [token |-> 0, leaving |-> FALSE, connected |-> FALSE, timer |-> FALSE,
            shown |-> [ch \in ToSet(Channels) |-> <<>>]]

(* The console is loaded again and takes up the session it finds.          *)
Reload(t) ==
  /\ Fault
  /\ session' = SessionToken
  /\ tab' = [tab EXCEPT ![t] = [NewPage EXCEPT !.token = SessionToken]]
  /\ LET gone == [s \in Sockets |-> IF sock[s].tab = t THEN Free ELSE sock[s]]
     IN IF SessionToken = 0 THEN sock' = gone ELSE Dial(gone, t, SessionToken)
  /\ UNCHANGED <<relay, subscribed, inbox, published, issued, expired>>

Expire ==
  /\ \E k \in (1..issued) \ expired : expired' = expired \cup {k}
  /\ UNCHANGED <<relay, subscribed, inbox, published, session, issued, tab, sock, faults>>
-----------------------------------------------------------------------------
(* The public page has just been opened, so its timer stands for the first *)
(* connect.                                                                *)
Init ==
  /\ relay = "down" /\ subscribed = <<>> /\ inbox = <<>> 
  /\ published = 0
  /\ session = 0 /\ issued = 0 /\ expired = {}
  /\ tab = [t \in Tabs |-> [NewPage EXCEPT !.timer = t \in PublicTabs]]
  /\ sock = [s \in Sockets |-> Free]
  /\ faults = 0

Next ==
  \/ Start \/ Subscribe \/ RelayMessage
  \/ SubscriberReconnects \/ Crash \/ Sigterm \/ Quit \/ Expire
  \/ \E ch \in ToSet(Channels) : Publish(ch)
  \/ \E s \in Sockets : Upgrade(s) \/ Refuse(s) \/ Disconnect(s) \/ SocketEvent(s)
  \/ \E t \in Tabs : Retry(t)
  \/ \E t \in AdminTabs : Login(t) \/ Logout(t) \/ LoggedOut(t) \/ Reload(t)

Spec == Init /\ [][Next]_vars

(* The event loops run, a refused or accepted upgrade is answered, and the *)
(* timers fire.  Nothing is assumed of users, publishers and faults.       *)
FairSpec ==
  /\ Spec
  /\ \A s \in Sockets : WF_vars(Upgrade(s) \/ Refuse(s)) /\ WF_vars(SocketEvent(s))
  /\ \A t \in Tabs : WF_vars(Retry(t))
-----------------------------------------------------------------------------
(* What a page shows: the console asks for the secret as long as it has no *)
(* token.                                                                  *)
AdminPage(t) ==
  IF tab[t].token = 0 THEN [body |-> "login", online |-> FALSE, events |-> 0]
  ELSE [body |-> "console", online |-> tab[t].connected,
        events |-> Len(tab[t].shown["execution:commands"])
                   + Len(tab[t].shown["diagnostics:events"])]

PublicPage(t) == [body |-> "grid", online |-> tab[t].connected,
                  events |-> Len(tab[t].shown[Public])]

Page(t) == IF t \in AdminTabs THEN AdminPage(t) ELSE PublicPage(t)

Live(t) == {s \in Sockets : sock[s].tab = t /\ ~sock[s].disposed}

(* A page says it is online exactly when the one socket it uses is open,   *)
(* whatever sockets it gave up before are still closing (the disposed      *)
(* flags of the hooks, useAdminWebSockets.js:41-92).                       *)
ConnectedMeansOpen ==
  \A t \in Tabs :
    /\ \A s, r \in Live(t) : s = r
    /\ Page(t).body = "login" => Live(t) = {} /\ ~tab[t].timer
    /\ Page(t).online <=> \E s \in Live(t) : sock[s].state = "open"

(* Across reconnects, restarts and logins a page shows no event twice and  *)
(* none above a later one of its channel (server.js:273-292 and the hooks).*)
ShownInOrder ==
  \A t \in Tabs, ch \in ToSet(Channels) : \A i, j \in DOMAIN tab[t].shown[ch] :
    i < j => tab[t].shown[ch][i] > tab[t].shown[ch][j]

(* If the relay stays up, a public page is online again and again: no      *)
(* sequence of refused and dropped sockets ends its retries                *)
(* (useWebSockets.js:94-100).                                              *)
PublicPagesReconnect ==
  \A t \in PublicTabs : <>[](relay = "up") => []<>tab[t].connected
=============================================================================
