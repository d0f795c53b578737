------------------------------- MODULE FsEvents -------------------------------
(***************************************************************************)
(* The change feed of a page (lib/fsevents.ts): one hub for each token,    *)
(* with a socket on which the server names every change, and, while the    *)
(* socket is down, a poll of a counter that says only that something       *)
(* changed.  Whoever subscribes must learn of every change, by its event   *)
(* or by a stale notice, which says: look again at all you hold.           *)
(*                                                                         *)
(* The server is there as its counter, the changes so far.  A step of the  *)
(* hub is one callback: a frame, a timer, an answer to a poll, a call of a *)
(* subscriber.  Backoff and intervals are time and left out: an armed      *)
(* timer may fire at any moment.  One hub; moving it to the key of another *)
(* token changes no state of it.                                           *)
(***************************************************************************)
EXTENDS Integers, Sequences, FiniteSets

CONSTANTS
  Consumers,   \* the cache of a filesystem, the workers that watch
  UserToken,   \* may the token be one the handshake accepts, by its first value
  None, Sent,  \* no baseline, no poll; a poll the server has not read yet
  MaxChanges,  \* bound: changes, of the files and of the token together
  MaxTokens    \* bound: renewals of the token

VARIABLES
  world,   \* the counter of the server
  socket,  \* where the WebSocket is, the frames on their way, and is it a black hole
  hub,     \* FsEventsHub
  heard,   \* per subscriber: the last state it was told
  owed,    \* history, per subscriber: changes since it came that it was not told of
  hole,    \* history: changes made while nothing could have noticed them
  renewed  \* renewals so far

vars == <<world, socket, hub, heard, owed, hole, renewed>>

-----------------------------------------------------------------------------
(* The hub, with what its subscribers know, as a record s that its methods   *)
(* take to the next                                                          *)

NoSocket == [at |-> "none", in |-> <<>>, deaf |-> FALSE]

Now == [socket |-> socket, hub |-> hub, heard |-> heard, owed |-> owed]

Becomes(s) ==
  /\ socket' = s.socket /\ hub' = s.hub
  /\ heard' = s.heard /\ owed' = s.owed

Subscribers(s) == DOMAIN s.heard

\* #state
State(h) == [connected |-> h.connected, polling |-> ~ h.connected /\ h.healthy]

TellState(s) == [s EXCEPT !.heard = [c \in Subscribers(s) |-> State(s.hub)]]

\* ev.stale: whatever a subscriber missed, it now looks again.
TellStale(s) == [s EXCEPT !.owed = [c \in Subscribers(s) |-> {}]]

TellEvent(s, k) == [s EXCEPT !.owed = [c \in Subscribers(s) |-> @[c] \ {k}]]

\* Mutation: nobody is told.
SetHealthy_Quietly(s, ok) == [s EXCEPT !.hub.healthy = ok]

\* #setPollHealthy
SetHealthy(s, ok) ==
  IF s.hub.healthy = ok THEN s ELSE TellState([s EXCEPT !.hub.healthy = ok])

\* #poll: a poll in flight is shared.
Poll(s) == IF s.hub.poll = None THEN [s EXCEPT !.hub.poll = Sent] ELSE s

\* #syncPolling
SyncPolling(s) ==
  LET wanted == Subscribers(s) # {} /\ ~ s.hub.connected
  IN IF wanted = s.hub.ticking THEN s
     ELSE IF wanted THEN Poll([s EXCEPT !.hub.ticking = TRUE])
     ELSE SetHealthy([s EXCEPT !.hub.ticking = FALSE], FALSE)

\* Mutation: a drop is not announced.
SetDown_NoGap(s) ==
  IF ~ s.hub.connected THEN s
  ELSE SyncPolling([TellState([s EXCEPT !.hub.connected = FALSE])
                      EXCEPT !.hub.baseline = None])

\* #setConnected(false): announce the gap, forget the baseline, poll.
SetDown(s) ==
  IF ~ s.hub.connected THEN s
  ELSE SyncPolling([TellStale(TellState([s EXCEPT !.hub.connected = FALSE]))
                      EXCEPT !.hub.baseline = None])

\* #setConnected(true): with a baseline, one more poll says whether there was a
\* gap; without one there was.
SetUp(s) ==
  IF s.hub.connected THEN s
  ELSE LET up == SyncPolling(TellState([s EXCEPT !.hub.connected = TRUE]))
       IN IF s.hub.baseline = None THEN TellStale(up) ELSE Poll(up)

TearDown(s) == [s EXCEPT !.socket = NoSocket]

ScheduleReconnect(s) ==
  IF s.hub.dead \/ Subscribers(s) = {} THEN s ELSE [s EXCEPT !.hub.retry = TRUE]

\* #connect
Connect(s) ==
  IF s.socket.at # "none" \/ s.hub.dead \/ Subscribers(s) = {} THEN s
  ELSE [s EXCEPT !.socket.at = "dialing"]

ClearTimers(s) ==
  [s EXCEPT !.hub = [@ EXCEPT !.retry = FALSE, !.watchdog = FALSE, !.ticking = FALSE]]

\* Mutation: the timer of the reconnection outlives the last subscriber.
CloseHub_KeepsTimers(s) == TearDown(s)

\* close: the last subscriber has gone.
CloseHub(s) == TearDown(ClearTimers(s))

-----------------------------------------------------------------------------
(* Subscribers *)

Fresh(user) ==
  [connected |-> FALSE, retry |-> FALSE, watchdog |-> FALSE, dead |-> FALSE,
   ticking |-> FALSE, poll |-> None, baseline |-> None, healthy |-> FALSE, user |-> user]

\* attach and subscribe: a subscriber is told the state, and the feed starts.  The
\* first one finds a new hub.
Subscribe(c) ==
  LET h == IF heard = <<>> THEN Fresh(hub.user) ELSE hub
      s == [Now EXCEPT !.hub = h,
                       !.heard = [d \in DOMAIN heard \cup {c} |->
                                    IF d = c THEN State(h) ELSE heard[d]],
                       !.owed  = [d \in DOMAIN owed \cup {c} |->
                                    IF d = c THEN {} ELSE owed[d]]]
  IN /\ c \notin DOMAIN heard
     /\ Becomes(SyncPolling(Connect(s)))
     /\ UNCHANGED <<world, hole, renewed>>

\* close of a feed or of a subscription.  A hub without subscribers is closed and
\* dropped.
Unsubscribe(c) ==
  LET s == [Now EXCEPT !.heard = [d \in DOMAIN heard \ {c} |-> heard[d]],
                       !.owed  = [d \in DOMAIN owed \ {c} |-> owed[d]]]
  IN /\ c \in DOMAIN heard
     /\ Becomes(IF Subscribers(s) = {} THEN CloseHub(s) ELSE s)
     /\ UNCHANGED <<world, hole, renewed>>

\* ensureFresh: a cache asks before it answers from itself.
EnsureFresh ==
  /\ ~ hub.connected
  /\ DOMAIN heard # {}
  /\ Becomes(Poll(Now))
  /\ UNCHANGED <<world, hole, renewed>>

\* setToken: the next handshake sends another token, and a refused hub tries again.
SetToken(user) ==
  /\ renewed < MaxTokens /\ world + renewed < MaxChanges
  /\ renewed' = renewed + 1
  /\ Becomes(LET s == [Now EXCEPT !.hub.user = user]
             IN IF hub.dead THEN Connect([s EXCEPT !.hub.dead = FALSE]) ELSE s)
  /\ UNCHANGED <<world, hole>>

-----------------------------------------------------------------------------
(* The server and the network *)

Joined == socket.at = "joined"

\* Frames that reach a socket the server has let into the room of the user.
Receives(frame) ==
  IF Joined /\ ~ socket.deaf THEN [socket EXCEPT !.in = Append(@, frame)] ELSE socket

\* Somebody else changes something.  Without a socket and without a value to
\* compare the next poll with, nothing can notice it.
Change ==
  /\ world + renewed < MaxChanges
  /\ world' = world + 1
  /\ socket' = Receives(<<"event", world + 1>>)
  /\ owed' = [c \in DOMAIN owed |-> owed[c] \cup {world + 1}]
  /\ hole' = IF hub.baseline = None /\ hub.poll \notin Nat /\ ~ hub.connected
             THEN hole \cup {world + 1} ELSE hole
  /\ UNCHANGED <<hub, heard, renewed>>

\* inject: a change of this page is told to all at once, and echoed later.
Inject ==
  /\ world + renewed < MaxChanges
  /\ world' = world + 1
  /\ socket' = Receives(<<"event", world + 1>>)
  /\ UNCHANGED <<hub, heard, owed, hole, renewed>>

Packet(type) == <<type, 0>>

\* Mutation: silence goes unnoticed.
Greet_NoWatchdog ==
  /\ socket.at = "dialing"
  /\ socket' = [socket EXCEPT !.at = "greeted"]
  /\ UNCHANGED <<world, hub, heard, owed, hole, renewed>>

Greet ==
  /\ socket.at = "dialing"
  /\ socket' = [socket EXCEPT !.at = "greeted"]
  /\ hub' = [hub EXCEPT !.watchdog = TRUE]
  /\ UNCHANGED <<world, heard, owed, hole, renewed>>

\* The handshake cannot be read.
BadGreeting ==
  /\ socket.at = "dialing"
  /\ Becomes(ScheduleReconnect(TearDown(Now)))
  /\ UNCHANGED <<world, hole, renewed>>

\* The server answers the CONNECT: from here on it sends the events.
Accept ==
  /\ socket.at = "greeted" /\ hub.user
  /\ socket' = [socket EXCEPT !.at = "joined", !.in = <<Packet("connect")>>]
  /\ UNCHANGED <<world, hub, heard, owed, hole, renewed>>

Reject ==
  /\ socket.at = "greeted" /\ ~ hub.user
  /\ socket' = [socket EXCEPT !.at = "refused", !.in = <<Packet("error")>>]
  /\ UNCHANGED <<world, hub, heard, owed, hole, renewed>>

Disconnect ==
  /\ Joined /\ ~ socket.deaf
  /\ \A i \in DOMAIN socket.in : socket.in[i] # Packet("disconnect")
  /\ socket' = [socket EXCEPT !.in = Append(@, Packet("disconnect"))]
  /\ UNCHANGED <<world, hub, heard, owed, hole, renewed>>

\* The connection is black-holed: nothing more arrives, and no close either.
GoDeaf ==
  /\ Joined /\ ~ socket.deaf
  /\ socket' = [socket EXCEPT !.deaf = TRUE, !.in = <<>>]
  /\ UNCHANGED <<world, hub, heard, owed, hole, renewed>>

-----------------------------------------------------------------------------
(* Frames and timers *)

Frame(f) ==
  /\ socket.in # <<>>
  /\ Head(socket.in) = f

Rest == [Now EXCEPT !.socket.in = Tail(@)]

\* Changes that only the poll of this moment can still tell: its value was read
\* before them.
Outrun ==
  IF hub.poll \in Nat /\ hub.baseline # None
  THEN {k \in UNION {owed[c] : c \in DOMAIN owed} :
          k > hub.poll /\ \A i \in DOMAIN socket.in : socket.in[i] # <<"event", k>>}
  ELSE {}

OnConnect ==
  /\ Frame(Packet("connect"))
  /\ Becomes(SetUp(Rest))
  /\ hole' = hole \cup Outrun
  /\ UNCHANGED <<world, renewed>>

\* The token is refused, for good; polling is all there will be.
OnConnectError ==
  /\ Frame(Packet("error"))
  /\ Becomes(TellStale(SyncPolling(SetDown(TearDown(ClearTimers(
       [Rest EXCEPT !.hub.dead = TRUE]))))))
  /\ UNCHANGED <<world, hole, renewed>>

OnDisconnect ==
  /\ Frame(Packet("disconnect"))
  /\ Becomes(ScheduleReconnect(TearDown(SetDown(Rest))))
  /\ UNCHANGED <<world, hole, renewed>>

OnEvent ==
  /\ \E k \in 1..MaxChanges : Frame(<<"event", k>>) /\ Becomes(TellEvent(Rest, k))
  /\ UNCHANGED <<world, hole, renewed>>

\* onclose: what was on its way is lost.
OnClose ==
  /\ socket.at # "none"
  /\ Becomes(ScheduleReconnect(SetDown(TearDown(Now))))
  /\ UNCHANGED <<world, hole, renewed>>

\* The server has been silent for too long.  The timer of a socket that is gone
\* stays armed, and may meet its successor.
WatchdogFires ==
  /\ hub.watchdog
  /\ Becomes(ScheduleReconnect(SetDown(TearDown([Now EXCEPT !.hub.watchdog = FALSE]))))
  /\ UNCHANGED <<world, hole, renewed>>

Reconnect ==
  /\ hub.retry
  /\ LET s == [Now EXCEPT !.hub.retry = FALSE]
     IN Becomes(Connect(s)) \/ Becomes(ScheduleReconnect(s))  \* the constructor throws
  /\ UNCHANGED <<world, hole, renewed>>

PollTick ==
  /\ hub.ticking
  /\ Becomes(Poll(Now))
  /\ UNCHANGED <<world, hole, renewed>>

\* The server reads its counter.
PollRead ==
  /\ hub.poll = Sent
  /\ hub' = [hub EXCEPT !.poll = world]
  /\ UNCHANGED <<world, socket, heard, owed, hole, renewed>>

\* The first answer is a baseline; after that a different one is a change.
PollArrives ==
  /\ hub.poll \in Nat
  /\ LET s == SetHealthy([Now EXCEPT !.hub.poll = None, !.hub.baseline = hub.poll], TRUE)
     IN Becomes(IF hub.baseline # None /\ hub.poll # hub.baseline THEN TellStale(s) ELSE s)
  /\ UNCHANGED <<world, hole, renewed>>

\* Once the socket is up no other poll will tell what this one would have told,
\* and without a baseline the next one is the first.
PollFails ==
  /\ hub.poll # None
  /\ Becomes(SetHealthy([Now EXCEPT !.hub.poll = None], FALSE))
  /\ hole' = IF hub.connected \/ hub.baseline = None THEN hole \cup UNION {owed[c] : c \in DOMAIN owed} ELSE hole
  /\ UNCHANGED <<world, renewed>>

-----------------------------------------------------------------------------

Init ==
  /\ world = 0
  /\ socket = NoSocket
  /\ \E user \in UserToken :
       hub = Fresh(user)
  /\ heard = <<>> /\ owed = <<>>
  /\ hole = {} /\ renewed = 0

Frames == OnConnect \/ OnConnectError \/ OnDisconnect \/ OnEvent

Network ==
  \/ Change \/ Inject \/ Greet \/ BadGreeting \/ Accept \/ Reject \/ Disconnect \/ GoDeaf

Next ==
  \/ \E c \in Consumers : Subscribe(c) \/ Unsubscribe(c)
  \/ EnsureFresh
  \/ \E user \in BOOLEAN : SetToken(user)
  \/ Network \/ Frames
  \/ OnClose \/ WatchdogFires \/ Reconnect \/ PollTick
  \/ PollRead \/ PollArrives \/ PollFails

Spec == Init /\ [][Next]_vars

\* What arrived is processed; a timer of the hub fires; a black-holed connection
\* outlives its pings; a server that is asked again and again answers once.
FairSpec ==
  /\ Spec
  /\ WF_vars(Frames) /\ WF_vars(PollTick)
  /\ WF_vars(socket.deaf /\ WatchdogFires)
  /\ SF_vars(PollRead) /\ SF_vars(PollArrives)

-----------------------------------------------------------------------------
(* Properties *)

\* The feed is level with the server: everything that was to be delivered was, or
\* the counter was compared with the one there is now.
Level ==
  /\ hub.poll = None
  /\ IF hub.connected THEN socket.in = <<>> /\ ~ socket.deaf ELSE hub.baseline = world

AllTold == \A c \in DOMAIN owed : owed[c] \subseteq hole

\* Whenever the feed is level with the server, every subscriber was told of every
\* change made since it came, by the event or by a stale notice, the changes apart
\* that fell into one of the feed's blind spots: no socket and no baseline yet, or
\* a poll on which the connect relied that failed or had been read too early
\* (setConnected and pollOnce).
NothingMissed == Level => AllTold

\* Every subscriber knows what covers it: the last ev.state it was sent says how
\* the hub is now, so a watcher never leaves its own polling off while neither
\* socket nor counter works (#state, #setPollHealthy, #setConnected).
StateTold == \A c \in DOMAIN heard : heard[c] = State(hub)

\* A hub that nobody listens to holds no socket and no timer, whatever was under
\* way when the last listener left, and so cannot come back (close, #empty).
EmptyIsQuiet ==
  heard = <<>> => /\ socket = NoSocket
                  /\ ~ hub.retry /\ ~ hub.watchdog /\ ~ hub.ticking

\* After the last change every subscriber that stays is told in the end of all it
\* missed outside the blind spots, also when the connection is black-holed, drops
\* again and again or is refused (#armWatchdog, #syncPolling, #poll).
ChangesSurface == []<>AllTold
=============================================================================
