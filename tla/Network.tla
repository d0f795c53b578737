------------------------------- MODULE Network ---------------------------------
(***************************************************************************)
(* A connection of a program, at one of its layers: a socket, to a server  *)
(* of its own or to another machine through a relay (Sockets), the channel *)
(* of a peer that the page dials (PeerChannel), a session of HTTP/2 over a *)
(* socket (Http2), the parser of HTTP/1 (HttpParser), the codec of a body  *)
(* (Zlib), a WebSocket, a WebSocketStream or a fetch (WebGlobals), or      *)
(* the page's end of it all, which calls go through (Relay).               *)
(* One of them is taken in a behaviour: what one hands to another is       *)
(* bytes, cut anywhere, which is all that each assumes of its input.       *)
(***************************************************************************)
EXTENDS Integers, Sequences

CONSTANTS
  Clients, Plans, MaxWrites,                        \* of Sockets
  High, Low, Queue, MaxPieces, MaxIn,               \* of PeerChannel
  Streams, Shapes, Frame, MaxBodyWrites, MaxExtras, \* of Http2
  Parsers, Messages, MaxMessages,                   \* of HttpParser
  Jobs, Room,                                       \* of Zlib
  MaxMessagesIn, MaxSends, Bodies, Views, MaxWhole, MaxReads,   \* of WebGlobals
  Services, Peers, MaxCalls, MaxRenewals, MaxFailures   \* of Relay

ASSUME NetworkAssumption ==
  /\ High \in Nat \ {0} /\ Low \in 0 .. High /\ Queue \in Nat \ {0} /\ MaxPieces \in Nat \ {0}
  /\ Frame \in Nat \ {0} /\ Room \in Nat \ {0}
  /\ "nobody" \notin Parsers /\ MaxRenewals \in Nat

VARIABLES
  which,                                                    \* the layer
  plan, server, serve, net, dial, sock, pipe, sent, got,    \* of Sockets
  dialled, ws, pc, done, dc, held, writer, left, pending, queue, reader, arrived, taken, writes,
                                                            \* of PeerChannel
  session, str, told, end, heard,                           \* of Http2
  p, records, parsers, shown,                               \* of HttpParser
  job, stream, call, codec, out,                            \* of Zlib
  token, library, relays, clients, service, calls, failures,  \* of Relay
  x, conn, inbox, came, sends, wire, events,                \* of WebGlobals: a WebSocket,
  duplex, line,                                             \* a WebSocketStream,
  request, whole, source, mirror, reads, read, holds        \* a fetch

socket == <<plan, server, serve, net, dial, sock, pipe, sent, got>>
peer == <<dialled, ws, pc, done, dc, held, writer, left, pending, queue, reader, arrived, taken, writes>>
http2 == <<session, str, told, end, heard>>
parser == <<p, records, parsers, shown>>
zlib == <<job, stream, call, codec, out>>
relay == <<token, library, relays, clients, service, calls, failures>>
web == <<x, conn, inbox, came, sends, wire, events, duplex, line, request, whole, source, mirror,
         reads, read, holds>>
vars == <<which, socket, peer, http2, parser, zlib, relay, web>>

S == INSTANCE Sockets
C == INSTANCE PeerChannel WITH dial <- dialled
H == INSTANCE Http2 WITH h <- session, peer <- end, MaxWrites <- MaxBodyWrites
P == INSTANCE HttpParser
Z == INSTANCE Zlib
R == INSTANCE Relay WITH call <- calls
O == INSTANCE WebGlobals WITH MaxMessages <- MaxMessagesIn, stream <- duplex

\* A part that is not chosen rests in one of its initial states.
Init ==
  /\ which \in {"socket", "peer", "http2", "parser", "zlib", "relay", "websocket", "duplex", "fetch"}
  /\ S!Init
  /\ which # "socket" => plan = CHOOSE w \in Plans : TRUE
  /\ C!Init /\ H!Init /\ P!Init
  /\ Z!Init /\ (which # "zlib" => job = CHOOSE j \in Jobs : TRUE) /\ R!Init
  /\ O!Init
  /\ O!StreamInit /\ (which # "duplex" => duplex.signal = "none")
  /\ O!FetchInit /\ (which # "fetch" => source.body = CHOOSE b \in Bodies : TRUE)

Part(name, step, rest) == which = name /\ step /\ UNCHANGED <<which, rest>>

Socket(step) == Part("socket", step, <<peer, http2, parser, zlib, relay, web>>)

Peer(step) == Part("peer", step, <<socket, http2, parser, zlib, relay, web>>)

Next ==
  \/ Socket(S!Next) \/ Peer(C!Next)
  \/ Part("http2", H!Next, <<socket, peer, parser, zlib, relay, web>>)
  \/ Part("parser", P!Next, <<socket, peer, http2, zlib, relay, web>>)
  \/ Part("zlib", Z!Next, <<socket, peer, http2, parser, relay, web>>)
  \/ Part("relay", R!Next, <<socket, peer, http2, parser, zlib, web>>)
  \/ Part("websocket", O!Next, <<socket, peer, http2, parser, zlib, relay,
                                 duplex, line, request, whole, source, mirror, reads, read, holds>>)
  \/ Part("duplex", O!StreamNext, <<socket, peer, http2, parser, zlib, relay, x, conn, inbox, came, sends,
                              wire, events, request, whole, source, mirror, reads, read, holds>>)
  \/ Part("fetch", O!FetchNext, <<socket, peer, http2, parser, zlib, relay, x, conn, inbox, came, sends,
                             wire, events, duplex, line>>)

\* The page answers, promises settle and streams that are pumped move; the browser sends what a
\* channel holds or gives it up, and closes one that is being closed.  The other layers have safety
\* properties only.
FairSpec ==
  /\ Init /\ [][Next]_vars
  /\ WF_vars(Socket(S!PageServes \/ S!ServerSide))
  /\ \A c \in Clients : WF_vars(Socket(S!Dialling(c)))
  /\ \A e \in S!Ends : WF_vars(Socket(S!Streaming(e)))
  /\ WF_vars(Peer(C!Sends)) /\ WF_vars(Peer(C!Drains \/ C!OnClosed))
  /\ WF_vars(Peer(dc = "closing" /\ C!OnClosed)) /\ WF_vars(Peer(C!Takes))

-----------------------------------------------------------------------------
(* Properties *)

\* The end of a stream is reported for one only that was read to its last byte: of a socket
\* whose other end was ended on purpose, never for one that was cut (socket.ts #pumpRead,
\* _final), and of a channel however much came before its close (peer.ts drainReads), which
\* never holds more than a message above its mark; of a request's body, whose frames are cut
\* by the window (http2 _provideData), and of a codec's input (zlib.ts _checkError).  The
\* headers of a message are shown whole, however it was cut (http_parser _appendHeaderValue), a
\* WebSocket's messages in order and before its close, and a fetched body to its end (globals.ts).
EndMeansAll ==
  /\ S!EndMeansAll /\ C!EndMeansAll /\ C!HoldsLittle /\ H!EndMeansAll /\ P!HeadersWhole /\ Z!Whole
  /\ O!EndMeansAll /\ O!BodyWhole

\* What is over holds nothing: a page whose worker was terminated has no registration and no
\* stream to another machine, whatever was on its way, a peer's channel that closed has closed
\* its connection and its signaller's socket (network.ts close, peer.ts shutdown), and a
\* server's list of connections has those it serves (http_parser ConnectionsList).  A closed
\* network service holds no stream, and a relay or a client that could not be had is in nobody's
\* way (network.ts own, relayProvider).  A WebSocket that was closed while it was dialled, or a
\* WebSocketStream that was given up, has no connection, and a fetch holds the run open exactly as
\* long as somebody waits for it (globals.ts).
NothingLeft ==
  /\ S!NothingLeft /\ C!NothingLeft /\ P!ListsTrue /\ R!NothingHeld /\ R!OneRelay
  /\ O!NothingHeld /\ O!GivenUp /\ O!HeldWhileAwaited

\* Whatever waits for the other side comes to an end, and not before: a socket that dials connects
\* or closes, but for the one that waits for a server closing as it is published (excepted), an
\* end that is said is heard, a write to a channel ends with the mark or with the channel, and
\* `close` of a server waits for the sockets it accepted (server.ts _emitCloseIfDrained).  Nothing
\* waits that needs nobody: between its flushes a session has sent what it may (http2
\* _scheduleFlush), an acknowledgement goes to the one who waits for it, and a codec's call is
\* answered, closed or not (zlib.ts write).  A call of the page is not settled with what a renewal
\* made void before it began (network.ts onChange).
AllSettle ==
  /\ S!CloseIsLast /\ S!Settles /\ S!EndIsHeard /\ C!WriteSettles /\ C!ReadEnds
  /\ [](H!NothingWaits /\ H!AnswersMatch /\ Z!Answered /\ R!UsesRenewed)
=============================================================================
