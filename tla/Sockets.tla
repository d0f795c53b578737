------------------------------- MODULE Sockets -------------------------------
(* Sockets and servers of one worker: worker/node/net/socket.ts and           *)
(* server.ts, the publication of a server (worker/peer.ts, lib/peer.ts) and    *)
(* the page's NetworkService (lib/network.ts), which opens what is not local.  *)
(*                                                                            *)
(* A connection has two ends: <<c, "client">> dialled, and <<c, "far">> is the *)
(* socket the server of this worker accepted, or a remote host, which is       *)
(* taken to behave as a socket does.  pipe[e] carries what e writes to the     *)
(* other end.  Bytes are counted, not named: a stream keeps their order.       *)
(* Nobody else serves the port: the peer call of a dial is refused.            *)
EXTENDS Naturals, FiniteSets

CONSTANTS
  Clients,        \* sockets the program may connect
  Plans,          \* bound: what the program may do, see plan
  MaxWrites       \* bound: writes of one end

VARIABLES
  plan,   \* the clients it dials, those of them that dial another machine and not
          \* its server, those it neither writes to nor ends, the ends it may destroy,
          \* its calls of listen() and Server.maxConnections
  server, \* the one Server object
  serve,  \* its registration at the signaller, which the page holds
  net,    \* the page's NetworkService is closed (the worker was terminated)
  dial,   \* dial[c]: how far open() of _beginConnect has come
  sock,   \* sock[e]: the Duplex of an end
  pipe,   \* pipe[e]: the stream from e to the other end
  sent,   \* sent[e]: writes the program made at e
  got     \* got[e]: how many of the other end's have arrived at e

vars == <<plan, server, serve, net, dial, sock, pipe, sent, got>>

Ends     == Clients \X {"client", "far"}
Other(e) == <<e[1], IF e[2] = "client" THEN "far" ELSE "client">>

NoSock == [st |-> "none", buf |-> 0, busy |-> "no", ending |-> FALSE, fin |-> FALSE,
           rend |-> FALSE, w |-> FALSE, r |-> FALSE, hold |-> FALSE, early |-> FALSE]

Destroyed(e) == sock[e].st \in {"closing", "closed"}
Usable(e)    == sock[e].st \in {"connecting", "open"}
Accepted     == {e \in Ends : /\ e[2] = "far" /\ e[1] \notin plan.remote
                              /\ sock[e].st \in {"open", "closing"}}

-----------------------------------------------------------------------------
(* Streams *)

\* A cancelled reader and an aborted writer both fail the stream and drop what is
\* in it; one that has been read to its end is past that.
Fail(p) == IF p.st = "open" \/ p.q > 0 THEN [q |-> 0, st |-> "dead"] ELSE p

Fresh == [q |-> 0, st |-> "open"]

\* The streams of a connection nobody will read.
Cancelled(c) == [e \in Ends |-> IF e[1] = c THEN [q |-> 0, st |-> "dead"] ELSE pipe[e]]
Wired(c)     == [e \in Ends |-> IF e[1] = c THEN Fresh ELSE pipe[e]]

-----------------------------------------------------------------------------
(* The server *)

\* Mutant: closed as soon as close() is called.
CloseIfDrained_NoCount(s) ==
  IF s.closing /\ ~s.listening
  THEN [s EXCEPT !.closing = FALSE, !.closes = @ + 1]
  ELSE s

\* _emitCloseIfDrained
CloseIfDrained(s) ==
  IF s.closing /\ ~s.listening /\ s.conns = 0
  THEN [s EXCEPT !.closing = FALSE, !.closes = @ + 1]
  ELSE s

\* Whoever waits for `listening` goes on.
Announced == [c \in Clients |-> IF dial[c] = "waits" THEN "go" ELSE dial[c]]

\* listen(), which throws while the server is up or its port is taken.
Listen ==
  /\ ~net
  /\ ~server.listening /\ ~server.starting /\ ~server.bound
  /\ server.listens < plan.listens
  /\ server' = [server EXCEPT !.starting = TRUE, !.bound = TRUE, !.hold = TRUE,
                              !.listens = @ + 1]
  /\ UNCHANGED <<plan, serve, net, dial, sock, pipe, sent, got>>

\* The page has the signaller's answer: #track closes what comes after terminate().
PageServes ==
  /\ server.starting /\ serve = "none"
  /\ serve' = IF net THEN "closed" ELSE "open"
  /\ UNCHANGED <<plan, server, net, dial, sock, pipe, sent, got>>

\* hostPeerServer resolves.  A server that was closed and still has its connections
\* when it listens again is taken for one that is closing: it stays bound, and whoever
\* waits for `listening` is told nothing.
Published ==
  /\ ~net
  /\ server.starting /\ serve = "open"
  /\ IF server.closing
     THEN /\ server' = [server EXCEPT !.starting = FALSE]
          /\ serve' = "none"
          /\ UNCHANGED dial
     ELSE /\ server' = [server EXCEPT !.starting = FALSE, !.listening = TRUE,
                                      !.peer = TRUE, !.hold = TRUE]
          /\ dial' = Announced
          /\ UNCHANGED serve
  /\ UNCHANGED <<plan, net, sock, pipe, sent, got>>

\* Mutant: a server that is not published says nothing.
PublishFails_Silent ==
  /\ ~net
  /\ server.starting /\ serve = "none"
  /\ server' = [server EXCEPT !.starting = FALSE, !.hold = FALSE]
  /\ UNCHANGED <<plan, serve, net, dial, sock, pipe, sent, got>>

\* It fails: the server listens for this worker alone.
PublishFails ==
  /\ ~net
  /\ server.starting /\ serve = "none"
  /\ server' = [server EXCEPT !.starting = FALSE, !.listening = TRUE, !.hold = TRUE]
  /\ dial' = Announced
  /\ UNCHANGED <<plan, serve, net, sock, pipe, sent, got>>

\* close(), which gives the port back even of a server that is not up.
CloseServer ==
  LET up == server.listening \/ server.starting
  IN /\ ~net /\ (up \/ server.bound)
     /\ server.closes <= plan.listens
     /\ server' = CloseIfDrained(
          IF up THEN [server EXCEPT !.bound = FALSE, !.listening = FALSE, !.closing = TRUE,
                                    !.peer = FALSE, !.hold = FALSE]
          ELSE [server EXCEPT !.bound = FALSE])
     /\ serve' = IF server.peer THEN "none" ELSE serve
     /\ UNCHANGED <<plan, net, dial, sock, pipe, sent, got>>

-----------------------------------------------------------------------------
(* Connecting *)

\* connectLoopback with a listening server: streams wired crosswise, one end given
\* to _onAccept, which drops it when the server is full.  s: the sockets so far.
Meets(c, s) ==
  /\ dial' = [dial EXCEPT ![c] = "made"]
  /\ IF server.conns < plan.limit
     THEN /\ pipe' = Wired(c)
          /\ server' = [server EXCEPT !.conns = @ + 1]
          /\ sock' = [s EXCEPT ![<<c, "far">>] =
                        [NoSock EXCEPT !.st = "open", !.w = TRUE, !.r = TRUE, !.hold = TRUE]]
     ELSE /\ pipe' = Cancelled(c)
          /\ sock' = s
          /\ UNCHANGED server

\* Not here: the page is asked.
AsksPage(c, s) ==
  /\ dial' = [dial EXCEPT ![c] = "asks"]
  /\ sock' = s
  /\ UNCHANGED <<server, pipe>>

Connect(c) ==
  LET s == [sock EXCEPT ![<<c, "client">>] =
              [@ EXCEPT !.st = "connecting", !.hold = TRUE]]
  IN /\ ~net
     /\ sock[<<c, "client">>].st = "none"
     /\ \/ c \notin plan.remote /\ server.bound /\ server.listening /\ Meets(c, s)
        \/ /\ c \notin plan.remote /\ server.bound /\ server.starting
           /\ dial' = [dial EXCEPT ![c] = "waits"]
           /\ sock' = s
           /\ UNCHANGED <<server, pipe>>
        \/ /\ c \in plan.remote \/ ~server.bound \/ ~(server.listening \/ server.starting)
           /\ AsksPage(c, s)
     /\ UNCHANGED <<plan, serve, net, sent, got>>

\* `listening` has come; is it still so?
Go(c) ==
  /\ ~net /\ dial[c] = "go"
  /\ IF server.listening THEN Meets(c, sock) ELSE AsksPage(c, sock)
  /\ UNCHANGED <<plan, serve, net, sent, got>>

\* Mutant: the writer is closed, not aborted.
Destroy_Closes(e, s, p) ==
  /\ sock' = [s EXCEPT ![e] = [@ EXCEPT !.st = "closing", !.hold = FALSE, !.buf = 0,
                                        !.w = FALSE, !.r = FALSE]]
  /\ pipe' = [p EXCEPT ![Other(e)] = IF s[e].r THEN Fail(@) ELSE @,
                       ![e].st = IF s[e].w /\ @ = "open" THEN "ended" ELSE @]

\* The socket dies: nothing holds the run, what is in the streams is lost.
Destroy(e, s, p) ==
  /\ sock' = [s EXCEPT ![e] = [@ EXCEPT !.st = "closing", !.hold = FALSE, !.buf = 0,
                                        !.w = FALSE, !.r = FALSE]]
  /\ pipe' = [p EXCEPT ![Other(e)] = IF s[e].r THEN Fail(@) ELSE @,
                       ![e] = IF s[e].w THEN Fail(@) ELSE @]

\* Mutant: nothing looks whether the worker is still there.
PageOpens_NoLook(c) ==
  /\ dial[c] = "asks" /\ c \in plan.remote
  /\ dial' = [dial EXCEPT ![c] = "made"]
  /\ pipe' = Wired(c)
  /\ sock' = [sock EXCEPT ![<<c, "far">>] =
                [NoSock EXCEPT !.st = "open", !.w = TRUE, !.r = TRUE]]
  /\ UNCHANGED <<plan, server, serve, net, sent, got>>

\* NetworkService.handle has a stream, or peer.connect and the network refuse.  A
\* call that comes back after close() cancels what it opened.
PageOpens(c) ==
  /\ dial[c] = "asks" /\ c \in plan.remote
  /\ IF net
     THEN /\ dial' = [dial EXCEPT ![c] = "refused"]
          /\ pipe' = Cancelled(c)
          /\ UNCHANGED sock
     ELSE /\ dial' = [dial EXCEPT ![c] = "made"]
          /\ pipe' = Wired(c)
          /\ sock' = [sock EXCEPT ![<<c, "far">>] =
                        [NoSock EXCEPT !.st = "open", !.w = TRUE, !.r = TRUE]]
  /\ UNCHANGED <<plan, server, serve, net, sent, got>>

PageRefuses(c) ==
  /\ dial[c] = "asks"
  /\ dial' = [dial EXCEPT ![c] = "refused"]
  /\ UNCHANGED <<plan, server, serve, net, sock, pipe, sent, got>>

Refused(c) ==
  /\ ~net /\ dial[c] = "refused"
  /\ dial' = [dial EXCEPT ![c] = "done"]
  /\ IF Destroyed(<<c, "client">>) THEN UNCHANGED <<sock, pipe>>
     ELSE Destroy(<<c, "client">>, sock, pipe)
  /\ UNCHANGED <<plan, server, serve, net, sent, got>>

\* open() resolved: a socket destroyed meanwhile cancels both streams.
Attach(c) ==
  LET e == <<c, "client">>
  IN /\ ~net /\ dial[c] = "made"
     /\ dial' = [dial EXCEPT ![c] = "done"]
     /\ IF Destroyed(e)
        THEN /\ pipe' = [pipe EXCEPT ![e] = Fail(@), ![Other(e)] = Fail(@)]
             /\ UNCHANGED sock
        ELSE /\ sock' = [sock EXCEPT ![e] = [@ EXCEPT !.st = "open", !.w = TRUE, !.r = TRUE]]
             /\ UNCHANGED pipe
     /\ UNCHANGED <<plan, server, serve, net, sent, got>>

-----------------------------------------------------------------------------
(* The Duplex of an end *)

Write(e) ==
  /\ Usable(e) /\ ~sock[e].ending
  /\ sent[e] < MaxWrites
  /\ sent' = [sent EXCEPT ![e] = @ + 1]
  /\ sock' = [sock EXCEPT ![e].buf = @ + 1]
  /\ UNCHANGED <<plan, server, serve, net, dial, pipe, got>>

End(e) ==
  /\ Usable(e) /\ ~sock[e].ending
  /\ sock' = [sock EXCEPT ![e].ending = TRUE]
  /\ UNCHANGED <<plan, server, serve, net, dial, pipe, sent, got>>

ProgramDestroys(e) ==
  /\ Usable(e)
  /\ Destroy(e, sock, pipe)
  /\ UNCHANGED <<plan, server, serve, net, dial, sent, got>>

\* _write, which waits for the connection, and then for the other end to take it.
Writes(e) ==
  /\ sock[e].st = "open" /\ sock[e].w
  /\ sock[e].buf > 0 /\ sock[e].busy = "no"
  /\ IF pipe[e].st = "open"
     THEN /\ sock' = [sock EXCEPT ![e] = [@ EXCEPT !.buf = @ - 1, !.busy = "yes"]]
          /\ pipe' = [pipe EXCEPT ![e].q = @ + 1]
     ELSE Destroy(e, sock, pipe)
  /\ UNCHANGED <<plan, server, serve, net, dial, sent, got>>

Written(e) ==
  /\ sock[e].st = "open" /\ sock[e].busy = "yes"
  /\ \/ /\ pipe[e].st = "open" /\ pipe[e].q = 0
        /\ sock' = [sock EXCEPT ![e].busy = "no"]
        /\ UNCHANGED pipe
     \/ pipe[e].st = "dead" /\ Destroy(e, sock, pipe)
  /\ UNCHANGED <<plan, server, serve, net, dial, sent, got>>

\* Every write is done: _final, which closes the writer if there is one yet.
CanFinish(e) == /\ Usable(e) /\ sock[e].ending /\ ~sock[e].fin
                /\ sock[e].buf = 0 /\ sock[e].busy = "no"

\* Mutant: the writer stays open.
Final_NoClose(e) ==
  /\ CanFinish(e)
  /\ sock' = [sock EXCEPT ![e].fin = TRUE]
  /\ UNCHANGED <<plan, server, serve, net, dial, pipe, sent, got>>

Final(e) ==
  /\ CanFinish(e)
  /\ IF ~sock[e].w
     THEN /\ sock' = [sock EXCEPT ![e] = [@ EXCEPT !.fin = TRUE, !.early = TRUE]]
          /\ UNCHANGED pipe
     ELSE IF pipe[e].st = "dead" THEN Destroy(e, sock, pipe)
     ELSE /\ sock' = [sock EXCEPT ![e] = [@ EXCEPT !.fin = TRUE, !.w = FALSE]]
          /\ pipe' = [pipe EXCEPT ![e].st = "ended"]
  /\ UNCHANGED <<plan, server, serve, net, dial, sent, got>>

\* #pumpRead
Receive(e) ==
  /\ sock[e].st = "open" /\ sock[e].r /\ pipe[Other(e)].q > 0
  /\ pipe' = [pipe EXCEPT ![Other(e)].q = @ - 1]
  /\ got' = [got EXCEPT ![e] = @ + 1]
  /\ UNCHANGED <<plan, server, serve, net, dial, sock, sent>>

\* Its end: without allowHalfOpen the socket ends too.
ReceiveEnd(e) ==
  /\ sock[e].st = "open" /\ sock[e].r /\ ~sock[e].rend
  /\ pipe[Other(e)].q = 0
  /\ \/ /\ pipe[Other(e)].st = "ended"
        /\ sock' = [sock EXCEPT ![e] = [@ EXCEPT !.rend = TRUE, !.ending = TRUE]]
        /\ UNCHANGED pipe
     \/ pipe[Other(e)].st = "dead" /\ Destroy(e, sock, pipe)
  /\ UNCHANGED <<plan, server, serve, net, dial, sent, got>>

AutoDestroy(e) ==
  /\ sock[e].st = "open" /\ sock[e].rend /\ sock[e].fin
  /\ Destroy(e, sock, pipe)
  /\ UNCHANGED <<plan, server, serve, net, dial, sent, got>>

\* `close`: the server counts the sockets it accepted.
Closed(e) ==
  /\ sock[e].st = "closing"
  /\ sock' = [sock EXCEPT ![e].st = "closed"]
  /\ server' = IF e[2] = "far" /\ e[1] \notin plan.remote
               THEN CloseIfDrained([server EXCEPT !.conns = @ - 1])
               ELSE server
  /\ UNCHANGED <<plan, serve, net, dial, pipe, sent, got>>

-----------------------------------------------------------------------------
\* terminate(): NetworkService.close() and the page's other resources.  The worker
\* is gone with it.
Terminate ==
  /\ ~net
  /\ net' = TRUE
  /\ serve' = IF serve = "open" THEN "closed" ELSE serve
  /\ pipe' = [e \in Ends |-> IF e[1] \in plan.remote THEN Fail(pipe[e]) ELSE pipe[e]]
  /\ UNCHANGED <<plan, server, dial, sock, sent, got>>

Init ==
  /\ server = [listening |-> FALSE, starting |-> FALSE, closing |-> FALSE,
               bound |-> FALSE, peer |-> FALSE, hold |-> FALSE,
               conns |-> 0, closes |-> 0, listens |-> 0]
  /\ plan \in Plans
  /\ serve = "none"
  /\ net = FALSE
  /\ dial = [c \in Clients |-> "no"]
  /\ sock = [e \in Ends |-> NoSock]
  /\ pipe = [e \in Ends |-> [q |-> 0, st |-> "none"]]
  /\ sent = [e \in Ends |-> 0]
  /\ got = [e \in Ends |-> 0]

ServerSide == Published \/ PublishFails
Dialling(c) == Go(c) \/ PageOpens(c) \/ PageRefuses(c) \/ Refused(c) \/ Attach(c)
Streaming(e) ==
  /\ ~net
  /\ \/ Writes(e) \/ Written(e) \/ Final(e) \/ Receive(e)
     \/ ReceiveEnd(e) \/ AutoDestroy(e) \/ Closed(e)

Program ==
  \/ Listen \/ CloseServer
  \/ \E c \in plan.dials : Connect(c)
  \/ \E e \in plan.drops : ~net /\ ProgramDestroys(e)
  \/ \E e \in Ends : ~net /\ e[1] \notin plan.quiet /\ (Write(e) \/ End(e))

Next ==
  \/ Program
  \/ PageServes \/ ServerSide
  \/ \E c \in Clients : Dialling(c)
  \/ \E e \in Ends : Streaming(e)
  \/ Terminate

Spec == Init /\ [][Next]_vars

\* The page answers, promises settle, streams that are pumped move.
Fairness ==
  /\ WF_vars(PageServes \/ ServerSide)
  /\ \A c \in Clients : WF_vars(Dialling(c))
  /\ \A e \in Ends : WF_vars(Streaming(e))

FairSpec == Spec /\ Fairness

-----------------------------------------------------------------------------
(* What must hold *)

\* The end of a stream is reported for one only that was ended on purpose and read to
\* its last write: never for a connection that was cut (socket.ts #pumpRead, _final).
EndMeansAll ==
  \A e \in Ends : sock[e].rend => /\ sock[Other(e)].ending
                                  /\ got[e] = sent[Other(e)]

\* `close` of a server waits for the sockets it accepted: none is open then, and none
\* is counted twice (server.ts close, _emitCloseIfDrained, the `close` of a socket).
CloseIsLast ==
  [][server'.closes # server.closes => Accepted' = {}]_vars

\* A worker that was terminated leaves nothing on the page: no registration at the
\* signaller, no stream to a remote host, whatever was on its way when it was.
NothingLeft ==
  net => /\ serve # "open"
         /\ \A e \in Ends : e[1] \in plan.remote => pipe[e].st # "open"

\* A client waits for a server whose publication came when it was closing: nothing is
\* starting any more, nothing listens, and `listening` was never emitted.
Forgotten(c) == dial[c] = "waits" /\ ~server.starting /\ ~server.listening

\* Every socket that dials connects or closes, unless its server forgets it.  Nothing
\* dials twice: what holds of all of them in the end holds of each in its time.
Settles ==
  <>[](\A c \in Clients :
         sock[<<c, "client">>].st = "connecting" => Forgotten(c) \/ net)

\* What one end says last reaches the other: it ends, or is closed.  Except for an end()
\* before the connection, which _final forgets.  What was said stays said, and heard.
EndIsHeard ==
  <>[](\A e \in Ends :
         (sock[e].st = "open" /\ sock[e].ending /\ ~sock[e].early)
           => (sock[Other(e)].rend \/ Destroyed(Other(e)) \/ net))

-----------------------------------------------------------------------------
(* What the code says and does not do *)

\* server.ts: "A `close()` may have raced in while we were starting."
ClosedStaysClosed ==
  [][(server'.listening /\ ~server.listening) => server.bound]_vars

EndIsAlwaysHeard ==
  \A e \in Ends :
    (sock[e].st = "open" /\ sock[e].ending)
      ~> (sock[Other(e)].rend \/ Destroyed(e) \/ Destroyed(Other(e)) \/ net)
=============================================================================
