------------------------------ MODULE WebGlobals ------------------------------
(***************************************************************************)
(* The globals of the web that a program has (worker/epoxy/globals.ts),    *)
(* three machines that share nothing but the epoxy client.                 *)
(*                                                                         *)
(* A WebSocket dials through the client, pumps what arrives into message   *)
(* events, and writes what is sent to the connection's stream.  The        *)
(* connection is external: its readable gives what arrived and then its    *)
(* end, or an error when it breaks, and its closed settles when it is      *)
(* closed.  Handlers of error and close return; others may throw, or call  *)
(* close().                                                                *)
(*                                                                         *)
(* A WebSocketStream is two promises, opened and closed, that a dial,      *)
(* close() and a signal settle in any order.                               *)
(*                                                                         *)
(* A fetch and the body of its response are there as far as they hold the  *)
(* run open: the request until its headers are there, and then whoever     *)
(* reads the body, by text() and its like or by the mirror of the body's   *)
(* stream, to which a reader may give a buffer of its own.  The browser's  *)
(* streams are external: the body gives its chunks, some of them empty,    *)
(* and ends or fails; a byte stream asks for more only while a read of it  *)
(* waits.                                                                  *)
(***************************************************************************)
EXTENDS Naturals, Sequences, SequencesExt

CONSTANTS
  MaxMessages,  \* bound: what the other side sends, the messages 1, 2, ...
  MaxSends,     \* bound: what the program sends
  Bodies,       \* bodies, as the bytes 1, 2, ... of each chunk
  Views,        \* room of the buffers a reader gives; 0 for a reader that gives none
  MaxWhole,     \* bound: calls of text() and its like
  MaxReads      \* bound: reads that wait at once

VARIABLES
  x,        \* the object
  conn,     \* the connection, and who ended it
  inbox,    \* arrived, and not read
  came,     \* how many arrived
  sends,    \* calls of send: text or a blob, and how far each is
  wire,     \* the calls of send that were written, in order
  events,   \* what the program was told
  stream,   \* a WebSocketStream: its promises, its flags and what it holds
  line,     \* its connection
  request,  \* "pending", "failed" or "answered"
  whole,    \* the calls of text() and its like: "reading" or "over"
  source,   \* the response's own stream: what is left of it, and who has locked it
  mirror,   \* the stream that `body` returns
  reads,    \* the reads of it that wait, each with the room it gives
  read,     \* the bytes they were given
  holds     \* keepalive: holds on the run

vars == <<x, conn, inbox, came, sends, wire, events>>

Kinds == {"text", "blob"}

Init ==
  /\ x = [state |-> "connecting", dialling |-> TRUE, writer |-> "none", pump |-> "off", amount |-> 0,
          closes |-> FALSE]
  /\ conn = "none" /\ inbox = <<>> /\ came = 0
  /\ sends = <<>> /\ wire = <<>> /\ events = <<>>

-----------------------------------------------------------------------------
(* close, #fail and #finalize *)

Event(type, n) == [type |-> type, n |-> n]

Now(y, c, es) == x' = y /\ conn' = c /\ events' = es

\* #finalize
Finalized(y) ==
  IF y.state = "closed" THEN y
  ELSE [y EXCEPT !.state = "closed", !.writer = IF @ = "held" THEN "released" ELSE @]

Finalizes(y, es) == IF y.state = "closed" THEN es ELSE Append(es, Event("close", 0))

\* #fail: the connection itself is left as it is.
Fails(y, es) == IF y.state = "closed" THEN es ELSE es \o <<Event("error", 0), Event("close", 0)>>

\* close, which asks a connection that is there, and is over at once when there is none.
CanClose(y) == y.state \in {"connecting", "open"}

Closed(y) == LET z == [y EXCEPT !.closes = TRUE]
             IN IF y.writer = "none" THEN Finalized(z) ELSE [z EXCEPT !.state = "closing"]

Asked(y, c) == IF y.writer # "none" /\ c = "open" THEN "closing" ELSE c

Close ==
  /\ CanClose(x)
  /\ Now(Closed(x), Asked(x, conn), IF x.writer = "none" THEN Finalizes(x, events) ELSE events)
  /\ UNCHANGED <<inbox, came, sends, wire>>

-----------------------------------------------------------------------------
(* #connect *)

Opened == [x EXCEPT !.state = "open", !.writer = "held", !.dialling = FALSE]

\* The client answers: a socket that nobody wants any more is closed.  The handler of open runs
\* before the pump, and what it throws is a failure.
DialAnswers ==
  /\ x.dialling
  /\ LET es == Append(events, Event("open", 0))
         rest == [x EXCEPT !.dialling = FALSE]
     IN \/ Now(Finalized(rest), conn, Fails(x, events))
        \/ x.state # "connecting" /\ Now(rest, "closing", events)
        \/ /\ x.state = "connecting"
           /\ \/ Now([Opened EXCEPT !.pump = "reading"], "open", es)
              \/ Now([Closed(Opened) EXCEPT !.pump = "reading"], "closing", es)
              \/ Now(Finalized(Opened), "open", Fails(Opened, es))
  /\ UNCHANGED <<inbox, came, sends, wire>>

-----------------------------------------------------------------------------
(* #pump *)

PumpReads ==
  /\ x.pump = "reading" /\ inbox # <<>> /\ conn # "broken"
  /\ inbox' = Tail(inbox)
  /\ IF x.state # "open" THEN Now([x EXCEPT !.pump = "over"], conn, events)
     ELSE LET es == Append(events, Event("message", Head(inbox)))
          IN \/ Now(x, conn, es)
             \/ Now(Closed(x), Asked(x, conn), es)
             \/ Now([Finalized(x) EXCEPT !.pump = "off"], conn, Fails(x, es))
  /\ UNCHANGED <<came, sends, wire>>

PumpEnds ==
  /\ x.pump = "reading" /\ inbox = <<>> /\ conn = "closed"
  /\ Now([x EXCEPT !.pump = "over"], conn, events)
  /\ UNCHANGED <<inbox, came, sends, wire>>

PumpFails ==
  /\ x.pump = "reading" /\ conn = "broken"
  /\ Now([Finalized(x) EXCEPT !.pump = "off"], conn, Fails(x, events))
  /\ UNCHANGED <<inbox, came, sends, wire>>

\* The pump is over, and the connection's closed has settled.
Finalize ==
  /\ x.pump = "over" /\ conn \in {"closed", "broken"}
  /\ Now([Finalized(x) EXCEPT !.pump = "off"], conn, Finalizes(x, events))
  /\ UNCHANGED <<inbox, came, sends, wire>>

-----------------------------------------------------------------------------
(* send *)

Send(kind) ==
  /\ x.state = "open" /\ Len(sends) < MaxSends
  /\ x' = [x EXCEPT !.amount = @ + 1]
  /\ sends' = Append(sends, [kind |-> kind, at |-> "converting"])
  /\ UNCHANGED <<conn, inbox, came, wire, events>>

\* finally
Done(k) == sends' = [sends EXCEPT ![k].at = "done"]

Counted == [x EXCEPT !.amount = @ - 1]

\* A text is a chunk a turn later, a blob when it has been read.
Ready(k) ==
  /\ sends[k].at = "converting"
  /\ sends[k].kind = "text" => \A j \in 1 .. k - 1 : sends[j] # [kind |-> "text", at |-> "converting"]

\* The chunk goes to the writer, which may have been let go of; a connection that is ending may
\* take it or not.
Writes(k) ==
  /\ Ready(k) /\ x.writer = "held" /\ conn \in {"open", "closing"}
  /\ sends' = [sends EXCEPT ![k].at = "writing"]
  /\ wire' = Append(wire, k)
  /\ UNCHANGED <<x, conn, inbox, came, events>>

WriteEnds(k) ==
  /\ sends[k].at = "writing" /\ Done(k)
  /\ Now(Counted, conn, events)
  /\ UNCHANGED <<inbox, came, wire>>

WriteFails(k) ==
  /\ \/ Ready(k) /\ (x.writer = "released" \/ conn # "open")
     \/ sends[k].at = "writing" /\ conn # "open"
  /\ Done(k)
  /\ Now(Finalized(Counted), conn, Fails(x, events))
  /\ UNCHANGED <<inbox, came, wire>>

-----------------------------------------------------------------------------
(* The other side, and the way to it *)

Arrives ==
  /\ conn \in {"open", "closing"} /\ came < MaxMessages
  /\ came' = came + 1 /\ inbox' = Append(inbox, came + 1)
  /\ UNCHANGED <<x, conn, sends, wire, events>>

Ends ==
  /\ conn \in {"open", "closing"} /\ conn' \in {"closed", "broken"}
  /\ UNCHANGED <<x, inbox, came, sends, wire, events>>

Next ==
  \/ Close \/ DialAnswers \/ PumpReads \/ PumpEnds \/ PumpFails \/ Finalize
  \/ \E kind \in Kinds : Send(kind)
  \/ \E k \in DOMAIN sends : Writes(k) \/ WriteEnds(k) \/ WriteFails(k)
  \/ Arrives \/ Ends

-----------------------------------------------------------------------------
(* WebSocketStream *)

\* A signal that is aborted already settles both promises before anything is dialled.
StreamInit ==
  /\ line = "none"
  /\ \E signal \in {"none", "live", "aborted"} :
       LET first == IF signal = "aborted" THEN "rejected" ELSE "pending"
       IN stream = [signal |-> signal, dialling |-> signal # "aborted", socket |-> FALSE,
                    early |-> FALSE, abort |-> FALSE, opened |-> first, closed |-> first]

\* #resolveClosed and #rejectClosed: the first counts.
StreamSettled(s, how) == IF s.closed = "pending" THEN [s EXCEPT !.closed = how] ELSE s

\* close
StreamClosed(s) == IF s.socket THEN s ELSE StreamSettled([s EXCEPT !.early = TRUE], "resolved")

CloseStream ==
  /\ stream' = StreamClosed(stream)
  /\ line' = IF stream.socket /\ line = "open" THEN "closing" ELSE line

\* The listener of the signal.
AbortStream ==
  /\ stream.signal = "live"
  /\ LET s == [stream EXCEPT !.signal = "fired", !.abort = TRUE]
     IN stream' = IF s.socket THEN StreamClosed(s) ELSE StreamSettled(s, "rejected")
  /\ line' = IF stream.socket /\ line = "open" THEN "closing" ELSE line

\* The rejection of opened is that of closed too, unless it was settled before.
StreamDialFails ==
  /\ stream.dialling
  /\ stream' = StreamSettled([stream EXCEPT !.dialling = FALSE, !.opened = "rejected"], "rejected")
  /\ UNCHANGED line

StreamDialAnswers ==
  /\ stream.dialling
  /\ LET s == [stream EXCEPT !.dialling = FALSE]
     IN IF s.early \/ s.abort
        THEN stream' = StreamSettled([s EXCEPT !.opened = "rejected"], "rejected") /\ line' = "closing"
        ELSE stream' = [s EXCEPT !.opened = "resolved", !.socket = TRUE] /\ line' = "open"

LineEnds ==
  /\ line \in {"open", "closing"} /\ line' = "closed"
  /\ \E how \in {"resolved", "rejected"} :
       stream' = IF stream.socket THEN StreamSettled(stream, how) ELSE stream

StreamNext == CloseStream \/ AbortStream \/ StreamDialFails \/ StreamDialAnswers \/ LineEnds

-----------------------------------------------------------------------------
(* fetch, and the body of its response *)

FetchInit ==
  /\ request = "pending" /\ holds = 1 /\ whole = <<>>
  /\ \E body \in Bodies : source = [body |-> body, left |-> body, lock |-> "none"]
  /\ mirror = [at |-> "readable", pulling |-> FALSE, refed |-> FALSE, released |-> FALSE,
               leftover |-> <<>>, torn |-> FALSE]
  /\ reads = <<>> /\ read = <<>>

-----------------------------------------------------------------------------
(* The request *)

FetchAnswers ==
  /\ request = "pending"
  /\ request' \in {"answered", "failed"}
  /\ holds' = holds - 1
  /\ UNCHANGED <<whole, source, mirror, reads, read>>

-----------------------------------------------------------------------------
(* text(), json() and the others: each holds the run until its promise settles.  On a body that *)
(* is locked, or was read, it is rejected. *)

Whole ==
  /\ request = "answered" /\ Len(whole) < MaxWhole
  /\ holds' = holds + 1
  /\ whole' = Append(whole, IF source.lock = "none" THEN "reading" ELSE "rejected")
  /\ source' = IF source.lock = "none" THEN [source EXCEPT !.lock = "whole"] ELSE source
  /\ UNCHANGED <<request, mirror, reads, read>>

WholeEnds(k) ==
  /\ whole[k] \in {"reading", "rejected"}
  /\ whole' = [whole EXCEPT ![k] = "over"]
  /\ holds' = holds - 1
  /\ source' = IF whole[k] = "reading" THEN [source EXCEPT !.left = <<>>] ELSE source
  /\ UNCHANGED <<request, mirror, reads, read>>

-----------------------------------------------------------------------------
(* refedBodyStream *)

\* release
Released(s) == [s EXCEPT !.released = TRUE]

LetGo(s) == IF s.refed /\ ~ s.released THEN holds - 1 ELSE holds

\* A chunk for the first read that waits: all of it, or what its buffer has room for.
Least(a, b) == IF a < b THEN a ELSE b

Taken(chunk, room) == IF room = 0 THEN Len(chunk) ELSE Least(room, Len(chunk))

Given(s, chunk) ==
  LET n == Taken(chunk, Head(reads))
  IN /\ read' = read \o SubSeq(chunk, 1, n)
     /\ reads' = Tail(reads)
     /\ mirror' = [s EXCEPT !.leftover = SubSeq(chunk, n + 1, Len(chunk)), !.pulling = FALSE]

\* A stream that is over answers at once, and is not read again here.
Read(room) ==
  /\ request = "answered" /\ mirror.at = "readable" /\ Len(reads) < MaxReads
  /\ reads' = Append(reads, room)
  /\ UNCHANGED <<request, whole, source, mirror, read, holds>>

\* pull, up to its first wait: it holds the run before it tries to lock the source, and a source
\* that text() has locked tears the stream there.
PullStarts ==
  /\ mirror.at = "readable" /\ reads # <<>> /\ ~ mirror.pulling
  /\ LET s == [mirror EXCEPT !.refed = TRUE]
     IN /\ holds' = IF mirror.refed \/ mirror.released THEN holds ELSE holds + 1
        /\ IF source.lock = "whole"
           THEN /\ mirror' = [s EXCEPT !.at = "errored", !.torn = TRUE]
                /\ reads' = <<>> /\ UNCHANGED <<source, read>>
           ELSE /\ source' = [source EXCEPT !.lock = "mirror"]
                /\ IF s.leftover # <<>>
                   THEN Given([s EXCEPT !.leftover = <<>>], s.leftover)
                   ELSE mirror' = [s EXCEPT !.pulling = TRUE] /\ UNCHANGED <<reads, read>>
  /\ UNCHANGED <<request, whole>>

\* The source gives a chunk; an empty one is skipped.
PullGets ==
  /\ mirror.pulling /\ mirror.at = "readable" /\ source.left # <<>>
  /\ source' = [source EXCEPT !.left = Tail(@)]
  /\ IF Head(source.left) = <<>> THEN UNCHANGED <<mirror, reads, read>>
     ELSE Given(mirror, Head(source.left))
  /\ UNCHANGED <<request, whole, holds>>

PullEnds ==
  /\ mirror.pulling /\ mirror.at = "readable"
  /\ \E end \in {"closed", "errored"} :
       /\ end = "closed" => source.left = <<>>
       /\ mirror' = [Released(mirror) EXCEPT !.at = end, !.pulling = FALSE]
  /\ holds' = LetGo(mirror)
  /\ reads' = <<>>
  /\ UNCHANGED <<request, whole, source, read>>

\* cancel: reads that wait are over, and a pull under way finds its stream closed.
Cancel ==
  /\ request = "answered" /\ mirror.at = "readable"
  /\ mirror' = [Released(mirror) EXCEPT !.at = "cancelled", !.pulling = FALSE]
  /\ holds' = LetGo(mirror)
  /\ reads' = <<>>
  /\ source' = IF source.lock = "whole" THEN source ELSE [source EXCEPT !.lock = "mirror"]
  /\ UNCHANGED <<request, whole, read>>

FetchNext ==
  \/ FetchAnswers \/ Whole \/ (\E k \in DOMAIN whole : WholeEnds(k))
  \/ (\E room \in Views : Read(room))
  \/ PullStarts \/ PullGets \/ PullEnds \/ Cancel

-----------------------------------------------------------------------------
(* Properties *)

Told(type) == \E i \in DOMAIN events : events[i].type = type

Shown == SelectSeq(events, LAMBDA e : e.type = "message")

\* What is told is told in order: nothing before the open but a failure or the program's own
\* close, the messages as they came, and one close, which is the last; a close that neither the
\* program nor a failure brought about means that every message was told (globals.ts #pump).
EndMeansAll ==
  /\ \A i \in DOMAIN events :
       /\ events[i].type = "open" => i = 1
       /\ events[i].type = "close" => i = Len(events)
       /\ events[i].type = "error" => i + 1 = Len(events)
  /\ \A i \in DOMAIN Shown : Shown[i].n = i
  /\ Told("close") /\ ~ Told("error") /\ ~ x.closes => Len(Shown) = came

\* A socket that is closed has no connection left, also one that was dialled meanwhile, unless
\* it failed; whatever was sent is counted off, however its write ended; and texts go out in the
\* order sent.
NothingHeld ==
  /\ x.state = "closed" <=> Told("close")
  /\ x.state = "closed" /\ ~ x.dialling /\ ~ Told("error") => conn # "open"
  /\ (\A k \in DOMAIN sends : sends[k].at = "done") => x.amount = 0
  /\ \A i, j \in DOMAIN wire :
       i < j /\ sends[wire[i]].kind = "text" /\ sends[wire[j]].kind = "text" => wire[i] < wire[j]

\* A stream that was given up, by close(), by the signal or by a failure, never opens, and the
\* connection that was dialled meanwhile is closed; closed is settled whenever opened cannot be
\* resolved, and when the connection is gone.
GivenUp ==
  /\ stream.early => stream.opened # "resolved"
  /\ stream.abort => line # "open"
  /\ stream.opened = "rejected" => line # "open" /\ stream.closed # "pending"
  /\ stream.opened = "resolved" /\ line = "closed" => stream.closed # "pending"

\* Does the program wait for this fetch, or read its body, begun and not at its end?
Awaited ==
  request = "pending" \/ (\E k \in DOMAIN whole : whole[k] # "over")
    \/ (mirror.refed /\ mirror.at = "readable")

\* The run is held open while the program waits for its fetch or reads on, and by nothing of it
\* otherwise, but for a stream that was torn before it began (globals.ts trackBodyKeepalive).
HeldWhileAwaited ==
  /\ Awaited => holds > 0
  /\ ~ Awaited /\ ~ mirror.torn => holds = 0

\* However the reads and their buffers cut it, the body is read in its order, and to its end
\* when the stream says so.
BodyWhole ==
  /\ read = [n \in 1 .. Len(read) |-> n]
  /\ mirror.at = "closed" => read = FlattenSeq(source.body)
=============================================================================
