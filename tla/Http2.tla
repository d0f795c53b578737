--------------------------------- MODULE Http2 ---------------------------------
(***************************************************************************)
(* The binding of node:http2 (node-core/internal-binding/http2): a session *)
(* of a client, which pumps bytes between a socket and nghttp2, and the     *)
(* streams whose bodies nghttp2 pulls.  All of it is synchronous, and      *)
(* reentrant: the callback of a request writes the next one.               *)
(*                                                                         *)
(* nghttp2 is external: it pulls a body while the window of the stream     *)
(* lets it, until it is told to wait for h2_resume_data; and so is what    *)
(* node's own http2 module does with the handles (one write at a time, a   *)
(* handle is destroyed once its stream was reset or has closed).           *)
(***************************************************************************)
EXTENDS Integers, Sequences, FiniteSets, SequencesExt

CONSTANTS
  Streams,
  Shapes,        \* what one call writes: the lengths of its chunks
  Frame,         \* the most a frame of data takes
  MaxWrites,     \* bound: writes of a stream
  MaxExtras      \* bound: pings, settings, blocks of headers, window updates and closes, together

VARIABLES
  h,             \* the session
  str,           \* the streams: handle, queue, and what nghttp2 knows of it
  told,          \* requests whose oncomplete ran
  peer,          \* the other end: what it has to acknowledge, and the block of headers it sends
  heard          \* what came of it: acknowledgements, and headers

vars == <<h, str, told, peer, heard>>

NoStream ==
  [st |-> "none", body |-> TRUE, queue |-> <<>>, written |-> <<>>, ended |-> FALSE, shutReq |-> FALSE,
   window |-> 2, deferred |-> FALSE, sent |-> <<>>, eof |-> FALSE, rst |-> "no", closed |-> 0]

\* A request: of the n-th write of a stream, or of its end.
Req(s, n) == <<s, n>>
EndReq == 0

-----------------------------------------------------------------------------
(* Streams *)

\* _scheduleFlush: now, or once more when a flush is under way.
Kick(k) == IF k.phase = "idle" THEN [k EXCEPT !.phase = "send"] ELSE [k EXCEPT !.need = TRUE]

\* The program runs between flushes, in a callback of a flush, and in one of what is received.
Runs == ~ h.destroyed /\ h.phase \in {"idle", "callback"}

Request(s) == \E body \in BOOLEAN :
  /\ Runs /\ str[s].st = "none"
  /\ str' = [str EXCEPT ![s] = [NoStream EXCEPT !.st = "open", !.body = body, !.eof = ~ body]]
  /\ h' = Kick(h) /\ UNCHANGED <<told, peer, heard>>

\* The request of a call goes with the last of its chunks.
Items(n, shape) == [i \in 1 .. Len(shape) |-> [id |-> n, left |-> shape[i], last |-> i = Len(shape)]]

\* writeBuffer, writev: h2_resume_data makes nghttp2 ask again.
Write(s, shape) ==
  LET n == Len(str[s].written) + 1 IN
  /\ Runs /\ str[s].st = "open" /\ str[s].body /\ ~ str[s].ended /\ n <= MaxWrites
  /\ \A i \in 1 .. n - 1 : Req(s, i) \in Range(told)
  /\ str' = [str EXCEPT ![s].queue = @ \o Items(n, shape), ![s].written = Append(@, shape), ![s].deferred = FALSE]
  /\ h' = Kick(h) /\ UNCHANGED <<told, peer, heard>>

\* shutdown: a request without a body has ended with its headers.
Shutdown(s) ==
  /\ Runs /\ str[s].st = "open" /\ str[s].body /\ ~ str[s].ended
  /\ str' = [str EXCEPT ![s].ended = TRUE, ![s].shutReq = TRUE, ![s].deferred = FALSE]
  /\ h' = Kick(h) /\ UNCHANGED <<told, peer, heard>>

RstStream(s) ==
  /\ Runs /\ str[s].st = "open" /\ str[s].rst = "no"
  /\ str' = [str EXCEPT ![s].rst = "asked"]
  /\ h' = Kick(h) /\ UNCHANGED <<told, peer, heard>>

\* destroy of a stream: what it had queued is dropped, and its requests hear nothing.
DestroyStream(s) ==
  /\ Runs /\ str[s].st = "open" /\ str[s].rst # "no"
  /\ str' = [str EXCEPT ![s].st = "destroyed", ![s].queue = <<>>]
  /\ UNCHANGED <<h, told, peer, heard>>

-----------------------------------------------------------------------------
(* _provideData *)

Before(q, i) == FoldLeft(LAMBDA n, item : n + item.left, 0, SubSeq(q, 1, i - 1))

\* How many chunks a frame of n bytes empties: one without bytes too, while there is room.
Emptied(q, n) == Cardinality({i \in 1 .. Len(q) : Before(q, i) < n /\ Before(q, i + 1) <= n})

Rest(q, n) ==
  LET k == Emptied(q, n)
      tail == SubSeq(q, k + 1, Len(q))
  IN  IF tail = <<>> THEN tail ELSE [tail EXCEPT ![1].left = @ - (n - Before(q, k + 1))]

Taken(q, n) == LET all == Before(q, Len(q) + 1) IN IF all < n THEN all ELSE n

\* The bytes that are taken, each as the write it is of.
Bytes(q, n) ==
  [b \in 1 .. Taken(q, n) |-> LET i == CHOOSE j \in 1 .. Len(q) : Before(q, j) < b /\ b <= Before(q, j + 1) IN q[i].id]

\* Requests that are complete when the send is done.
Reqs(s, q, n) ==
  LET last == SelectSeq(SubSeq(q, 1, Emptied(q, n)), LAMBDA item : item.last)
  IN  [i \in 1 .. Len(last) |-> Req(s, last[i].id)]

\* nghttp2 asks: the stream was not deferred, has not ended, and may send.
Pullable(s) ==
  str[s].st # "none" /\ ~ str[s].deferred /\ ~ str[s].eof /\ str[s].window > 0 /\ str[s].rst = "no"

\* NGHTTP2_DATA_FLAG_EOF.
AtEnd(s, rest) == rest = <<>> /\ str[s].ended

Pull(s) ==
  LET st == str[s]
      n == IF st.window < Frame THEN st.window ELSE Frame
      rest == Rest(st.queue, n)
      eof == AtEnd(s, rest)
  IN  /\ h.phase = "send" /\ Pullable(s)
      /\ str' = [str EXCEPT ![s] = [st EXCEPT
                   !.queue = rest, !.sent = @ \o Bytes(st.queue, n), !.window = @ - Taken(st.queue, n),
                   !.eof = eof, !.shutReq = @ /\ ~ eof,
                   !.deferred = Taken(st.queue, n) = 0 /\ ~ eof]]
      /\ h' = [h EXCEPT !.completed = @ \o Reqs(s, st.queue, n)
                                        \o (IF eof /\ st.shutReq THEN <<Req(s, EndReq)>> ELSE <<>>)]
      /\ UNCHANGED <<told, peer, heard>>

-----------------------------------------------------------------------------
(* The flush *)

WantsWrite(k) == k.out # <<>> \/ \E s \in Streams : Pullable(s) \/ str[s].rst = "asked"

\* h2_session_send has no more: resets and what was asked of the peer are out, and the requests
\* whose bytes are with the socket are told of it, one after the other.
Sent ==
  /\ h.phase = "send" /\ \A s \in Streams : ~ Pullable(s)
  /\ h' = [h EXCEPT !.phase = "complete", !.out = <<>>, !.done = h.completed, !.completed = <<>>]
  /\ peer' = [peer EXCEPT !.asked = @ \o h.out]
  /\ str' = [s \in Streams |-> IF str[s].rst # "asked" THEN str[s]
                               ELSE [str[s] EXCEPT !.rst = "sent", !.closed = @ + 1]]
  /\ UNCHANGED <<told, heard>>

Complete ==
  /\ h.phase \in {"complete", "callback"} /\ h.done # <<>>
  /\ told' = Append(told, Head(h.done)) /\ h' = [h EXCEPT !.done = Tail(@), !.phase = "callback"]
  /\ UNCHANGED <<str, peer, heard>>

Extra == peer.extras < MaxExtras /\ peer' = [peer EXCEPT !.extras = @ + 1]

\* #maybeGracefulComplete.
Graceful(k) == IF k.graceful /\ ~ k.destroyed /\ ~ WantsWrite(k) THEN [k EXCEPT !.gracefulDone = TRUE] ELSE k

\* Once more, when something was asked for meanwhile.
Flushed ==
  /\ h.phase \in {"complete", "callback"} /\ h.done = <<>>
  /\ h' = IF h.need /\ ~ h.destroyed THEN [h EXCEPT !.phase = "send", !.need = FALSE]
          ELSE Graceful([h EXCEPT !.phase = "idle", !.need = FALSE])
  /\ UNCHANGED <<str, told, peer, heard>>

SetGracefulClose ==
  /\ Runs /\ ~ h.graceful /\ Extra /\ h' = Graceful([h EXCEPT !.graceful = TRUE])
  /\ UNCHANGED <<str, told, heard>>

\* ping and settings: the callback waits in the order of the frames.
Ask(kind) ==
  /\ Runs /\ Extra
  /\ h' = Kick([h EXCEPT !.next = @ + 1, !.cbs[kind] = Append(@, h.next), !.out = Append(@, <<kind, h.next>>)])
  /\ UNCHANGED <<str, told, heard>>

\* destroy: the session is deleted, with what was queued; a flush under way only tells what it
\* has taken.
Destroy ==
  /\ Runs /\ h' = [h EXCEPT !.destroyed = TRUE, !.out = <<>>, !.recv = FALSE]
  /\ str' = [s \in Streams |-> IF str[s].st = "open" THEN [str[s] EXCEPT !.st = "destroyed"] ELSE str[s]]
  /\ UNCHANGED <<told, peer, heard>>

-----------------------------------------------------------------------------
(* What is received *)

\* The frames of a chunk are dispatched one by one, each of them running the program; the flush
\* comes after the last.
Receives == ~ h.destroyed /\ h.phase = "idle" /\ h' = [h EXCEPT !.recv = TRUE]

Received ==
  /\ ~ h.destroyed /\ h.recv /\ h.phase = "idle" /\ h' = Kick([h EXCEPT !.recv = FALSE])
  /\ UNCHANGED <<str, told, peer, heard>>

Grant(s) ==
  /\ Receives /\ str[s].st # "none" /\ Extra
  /\ str' = [str EXCEPT ![s].window = @ + 1]
  /\ UNCHANGED <<told, heard>>

\* The other end resets the stream, and the program is told that it closed.
PeerRst(s) ==
  /\ Receives /\ str[s].st # "none" /\ str[s].rst # "sent"
  /\ str' = [str EXCEPT ![s].rst = "sent", ![s].closed = IF str[s].st = "open" THEN @ + 1 ELSE @]
  /\ UNCHANGED <<told, peer, heard>>

\* _dispatchFrame of an acknowledgement: the callback that has waited longest.
Waiting(kind) == 1

Ack(kind) == \E i \in 1 .. Len(peer.asked) :
  /\ ~ h.destroyed /\ h.phase = "idle"
  /\ peer.asked[i][1] = kind /\ \A j \in 1 .. i - 1 : peer.asked[j][1] # kind
  /\ peer' = [peer EXCEPT !.asked = RemoveAt(@, i)]
  /\ heard' = [heard EXCEPT !.ack = <<peer.asked[i][2], h.cbs[kind][Waiting(kind)]>>]
  /\ h' = [h EXCEPT !.recv = TRUE, !.cbs[kind] = RemoveAt(@, Waiting(kind))]
  /\ UNCHANGED <<str, told>>

NoBlock == [of |-> "none", cat |-> 0, names |-> <<>>]

\* A block of headers: begun, its headers one by one, and its frame, chunks apart.
BeginHeaders(s, cat) ==
  /\ Receives /\ peer.block = NoBlock /\ str[s].st # "none" /\ str[s].rst # "sent" /\ peer.extras < MaxExtras
  /\ peer' = [peer EXCEPT !.block = [of |-> s, cat |-> cat, names |-> <<>>], !.extras = @ + 1]
  /\ heard' = [heard EXCEPT !.pending = [of |-> s, cat |-> cat, names |-> <<>>]]
  /\ UNCHANGED <<str, told>>

Header ==
  /\ Receives /\ peer.block # NoBlock /\ Len(peer.block.names) < 2
  /\ peer' = [peer EXCEPT !.block.names = Append(@, Len(@) + 1)]
  /\ heard' = [heard EXCEPT !.pending = [(IF @ = NoBlock THEN [@ EXCEPT !.of = peer.block.of, !.cat = 1] ELSE @)
                                           EXCEPT !.names = Append(@, Len(peer.block.names) + 1)]]
  /\ UNCHANGED <<str, told>>

HeadersFrame ==
  /\ Receives /\ peer.block # NoBlock
  /\ peer' = [peer EXCEPT !.block = NoBlock]
  /\ heard' = [heard EXCEPT !.pending = NoBlock, !.headers = <<peer.block, heard.pending>>]
  /\ UNCHANGED <<str, told>>

-----------------------------------------------------------------------------
Kinds == {"ping", "settings"}

Init ==
  /\ h = [phase |-> "idle", need |-> FALSE, recv |-> FALSE, completed |-> <<>>, done |-> <<>>, out |-> <<>>,
          graceful |-> FALSE, gracefulDone |-> FALSE, destroyed |-> FALSE, next |-> 1,
          cbs |-> [kind \in Kinds |-> <<>>]]
  /\ str = [s \in Streams |-> NoStream] /\ told = <<>>
  /\ peer = [asked |-> <<>>, block |-> NoBlock, extras |-> 0]
  /\ heard = [ack |-> <<0, 0>>, pending |-> NoBlock, headers |-> <<NoBlock, NoBlock>>]

Next ==
  \/ \E s \in Streams :
       \/ Request(s) \/ Shutdown(s) \/ RstStream(s) \/ DestroyStream(s) \/ Pull(s) \/ Grant(s) \/ PeerRst(s)
       \/ \E shape \in Shapes : Write(s, shape)
       \/ \E cat \in 0 .. 1 : BeginHeaders(s, cat)
  \/ \E kind \in Kinds : Ask(kind) \/ Ack(kind)
  \/ Header \/ Sent \/ Complete \/ Flushed \/ SetGracefulClose \/ Destroy \/ Received \/ HeadersFrame

-----------------------------------------------------------------------------
(* Properties *)

Written(s) == FoldLeft(LAMBDA all, i : all \o [b \in 1 .. FoldLeft(+, 0, str[s].written[i]) |-> i],
                       <<>>, [i \in 1 .. Len(str[s].written) |-> i])

\* What is sent of a body is its beginning, in order, and its end comes after the last byte; a
\* request is told once, and after its own bytes (_provideData).
EndMeansAll ==
  /\ \A s \in Streams :
       /\ IsPrefix(str[s].sent, Written(s))
       /\ str[s].eof => str[s].sent = Written(s) /\ (str[s].body => str[s].ended)
       /\ \A i \in 1 .. Len(told) : told[i][1] = s =>
            IF told[i][2] = EndReq THEN str[s].eof
            ELSE Len(SelectSeq(str[s].sent, LAMBDA b : b = told[i][2])) = FoldLeft(+, 0, str[s].written[told[i][2]])
  /\ \A i, j \in 1 .. Len(told) : told[i] = told[j] => i = j

\* Between flushes nothing waits but for the window: no byte, frame or reset, and no request
\* whose bytes are out; a graceful close has been told.  What was asked within a callback of
\* a flush is no exception (_scheduleFlush's needFlush).
NothingWaits ==
  h.phase = "idle" /\ ~ h.recv /\ ~ h.destroyed =>
    /\ ~ WantsWrite(h) /\ h.completed = <<>> /\ (h.graceful => h.gracefulDone)
    /\ \A s \in Streams : str[s].st = "open" /\ str[s].rst = "no" /\ str[s].window > 0 =>
         /\ \A n \in 1 .. Len(str[s].written) : Req(s, n) \in Range(told)
         /\ str[s].ended => Req(s, EndReq) \in Range(told)

\* Each acknowledgement goes to the callback that asked for it, and each block of headers
\* arrives as it was sent, however many chunks it comes in (_dispatchFrame).
AnswersMatch ==
  /\ heard.ack[1] = heard.ack[2] /\ heard.headers[1] = heard.headers[2]
  /\ \A s \in Streams : str[s].closed <= 1
=============================================================================
