----------------------------- MODULE PeerChannel -------------------------------
(***************************************************************************)
(* A connection to a peer, as the page dials it (lib/peer.ts,               *)
(* handlePeerConnect) and makes two streams of its data channel             *)
(* (rtcDataChannelToStreams).  The channel has no half close, no flow       *)
(* control inwards, and outwards a count of what it holds and an event when *)
(* that gets low.                                                          *)
(*                                                                         *)
(* The browser's part is external: it opens the channel or fails, sends     *)
(* what it holds, and closes.  A state and the event that tells of it are   *)
(* one task, as its specification has them.                                *)
(***************************************************************************)
EXTENDS Integers, Sequences

CONSTANTS
  High, Low,      \* writeHighWaterMark and writeLowWaterMark, in messages
  Queue,          \* what the readable holds before it wants no more, in messages
  MaxPieces,      \* bound: messages one write is cut into
  MaxWrites, MaxIn   \* bounds: writes of this side, messages of the other

VARIABLES
  dial,     \* handlePeerConnect: "ws", "race", "up" or "failed"
  ws,       \* the signaller's socket is open
  pc,       \* the connection is open
  done,     \* shutdown ran
  dc,       \* readyState of the channel
  held,     \* bufferedAmount
  writer,   \* the sink's write: "idle", "sending", "waits", "ends", "failed" or "closed"
  left,     \* messages of the write that are still to be sent
  pending,  \* messages that arrived and the readable did not want yet
  queue,    \* what the readable holds
  reader,   \* the readable: "open", "closed", "errored" or "cancelled"
  arrived, taken,   \* messages, numbered: that arrived, that the program read
  writes

vars == <<dial, ws, pc, done, dc, held, writer, left, pending, queue, reader,
          arrived, taken, writes>>

dialled == <<dial, ws, pc, done>>
output == <<held, writer, left, writes>>
input == <<pending, queue, reader, arrived, taken>>

-----------------------------------------------------------------------------
(* The readable *)

\* drainReads: as many of the pending messages as the readable wants; when none is left of a
\* channel that closed, the end.

Drained(p, q, shut) ==
  LET n == IF Len(p) < Queue - Len(q) THEN Len(p) ELSE Queue - Len(q)
  IN  [pending |-> SubSeq(p, n + 1, Len(p)), queue |-> q \o SubSeq(p, 1, n),
       reader |-> IF shut /\ n = Len(p) THEN "closed" ELSE "open"]

Reads(p, q, shut) ==
  IF reader = "open"
  THEN /\ pending' = Drained(p, q, shut).pending /\ queue' = Drained(p, q, shut).queue
       /\ reader' = Drained(p, q, shut).reader
  ELSE pending' = p /\ queue' = q /\ reader' = reader

\* A message of the other side; while this side closes they still come.
OnMessage ==
  /\ dc \in {"open", "closing"} /\ arrived < MaxIn
  /\ arrived' = arrived + 1
  /\ Reads(Append(pending, arrived'), queue, FALSE)
  /\ UNCHANGED <<dialled, dc, output, taken>>

\* The program reads, and the readable pulls.
Takes ==
  /\ reader \in {"open", "closed"} /\ queue # <<>>
  /\ taken' = Append(taken, Head(queue))
  /\ Reads(pending, Tail(queue), dc = "closed")
  /\ UNCHANGED <<dialled, dc, output, arrived>>

-----------------------------------------------------------------------------
(* Closing *)

\* dc.close(); the event comes later.
Shuts == dc' = IF dc = "closed" THEN dc ELSE "closing"

\* handlePeerConnect's shutdown, at most once.
Shutdown == Shuts /\ ws' = FALSE /\ pc' = FALSE /\ done' = TRUE

Cancel ==
  /\ dial = "up" /\ reader = "open" /\ reader' = "cancelled" /\ queue' = <<>>
  /\ Shuts
  /\ UNCHANGED <<dialled, output, pending, arrived, taken>>

\* close of the owner: its worker is terminated.
Owner ==
  /\ dial = "up" /\ ~ done /\ Shutdown
  /\ UNCHANGED <<dial, output, input>>

\* Mutation: a write that waits does not listen for the end of the channel.
WriterHears_Low == writer' = writer

\* A write that waits for the channel to drain fails with it.
WriterHears == writer' = IF writer \in {"waits", "ends"} THEN "failed" ELSE writer

\* The channel closed: the other side hung up, the connection is lost, or this side closed.  The
\* readable ends once it was read, a write that waits fails, a dial that races loses, and the
\* connection is shut down.
\* Mutation: only the readable hears of it.
OnClosed_StreamsOnly ==
  /\ dc # "closed" /\ dial # "ws" /\ dc' = "closed"
  /\ Reads(pending, queue, TRUE) /\ WriterHears
  /\ dial' = IF dial = "race" THEN "failed" ELSE dial
  /\ UNCHANGED <<ws, pc, done, held, left, writes, arrived, taken>>

OnClosed ==
  /\ dc # "closed" /\ dial # "ws" /\ dc' = "closed"
  /\ Reads(pending, queue, TRUE) /\ WriterHears
  /\ ws' = FALSE /\ pc' = FALSE /\ done' = TRUE
  /\ dial' = IF dial = "race" THEN "failed" ELSE dial
  /\ UNCHANGED <<held, left, writes, arrived, taken>>

\* It closed for an error: the readable is told that first, and drops what it holds.
OnError ==
  /\ dc = "open" /\ dc' = "closed"
  /\ IF reader = "open" THEN reader' = "errored" /\ queue' = <<>> ELSE UNCHANGED <<reader, queue>>
  /\ WriterHears
  /\ ws' = FALSE /\ pc' = FALSE /\ done' = TRUE
  /\ UNCHANGED <<dial, held, left, writes, pending, arrived, taken>>

-----------------------------------------------------------------------------
(* The writable *)

Write ==
  /\ dial = "up" /\ writer = "idle" /\ writes < MaxWrites /\ writes' = writes + 1
  /\ writer' = "sending" /\ left' \in 1 .. MaxPieces
  /\ UNCHANGED <<dialled, dc, held, input>>

\* As many messages as the channel may hold, in one go, and the rest when it has drained; send
\* throws when it is not open.

Sends ==
  /\ writer = "sending" /\ left > 0
  /\ LET n == IF left < High + 1 - held THEN left ELSE High + 1 - held IN
     IF n > 0 /\ dc # "open" THEN writer' = "failed" /\ UNCHANGED <<held, left>>
     ELSE /\ held' = held + n /\ left' = left - n
          /\ writer' = CASE left' > 0 -> "waits" [] held' > High -> "ends" [] OTHER -> "idle"
  /\ UNCHANGED <<dialled, dc, writes, input>>

\* The browser sends what the channel holds.  Where that falls to the low mark the event fires,
\* in the same task.
Drains ==
  /\ dc \in {"open", "closing"} /\ held > 0 /\ held' = held - 1
  /\ writer' = IF held' # Low THEN writer
               ELSE CASE writer = "waits" -> "sending" [] writer = "ends" -> "idle" [] OTHER -> writer
  /\ UNCHANGED <<dialled, dc, left, writes, input>>

\* close and abort of the writable: both wait for the write that is being sent.
CloseWriter ==
  /\ dial = "up" /\ writer = "idle" /\ writer' = "closed" /\ Shuts
  /\ UNCHANGED <<dialled, held, left, writes, input>>

-----------------------------------------------------------------------------
(* Dialling *)

\* The signaller's socket opens, and the offer, the answer and the candidates pass through it.
SignallerOpens ==
  /\ dial = "ws" /\ dial' = "race" /\ ws' = TRUE
  /\ UNCHANGED <<pc, done, dc, output, input>>

\* It refuses, breaks, or says that the server is gone: only a connection that is not up
\* depends on it.
SignallerFails ==
  /\ dial \in {"ws", "race"} /\ dial' = "failed" /\ Shutdown
  /\ UNCHANGED <<output, input>>

SignallerGone ==
  /\ dial = "up" /\ ws /\ ws' = FALSE
  /\ UNCHANGED <<dial, pc, done, dc, output, input>>

ChannelOpens ==
  /\ dial = "race" /\ dc = "connecting" /\ dc' = "open" /\ dial' = "up"
  /\ UNCHANGED <<ws, pc, done, output, input>>

-----------------------------------------------------------------------------
(* The system *)

Init ==
  /\ dial = "ws" /\ ws = FALSE /\ pc = TRUE /\ done = FALSE /\ dc = "connecting"
  /\ held = 0 /\ writer = "idle" /\ left = 0 /\ writes = 0
  /\ pending = <<>> /\ queue = <<>> /\ reader = "open" /\ arrived = 0 /\ taken = <<>>

Browser == OnClosed \/ OnError \/ Drains \/ SignallerOpens \/ SignallerFails \/ SignallerGone \/ ChannelOpens

Program == Write \/ CloseWriter \/ Cancel \/ Owner

Next == Sends \/ Browser \/ Program \/ OnMessage \/ Takes

Spec == Init /\ [][Next]_vars

\* A write goes on; the browser sends what it holds or gives the channel up, and one that is being
\* closed does close; the program reads.
FairSpec ==
  /\ Spec /\ WF_vars(Sends)
  /\ WF_vars(Drains \/ OnClosed) /\ WF_vars(dc = "closing" /\ OnClosed) /\ WF_vars(Takes)

-----------------------------------------------------------------------------
(* Properties *)

\* What arrived is read in its order, and a readable that ended had all of it: the end that the
\* close of the channel announces waits for what the readable did not want yet.
EndMeansAll ==
  /\ \A i \in DOMAIN taken : taken[i] = i
  /\ reader = "closed" => Len(taken) + Len(queue) = arrived

\* The channel never holds more than one message above the mark, however long a write is.
HoldsLittle == held <= High + 1

\* Once the connection is shut down nothing of it is left open, whoever ended it, and a channel
\* that closed has shut it down: the connection and the signaller's socket are nobody else's.
NothingLeft ==
  /\ done => ~ ws /\ ~ pc /\ dc \in {"closing", "closed"}
  /\ dc = "closed" => done

\* Every write ends: what it waits for is the mark or the end of the channel, and neither is
\* missed.
WriteSettles == writer \in {"sending", "waits", "ends"} ~> writer \in {"idle", "failed", "closed"}

\* A channel that closed ends the readable, which is read.
ReadEnds == dc = "closed" /\ reader = "open" ~> reader # "open"
=============================================================================
